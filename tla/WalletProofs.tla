---------------------------- MODULE WalletProofs ----------------------------
(***************************************************************************)
(* The wallet for any users, assets, keys, partitions, commands, engine     *)
(* events and crashes.  The tables keep their types and no account locks    *)
(* more than it holds, with any number of processes.  With one process,     *)
(* retries and replays included: the replies to a command agree and match   *)
(* its effects, locked funds cover the open reservations, and wallet_ledger *)
(* adds up to the balances.  Then the way of an order through wallet, relay *)
(* and engine, again with any number of processes: its margin and its       *)
(* funds.  Last, with one process again, the only reasons for which a       *)
(* release or a settlement is refused, and for which the events of the      *)
(* outbox do not add up to the balances.                                    *)
(***************************************************************************)
EXTENDS CommandFlow, WalletHistory, SumTheorems, TLAPS

(***************************************************************************)
(* The part of the invariant that is about the tables: what a transaction   *)
(* has to preserve.                                                         *)
(***************************************************************************)
BalancesOK ==
  /\ total \in [Account -> Nat]
  /\ locked \in [Account -> Nat]
  /\ LockedWithinTotal

RowsOK ==
  /\ reservation \in [ReservationId -> ReservationRow]
  /\ idempotency \in [ReplyKey -> Reply \cup {NoReply}]

StoreOK == BalancesOK /\ RowsOK

(***************************************************************************)
(* The fields of a command, by its type.                                    *)
(***************************************************************************)
LEMMA CommandFields ==
  ASSUME NEW cmd \in Command
  PROVE  /\ cmd.type \in ClientCommandType \cup
              {"ReleaseReservation", "SettleTrade", "ApplyAccountDelta"}
         /\ cmd.type \in ClientCommandType => cmd.user \in User /\ cmd.key \in Key
         /\ cmd.type \in {"Deposit", "Withdraw", "PlaceOrderIntent"} =>
              cmd.asset \in Asset /\ cmd.amount \in Nat \ {0}
         /\ cmd.type \in {"ReleaseReservation", "SettleTrade"} => cmd.res \in User \X Key
         /\ cmd.type = "ReleaseReservation" => cmd.amount \in Nat \ {0}
         /\ cmd.type = "SettleTrade" =>
              /\ cmd.debitAsset \in Asset /\ cmd.creditAsset \in Asset
              /\ cmd.debitAmount \in Nat \ {0} /\ cmd.creditAmount \in Nat
         /\ cmd.type = "ApplyAccountDelta" =>
              /\ cmd.user \in User /\ cmd.asset \in Asset
              /\ cmd.totalDelta \in Int /\ cmd.lockedDelta \in Int
  <1>1. CASE cmd \in ClientCommand
    BY <1>1 DEF ClientCommand, ClientCommandType, Amount
  <1>2. CASE cmd \in EngineCommand
    BY <1>2 DEF EngineCommand, ClientCommandType, Amount, ReservationId
  <1> QED BY <1>1, <1>2 DEF Command

(***************************************************************************)
(* A deposit raises a total.                                                *)
(***************************************************************************)
LEMMA DepositKeepsStore ==
  ASSUME StoreOK, NEW cmd \in Command, NEW req, cmd.type = "Deposit",
         ApplyDeposit(cmd, req)
  PROVE  StoreOK'
  <1> DEFINE a == <<cmd.user, cmd.asset>>
  <1>1. a \in Account /\ cmd.amount \in Nat \ {0}
    BY CommandFields DEF ClientCommandType, Account
  <1>2. total' = [total EXCEPT ![a] = @ + cmd.amount] /\ locked' = locked
    BY DEF ApplyDeposit
  <1>3. BalancesOK'
    BY <1>1, <1>2 DEF StoreOK, BalancesOK, LockedWithinTotal
  <1>4. DepositReply(cmd) \in Reply
    BY <1>1 DEF StoreOK, BalancesOK, DepositReply, Reply
  <1>5. RowsOK'
    BY <1>4 DEF ApplyDeposit, RecordIdempotentReply, StoreOK, RowsOK
  <1> QED BY <1>3, <1>5 DEF StoreOK

(***************************************************************************)
(* A withdrawal takes from what is available.                               *)
(***************************************************************************)
LEMMA WithdrawKeepsStore ==
  ASSUME StoreOK, NEW cmd \in Command, NEW req, cmd.type = "Withdraw",
         WithdrawOutcome(cmd, req) = "ok", ApplyWithdraw(cmd, req)
  PROVE  StoreOK'
  <1> DEFINE a == <<cmd.user, cmd.asset>>
  <1>1. a \in Account /\ cmd.amount \in Nat \ {0}
    BY CommandFields DEF ClientCommandType, Account
  <1>2. ~(total[a] - locked[a] < cmd.amount)
    BY DEF WithdrawOutcome, Available
  <1>3. total' = [total EXCEPT ![a] = @ - cmd.amount] /\ locked' = locked
    BY DEF ApplyWithdraw
  <1>4. BalancesOK'
    BY <1>1, <1>2, <1>3 DEF StoreOK, BalancesOK, LockedWithinTotal
  <1>5. WithdrawReply(cmd) \in Reply
    BY <1>1, <1>2 DEF StoreOK, BalancesOK, WithdrawReply, Reply
  <1>6. RowsOK'
    BY <1>5 DEF ApplyWithdraw, RecordIdempotentReply, StoreOK, RowsOK
  <1> QED BY <1>4, <1>6 DEF StoreOK

(***************************************************************************)
(* A reservation locks what is available.                                   *)
(***************************************************************************)
LEMMA ReserveKeepsStore ==
  ASSUME StoreOK, NEW cmd \in Command, NEW req, cmd.type = "PlaceOrderIntent",
         ReserveOutcome(cmd, req) = "ok", ReserveFunds(cmd, req)
  PROVE  StoreOK'
  <1> DEFINE a == <<cmd.user, cmd.asset>>
             r == <<cmd.user, cmd.key>>
  <1>1. /\ a \in Account /\ r \in ReservationId
        /\ cmd.asset \in Asset /\ cmd.amount \in Nat \ {0}
    BY CommandFields DEF ClientCommandType, Account, ReservationId
  <1>2. ~(total[a] - locked[a] < cmd.amount)
    BY DEF ReserveOutcome, Available
  <1>3. locked' = [locked EXCEPT ![a] = @ + cmd.amount] /\ total' = total
    BY DEF ReserveFunds
  <1>4. BalancesOK'
    BY <1>1, <1>2, <1>3 DEF StoreOK, BalancesOK, LockedWithinTotal
  <1>5. ReserveReply(cmd) \in Reply
    BY <1>1 DEF ReserveReply, Reply, Amount
  <1>6. reservation' \in [ReservationId -> ReservationRow]
    BY <1>1 DEF ReserveFunds, StoreOK, RowsOK, ReservationRow
  <1>7. RowsOK'
    BY <1>5, <1>6 DEF ReserveFunds, RecordIdempotentReply, StoreOK, RowsOK
  <1> QED BY <1>4, <1>7 DEF StoreOK

(***************************************************************************)
(* Consuming a part of a reservation leaves a reservation row.              *)
(***************************************************************************)
LEMMA ConsumeType ==
  ASSUME RowsOK, NEW cmd, cmd.res \in ReservationId, NEW row \in ReservationRow,
         NEW amount \in Nat, amount <= row.remaining,
         NEW closing \in {"RELEASED", "SETTLED"}
  PROVE  Consume(cmd, row, amount, closing) \in [ReservationId -> ReservationRow]
  <1> DEFINE old == reservation[cmd.res]
             new == [old EXCEPT !.remaining = row.remaining - amount,
                                !.status = IF row.remaining = amount THEN closing ELSE "ACTIVE"]
  <1>1. old \in ReservationRow
    BY DEF RowsOK
  <1>2. row.remaining - amount \in Nat
    BY DEF ReservationRow
  <1>3. new \in ReservationRow
    BY <1>1, <1>2 DEF ReservationRow
  <1>4. Consume(cmd, row, amount, closing) = [reservation EXCEPT ![cmd.res] = new]
    BY DEF Consume
  <1> HIDE DEF new
  <1> QED BY <1>3, <1>4 DEF RowsOK

(***************************************************************************)
(* A release unlocks no more than is locked.                                *)
(***************************************************************************)
LEMMA ReleaseKeepsStore ==
  ASSUME StoreOK, NEW cmd \in Command, NEW row \in ReservationRow,
         cmd.type = "ReleaseReservation",
         ReleaseOutcome(cmd, row) = "ok", ReleaseReservation(cmd, row)
  PROVE  StoreOK'
  <1> DEFINE a == <<cmd.res[1], row.asset>>
  <1>1. a \in Account /\ cmd.res \in ReservationId /\ cmd.amount \in Nat \ {0}
    BY CommandFields DEF ReservationId, ReservationRow, Account
  <1>2. locked' = Unlock(a, cmd.amount) /\ total' = total
    BY DEF ReleaseReservation
  <1>3. BalancesOK'
    BY <1>1, <1>2 DEF Unlock, StoreOK, BalancesOK, LockedWithinTotal
  <1>4. row.remaining \in Nat /\ cmd.amount <= row.remaining
    BY <1>1 DEF ReleaseOutcome, ReservationRow
  <1>5. reservation' \in [ReservationId -> ReservationRow]
    BY <1>1, <1>4, ConsumeType DEF ReleaseReservation, StoreOK
  <1>6. RowsOK'
    BY <1>5 DEF ReleaseReservation, StoreOK, RowsOK
  <1> QED BY <1>3, <1>6 DEF StoreOK

(***************************************************************************)
(* A settlement takes the debit from locked and total alike, or, when the   *)
(* account does not cover it, from neither.                                 *)
(***************************************************************************)
LEMMA SettleKeepsStore ==
  ASSUME StoreOK, NEW cmd \in Command, NEW row \in ReservationRow,
         cmd.type = "SettleTrade",
         SettleOutcome(cmd, row) = "ok", SettleTrade(cmd, row)
  PROVE  StoreOK'
  <1> DEFINE d == <<cmd.res[1], cmd.debitAsset>>
             c == <<cmd.res[1], cmd.creditAsset>>
  <1>1. /\ d \in Account /\ c \in Account /\ cmd.res \in ReservationId
        /\ cmd.debitAmount \in Nat \ {0} /\ cmd.creditAmount \in Nat
    BY CommandFields DEF ReservationId, Account
  <1>2. BalancesOK'
    <2>1. CASE UnlocksReservedOnly(cmd)
      <3>1. locked' = Unlock(d, cmd.debitAmount) /\ total' = total
        BY <2>1 DEF SettleTrade
      <3> QED BY <1>1, <3>1 DEF Unlock, StoreOK, BalancesOK, LockedWithinTotal
    <2>2. CASE ~UnlocksReservedOnly(cmd) /\ Covers(d, cmd.debitAmount)
      <3>1. /\ locked' = [locked EXCEPT ![d] = @ - cmd.debitAmount]
            /\ total' = [[total EXCEPT ![d] = @ - cmd.debitAmount]
                           EXCEPT ![c] = @ + cmd.creditAmount]
        BY <2>2 DEF SettleTrade, SettledTotal
      <3> QED BY <1>1, <2>2, <3>1 DEF Covers, StoreOK, BalancesOK, LockedWithinTotal
    <2>3. CASE ~UnlocksReservedOnly(cmd) /\ ~Covers(d, cmd.debitAmount)
      <3>1. /\ locked' = locked
            /\ total' = [total EXCEPT ![c] = @ + cmd.creditAmount]
        BY <2>3 DEF SettleTrade, SettledTotal
      <3> QED BY <1>1, <3>1 DEF StoreOK, BalancesOK, LockedWithinTotal
    <2> QED BY <2>1, <2>2, <2>3
  <1>3. row.remaining \in Nat /\ cmd.debitAmount <= row.remaining
    BY <1>1 DEF SettleOutcome, ReservationRow
  <1>4. reservation' \in [ReservationId -> ReservationRow]
    BY <1>1, <1>3, ConsumeType DEF SettleTrade, StoreOK
  <1>5. RowsOK'
    BY <1>4 DEF SettleTrade, StoreOK, RowsOK
  <1> QED BY <1>2, <1>5 DEF StoreOK

(***************************************************************************)
(* An account delta is applied only when it fits.                           *)
(***************************************************************************)
LEMMA DeltaKeepsStore ==
  ASSUME StoreOK, NEW cmd \in Command, cmd.type = "ApplyAccountDelta",
         DeltaOutcome(cmd) = "ok", ApplyAccountDelta(cmd)
  PROVE  StoreOK'
  <1> DEFINE a == <<cmd.user, cmd.asset>>
  <1>1. a \in Account /\ cmd.totalDelta \in Int /\ cmd.lockedDelta \in Int
    BY CommandFields DEF Account
  <1>2. /\ total[a] + cmd.totalDelta >= 0
        /\ locked[a] + cmd.lockedDelta >= 0
        /\ locked[a] + cmd.lockedDelta <= total[a] + cmd.totalDelta
    BY DEF DeltaOutcome, DeltaFits
  <1>3. /\ total' = [total EXCEPT ![a] = @ + cmd.totalDelta]
        /\ locked' = [locked EXCEPT ![a] = @ + cmd.lockedDelta]
    BY DEF ApplyAccountDelta
  <1>4. BalancesOK'
    BY <1>1, <1>2, <1>3 DEF StoreOK, BalancesOK, LockedWithinTotal
  <1>5. RowsOK'
    BY DEF ApplyAccountDelta, StoreOK, RowsOK
  <1> QED BY <1>4, <1>5 DEF StoreOK

(***************************************************************************)
(* Every committed transaction keeps the tables in order, whatever row the  *)
(* transaction has read.                                                    *)
(***************************************************************************)
LEMMA CommitKeepsStore ==
  ASSUME StoreOK, NEW cmd \in Command, NEW req, NEW row \in ReservationRow,
         Outcome(cmd, req, row) = "ok", Commit(cmd, req, row)
  PROVE  StoreOK'
  <1>1. CASE cmd.type = "Deposit"
    BY <1>1, DepositKeepsStore DEF Commit
  <1>2. CASE cmd.type = "Withdraw"
    BY <1>2, WithdrawKeepsStore DEF Commit, Outcome
  <1>3. CASE cmd.type = "PlaceOrderIntent"
    BY <1>3, ReserveKeepsStore DEF Commit, Outcome
  <1>4. CASE cmd.type = "CancelOrderIntent"
    <2>1. ForwardCancel(cmd, req)
      BY <1>4 DEF Commit
    <2> QED BY <2>1 DEF ForwardCancel, RecordIdempotentReply, CancelReply, Reply,
                        StoreOK, BalancesOK, LockedWithinTotal, RowsOK
  <1>5. CASE cmd.type = "ReleaseReservation"
    BY <1>5, ReleaseKeepsStore DEF Commit, Outcome
  <1>6. CASE cmd.type = "SettleTrade"
    BY <1>6, SettleKeepsStore DEF Commit, Outcome
  <1>7. CASE cmd.type = "ApplyAccountDelta"
    BY <1>7, DeltaKeepsStore DEF Commit, Outcome
  <1> QED BY <1>1, <1>2, <1>3, <1>4, <1>5, <1>6, <1>7, CommandFields DEF ClientCommandType

-----------------------------------------------------------------------------
(***************************************************************************)
(* The rest of the state: the consumer tasks, the logs and the environment. *)
(***************************************************************************)
TasksOK ==
  /\ phase \in [Task -> {"ready", "tx", "record", "reply"}]
  /\ next \in [Task -> Nat \ {0}]
  /\ pos \in [Task -> Nat \ {0}]
  /\ seen \in [Task -> ReservationRow]
  /\ answer \in [Task -> Reply \cup {NoReply}]

LogsOK ==
  /\ log \in [Partition -> Seq(Seq(Command))]
  /\ saved \in [Partition -> Nat \ {0}]
  /\ fault \in [Instance -> [why: Fault, at: Partition]]
  /\ taken \in [ReservationId -> Nat]
  /\ crashes \in Nat

WalletInv == StoreOK /\ TasksOK /\ LogsOK

(***************************************************************************)
(* The invariant is type correctness and LockedWithinTotal.                 *)
(***************************************************************************)
LEMMA WalletInvIs == WalletInv <=> TypeOK /\ LockedWithinTotal
  BY DEF WalletInv, StoreOK, BalancesOK, RowsOK, TasksOK, LogsOK, TypeOK

(***************************************************************************)
(* The rows that stand for no row, and partitions exist.                    *)
(***************************************************************************)
LEMMA NoRows ==
  /\ NoReservation \in ReservationRow
  /\ NoFault \in [why: Fault, at: Partition]
  /\ InsufficientFunds \in Reply
  <1>1. NoReservation \in ReservationRow
    BY CommandAssumption DEF NoReservation, ReservationRow
  <1>2. Partition # {}
    BY CommandAssumption DEF Partition, EventPartition
  <1>3. NoFault \in [why: Fault, at: Partition]
    <2> DEFINE p == CHOOSE q \in Partition : TRUE
    <2>1. p \in Partition
      BY <1>2
    <2>2. NoFault = [why |-> "none", at |-> p]
      BY DEF NoFault
    <2> HIDE DEF p
    <2> QED BY <2>1, <2>2 DEF Fault
  <1>4. InsufficientFunds \in Reply
    BY DEF InsufficientFunds, Reply
  <1> QED BY <1>1, <1>3, <1>4

(***************************************************************************)
(* The command at hand is a command.                                        *)
(***************************************************************************)
LEMMA CmdType ==
  ASSUME TasksOK, LogsOK, NEW t \in Task
  PROVE  /\ t[1] \in Instance /\ t[2] \in Partition
         /\ AtCommand(t) => Cmd(t) \in Command
  <1>1. t[1] \in Instance /\ t[2] \in Partition
    BY DEF Task
  <1>2. ASSUME AtCommand(t) PROVE Cmd(t) \in Command
    <2>1. log[t[2]] \in Seq(Seq(Command)) /\ next[t] \in Nat \ {0} /\ pos[t] \in Nat \ {0}
      BY <1>1 DEF LogsOK, TasksOK
    <2>2. Record(t) \in Seq(Command)
      BY <1>2, <2>1 DEF AtCommand, HasRecord, Record
    <2> QED BY <1>2, <2>1, <2>2 DEF AtCommand, Cmd
  <1> QED BY <1>1, <1>2

(***************************************************************************)
(* Moving a task on keeps the types of the tasks.                           *)
(***************************************************************************)
LEMMA GotoType ==
  ASSUME TasksOK, NEW t \in Task, NEW ph \in {"ready", "tx", "record", "reply"},
         NEW row \in ReservationRow, NEW reply \in Reply \cup {NoReply},
         Goto(t, ph, row, reply), UNCHANGED <<next, pos>>
  PROVE  TasksOK'
  BY DEF TasksOK, Goto

(***************************************************************************)
(* Going on to the next command of a record keeps the type of the tasks.    *)
(***************************************************************************)
LEMMA NextCommandType ==
  ASSUME TasksOK, NEW t \in Task, NextCommand(t)
  PROVE  TasksOK'
  BY NoRows DEF TasksOK, NextCommand, Goto

(***************************************************************************)
(* A step that leaves the tables, or the logs, alone.                       *)
(***************************************************************************)
LEMMA SameStore == StoreOK /\ UNCHANGED tables => StoreOK'
  BY DEF StoreOK, BalancesOK, RowsOK, LockedWithinTotal, tables

(***************************************************************************)
(* Logs, offsets and faults that do not change keep their types.            *)
(***************************************************************************)
LEMMA SameLogs == LogsOK /\ UNCHANGED <<log, saved, fault, taken, crashes>> => LogsOK'
  BY DEF LogsOK

(***************************************************************************)
(* The reply of a committed client command is a reply.                      *)
(***************************************************************************)
LEMMA SuccessReplyType ==
  ASSUME StoreOK, NEW cmd \in Command, NEW req, NEW row,
         cmd.type \in ClientCommandType, Outcome(cmd, req, row) = "ok"
  PROVE  SuccessReply(cmd) \in Reply
  <1>1. cmd.user \in User /\ cmd.key \in Key
    BY CommandFields
  <1>2. CASE cmd.type = "Deposit"
    <2>1. <<cmd.user, cmd.asset>> \in Account /\ cmd.amount \in Nat
      BY <1>2, CommandFields DEF Account, ClientCommandType
    <2>2. DepositReply(cmd) \in Reply
      BY <2>1 DEF DepositReply, Reply, StoreOK, BalancesOK
    <2> QED BY <1>2, <2>2 DEF SuccessReply
  <1>3. CASE cmd.type = "Withdraw"
    <2>1. <<cmd.user, cmd.asset>> \in Account /\ cmd.amount \in Nat
      BY <1>3, CommandFields DEF Account, ClientCommandType
    <2>2. ~(total[<<cmd.user, cmd.asset>>] - locked[<<cmd.user, cmd.asset>>] < cmd.amount)
      BY <1>3 DEF Outcome, WithdrawOutcome, Available
    <2>3. WithdrawReply(cmd) \in Reply
      BY <2>1, <2>2 DEF WithdrawReply, Reply, StoreOK, BalancesOK
    <2> QED BY <1>3, <2>3 DEF SuccessReply
  <1>4. CASE cmd.type = "PlaceOrderIntent"
    <2>1. ReserveReply(cmd) \in Reply
      BY <1>1, <1>4, CommandFields DEF ReserveReply, Reply, Amount, ReservationId
    <2> QED BY <1>4, <2>1 DEF SuccessReply
  <1>5. CASE cmd.type = "CancelOrderIntent"
    BY <1>5 DEF SuccessReply, CancelReply, Reply
  <1> QED BY <1>2, <1>3, <1>4, <1>5 DEF ClientCommandType

(***************************************************************************)
(* A transaction commits, has nothing to do, rejects the funds or fails.    *)
(***************************************************************************)
LEMMA OutcomeType ==
  ASSUME NEW cmd \in Command, NEW req, NEW row
  PROVE  Outcome(cmd, req, row) \in Fault \cup {"ok", "nothing", "InsufficientFunds"}
  <1> USE DEF Fault
  <1>1. CASE cmd.type = "Deposit"
    BY <1>1 DEF Outcome, DepositOutcome
  <1>2. CASE cmd.type = "Withdraw"
    BY <1>2 DEF Outcome, WithdrawOutcome
  <1>3. CASE cmd.type = "PlaceOrderIntent"
    BY <1>3 DEF Outcome, ReserveOutcome
  <1>4. CASE cmd.type = "CancelOrderIntent"
    BY <1>4 DEF Outcome, CancelOutcome
  <1>5. CASE cmd.type = "ReleaseReservation"
    BY <1>5 DEF Outcome, ReleaseOutcome
  <1>6. CASE cmd.type = "SettleTrade"
    BY <1>6 DEF Outcome, SettleOutcome
  <1>7. CASE cmd.type = "ApplyAccountDelta"
    BY <1>7 DEF Outcome, DeltaOutcome
  <1> QED BY <1>1, <1>2, <1>3, <1>4, <1>5, <1>6, <1>7, CommandFields DEF ClientCommandType

(***************************************************************************)
(* The initial state.                                                       *)
(***************************************************************************)
LEMMA WalletInitInv == Init => WalletInv
  <1> SUFFICES ASSUME Init PROVE WalletInv
    OBVIOUS
  <1>1. StoreOK
    BY NoRows DEF Init, EmptyTables, StoreOK, BalancesOK, RowsOK, LockedWithinTotal
  <1>2. TasksOK
    BY NoRows DEF Init, TasksOK
  <1>3. LogsOK
    BY NoRows DEF Init, LogsOK
  <1> QED BY <1>1, <1>2, <1>3 DEF WalletInv

(***************************************************************************)
(* The steps of a consumer task.                                            *)
(***************************************************************************)
LEMMA TaskStepInv ==
  ASSUME WalletInv, NEW t \in Task, TaskStep(t)
  PROVE  WalletInv'
  <1> USE DEF WalletInv
  <1>1. t[1] \in Instance /\ t[2] \in Partition /\ (AtCommand(t) => Cmd(t) \in Command)
    BY CmdType
  <1>2. CASE LookupReply(t)
    <2>1. StoreOK' /\ LogsOK'
      BY <1>2, SameStore, SameLogs DEF LookupReply
    <2>2. idempotency[ReplyKeyOf(Cmd(t))] \in Reply \cup {NoReply}
      <3>1. Cmd(t) \in Command /\ Cmd(t).type \in ClientCommandType
        BY <1>1, <1>2 DEF LookupReply
      <3>2. ReplyKeyOf(Cmd(t)) \in ReplyKey
        BY <3>1, CommandFields DEF ReplyKeyOf, ReplyKey
      <3> QED BY <3>2 DEF StoreOK, RowsOK
    <2>3. TasksOK'
      BY <1>2, <2>2, GotoType, NoRows DEF LookupReply
    <2> QED BY <2>1, <2>3
  <1>3. CASE ReadReservation(t)
    <2>1. StoreOK' /\ LogsOK'
      BY <1>3, SameStore, SameLogs DEF ReadReservation
    <2>2. reservation[Cmd(t).res] \in ReservationRow
      <3>1. Cmd(t) \in Command /\ Cmd(t).type \in {"ReleaseReservation", "SettleTrade"}
        BY <1>1, <1>3 DEF ReadReservation
      <3>2. Cmd(t).res \in ReservationId
        BY <3>1, CommandFields DEF ReservationId
      <3> QED BY <3>2 DEF StoreOK, RowsOK
    <2>3. TasksOK'
      BY <1>3, <2>2, GotoType DEF ReadReservation
    <2> QED BY <2>1, <2>3
  <1>4. CASE CommitTransaction(t)
    <2>1. /\ Cmd(t) \in Command /\ seen[t] \in ReservationRow
          /\ Outcome(Cmd(t), Req(t), seen[t]) = "ok"
          /\ Commit(Cmd(t), Req(t), seen[t])
      BY <1>1, <1>4 DEF CommitTransaction, InTransaction, Result, TasksOK
    <2>2. StoreOK'
      BY <2>1, CommitKeepsStore
    <2>3. LogsOK'
      BY <1>4, SameLogs DEF CommitTransaction
    <2>4. CASE Cmd(t).type \in ClientCommandType
      <3>1. SuccessReply(Cmd(t)) \in Reply
        BY <2>1, <2>4, SuccessReplyType
      <3>2. Goto(t, "reply", NoReservation, SuccessReply(Cmd(t))) /\ UNCHANGED <<next, pos>>
        BY <1>4, <2>4 DEF CommitTransaction
      <3>3. TasksOK'
        BY <3>1, <3>2, GotoType, NoRows
      <3> QED BY <2>2, <2>3, <3>3
    <2>5. CASE Cmd(t).type \notin ClientCommandType
      <3>1. TasksOK'
        BY <1>4, <2>5, NextCommandType DEF CommitTransaction
      <3> QED BY <2>2, <2>3, <3>1
    <2> QED BY <2>4, <2>5
  <1>5. CASE SkipDelta(t)
    BY <1>5, SameStore, SameLogs, NextCommandType DEF SkipDelta
  <1>6. CASE RejectFunds(t)
    BY <1>6, SameStore, SameLogs, GotoType, NoRows DEF RejectFunds
  <1>7. CASE FailTransaction(t)
    <2>1. StoreOK'
      BY <1>7, SameStore DEF FailTransaction
    <2>2. Result(t) \in Fault
      BY <1>1, <1>7, OutcomeType DEF FailTransaction, InTransaction, Result
    <2>3. Stop(t[1], Result(t), t[2]) /\ UNCHANGED <<log, saved, taken, crashes>>
      BY <1>7 DEF FailTransaction
    <2>4. LogsOK'
      BY <1>1, <2>2, <2>3 DEF Stop, LogsOK
    <2>5. TasksOK'
      BY <2>3, NoRows DEF Stop, TasksOK
    <2> QED BY <2>1, <2>4, <2>5
  <1>8. CASE RecordRejection(t)
    <2>1. answer[t] \in Reply \cup {NoReply}
      BY DEF TasksOK
    <2>2. StoreOK'
      BY <1>8, <2>1 DEF RecordRejection, RecordReply, RecordIdempotentReply, StoreOK,
                        BalancesOK, RowsOK, LockedWithinTotal
    <2>3. LogsOK'
      BY <1>8, SameLogs DEF RecordRejection
    <2>4. TasksOK'
      BY <1>8, <2>1, GotoType, NoRows DEF RecordRejection
    <2> QED BY <2>2, <2>3, <2>4
  <1>9. CASE PublishReply(t)
    BY <1>9, SameStore, SameLogs, NextCommandType DEF PublishReply
  <1>10. CASE SaveOffset(t)
    <2>1. StoreOK'
      BY <1>10, SameStore DEF SaveOffset
    <2>2. next[t] \in Nat \ {0} /\ saved[t[2]] \in Nat \ {0}
      BY <1>1 DEF TasksOK, LogsOK
    <2>3. TasksOK'
      BY <1>10, <2>2 DEF SaveOffset, TasksOK
    <2>4. LogsOK'
      BY <1>1, <1>10, <2>2 DEF SaveOffset, LogsOK
    <2> QED BY <2>1, <2>3, <2>4
  <1> QED BY <1>2, <1>3, <1>4, <1>5, <1>6, <1>7, <1>8, <1>9, <1>10 DEF TaskStep

(***************************************************************************)
(* Crashes and restarts.                                                    *)
(***************************************************************************)
LEMMA ProcessInv ==
  ASSUME WalletInv, NEW i \in Instance, Crash(i) \/ Restart(i)
  PROVE  WalletInv'
  <1> USE DEF WalletInv
  <1>1. CASE Crash(i)
    <2>1. StoreOK'
      BY <1>1, SameStore DEF Crash
    <2>2. Stop(i, "crash", NoFault.at) /\ UNCHANGED <<log, saved, taken>>
          /\ crashes' = crashes + 1
      BY <1>1 DEF Crash
    <2>3. fault' = [fault EXCEPT ![i] = [why |-> "crash", at |-> NoFault.at]]
      BY <2>2 DEF Stop
    <2>4. NoFault.at \in Partition
      BY NoRows
    <2>5. LogsOK'
      BY <2>2, <2>3, <2>4 DEF LogsOK, Fault
    <2>6. TasksOK'
      BY <2>2, NoRows DEF Stop, TasksOK
    <2> QED BY <2>1, <2>5, <2>6
  <1>2. CASE Restart(i)
    <2>1. StoreOK'
      BY <1>2, SameStore DEF Restart
    <2>2. LogsOK'
      BY <1>2, NoRows DEF Restart, LogsOK
    <2>3. \A t \in Task : saved[t[2]] \in Nat \ {0}
      BY DEF LogsOK, Task
    <2>4. TasksOK'
      BY <1>2, <2>3 DEF Restart, TasksOK
    <2> QED BY <2>1, <2>2, <2>4
  <1> QED BY <1>1, <1>2

(***************************************************************************)
(* The environment: writing a record of commands to a log.                  *)
(***************************************************************************)
LEMMA WriteType ==
  ASSUME LogsOK, NEW p \in Partition, NEW record \in Seq(Command), Write(p, record)
  PROVE  log' \in [Partition -> Seq(Seq(Command))]
  BY DEF LogsOK, Write

(***************************************************************************)
(* What the engine writes: engine commands, and releases and settlements    *)
(* only of orders that were sent to one of its markets, and of funds that   *)
(* are neither released nor settled.  The settlements of a trade are of a   *)
(* new fill, and each of another reservation.                               *)
(***************************************************************************)
OrderedAt(m, r) ==
  \E i \in DOMAIN outbox : outbox[i].dedupe = <<"place-order", r[1], r[2]>> /\ outbox[i].key = m

EngineRecord(m, record) ==
  \A k \in DOMAIN record :
    /\ record[k].type \notin ClientCommandType
    /\ record[k].type \in {"ReleaseReservation", "SettleTrade"} => OrderedAt(m, record[k].res)

TakenBy(cmd) == IF cmd.type = "ReleaseReservation" THEN cmd.amount ELSE cmd.debitAmount

TakesOnce(record, r) ==
  \E k \in DOMAIN record :
    /\ Takes(record[k]) /\ record[k].res = r
    /\ \A j \in DOMAIN record : Takes(record[j]) /\ record[j].res = r => j = k
    /\ taken'[r] = taken[r] + TakenBy(record[k])
    /\ taken'[r] <= reservation[r].amount

TakesNot(record, r) ==
  /\ taken'[r] = taken[r]
  /\ \A k \in DOMAIN record : Takes(record[k]) => record[k].res # r

RecordFits(record) ==
  /\ \A k \in DOMAIN record : record[k].type = "SettleTrade" =>
       /\ ~UsedFill(record[k].fill)
       /\ record[k].debitAsset = reservation[record[k].res].asset
  /\ \A r \in ReservationId : TakesNot(record, r) \/ TakesOnce(record, r)

LEMMA NoCommand == <<>> \in Seq(Command)
  OBVIOUS

LEMMA OneCommand ==
  ASSUME NEW cmd \in Command
  PROVE  <<cmd>> \in Seq(Command)
  OBVIOUS

LEMMA TwoCommands ==
  ASSUME NEW first \in Command, NEW second \in Command
  PROVE  <<first, second>> \in Seq(Command)
  OBVIOUS

LEMMA FourCommands ==
  ASSUME NEW first \in Command, NEW second \in Command, NEW third \in Command,
         NEW fourth \in Command
  PROVE  <<first, second, third, fourth>> \in Seq(Command)
  OBVIOUS

\* The engine takes of what is unspent of an order.
LEMMA TakesFromUnspent ==
  ASSUME WalletInv, NEW m \in Market, NEW r \in ReservationId, NEW n \in Unspent(m, r)
  PROVE  /\ n \in Nat \ {0} /\ taken[r] \in Nat /\ taken[r] + n <= reservation[r].amount
         /\ OrderedAt(m, r)
<1>1. n \in 1 .. (reservation[r].amount - taken[r]) /\ OrderedAt(m, r)
  BY DEF Unspent, OrderedAt
<1>2. PICK a \in Nat, b \in Nat : a = reservation[r].amount /\ b = taken[r]
  BY DEF WalletInv, StoreOK, RowsOK, ReservationRow, LogsOK
<1>3. n \in 1 .. (a - b)
  BY <1>1, <1>2
<1>4. n \in Nat \ {0} /\ b + n <= a
  BY <1>3
<1> QED BY <1>1, <1>2, <1>4

\* A record without a release and a settlement.
LEMMA NothingTakenFits ==
  ASSUME NEW record \in Seq(Command), \A k \in DOMAIN record : ~Takes(record[k]), taken' = taken
  PROVE  RecordFits(record)
<1>1. \A k \in DOMAIN record : record[k].type # "SettleTrade"
  BY DEF Takes
<1>2. \A r \in ReservationId : TakesNot(record, r)
  BY DEF TakesNot
<1> QED BY <1>1, <1>2 DEF RecordFits

LEMMA EngineWrites ==
  ASSUME WalletInv, NEW m \in Market,
         EngineRelease(m) \/ EngineTrade(m) \/ EngineDelta(m) \/ EngineOther(m)
  PROVE  /\ taken' \in [ReservationId -> Nat]
         /\ \E record \in Seq(Command) :
              Emit(m, record) /\ EngineRecord(m, record) /\ RecordFits(record)
<1>1. taken \in [ReservationId -> Nat]
  BY DEF WalletInv, LogsOK
<1>2. CASE EngineRelease(m)
  <2>0. PICK r \in ReservationId : \E n \in Unspent(m, r), why \in Reason :
          /\ Emit(m, << [type |-> "ReleaseReservation", res |-> r, amount |-> n, reason |-> why] >>)
          /\ taken' = [taken EXCEPT ![r] = @ + n]
    BY <1>2 DEF EngineRelease
  <2>1. PICK amount \in Unspent(m, r), reason \in Reason :
          /\ Emit(m, << [type |-> "ReleaseReservation", res |-> r, amount |-> amount,
                         reason |-> reason] >>)
          /\ taken' = [taken EXCEPT ![r] = @ + amount]
    BY <2>0
  <2>2. /\ amount \in Nat \ {0} /\ taken[r] \in Nat /\ taken[r] + amount <= reservation[r].amount
        /\ OrderedAt(m, r)
    BY TakesFromUnspent
  <2>3. PICK cmd : cmd = [type |-> "ReleaseReservation", res |-> r, amount |-> amount,
                          reason |-> reason]
    OBVIOUS
  <2>4. cmd \in Command /\ cmd.type = "ReleaseReservation" /\ cmd.res = r /\ TakenBy(cmd) = amount
    BY <2>2, <2>3 DEF Command, EngineCommand, Amount, TakenBy
  <2>5. PICK record \in Seq(Command) : record = <<cmd>>
    BY <2>4, OneCommand
  <2>6. DOMAIN record = {1} /\ record[1] = cmd
    BY <2>5
  <2>7. EngineRecord(m, record)
    BY <2>2, <2>4, <2>6 DEF EngineRecord, ClientCommandType
  <2>8. taken'[r] = taken[r] + amount /\ \A q \in ReservationId : q # r => taken'[q] = taken[q]
    BY <1>1, <2>1
  <2>9. ASSUME NEW q \in ReservationId PROVE TakesNot(record, q) \/ TakesOnce(record, q)
    <3>1. CASE q = r
      BY <2>2, <2>4, <2>6, <2>8, <3>1 DEF TakesOnce, Takes
    <3>2. CASE q # r
      BY <2>4, <2>6, <2>8, <3>2 DEF TakesNot
    <3> QED BY <3>1, <3>2
  <2>10. RecordFits(record)
    BY <2>4, <2>6, <2>9 DEF RecordFits
  <2>11. Emit(m, record) /\ taken' \in [ReservationId -> Nat]
    BY <1>1, <2>1, <2>2, <2>3, <2>5
  <2> QED BY <2>7, <2>10, <2>11
<1>3. CASE EngineTrade(m)
  <2>0. PICK fill \in Fill, r \in ReservationId, fee \in Fees, otherFee \in Fees :
        \E amount \in Unspent(m, r), asset \in Asset, credit \in Credits :
          /\ ~UsedFill(fill)
          /\ \/ /\ Emit(m, <<SettlementOf(fill, r, amount, asset, credit), FeeOf(fill, 1, r, fee)>>)
                /\ taken' = [taken EXCEPT ![r] = @ + amount]
             \/ \E other \in ReservationId \ {r} : \E filled \in Unspent(m, other) :
                  /\ Emit(m, <<SettlementOf(fill, r, amount, asset, credit),
                               SettlementOf(fill, other, filled, reservation[other].asset, filled),
                               FeeOf(fill, 1, r, fee), FeeOf(fill, 2, other, otherFee)>>)
                  /\ taken' = [taken EXCEPT ![r] = @ + amount, ![other] = @ + filled]
    BY <1>3, Zenon DEF EngineTrade
  <2>1. PICK amount \in Unspent(m, r), asset \in Asset, credit \in Credits :
          /\ ~UsedFill(fill)
          /\ \/ /\ Emit(m, <<SettlementOf(fill, r, amount, asset, credit), FeeOf(fill, 1, r, fee)>>)
                /\ taken' = [taken EXCEPT ![r] = @ + amount]
             \/ \E other \in ReservationId \ {r} : \E filled \in Unspent(m, other) :
                  /\ Emit(m, <<SettlementOf(fill, r, amount, asset, credit),
                               SettlementOf(fill, other, filled, reservation[other].asset, filled),
                               FeeOf(fill, 1, r, fee), FeeOf(fill, 2, other, otherFee)>>)
                  /\ taken' = [taken EXCEPT ![r] = @ + amount, ![other] = @ + filled]
    BY <2>0
  <2>2. /\ amount \in Nat \ {0} /\ taken[r] \in Nat /\ taken[r] + amount <= reservation[r].amount
        /\ credit \in Nat /\ fee \in Nat /\ otherFee \in Nat /\ "TRADE_FEE" \in DeltaKind /\ OrderedAt(m, r)
    BY TakesFromUnspent, CommandAssumption
  <2>3. \A q \in ReservationId : reservation[q].asset \in Asset /\ q[1] \in User
    BY DEF WalletInv, StoreOK, RowsOK, ReservationRow, ReservationId
  <2>4. ASSUME NEW q \in ReservationId, NEW n \in Nat \ {0}, NEW x \in Asset, NEW c \in Nat,
               NEW cmd, cmd = SettlementOf(fill, q, n, x, c)
        PROVE  /\ cmd \in Command /\ cmd.type = "SettleTrade" /\ cmd.res = q /\ TakenBy(cmd) = n
               /\ cmd.fill = fill /\ cmd.debitAsset = reservation[q].asset
    BY <2>3, <2>4 DEF SettlementOf, Command, EngineCommand, Amount, TakenBy
  <2>40. ASSUME NEW q \in ReservationId, NEW n \in Nat, NEW k \in Nat,
                NEW cmd, cmd = FeeOf(fill, k, q, n)
         PROVE  cmd \in Command /\ cmd.type = "ApplyAccountDelta"
    BY <2>2, <2>3, <2>40 DEF FeeOf, Command, EngineCommand
  <2>5. PICK first : first = SettlementOf(fill, r, amount, asset, credit)
    OBVIOUS
  <2>6. /\ first \in Command /\ first.type = "SettleTrade" /\ first.res = r /\ TakenBy(first) = amount
        /\ first.fill = fill /\ first.debitAsset = reservation[r].asset
    BY <2>2, <2>4, <2>5
  <2>7. CASE /\ Emit(m, <<SettlementOf(fill, r, amount, asset, credit), FeeOf(fill, 1, r, fee)>>)
             /\ taken' = [taken EXCEPT ![r] = @ + amount]
    <3>1. PICK second : second = FeeOf(fill, 1, r, fee)
      OBVIOUS
    <3>2. second \in Command /\ second.type = "ApplyAccountDelta"
      BY <2>2, <2>40, <3>1
    <3>3. PICK record \in Seq(Command) : record = <<first, second>>
      BY <2>6, <3>2, TwoCommands
    <3>4. DOMAIN record = {1, 2} /\ record[1] = first /\ record[2] = second
      BY <3>3
    <3>5. EngineRecord(m, record)
      BY <2>2, <2>6, <3>2, <3>4 DEF EngineRecord, ClientCommandType
    <3>6. taken'[r] = taken[r] + amount /\ \A q \in ReservationId : q # r => taken'[q] = taken[q]
      BY <1>1, <2>7
    <3>7. ASSUME NEW q \in ReservationId PROVE TakesNot(record, q) \/ TakesOnce(record, q)
      <4>1. CASE q = r
        BY <2>2, <2>6, <3>2, <3>4, <3>6, <4>1 DEF TakesOnce, Takes
      <4>2. CASE q # r
        BY <2>6, <3>2, <3>4, <3>6, <4>2 DEF TakesNot, Takes
      <4> QED BY <4>1, <4>2
    <3>8. RecordFits(record)
      BY <2>1, <2>6, <3>2, <3>4, <3>7 DEF RecordFits
    <3>9. Emit(m, record) /\ taken' \in [ReservationId -> Nat]
      BY <1>1, <2>2, <2>5, <2>7, <3>1, <3>3
    <3> QED BY <3>5, <3>8, <3>9
  <2>8. CASE \E other \in ReservationId \ {r} : \E filled \in Unspent(m, other) :
               /\ Emit(m, <<SettlementOf(fill, r, amount, asset, credit),
                            SettlementOf(fill, other, filled, reservation[other].asset, filled),
                            FeeOf(fill, 1, r, fee), FeeOf(fill, 2, other, otherFee)>>)
               /\ taken' = [taken EXCEPT ![r] = @ + amount, ![other] = @ + filled]
    <3>0. PICK other \in ReservationId \ {r} : \E filled \in Unspent(m, other) :
               /\ Emit(m, <<SettlementOf(fill, r, amount, asset, credit),
                            SettlementOf(fill, other, filled, reservation[other].asset, filled),
                            FeeOf(fill, 1, r, fee), FeeOf(fill, 2, other, otherFee)>>)
               /\ taken' = [taken EXCEPT ![r] = @ + amount, ![other] = @ + filled]
      BY <2>8
    <3>1. PICK filled \in Unspent(m, other) :
               /\ Emit(m, <<SettlementOf(fill, r, amount, asset, credit),
                            SettlementOf(fill, other, filled, reservation[other].asset, filled),
                            FeeOf(fill, 1, r, fee), FeeOf(fill, 2, other, otherFee)>>)
               /\ taken' = [taken EXCEPT ![r] = @ + amount, ![other] = @ + filled]
      BY <3>0
    <3>2. /\ filled \in Nat \ {0} /\ taken[other] \in Nat /\ OrderedAt(m, other)
          /\ taken[other] + filled <= reservation[other].amount
      BY TakesFromUnspent
    <3>3. PICK second : second = SettlementOf(fill, other, filled, reservation[other].asset, filled)
      OBVIOUS
    <3>4. /\ second \in Command /\ second.type = "SettleTrade" /\ second.res = other
          /\ TakenBy(second) = filled
          /\ second.fill = fill /\ second.debitAsset = reservation[other].asset
      BY <2>3, <2>4, <3>2, <3>3
    <3>40. PICK third : third = FeeOf(fill, 1, r, fee)
      OBVIOUS
    <3>41. PICK fourth : fourth = FeeOf(fill, 2, other, otherFee)
      OBVIOUS
    <3>42. /\ third \in Command /\ third.type = "ApplyAccountDelta"
           /\ fourth \in Command /\ fourth.type = "ApplyAccountDelta"
      BY <2>2, <2>40, <3>40, <3>41
    <3>5. PICK record \in Seq(Command) : record = <<first, second, third, fourth>>
      BY <2>6, <3>4, <3>42, FourCommands
    <3>6. /\ DOMAIN record = {1, 2, 3, 4} /\ record[1] = first /\ record[2] = second
          /\ record[3] = third /\ record[4] = fourth
      BY <3>5
    <3>7. EngineRecord(m, record)
      BY <2>2, <2>6, <3>2, <3>4, <3>42, <3>6 DEF EngineRecord, ClientCommandType
    <3>8. other # r /\ Emit(m, record)
      BY <2>5, <3>1, <3>3, <3>40, <3>41, <3>5
    <3>9. /\ taken'[r] = taken[r] + amount /\ taken'[other] = taken[other] + filled
          /\ \A q \in ReservationId : q # r /\ q # other => taken'[q] = taken[q]
      BY <1>1, <3>1, <3>8
    <3>10. ASSUME NEW q \in ReservationId PROVE TakesNot(record, q) \/ TakesOnce(record, q)
      <4>1. CASE q = r
        BY <2>2, <2>6, <3>4, <3>42, <3>6, <3>8, <3>9, <4>1 DEF TakesOnce, Takes
      <4>2. CASE q = other
        BY <2>6, <3>2, <3>4, <3>42, <3>6, <3>8, <3>9, <4>2 DEF TakesOnce, Takes
      <4>3. CASE q # r /\ q # other
        BY <2>6, <3>4, <3>42, <3>6, <3>9, <4>3 DEF TakesNot, Takes
      <4> QED BY <4>1, <4>2, <4>3
    <3>11. RecordFits(record)
      BY <2>1, <2>6, <3>4, <3>42, <3>6, <3>10 DEF RecordFits
    <3>12. taken' \in [ReservationId -> Nat]
      <4>1. PICK n \in Nat, k \in Nat : n = amount /\ k = filled
        BY <2>2, <3>2
      <4>2. taken' = [taken EXCEPT ![r] = @ + n, ![other] = @ + k]
        BY <3>1, <4>1
      <4> QED BY <1>1, <4>2
    <3> QED BY <3>7, <3>8, <3>11, <3>12
  <2> QED BY <2>1, <2>7, <2>8
<1>4. CASE EngineDelta(m)
  <2>1. PICK u \in User, a \in Asset, td \in TotalDeltas, ld \in LockedDeltas, ref \in Ref,
             kind \in DeltaKind \ {"TRADE_FEE"} :
          /\ Emit(m, << [type |-> "ApplyAccountDelta", user |-> u, asset |-> a,
                         totalDelta |-> td, lockedDelta |-> ld, kind |-> kind, ref |-> ref] >>)
          /\ UNCHANGED taken
    BY <1>4 DEF EngineDelta
  <2>2. PICK cmd : cmd = [type |-> "ApplyAccountDelta", user |-> u, asset |-> a, totalDelta |-> td,
                          lockedDelta |-> ld, kind |-> kind, ref |-> ref]
    OBVIOUS
  <2>3. cmd \in Command /\ cmd.type = "ApplyAccountDelta"
    BY <2>2, CommandAssumption DEF Command, EngineCommand
  <2>4. PICK record \in Seq(Command) : record = <<cmd>>
    BY <2>3, OneCommand
  <2>5. EngineRecord(m, record) /\ \A k \in DOMAIN record : ~Takes(record[k])
    BY <2>3, <2>4 DEF EngineRecord, ClientCommandType, Takes
  <2>6. Emit(m, record) /\ taken' \in [ReservationId -> Nat] /\ taken' = taken
    BY <1>1, <2>1, <2>2, <2>4
  <2> QED BY <2>5, <2>6, NothingTakenFits
<1>5. CASE EngineOther(m)
  <2>1. Emit(m, <<>>) /\ UNCHANGED taken
    BY <1>5 DEF EngineOther
  <2>2. PICK record \in Seq(Command) : record = <<>>
    BY NoCommand
  <2>3. EngineRecord(m, record) /\ \A k \in DOMAIN record : ~Takes(record[k])
    BY <2>2 DEF EngineRecord
  <2> QED BY <1>1, <2>1, <2>2, <2>3, NothingTakenFits
<1> QED BY <1>2, <1>3, <1>4, <1>5

(***************************************************************************)
(* Clients and engine only append records of wallet commands to a log.      *)
(***************************************************************************)
LEMMA EnvironmentInv ==
  ASSUME WalletInv, Environment
  PROVE  WalletInv'
  <1> USE DEF WalletInv
  <1>1. ASSUME NEW cmd \in ClientCommands, Submit(cmd) PROVE WalletInv'
    <2>1. cmd \in ClientCommand /\ cmd \in Command
      BY CommandAssumption DEF Command
    <2>2. UserPartition[cmd.user] \in Partition /\ <<cmd>> \in Seq(Command)
      BY <2>1, PartitionAssumption DEF ClientCommand, Partition, CommandPartition
    <2>3. log' \in [Partition -> Seq(Seq(Command))]
      BY <1>1, <2>2, WriteType DEF Submit
    <2>4. LogsOK'
      BY <1>1, <2>3 DEF Submit, LogsOK
    <2>5. StoreOK' /\ TasksOK'
      BY <1>1, SameStore DEF Submit, TasksOK, task
    <2> QED BY <2>4, <2>5
  <1>2. ASSUME NEW m \in Market, NEW record \in Seq(Command), Emit(m, record),
               taken' \in [ReservationId -> Nat]
        PROVE  WalletInv'
    <2>1. MarketPartition[m] \in Partition
      BY PartitionAssumption DEF Partition, EventPartition
    <2>2. log' \in [Partition -> Seq(Seq(Command))]
      BY <1>2, <2>1, WriteType DEF Emit
    <2>3. LogsOK'
      BY <1>2, <2>2 DEF Emit, LogsOK
    <2>4. StoreOK' /\ TasksOK'
      BY <1>2, SameStore DEF Emit, TasksOK, task
    <2> QED BY <2>3, <2>4
  <1> QED BY <1>1, <1>2, EngineWrites DEF Environment

(***************************************************************************)
(* Every step of the wallet preserves the invariant.                        *)
(***************************************************************************)
LEMMA WalletNextInv == WalletInv /\ [Next]_vars => WalletInv'
  <1> SUFFICES ASSUME WalletInv, [Next]_vars PROVE WalletInv'
    OBVIOUS
  <1>1. CASE UNCHANGED vars
    BY <1>1, SameStore, SameLogs DEF vars, task, WalletInv, TasksOK
  <1>2. ASSUME NEW t \in Task, Poll(t) PROVE WalletInv'
    BY <1>1, <1>2 DEF Poll
  <1> QED BY <1>1, <1>2, TaskStepInv, ProcessInv, EnvironmentInv DEF Next

(***************************************************************************)
(* The wallet's tables, offsets and tasks keep their types.                 *)
(***************************************************************************)
THEOREM WalletTypeOK == Spec => []TypeOK
  <1>1. WalletInv => TypeOK
    BY WalletInvIs
  <1> QED BY <1>1, WalletInitInv, WalletNextInv, PTL DEF Spec

(***************************************************************************)
(* No account ever locks more than it holds: the checks and conditional     *)
(* updates of repository.rs keep every balance consistent even when a       *)
(* transaction works with a stale reservation row, for any number of wallet *)
(* instances that read the same partitions.                                 *)
(***************************************************************************)
THEOREM WalletLockedWithinTotal == Spec => []LockedWithinTotal
  <1>1. WalletInv => LockedWithinTotal
    BY WalletInvIs
  <1> QED BY <1>1, WalletInitInv, WalletNextInv, PTL DEF Spec

-----------------------------------------------------------------------------
(***************************************************************************)
(* Replies.  One wallet process reads the partitions, as deployed; with two *)
(* of them the lookup of one would not see the transaction of the other.    *)
(***************************************************************************)
OneWallet == \A i, j \in Instance : i = j

OutboxIsSeq == \E S : outbox \in Seq(S)

\* A row is enqueued when its dedupe key is new, and no row is lost.
LEMMA EnqueueOne ==
  ASSUME OutboxIsSeq, NEW row, outbox' = Enqueue(outbox, row)
  PROVE  /\ OutboxIsSeq'
         /\ \A d : Enqueued(d)' <=> Enqueued(d) \/ d = row.dedupe
<1>1. CASE Enqueued(row.dedupe)
  <2>1. outbox' = outbox
    BY <1>1 DEF Enqueue
  <2> QED BY <1>1, <2>1 DEF OutboxIsSeq, Enqueued
<1>2. CASE ~Enqueued(row.dedupe)
  <2>1. outbox' = Append(outbox, row)
    BY <1>2 DEF Enqueue
  <2>2. PICK S : outbox \in Seq(S) /\ row \in S
    <3>1. PICK R : outbox \in Seq(R)
      BY DEF OutboxIsSeq
    <3>2. outbox \in Seq(R \cup {row})
      BY <3>1
    <3> QED BY <3>2
  <2>3. outbox' \in Seq(S) /\ Len(outbox) \in Nat /\ DOMAIN outbox = 1 .. Len(outbox)
        /\ DOMAIN outbox' = 1 .. Len(outbox) + 1
    BY <2>1, <2>2
  <2>4. /\ \A i \in DOMAIN outbox : i \in DOMAIN outbox' /\ outbox'[i] = outbox[i]
        /\ \A i \in DOMAIN outbox' : i \in DOMAIN outbox \/ outbox'[i] = row
        /\ \E i \in DOMAIN outbox' : outbox'[i] = row
    <3>1. outbox'[Len(outbox) + 1] = row /\ Len(outbox) + 1 \in DOMAIN outbox'
      BY <2>1, <2>2, <2>3
    <3> QED BY <2>1, <2>2, <2>3, <3>1
  <2>5. \A d : Enqueued(d)' <=> Enqueued(d) \/ d = row.dedupe
    BY <2>4 DEF Enqueued
  <2> QED BY <2>3, <2>5 DEF OutboxIsSeq
<1> QED BY <1>1, <1>2

\* The two rows of a reservation.
LEMMA EnqueueTwo ==
  ASSUME OutboxIsSeq, NEW a, NEW b, ~Enqueued(a.dedupe), ~Enqueued(b.dedupe),
         outbox' = Enqueue(Enqueue(outbox, a), b)
  PROVE  /\ OutboxIsSeq'
         /\ \A d : Enqueued(d)' <=> Enqueued(d) \/ d = a.dedupe \/ d = b.dedupe
<1>1. outbox' = Append(Append(outbox, a), b)
  BY DEF Enqueue
<1>2. PICK S : outbox \in Seq(S) /\ a \in S /\ b \in S
  <2>1. PICK R : outbox \in Seq(R)
    BY DEF OutboxIsSeq
  <2>2. outbox \in Seq(R \cup {a, b})
    BY <2>1
  <2> QED BY <2>2
<1>3. PICK n \in Nat : n = Len(outbox)
  BY <1>2
<1>4. outbox' \in Seq(S) /\ DOMAIN outbox = 1 .. n /\ DOMAIN outbox' = 1 .. n + 2
  BY <1>1, <1>2, <1>3
<1>5. outbox'[n + 1] = a /\ outbox'[n + 2] = b /\ \A i \in 1 .. n : outbox'[i] = outbox[i]
  BY <1>1, <1>2, <1>3
<1>6. /\ \A i \in DOMAIN outbox : i \in DOMAIN outbox' /\ outbox'[i] = outbox[i]
      /\ \A i \in DOMAIN outbox' : i \in DOMAIN outbox \/ outbox'[i] = a \/ outbox'[i] = b
      /\ n + 1 \in DOMAIN outbox' /\ n + 2 \in DOMAIN outbox'
  BY <1>4, <1>5
<1>7. \A d : Enqueued(d)' <=> Enqueued(d) \/ d = a.dedupe \/ d = b.dedupe
  BY <1>5, <1>6 DEF Enqueued
<1> QED BY <1>4, <1>7 DEF OutboxIsSeq

(***************************************************************************)
(* RepliesMatchEffects and what it needs: a cancel that was forwarded has a *)
(* reply, and a withdrawal in wallet_ledger was enqueued.                   *)
(***************************************************************************)
EffectsOf(u, k) ==
  /\ idempotency[<<u, "PlaceOrderIntent", k>>].type = "FundsReserved" <=>
       reservation[<<u, k>>].status # "NONE"
  /\ idempotency[<<u, "PlaceOrderIntent", k>>].type = "FundsReserved" <=>
       Enqueued(<<"funds-reserved", <<u, k>> >>)
  /\ idempotency[<<u, "PlaceOrderIntent", k>>].type = "FundsReserved" <=>
       Enqueued(<<"place-order", u, k>>)
  /\ idempotency[<<u, "Deposit", k>>] # NoReply <=> Enqueued(<<"deposit-applied", u, k>>)
  /\ idempotency[<<u, "Withdraw", k>>].type = "BalanceUpdated" <=>
       Enqueued(<<"withdrawal-applied", u, k>>)

CancelsAnswered ==
  \A u \in User, k \in Key :
    Enqueued(<<"cancel-order", u, k>>) => idempotency[<<u, "CancelOrderIntent", k>>] # NoReply

WithdrawalsEnqueued ==
  \A row \in walletLedger :
    row.kind = "WITHDRAW" => Enqueued(<<"withdrawal-applied", row.user, row.ref>>)

EffectsMatch == OutboxIsSeq /\ RepliesMatchEffects /\ CancelsAnswered /\ WithdrawalsEnqueued

\* What a transaction may do to replies and reservations: the reply of its own
\* command is stored, and no reservation disappears.
OwnReply(cmd) ==
  IF cmd.type \in ClientCommandType
    THEN idempotency' = [idempotency EXCEPT ![ReplyKeyOf(cmd)] = SuccessReply(cmd)]
    ELSE idempotency' = idempotency

ReservationsStay ==
  \A r \in ReservationId : reservation[r].status # "NONE" => reservation'[r].status # "NONE"

LEMMA DepositEffects ==
  ASSUME EffectsMatch, RowsOK, NEW cmd \in Command, NEW req, cmd.type = "Deposit",
         idempotency[ReplyKeyOf(cmd)] = NoReply, ApplyDeposit(cmd, req)
  PROVE  EffectsMatch' /\ OwnReply(cmd) /\ ReservationsStay
<1> USE DEF EffectsMatch
<1>1. PICK u \in User, k \in Key : u = cmd.user /\ k = cmd.key
  BY CommandFields DEF ClientCommandType
<1>2. PICK reply : reply = DepositReply(cmd)
  OBVIOUS
<1>3. reply # NoReply
  BY <1>2 DEF DepositReply, NoReply
<1>4. /\ idempotency' = [idempotency EXCEPT ![<<u, "Deposit", k>>] = reply]
      /\ UNCHANGED reservation
      /\ outbox' = Enqueue(outbox, DepositApplied(cmd, req))
  BY <1>1, <1>2 DEF ApplyDeposit, RecordIdempotentReply, ReplyKeyOf
<1>5. DepositApplied(cmd, req).dedupe = <<"deposit-applied", u, k>>
  BY <1>1 DEF DepositApplied, WalletEventRow
<1>6. OutboxIsSeq' /\ \A d : Enqueued(d)' <=> Enqueued(d) \/ d = <<"deposit-applied", u, k>>
  BY <1>4, <1>5, EnqueueOne
<1>7. <<u, "Deposit", k>> \in ReplyKey
  BY DEF ReplyKey, ClientCommandType
<1>8. \A v \in User, j \in Key : \A type \in ClientCommandType :
        /\ <<v, type, j>> \in ReplyKey
        /\ idempotency'[<<v, type, j>>] = IF v = u /\ type = "Deposit" /\ j = k
                                            THEN reply ELSE idempotency[<<v, type, j>>]
  BY <1>4, <1>7 DEF RowsOK, ReplyKey
<1>9. RepliesMatchEffects'
  <2> SUFFICES ASSUME NEW v \in User, NEW j \in Key PROVE EffectsOf(v, j)'
    BY DEF RepliesMatchEffects, EffectsOf
  <2>1. EffectsOf(v, j)
    BY DEF RepliesMatchEffects, EffectsOf
  <2>2. /\ idempotency'[<<v, "PlaceOrderIntent", j>>] = idempotency[<<v, "PlaceOrderIntent", j>>]
        /\ idempotency'[<<v, "Withdraw", j>>] = idempotency[<<v, "Withdraw", j>>]
        /\ idempotency'[<<v, "Deposit", j>>] =
             IF v = u /\ j = k THEN reply ELSE idempotency[<<v, "Deposit", j>>]
    BY <1>8 DEF ClientCommandType
  <2>3. /\ Enqueued(<<"funds-reserved", <<v, j>> >>)' <=> Enqueued(<<"funds-reserved", <<v, j>> >>)
        /\ Enqueued(<<"place-order", v, j>>)' <=> Enqueued(<<"place-order", v, j>>)
        /\ Enqueued(<<"withdrawal-applied", v, j>>)' <=> Enqueued(<<"withdrawal-applied", v, j>>)
        /\ Enqueued(<<"deposit-applied", v, j>>)' <=>
             Enqueued(<<"deposit-applied", v, j>>) \/ (v = u /\ j = k)
    BY <1>6
  <2> QED BY <1>3, <1>4, <2>1, <2>2, <2>3 DEF EffectsOf
<1>10. CancelsAnswered'
  BY <1>6, <1>8 DEF CancelsAnswered, ClientCommandType
<1>11. WithdrawalsEnqueued'
  BY <1>6 DEF WithdrawalsEnqueued, ApplyDeposit, LedgerRow
<1>12. OwnReply(cmd)
  BY <1>1, <1>2, <1>4 DEF OwnReply, SuccessReply, ReplyKeyOf, ClientCommandType
<1>13. ReservationsStay
  BY <1>4 DEF ReservationsStay
<1> QED BY <1>6, <1>9, <1>10, <1>11, <1>12, <1>13


LEMMA WithdrawEffects ==
  ASSUME EffectsMatch, RowsOK, NEW cmd \in Command, NEW req, cmd.type = "Withdraw",
         idempotency[ReplyKeyOf(cmd)] = NoReply, ApplyWithdraw(cmd, req)
  PROVE  EffectsMatch' /\ OwnReply(cmd) /\ ReservationsStay
<1> USE DEF EffectsMatch
<1>1. PICK u \in User, k \in Key : u = cmd.user /\ k = cmd.key
  BY CommandFields DEF ClientCommandType
<1>2. PICK reply : reply = WithdrawReply(cmd)
  OBVIOUS
<1>3. reply # NoReply /\ reply.type = "BalanceUpdated"
  BY <1>2 DEF WithdrawReply, NoReply
<1>4. /\ idempotency' = [idempotency EXCEPT ![<<u, "Withdraw", k>>] = reply]
      /\ UNCHANGED reservation
      /\ outbox' = Enqueue(outbox, WithdrawalApplied(cmd, req))
  BY <1>1, <1>2 DEF ApplyWithdraw, RecordIdempotentReply, ReplyKeyOf
<1>5. WithdrawalApplied(cmd, req).dedupe = <<"withdrawal-applied", u, k>>
  BY <1>1 DEF WithdrawalApplied, WalletEventRow
<1>6. OutboxIsSeq' /\ \A d : Enqueued(d)' <=> Enqueued(d) \/ d = <<"withdrawal-applied", u, k>>
  BY <1>4, <1>5, EnqueueOne
<1>7. <<u, "Withdraw", k>> \in ReplyKey
  BY DEF ReplyKey, ClientCommandType
<1>8. \A v \in User, j \in Key : \A type \in ClientCommandType :
        /\ <<v, type, j>> \in ReplyKey
        /\ idempotency'[<<v, type, j>>] = IF v = u /\ type = "Withdraw" /\ j = k
                                            THEN reply ELSE idempotency[<<v, type, j>>]
  BY <1>4, <1>7 DEF RowsOK, ReplyKey
<1>9. RepliesMatchEffects'
  <2> SUFFICES ASSUME NEW v \in User, NEW j \in Key PROVE EffectsOf(v, j)'
    BY DEF RepliesMatchEffects, EffectsOf
  <2>1. EffectsOf(v, j)
    BY DEF RepliesMatchEffects, EffectsOf
  <2>2. /\ idempotency'[<<v, "PlaceOrderIntent", j>>] = idempotency[<<v, "PlaceOrderIntent", j>>]
        /\ idempotency'[<<v, "Deposit", j>>] = idempotency[<<v, "Deposit", j>>]
        /\ idempotency'[<<v, "Withdraw", j>>] =
             IF v = u /\ j = k THEN reply ELSE idempotency[<<v, "Withdraw", j>>]
    BY <1>8 DEF ClientCommandType
  <2>3. /\ Enqueued(<<"funds-reserved", <<v, j>> >>)' <=> Enqueued(<<"funds-reserved", <<v, j>> >>)
        /\ Enqueued(<<"place-order", v, j>>)' <=> Enqueued(<<"place-order", v, j>>)
        /\ Enqueued(<<"deposit-applied", v, j>>)' <=> Enqueued(<<"deposit-applied", v, j>>)
        /\ Enqueued(<<"withdrawal-applied", v, j>>)' <=>
             Enqueued(<<"withdrawal-applied", v, j>>) \/ (v = u /\ j = k)
    BY <1>6
  <2> QED BY <1>3, <1>4, <2>1, <2>2, <2>3 DEF EffectsOf
<1>10. CancelsAnswered'
  BY <1>3, <1>6, <1>8 DEF CancelsAnswered, ClientCommandType
<1>11. WithdrawalsEnqueued'
  BY <1>1, <1>6 DEF WithdrawalsEnqueued, ApplyWithdraw, LedgerRow
<1>12. OwnReply(cmd)
  BY <1>1, <1>2, <1>4 DEF OwnReply, SuccessReply, ReplyKeyOf, ClientCommandType
<1>13. ReservationsStay
  BY <1>4 DEF ReservationsStay
<1> QED BY <1>6, <1>9, <1>10, <1>11, <1>12, <1>13

LEMMA CancelEffects ==
  ASSUME EffectsMatch, RowsOK, NEW cmd \in Command, NEW req, cmd.type = "CancelOrderIntent",
         idempotency[ReplyKeyOf(cmd)] = NoReply, ForwardCancel(cmd, req)
  PROVE  EffectsMatch' /\ OwnReply(cmd) /\ ReservationsStay
<1> USE DEF EffectsMatch
<1>1. PICK u \in User, k \in Key : u = cmd.user /\ k = cmd.key
  BY CommandFields DEF ClientCommandType
<1>2. PICK reply : reply = CancelReply
  OBVIOUS
<1>3. reply # NoReply /\ reply.type = "CommandAccepted"
  BY <1>2 DEF CancelReply, NoReply
<1>4. /\ idempotency' = [idempotency EXCEPT ![<<u, "CancelOrderIntent", k>>] = reply]
      /\ UNCHANGED reservation
      /\ outbox' = Enqueue(outbox, CancelOrder(cmd, req))
  BY <1>1, <1>2 DEF ForwardCancel, RecordIdempotentReply, ReplyKeyOf
<1>5. CancelOrder(cmd, req).dedupe = <<"cancel-order", u, k>>
  BY <1>1 DEF CancelOrder, EngineInputRow
<1>6. OutboxIsSeq' /\ \A d : Enqueued(d)' <=> Enqueued(d) \/ d = <<"cancel-order", u, k>>
  BY <1>4, <1>5, EnqueueOne
<1>7. <<u, "CancelOrderIntent", k>> \in ReplyKey
  BY DEF ReplyKey, ClientCommandType
<1>8. \A v \in User, j \in Key : \A type \in ClientCommandType :
        /\ <<v, type, j>> \in ReplyKey
        /\ idempotency'[<<v, type, j>>] = IF v = u /\ type = "CancelOrderIntent" /\ j = k
                                            THEN reply ELSE idempotency[<<v, type, j>>]
  BY <1>4, <1>7 DEF RowsOK, ReplyKey
<1>9. RepliesMatchEffects'
  <2> SUFFICES ASSUME NEW v \in User, NEW j \in Key PROVE EffectsOf(v, j)'
    BY DEF RepliesMatchEffects, EffectsOf
  <2>1. EffectsOf(v, j)
    BY DEF RepliesMatchEffects, EffectsOf
  <2>2. /\ idempotency'[<<v, "PlaceOrderIntent", j>>] = idempotency[<<v, "PlaceOrderIntent", j>>]
        /\ idempotency'[<<v, "Deposit", j>>] = idempotency[<<v, "Deposit", j>>]
        /\ idempotency'[<<v, "Withdraw", j>>] =
             idempotency[<<v, "Withdraw", j>>]
    BY <1>8 DEF ClientCommandType
  <2>3. /\ Enqueued(<<"funds-reserved", <<v, j>> >>)' <=> Enqueued(<<"funds-reserved", <<v, j>> >>)
        /\ Enqueued(<<"place-order", v, j>>)' <=> Enqueued(<<"place-order", v, j>>)
        /\ Enqueued(<<"deposit-applied", v, j>>)' <=> Enqueued(<<"deposit-applied", v, j>>)
        /\ Enqueued(<<"withdrawal-applied", v, j>>)' <=>
             Enqueued(<<"withdrawal-applied", v, j>>)
    BY <1>6
  <2> QED BY <1>3, <1>4, <2>1, <2>2, <2>3 DEF EffectsOf
<1>10. CancelsAnswered'
  BY <1>3, <1>6, <1>8 DEF CancelsAnswered, ClientCommandType
<1>11. WithdrawalsEnqueued'
  BY <1>1, <1>6 DEF WithdrawalsEnqueued, ForwardCancel
<1>12. OwnReply(cmd)
  BY <1>1, <1>2, <1>4 DEF OwnReply, SuccessReply, ReplyKeyOf, ClientCommandType
<1>13. ReservationsStay
  BY <1>4 DEF ReservationsStay
<1> QED BY <1>6, <1>9, <1>10, <1>11, <1>12, <1>13

LEMMA ReserveEffects ==
  ASSUME EffectsMatch, RowsOK, NEW cmd \in Command, NEW req, cmd.type = "PlaceOrderIntent",
         idempotency[ReplyKeyOf(cmd)] = NoReply, ReserveFunds(cmd, req)
  PROVE  EffectsMatch' /\ OwnReply(cmd) /\ ReservationsStay
<1> USE DEF EffectsMatch
<1>1. PICK u \in User, k \in Key : u = cmd.user /\ k = cmd.key
  BY CommandFields DEF ClientCommandType
<1>2. PICK reply : reply = ReserveReply(cmd)
  OBVIOUS
<1>3. reply # NoReply /\ reply.type = "FundsReserved"
  BY <1>2 DEF ReserveReply, NoReply
<1>4. PICK row : row = [asset |-> cmd.asset, amount |-> cmd.amount, remaining |-> cmd.amount,
                        status |-> "ACTIVE"]
  OBVIOUS
<1>5. /\ idempotency' = [idempotency EXCEPT ![<<u, "PlaceOrderIntent", k>>] = reply]
      /\ reservation' = [reservation EXCEPT ![<<u, k>>] = row] /\ row.status = "ACTIVE"
      /\ outbox' = Enqueue(Enqueue(outbox, FundsReserved(cmd, req)), PlaceOrder(cmd, req))
      /\ UNCHANGED walletLedger
  BY <1>1, <1>2, <1>4 DEF ReserveFunds, RecordIdempotentReply, ReplyKeyOf
<1>6. /\ FundsReserved(cmd, req).dedupe = <<"funds-reserved", <<u, k>> >>
      /\ PlaceOrder(cmd, req).dedupe = <<"place-order", u, k>>
  BY <1>1 DEF FundsReserved, PlaceOrder, WalletEventRow, EngineInputRow
<1>7. /\ ~Enqueued(<<"funds-reserved", <<u, k>> >>) /\ ~Enqueued(<<"place-order", u, k>>)
      /\ reservation[<<u, k>>].status = "NONE"
  <2>1. idempotency[<<u, "PlaceOrderIntent", k>>] = NoReply
    BY <1>1 DEF ReplyKeyOf
  <2>2. idempotency[<<u, "PlaceOrderIntent", k>>].type # "FundsReserved"
    BY <2>1 DEF NoReply
  <2> QED BY <2>2 DEF RepliesMatchEffects
<1>8. /\ OutboxIsSeq'
      /\ \A d : Enqueued(d)' <=>
           Enqueued(d) \/ d = <<"funds-reserved", <<u, k>> >> \/ d = <<"place-order", u, k>>
  BY <1>5, <1>6, <1>7, EnqueueTwo
<1>9. <<u, "PlaceOrderIntent", k>> \in ReplyKey /\ <<u, k>> \in ReservationId
  BY DEF ReplyKey, ClientCommandType, ReservationId
<1>10. \A v \in User, j \in Key : \A type \in ClientCommandType :
         /\ <<v, type, j>> \in ReplyKey
         /\ idempotency'[<<v, type, j>>] = IF v = u /\ type = "PlaceOrderIntent" /\ j = k
                                             THEN reply ELSE idempotency[<<v, type, j>>]
  BY <1>5, <1>9 DEF RowsOK, ReplyKey
<1>11. \A v \in User, j \in Key :
         reservation'[<<v, j>>] = IF v = u /\ j = k THEN row ELSE reservation[<<v, j>>]
  BY <1>5, <1>9 DEF RowsOK, ReservationId
<1>12. RepliesMatchEffects'
  <2> SUFFICES ASSUME NEW v \in User, NEW j \in Key PROVE EffectsOf(v, j)'
    BY DEF RepliesMatchEffects, EffectsOf
  <2>1. EffectsOf(v, j)
    BY DEF RepliesMatchEffects, EffectsOf
  <2>2. /\ idempotency'[<<v, "Deposit", j>>] = idempotency[<<v, "Deposit", j>>]
        /\ idempotency'[<<v, "Withdraw", j>>] = idempotency[<<v, "Withdraw", j>>]
        /\ idempotency'[<<v, "PlaceOrderIntent", j>>] =
             IF v = u /\ j = k THEN reply ELSE idempotency[<<v, "PlaceOrderIntent", j>>]
    BY <1>10 DEF ClientCommandType
  <2>3. /\ Enqueued(<<"funds-reserved", <<v, j>> >>)' <=>
             Enqueued(<<"funds-reserved", <<v, j>> >>) \/ (v = u /\ j = k)
        /\ Enqueued(<<"place-order", v, j>>)' <=>
             Enqueued(<<"place-order", v, j>>) \/ (v = u /\ j = k)
        /\ Enqueued(<<"deposit-applied", v, j>>)' <=> Enqueued(<<"deposit-applied", v, j>>)
        /\ Enqueued(<<"withdrawal-applied", v, j>>)' <=> Enqueued(<<"withdrawal-applied", v, j>>)
    BY <1>8
  <2> QED BY <1>3, <1>5, <1>11, <2>1, <2>2, <2>3 DEF EffectsOf
<1>13. CancelsAnswered'
  BY <1>8, <1>10 DEF CancelsAnswered, ClientCommandType
<1>14. WithdrawalsEnqueued'
  BY <1>5, <1>8 DEF WithdrawalsEnqueued
<1>15. OwnReply(cmd)
  BY <1>1, <1>2, <1>5 DEF OwnReply, SuccessReply, ReplyKeyOf, ClientCommandType
<1>16. ReservationsStay
  BY <1>5, <1>9 DEF ReservationsStay, RowsOK
<1> QED BY <1>8, <1>12, <1>13, <1>14, <1>15, <1>16

\* The engine's commands enqueue events of their own kinds and store no reply.
LEMMA EngineEffects ==
  ASSUME EffectsMatch, RowsOK, NEW cmd \in Command, cmd.type \notin ClientCommandType,
         NEW row, outbox' = Enqueue(outbox, row),
         \A u, k : row.dedupe \notin {<<"funds-reserved", <<u, k>> >>, <<"place-order", u, k>>,
                     <<"deposit-applied", u, k>>, <<"withdrawal-applied", u, k>>,
                     <<"cancel-order", u, k>>},
         UNCHANGED idempotency,
         \A x \in walletLedger' : x \in walletLedger \/ x.kind # "WITHDRAW",
         \A r \in ReservationId : reservation[r].status = "NONE" <=> reservation'[r].status = "NONE"
  PROVE  EffectsMatch' /\ OwnReply(cmd) /\ ReservationsStay
<1> USE DEF EffectsMatch
<1>1. OutboxIsSeq' /\ \A d : Enqueued(d)' <=> Enqueued(d) \/ d = row.dedupe
  BY EnqueueOne
<1>2. RepliesMatchEffects'
  <2> SUFFICES ASSUME NEW v \in User, NEW j \in Key PROVE EffectsOf(v, j)'
    BY DEF RepliesMatchEffects, EffectsOf
  <2>1. EffectsOf(v, j)
    BY DEF RepliesMatchEffects, EffectsOf
  <2>2. /\ Enqueued(<<"funds-reserved", <<v, j>> >>)' <=> Enqueued(<<"funds-reserved", <<v, j>> >>)
        /\ Enqueued(<<"place-order", v, j>>)' <=> Enqueued(<<"place-order", v, j>>)
        /\ Enqueued(<<"deposit-applied", v, j>>)' <=> Enqueued(<<"deposit-applied", v, j>>)
        /\ Enqueued(<<"withdrawal-applied", v, j>>)' <=> Enqueued(<<"withdrawal-applied", v, j>>)
    BY <1>1
  <2>3. <<v, j>> \in ReservationId
    BY DEF ReservationId
  <2> QED BY <2>1, <2>2, <2>3 DEF EffectsOf
<1>3. CancelsAnswered'
  BY <1>1 DEF CancelsAnswered
<1>4. WithdrawalsEnqueued'
  BY <1>1 DEF WithdrawalsEnqueued
<1>5. OwnReply(cmd) /\ ReservationsStay
  BY DEF OwnReply, ReservationsStay
<1> QED BY <1>1, <1>2, <1>3, <1>4, <1>5

\* A committed transaction keeps replies and effects together.
LEMMA CommitEffects ==
  ASSUME EffectsMatch, RowsOK, NEW cmd \in Command, NEW req, NEW row \in ReservationRow,
         Outcome(cmd, req, row) = "ok", Commit(cmd, req, row),
         cmd.type \in ClientCommandType => idempotency[ReplyKeyOf(cmd)] = NoReply,
         cmd.type \in {"ReleaseReservation", "SettleTrade"} /\ row.status # "NONE" =>
           reservation[cmd.res].status # "NONE"
  PROVE  EffectsMatch' /\ OwnReply(cmd) /\ ReservationsStay
<1>1. CASE cmd.type \in ClientCommandType
  <2>1. CASE cmd.type = "Deposit"
    BY <1>1, <2>1, DepositEffects DEF Commit
  <2>2. CASE cmd.type = "Withdraw"
    BY <1>1, <2>2, WithdrawEffects DEF Commit
  <2>3. CASE cmd.type = "PlaceOrderIntent"
    BY <1>1, <2>3, ReserveEffects DEF Commit
  <2>4. CASE cmd.type = "CancelOrderIntent"
    BY <1>1, <2>4, CancelEffects DEF Commit
  <2> QED BY <1>1, <2>1, <2>2, <2>3, <2>4 DEF ClientCommandType
<1>2. ASSUME NEW amount, NEW closing \in {"RELEASED", "SETTLED"}, cmd.res \in ReservationId,
             reservation[cmd.res].status # "NONE", reservation' = Consume(cmd, row, amount, closing)
      PROVE  \A r \in ReservationId : reservation[r].status = "NONE" <=> reservation'[r].status = "NONE"
  <2>1. PICK ended \in {"RELEASED", "SETTLED", "ACTIVE"} :
          ended = IF row.remaining = amount THEN closing ELSE "ACTIVE"
    OBVIOUS
  <2>2. PICK n : n = row.remaining - amount
    OBVIOUS
  <2>3. reservation' = [reservation EXCEPT ![cmd.res] =
                          [@ EXCEPT !.remaining = n, !.status = ended]]
    BY <1>2, <2>1, <2>2 DEF Consume
  <2>4. PICK new : new = [reservation[cmd.res] EXCEPT !.remaining = n, !.status = ended]
    OBVIOUS
  <2>5. new.status = ended
    BY <1>2, <2>4 DEF RowsOK, ReservationRow
  <2> QED BY <1>2, <2>3, <2>4, <2>5 DEF RowsOK
<1>3. CASE cmd.type = "ReleaseReservation"
  <2>1. ReleaseReservation(cmd, row) /\ row.status # "NONE" /\ cmd.res \in ReservationId
    BY <1>3, CommandFields DEF Commit, Outcome, ReleaseOutcome, ReservationId
  <2>2. \A r \in ReservationId : reservation[r].status = "NONE" <=> reservation'[r].status = "NONE"
    BY <1>2, <1>3, <2>1 DEF ReleaseReservation
  <2>3. PICK event : event = FundsReleased(cmd, row)
    OBVIOUS
  <2>4. event.dedupe = <<"funds-released", cmd.res, cmd.reason, cmd.amount>>
    BY <2>3 DEF FundsReleased, WalletEventRow
  <2>5. outbox' = Enqueue(outbox, event) /\ UNCHANGED <<idempotency, walletLedger>>
    BY <2>1, <2>3 DEF ReleaseReservation
  <2>6. \A u, k : event.dedupe \notin {<<"funds-reserved", <<u, k>> >>, <<"place-order", u, k>>,
          <<"deposit-applied", u, k>>, <<"withdrawal-applied", u, k>>, <<"cancel-order", u, k>>}
    BY <2>4
  <2> QED BY <1>3, <2>2, <2>5, <2>6, EngineEffects DEF ClientCommandType
<1>4. CASE cmd.type = "SettleTrade"
  <2>1. SettleTrade(cmd, row) /\ row.status # "NONE" /\ cmd.res \in ReservationId
    BY <1>4, CommandFields DEF Commit, Outcome, SettleOutcome, ReservationId
  <2>2. \A r \in ReservationId : reservation[r].status = "NONE" <=> reservation'[r].status = "NONE"
    BY <1>2, <1>4, <2>1 DEF SettleTrade
  <2>3. PICK event : event = TradeSettled(cmd)
    OBVIOUS
  <2>4. event.dedupe = <<"trade-settled", cmd.fill, cmd.res>>
    BY <2>3 DEF TradeSettled, WalletEventRow
  <2>5. outbox' = Enqueue(outbox, event) /\ UNCHANGED idempotency
    BY <2>1, <2>3 DEF SettleTrade
  <2>6. \A u, k : event.dedupe \notin {<<"funds-reserved", <<u, k>> >>, <<"place-order", u, k>>,
          <<"deposit-applied", u, k>>, <<"withdrawal-applied", u, k>>, <<"cancel-order", u, k>>}
    BY <2>4
  <2>7. \A x \in walletLedger' : x \in walletLedger \/ x.kind # "WITHDRAW"
    BY <2>1 DEF SettleTrade, LedgerRow
  <2> QED BY <1>4, <2>2, <2>5, <2>6, <2>7, EngineEffects DEF ClientCommandType
<1>5. CASE cmd.type = "ApplyAccountDelta"
  <2>1. ApplyAccountDelta(cmd)
    BY <1>5 DEF Commit
  <2>2. PICK event : event = AccountDeltaApplied(cmd)
    OBVIOUS
  <2>3. event.dedupe = <<"account-delta-applied", cmd.kind, cmd.ref, cmd.user, cmd.asset>>
    BY <2>2 DEF AccountDeltaApplied, WalletEventRow
  <2>4. outbox' = Enqueue(outbox, event) /\ UNCHANGED <<idempotency, reservation>>
    BY <2>1, <2>2 DEF ApplyAccountDelta
  <2>5. \A u, k : event.dedupe \notin {<<"funds-reserved", <<u, k>> >>, <<"place-order", u, k>>,
          <<"deposit-applied", u, k>>, <<"withdrawal-applied", u, k>>, <<"cancel-order", u, k>>}
    BY <2>3
  <2>6. cmd.kind \in DeltaKind
    BY <1>5 DEF Command, ClientCommand, EngineCommand
  <2>7. cmd.kind # "WITHDRAW"
    BY <2>6, CommandAssumption
  <2>8. \A x \in walletLedger' : x \in walletLedger \/ x.kind # "WITHDRAW"
    BY <2>1, <2>7 DEF ApplyAccountDelta, LedgerRow
  <2> QED BY <1>5, <2>4, <2>5, <2>8, EngineEffects DEF ClientCommandType
<1> QED BY <1>1, <1>3, <1>4, <1>5, CommandFields

-----------------------------------------------------------------------------
(***************************************************************************)
(* The partitions of wallet.commands hold client commands, each on the      *)
(* partition of its user; those of engine.events hold none.                 *)
(***************************************************************************)
Routed(p, cmd) ==
  IF p \in CommandPartition
    THEN cmd.type \in ClientCommandType /\ UserPartition[cmd.user] = p
    ELSE cmd.type \notin ClientCommandType

LogsRouted ==
  \A p \in Partition : \A n \in DOMAIN log[p] : \A k \in DOMAIN log[p][n] :
    Routed(p, log[p][n][k])

(***************************************************************************)
(* What a task knows still holds when it uses it: between its lookup and    *)
(* its transaction nobody else stores the reply of its command, what it is  *)
(* about to publish is stored, and a reservation it has read is there.      *)
(***************************************************************************)
KeyOf(t) == ReplyKeyOf(Cmd(t))

TaskFollows(t) ==
  /\ phase[t] # "ready" => Running(t) /\ AtCommand(t)
  /\ phase[t] \in {"record", "reply"} => Cmd(t).type \in ClientCommandType
  /\ phase[t] \in {"tx", "record"} /\ Cmd(t).type \in ClientCommandType =>
       idempotency[KeyOf(t)] = NoReply
  /\ phase[t] = "record" => answer[t] = InsufficientFunds /\ Cmd(t).type # "Deposit"
  /\ phase[t] = "reply" => answer[t] # NoReply /\ idempotency[KeyOf(t)] = answer[t]
  /\ seen[t].status # "NONE" =>
       /\ phase[t] = "tx" /\ Cmd(t).type \in {"ReleaseReservation", "SettleTrade"}
       /\ reservation[Cmd(t).res].status # "NONE"

TasksFollow == \A t \in Task : TaskFollows(t)

RepliesStored ==
  \A x \in replies :
    x.command \in ReplyKey /\ x.reply # NoReply /\ idempotency[x.command] = x.reply

RepliesInv == LogsRouted /\ TasksFollow /\ RepliesStored /\ EffectsMatch

\* The command at hand is routed as its partition says.
LEMMA CmdRouted ==
  ASSUME TasksOK, LogsOK, LogsRouted, NEW t \in Task, AtCommand(t)
  PROVE  /\ Routed(t[2], Cmd(t))
         /\ Cmd(t).type \in ClientCommandType => KeyOf(t) \in ReplyKey
<1>1. t[2] \in Partition /\ Cmd(t) \in Command
  BY CmdType
<1>2. log[t[2]] \in Seq(Seq(Command)) /\ next[t] \in Nat \ {0} /\ pos[t] \in Nat \ {0}
  BY <1>1 DEF LogsOK, TasksOK
<1>3. next[t] \in DOMAIN log[t[2]]
  BY <1>2 DEF AtCommand, HasRecord
<1>4. pos[t] \in DOMAIN log[t[2]][next[t]]
  <2>1. log[t[2]][next[t]] \in Seq(Command)
    BY <1>2, <1>3
  <2> QED BY <1>2, <2>1 DEF AtCommand, Record
<1>5. Routed(t[2], Cmd(t))
  BY <1>1, <1>3, <1>4 DEF LogsRouted, Cmd, Record
<1>6. Cmd(t).type \in ClientCommandType => KeyOf(t) \in ReplyKey
  BY <1>1, CommandFields DEF KeyOf, ReplyKeyOf, ReplyKey
<1> QED BY <1>5, <1>6

\* Two tasks never work on commands of one user.
LEMMA KeysApart ==
  ASSUME OneWallet, TasksOK, LogsOK, LogsRouted, NEW t \in Task, NEW q \in Task, q # t,
         AtCommand(t), AtCommand(q),
         Cmd(t).type \in ClientCommandType, Cmd(q).type \in ClientCommandType
  PROVE  KeyOf(q) # KeyOf(t)
<1>1. q[1] = t[1] /\ q = <<q[1], q[2]>> /\ t = <<t[1], t[2]>>
  BY DEF OneWallet, Task
<1>2. UserPartition[Cmd(t).user] = t[2] /\ UserPartition[Cmd(q).user] = q[2]
  BY CmdRouted DEF Routed
<1>3. Cmd(t).user # Cmd(q).user
  BY <1>1, <1>2
<1> QED BY <1>3 DEF KeyOf, ReplyKeyOf

\* What another task does leaves a task alone.
LEMMA OtherFollows ==
  ASSUME TasksOK, LogsOK, NEW q \in Task, TaskFollows(q), log' = log,
         next'[q] = next[q], pos'[q] = pos[q], phase'[q] = phase[q],
         answer'[q] = answer[q], seen'[q] = seen[q], fault'[q[1]] = fault[q[1]],
         AtCommand(q) /\ Cmd(q).type \in ClientCommandType =>
           idempotency'[KeyOf(q)] = idempotency[KeyOf(q)],
         ReservationsStay
  PROVE  TaskFollows(q)'
<1>1. PICK cmd : cmd = Cmd(q)
  OBVIOUS
<1>2. Cmd(q)' = cmd /\ AtCommand(q)' = AtCommand(q) /\ Running(q)' = Running(q)
  BY <1>1 DEF Cmd, Record, AtCommand, HasRecord, Running, Up
<1>3. KeyOf(q) = ReplyKeyOf(cmd) /\ KeyOf(q)' = ReplyKeyOf(cmd)
  BY <1>1, <1>2 DEF KeyOf, ReplyKeyOf
<1>4. AtCommand(q) /\ cmd.type \in {"ReleaseReservation", "SettleTrade"} => cmd.res \in ReservationId
  BY <1>1, CmdType, CommandFields DEF ReservationId
<1>5. phase[q] # "ready" => AtCommand(q)
  BY DEF TaskFollows
<1> QED BY <1>1, <1>2, <1>3, <1>4, <1>5 DEF TaskFollows, ReservationsStay

\* A step of task t: the other tasks stay where they are, and only the reply to
\* the command at hand may be stored.
OnlyTask(t) ==
  /\ log' = log /\ fault' = fault
  /\ \A q \in Task : q # t =>
       /\ next'[q] = next[q] /\ pos'[q] = pos[q] /\ phase'[q] = phase[q]
       /\ answer'[q] = answer[q] /\ seen'[q] = seen[q]

AddsReply(t) ==
  \/ idempotency' = idempotency
  \/ /\ AtCommand(t) /\ Cmd(t).type \in ClientCommandType /\ idempotency[KeyOf(t)] = NoReply
     /\ \E reply : idempotency' = [idempotency EXCEPT ![KeyOf(t)] = reply]

\* Moving one task on moves no other one.
LEMMA MoveIsLocal ==
  ASSUME TasksOK, NEW t \in Task, UNCHANGED <<log, fault>>,
         \/ \E ph, row, reply : Goto(t, ph, row, reply) /\ UNCHANGED <<next, pos>>
         \/ NextCommand(t)
  PROVE  OnlyTask(t)
  BY DEF OnlyTask, Goto, NextCommand, TasksOK

\* Its own step has to be looked at only for the task itself.
LEMMA TaskMoves ==
  ASSUME OneWallet, TasksOK, LogsOK, RowsOK, LogsRouted, TasksFollow, NEW t \in Task,
         OnlyTask(t), AddsReply(t), ReservationsStay, TaskFollows(t)'
  PROVE  LogsRouted' /\ TasksFollow'
<1>1. LogsRouted'
  BY DEF LogsRouted, Routed, OnlyTask
<1>2. ASSUME NEW q \in Task, q # t PROVE TaskFollows(q)'
  <2>1. AtCommand(q) /\ Cmd(q).type \in ClientCommandType =>
          idempotency'[KeyOf(q)] = idempotency[KeyOf(q)]
    <3> SUFFICES ASSUME AtCommand(q), Cmd(q).type \in ClientCommandType
                 PROVE  idempotency'[KeyOf(q)] = idempotency[KeyOf(q)]
      OBVIOUS
    <3>1. CASE idempotency' = idempotency
      BY <3>1
    <3>2. CASE idempotency' # idempotency
      <4>1. AtCommand(t) /\ Cmd(t).type \in ClientCommandType
        BY <3>2 DEF AddsReply
      <4>2. PICK reply : idempotency' = [idempotency EXCEPT ![KeyOf(t)] = reply]
        BY <3>2 DEF AddsReply
      <4>3. KeyOf(q) # KeyOf(t)
        BY <1>2, <4>1, KeysApart
      <4>4. KeyOf(q) \in ReplyKey
        BY CmdRouted
      <4> QED BY <4>2, <4>3, <4>4 DEF RowsOK
    <3> QED BY <3>1, <3>2
  <2>2. TaskFollows(q)
    BY DEF TasksFollow
  <2>3. fault'[q[1]] = fault[q[1]]
    BY DEF OnlyTask
  <2> QED BY <1>2, <2>1, <2>2, <2>3, OtherFollows DEF OnlyTask
<1> QED BY <1>1, <1>2 DEF TasksFollow

\* A reply that has been published stays the stored one.
LEMMA StoredStays ==
  ASSUME RowsOK, RepliesStored, NEW t, AddsReply(t)
  PROVE  \A x \in replies : idempotency'[x.command] = idempotency[x.command]
<1>1. ASSUME NEW x \in replies, NEW reply, idempotency[KeyOf(t)] = NoReply,
             idempotency' = [idempotency EXCEPT ![KeyOf(t)] = reply]
      PROVE  idempotency'[x.command] = idempotency[x.command]
  <2>1. x.command \in ReplyKey /\ x.command # KeyOf(t)
    BY <1>1 DEF RepliesStored
  <2> QED BY <1>1, <2>1 DEF RowsOK
<1> QED BY <1>1 DEF AddsReply

\* Storing that funds are insufficient changes nothing else.
LEMMA RejectionEffects ==
  ASSUME EffectsMatch, RowsOK, NEW cmd \in Command, cmd.type \in ClientCommandType,
         cmd.type # "Deposit", idempotency[ReplyKeyOf(cmd)] = NoReply,
         RecordReply(cmd, InsufficientFunds)
  PROVE  EffectsMatch'
<1> USE DEF EffectsMatch
<1>1. PICK u \in User, k \in Key, type \in ClientCommandType :
        u = cmd.user /\ k = cmd.key /\ type = cmd.type
  BY CommandFields
<1>2. PICK reply : reply = InsufficientFunds
  OBVIOUS
<1>3. reply # NoReply /\ reply.type = "InsufficientFunds"
  BY <1>2 DEF InsufficientFunds, NoReply
<1>4. /\ idempotency' = [idempotency EXCEPT ![<<u, type, k>>] = reply]
      /\ idempotency[<<u, type, k>>] = NoReply
      /\ UNCHANGED <<reservation, outbox, walletLedger>>
  BY <1>1, <1>2 DEF RecordReply, RecordIdempotentReply, ReplyKeyOf
<1>5. \A v \in User, j \in Key : \A op \in ClientCommandType :
        /\ <<v, op, j>> \in ReplyKey
        /\ idempotency'[<<v, op, j>>] = IF v = u /\ op = type /\ j = k
                                          THEN reply ELSE idempotency[<<v, op, j>>]
  BY <1>4 DEF RowsOK, ReplyKey
<1>6. RepliesMatchEffects'
  <2> SUFFICES ASSUME NEW v \in User, NEW j \in Key PROVE EffectsOf(v, j)'
    BY DEF RepliesMatchEffects, EffectsOf
  <2>1. EffectsOf(v, j)
    BY DEF RepliesMatchEffects, EffectsOf
  <2>2. idempotency'[<<v, "Deposit", j>>] = idempotency[<<v, "Deposit", j>>]
    BY <1>1, <1>5 DEF ClientCommandType
  <2>3. idempotency'[<<v, "PlaceOrderIntent", j>>].type = "FundsReserved" <=>
          idempotency[<<v, "PlaceOrderIntent", j>>].type = "FundsReserved"
    BY <1>3, <1>4, <1>5 DEF NoReply, ClientCommandType
  <2>4. idempotency'[<<v, "Withdraw", j>>].type = "BalanceUpdated" <=>
          idempotency[<<v, "Withdraw", j>>].type = "BalanceUpdated"
    BY <1>3, <1>4, <1>5 DEF NoReply, ClientCommandType
  <2> QED BY <1>4, <2>1, <2>2, <2>3, <2>4 DEF EffectsOf, Enqueued
<1>7. CancelsAnswered'
  BY <1>3, <1>4, <1>5 DEF CancelsAnswered, Enqueued, ClientCommandType
<1>8. WithdrawalsEnqueued' /\ OutboxIsSeq'
  BY <1>4 DEF WithdrawalsEnqueued, Enqueued, OutboxIsSeq
<1> QED BY <1>6, <1>7, <1>8

\* A task that goes on to its next command knows nothing of it.
LEMMA IdleFollows ==
  ASSUME TasksOK, NEW t \in Task, NextCommand(t)
  PROVE  TaskFollows(t)'
<1>1. phase'[t] = "ready" /\ seen'[t] = NoReservation
  BY DEF NextCommand, Goto, TasksOK
<1> QED BY <1>1 DEF TaskFollows, NoReservation

\* A task that stays at its command.
LEMMA SameCommand ==
  ASSUME TasksOK, NEW t \in Task, NEW ph, NEW row, NEW reply, Goto(t, ph, row, reply),
         UNCHANGED <<log, next, pos, fault>>
  PROVE  /\ Cmd(t)' = Cmd(t) /\ KeyOf(t)' = KeyOf(t)
         /\ AtCommand(t)' = AtCommand(t) /\ Running(t)' = Running(t)
         /\ phase'[t] = ph /\ seen'[t] = row /\ answer'[t] = reply
  BY DEF Goto, TasksOK, Cmd, Record, AtCommand, HasRecord, KeyOf, ReplyKeyOf, Running, Up

\* A reply of a committed command is not the absence of one.
LEMMA SuccessIsReply ==
  ASSUME NEW cmd, cmd.type \in ClientCommandType
  PROVE  SuccessReply(cmd) # NoReply
  BY DEF SuccessReply, ClientCommandType, DepositReply, WithdrawReply, ReserveReply, CancelReply,
         NoReply

\* Steps that change no table and no reply that was published.
LEMMA ReadingKeepsReplies ==
  ASSUME OneWallet, WalletInv, RepliesInv, NEW t \in Task, UNCHANGED <<tables, replies>>,
         OnlyTask(t), TaskFollows(t)'
  PROVE  RepliesInv'
<1> USE DEF WalletInv, RepliesInv, StoreOK
<1>1. AddsReply(t) /\ ReservationsStay
  BY DEF AddsReply, ReservationsStay, tables
<1>2. LogsRouted' /\ TasksFollow'
  BY <1>1, TaskMoves
<1>3. RepliesStored'
  BY DEF RepliesStored, tables
<1>4. EffectsMatch'
  BY DEF EffectsMatch, OutboxIsSeq, RepliesMatchEffects, CancelsAnswered, WithdrawalsEnqueued, Enqueued,
         tables
<1> QED BY <1>2, <1>3, <1>4

\* get_idempotent_reply, reservation_in_tx, and what ends without a change.
LEMMA ReadersKeepReplies ==
  ASSUME OneWallet, WalletInv, RepliesInv, NEW t \in Task,
         \/ LookupReply(t) \/ ReadReservation(t) \/ SkipDelta(t) \/ RejectFunds(t) \/ SaveOffset(t)
  PROVE  RepliesInv'
<1> USE DEF WalletInv, RepliesInv, StoreOK
<1>1. UNCHANGED <<tables, replies, log, fault>>
  BY DEF LookupReply, ReadReservation, SkipDelta, RejectFunds, SaveOffset
<1>2. TaskFollows(t) /\ NoReservation.status = "NONE"
  BY DEF TasksFollow, NoReservation
<1>3. CASE LookupReply(t)
  <2>1. /\ UNCHANGED <<next, pos>> /\ Running(t) /\ AtCommand(t)
        /\ Cmd(t).type \in ClientCommandType
        /\ IF idempotency[KeyOf(t)] = NoReply
             THEN Goto(t, "tx", NoReservation, NoReply)
             ELSE Goto(t, "reply", NoReservation, idempotency[KeyOf(t)])
    BY <1>3 DEF LookupReply, KeyOf
  <2>2. PICK ph, reply :
          /\ Goto(t, ph, NoReservation, reply)
          /\ \/ ph = "tx" /\ idempotency[KeyOf(t)] = NoReply
             \/ ph = "reply" /\ reply = idempotency[KeyOf(t)] /\ reply # NoReply
    BY <2>1
  <2>3. OnlyTask(t)
    BY <1>1, <2>1, <2>2, MoveIsLocal
  <2>4. /\ Cmd(t)' = Cmd(t) /\ KeyOf(t)' = KeyOf(t) /\ AtCommand(t)' /\ Running(t)'
        /\ phase'[t] = ph /\ seen'[t] = NoReservation /\ answer'[t] = reply
    BY <1>1, <2>1, <2>2, SameCommand
  <2>5. TaskFollows(t)'
    BY <1>1, <1>2, <2>1, <2>2, <2>4 DEF TaskFollows, tables
  <2> QED BY <1>1, <2>3, <2>5, ReadingKeepsReplies
<1>4. CASE ReadReservation(t)
  <2>1. /\ UNCHANGED <<next, pos>> /\ Running(t) /\ AtCommand(t)
        /\ Cmd(t).type \in {"ReleaseReservation", "SettleTrade"}
        /\ Goto(t, "tx", reservation[Cmd(t).res], NoReply)
    BY <1>4 DEF ReadReservation
  <2>2. OnlyTask(t)
    BY <1>1, <2>1, MoveIsLocal
  <2>3. /\ Cmd(t)' = Cmd(t) /\ KeyOf(t)' = KeyOf(t) /\ AtCommand(t)' /\ Running(t)'
        /\ phase'[t] = "tx" /\ seen'[t] = reservation[Cmd(t).res] /\ answer'[t] = NoReply
    BY <1>1, <2>1, SameCommand
  <2>4. TaskFollows(t)'
    BY <1>1, <1>2, <2>1, <2>3 DEF TaskFollows, tables, ClientCommandType
  <2> QED BY <1>1, <2>2, <2>4, ReadingKeepsReplies
<1>5. CASE SkipDelta(t)
  <2>1. NextCommand(t)
    BY <1>5 DEF SkipDelta
  <2> QED BY <1>1, <2>1, IdleFollows, MoveIsLocal, ReadingKeepsReplies
<1>6. CASE RejectFunds(t)
  <2>1. /\ UNCHANGED <<next, pos>> /\ Running(t) /\ AtCommand(t)
        /\ Goto(t, "record", NoReservation, InsufficientFunds)
        /\ Outcome(Cmd(t), Req(t), seen[t]) = "InsufficientFunds"
        /\ phase[t] = "tx" \/ Cmd(t).type = "ApplyAccountDelta"
    BY <1>6 DEF RejectFunds, InTransaction, Result
  <2>2. Cmd(t) \in Command
    BY <2>1, CmdType
  <2>3. Cmd(t).type \in {"Withdraw", "PlaceOrderIntent"}
    BY <2>1, <2>2, CommandFields
       DEF Outcome, DepositOutcome, CancelOutcome, ReleaseOutcome, SettleOutcome, DeltaOutcome,
           ClientCommandType
  <2>4. idempotency[KeyOf(t)] = NoReply
    BY <1>2, <2>1, <2>3 DEF TaskFollows, ClientCommandType
  <2>5. OnlyTask(t)
    BY <1>1, <2>1, MoveIsLocal
  <2>6. /\ Cmd(t)' = Cmd(t) /\ KeyOf(t)' = KeyOf(t) /\ AtCommand(t)' /\ Running(t)'
        /\ phase'[t] = "record" /\ seen'[t] = NoReservation /\ answer'[t] = InsufficientFunds
    BY <1>1, <2>1, SameCommand
  <2>7. TaskFollows(t)'
    BY <1>1, <1>2, <2>3, <2>4, <2>6 DEF TaskFollows, tables, ClientCommandType
  <2> QED BY <1>1, <2>5, <2>7, ReadingKeepsReplies
<1>7. CASE SaveOffset(t)
  <2>1. /\ phase[t] = "ready" /\ UNCHANGED <<phase, seen, answer>>
        /\ next' = [next EXCEPT ![t] = @ + 1] /\ pos' = [pos EXCEPT ![t] = 1]
    BY <1>7 DEF SaveOffset
  <2>2. OnlyTask(t)
    BY <1>1, <2>1 DEF OnlyTask, TasksOK
  <2>3. seen[t].status = "NONE"
    BY <1>2, <2>1 DEF TaskFollows
  <2>4. TaskFollows(t)'
    BY <2>1, <2>3 DEF TaskFollows
  <2> QED BY <1>1, <2>2, <2>4, ReadingKeepsReplies
<1> QED BY <1>3, <1>4, <1>5, <1>6, <1>7

\* The transaction commits with its reply.
LEMMA CommitKeepsReplies ==
  ASSUME OneWallet, WalletInv, RepliesInv, NEW t \in Task, CommitTransaction(t)
  PROVE  RepliesInv'
<1> USE DEF WalletInv, RepliesInv, StoreOK
<1>1. /\ UNCHANGED <<log, fault, replies>> /\ Running(t) /\ AtCommand(t)
      /\ phase[t] = "tx" \/ Cmd(t).type = "ApplyAccountDelta"
      /\ Outcome(Cmd(t), Req(t), seen[t]) = "ok" /\ Commit(Cmd(t), Req(t), seen[t])
  BY DEF CommitTransaction, InTransaction, Result
<1>2. /\ TaskFollows(t) /\ NoReservation.status = "NONE"
      /\ Cmd(t) \in Command /\ seen[t] \in ReservationRow
  BY <1>1, CmdType DEF TasksFollow, NoReservation, TasksOK
<1>3. Cmd(t).type \in ClientCommandType => idempotency[KeyOf(t)] = NoReply
  BY <1>1, <1>2 DEF TaskFollows, ClientCommandType
<1>4. EffectsMatch' /\ OwnReply(Cmd(t)) /\ ReservationsStay
  <2>1. PICK cmd \in Command, row \in ReservationRow, req \in {Req(t)} :
          cmd = Cmd(t) /\ row = seen[t] /\ req = Req(t)
    BY <1>2
  <2>2. cmd.type \in ClientCommandType => idempotency[ReplyKeyOf(cmd)] = NoReply
    BY <1>3, <2>1 DEF KeyOf
  <2>3. cmd.type \in {"ReleaseReservation", "SettleTrade"} /\ row.status # "NONE" =>
          reservation[cmd.res].status # "NONE"
    BY <1>2, <2>1 DEF TaskFollows
  <2>4. EffectsMatch' /\ OwnReply(cmd) /\ ReservationsStay
    BY <1>1, <2>1, <2>2, <2>3, CommitEffects
  <2> QED BY <2>1, <2>4
<1>5. AddsReply(t)
  BY <1>1, <1>3, <1>4 DEF AddsReply, OwnReply, KeyOf
<1>6. OnlyTask(t) /\ TaskFollows(t)'
  <2>1. CASE Cmd(t).type \in ClientCommandType
    <3>1. /\ Goto(t, "reply", NoReservation, SuccessReply(Cmd(t)))
          /\ UNCHANGED <<next, pos>>
      BY <2>1 DEF CommitTransaction
    <3>2. OnlyTask(t)
      BY <1>1, <3>1, MoveIsLocal
    <3>3. /\ Cmd(t)' = Cmd(t) /\ KeyOf(t)' = KeyOf(t) /\ AtCommand(t)' /\ Running(t)'
          /\ phase'[t] = "reply" /\ seen'[t] = NoReservation /\ answer'[t] = SuccessReply(Cmd(t))
      BY <1>1, <3>1, SameCommand
    <3>4. KeyOf(t) \in ReplyKey
      BY <1>1, <2>1, CmdRouted
    <3>5. idempotency'[KeyOf(t)] = SuccessReply(Cmd(t))
      BY <1>4, <2>1, <3>4 DEF OwnReply, KeyOf, RowsOK
    <3>6. SuccessReply(Cmd(t)) # NoReply
      BY <2>1, SuccessIsReply
    <3>7. TaskFollows(t)'
      BY <1>2, <2>1, <3>3, <3>5, <3>6 DEF TaskFollows
    <3> QED BY <3>2, <3>7
  <2>2. CASE Cmd(t).type \notin ClientCommandType
    <3>1. NextCommand(t)
      BY <2>2 DEF CommitTransaction
    <3> QED BY <1>1, <3>1, IdleFollows, MoveIsLocal
  <2> QED BY <2>1, <2>2
<1>7. LogsRouted' /\ TasksFollow'
  BY <1>4, <1>5, <1>6, TaskMoves
<1>8. RepliesStored'
  BY <1>1, <1>5, StoredStays DEF RepliesStored
<1> QED BY <1>4, <1>7, <1>8

\* record_reply of a rejection, in a transaction of its own.
LEMMA RecordKeepsReplies ==
  ASSUME OneWallet, WalletInv, RepliesInv, NEW t \in Task, RecordRejection(t)
  PROVE  RepliesInv'
<1> USE DEF WalletInv, RepliesInv, StoreOK
<1>1. /\ UNCHANGED <<log, fault, replies, next, pos>> /\ Running(t) /\ phase[t] = "record"
      /\ RecordReply(Cmd(t), answer[t]) /\ Goto(t, "reply", NoReservation, answer[t])
  BY DEF RecordRejection
<1>2. /\ TaskFollows(t) /\ NoReservation.status = "NONE"
  BY DEF TasksFollow, NoReservation
<1>3. /\ AtCommand(t) /\ Cmd(t).type \in ClientCommandType /\ Cmd(t).type # "Deposit"
      /\ idempotency[KeyOf(t)] = NoReply /\ answer[t] = InsufficientFunds
  BY <1>1, <1>2 DEF TaskFollows
<1>4. KeyOf(t) \in ReplyKey /\ Cmd(t) \in Command
  BY <1>3, CmdRouted, CmdType
<1>5. EffectsMatch'
  <2>1. PICK cmd \in Command : cmd = Cmd(t)
    BY <1>4
  <2> QED BY <1>1, <1>3, <2>1, RejectionEffects DEF KeyOf
<1>6. /\ idempotency' = [idempotency EXCEPT ![KeyOf(t)] = InsufficientFunds]
      /\ UNCHANGED reservation
  BY <1>1, <1>3 DEF RecordReply, RecordIdempotentReply, KeyOf
<1>7. AddsReply(t) /\ ReservationsStay
  BY <1>3, <1>6 DEF AddsReply, ReservationsStay
<1>8. OnlyTask(t)
  BY <1>1, MoveIsLocal
<1>9. /\ Cmd(t)' = Cmd(t) /\ KeyOf(t)' = KeyOf(t) /\ AtCommand(t)' /\ Running(t)'
      /\ phase'[t] = "reply" /\ seen'[t] = NoReservation /\ answer'[t] = InsufficientFunds
  BY <1>1, <1>3, SameCommand
<1>10. idempotency'[KeyOf(t)] = InsufficientFunds /\ InsufficientFunds # NoReply
  BY <1>4, <1>6 DEF RowsOK, InsufficientFunds, NoReply
<1>11. TaskFollows(t)'
  BY <1>2, <1>3, <1>9, <1>10 DEF TaskFollows
<1>12. LogsRouted' /\ TasksFollow'
  BY <1>7, <1>8, <1>11, TaskMoves
<1>13. RepliesStored'
  BY <1>1, <1>7, StoredStays DEF RepliesStored
<1> QED BY <1>5, <1>12, <1>13

\* publish_result.
LEMMA PublishKeepsReplies ==
  ASSUME OneWallet, WalletInv, RepliesInv, NEW t \in Task, PublishReply(t)
  PROVE  RepliesInv'
<1> USE DEF WalletInv, RepliesInv, StoreOK
<1>1. /\ UNCHANGED <<tables, log, fault>> /\ phase[t] = "reply" /\ NextCommand(t)
      /\ replies' = replies \cup {[req |-> Req(t), command |-> KeyOf(t), reply |-> answer[t]]}
  BY DEF PublishReply, KeyOf
<1>2. /\ AtCommand(t) /\ Cmd(t).type \in ClientCommandType
      /\ answer[t] # NoReply /\ idempotency[KeyOf(t)] = answer[t]
  BY <1>1 DEF TasksFollow, TaskFollows
<1>3. KeyOf(t) \in ReplyKey
  BY <1>2, CmdRouted
<1>4. AddsReply(t) /\ ReservationsStay
  BY <1>1 DEF AddsReply, ReservationsStay, tables
<1>5. OnlyTask(t) /\ TaskFollows(t)'
  BY <1>1, IdleFollows, MoveIsLocal
<1>6. LogsRouted' /\ TasksFollow'
  BY <1>4, <1>5, TaskMoves
<1>7. RepliesStored'
  BY <1>1, <1>2, <1>3 DEF RepliesStored, tables
<1>8. EffectsMatch'
  BY <1>1 DEF EffectsMatch, OutboxIsSeq, RepliesMatchEffects, CancelsAnswered, WithdrawalsEnqueued,
              Enqueued, tables
<1> QED BY <1>6, <1>7, <1>8

\* A process that ends forgets what its tasks knew.
LEMMA ProcessKeepsReplies ==
  ASSUME WalletInv, RepliesInv, NEW i \in Instance, UNCHANGED <<tables, log, replies>>,
         \/ \E why, p : Stop(i, why, p)
         \/ Restart(i)
  PROVE  RepliesInv'
<1> USE DEF WalletInv, RepliesInv, StoreOK
<1>1. LogsRouted' /\ RepliesStored'
  BY DEF LogsRouted, Routed, RepliesStored, tables
<1>2. EffectsMatch'
  BY DEF EffectsMatch, OutboxIsSeq, RepliesMatchEffects, CancelsAnswered, WithdrawalsEnqueued,
         Enqueued, tables
<1>3. ASSUME NEW q \in Task PROVE TaskFollows(q)'
  <2>1. TaskFollows(q) /\ q[1] \in Instance
    BY DEF TasksFollow, Task
  <2>2. CASE q[1] = i
    <3>1. phase'[q] = "ready" /\ seen'[q].status = "NONE"
      <4>1. CASE \E why, p : Stop(i, why, p)
        BY <2>2, <4>1 DEF Stop, NoReservation
      <4>2. CASE Restart(i)
        <5>1. ~Running(q) /\ UNCHANGED <<phase, seen>>
          BY <2>2, <4>2 DEF Restart, Running
        <5> QED BY <2>1, <5>1 DEF TaskFollows
      <4> QED BY <4>1, <4>2
    <3> QED BY <3>1 DEF TaskFollows
  <2>3. CASE q[1] # i
    <3>1. /\ next'[q] = next[q] /\ pos'[q] = pos[q] /\ phase'[q] = phase[q]
          /\ answer'[q] = answer[q] /\ seen'[q] = seen[q]
      BY <2>3 DEF Stop, Restart
    <3>2. fault'[q[1]] = fault[q[1]]
      BY <2>1, <2>3 DEF Stop, Restart, LogsOK
    <3>3. ReservationsStay /\ idempotency' = idempotency
      BY DEF ReservationsStay, tables
    <3> QED BY <2>1, <3>1, <3>2, <3>3, OtherFollows
  <2> QED BY <2>2, <2>3
<1> QED BY <1>1, <1>2, <1>3 DEF TasksFollow

\* A log that grows still holds what the tasks are at.
LEMMA LogGrows ==
  ASSUME TasksOK, LogsOK, NEW p \in Partition, NEW record \in Seq(Command), Write(p, record),
         UNCHANGED <<next, pos>>, NEW q \in Task, AtCommand(q)
  PROVE  AtCommand(q)' /\ Cmd(q)' = Cmd(q)
<1>1. /\ log[q[2]] \in Seq(Seq(Command)) /\ next[q] \in Nat \ {0} /\ q[2] \in Partition
      /\ log[p] \in Seq(Seq(Command))
  BY CmdType DEF LogsOK, TasksOK
<1>2. log' = [log EXCEPT ![p] = Append(@, record)]
  BY DEF Write
<1>3. log'[q[2]] = log[q[2]] \/ log'[q[2]] = Append(log[q[2]], record)
  BY <1>1, <1>2 DEF LogsOK
<1>4. next[q] <= Len(log[q[2]])
  BY DEF AtCommand, HasRecord
<1>5. log'[q[2]][next[q]] = log[q[2]][next[q]] /\ next[q] <= Len(log'[q[2]])
  <2>1. PICK old \in Seq(Seq(Command)), n \in Nat \ {0} : old = log[q[2]] /\ n = next[q]
    BY <1>1
  <2>2. n <= Len(old)
    BY <1>4, <2>1
  <2>3. Append(old, record)[n] = old[n] /\ n <= Len(Append(old, record))
    BY <2>1, <2>2
  <2>4. CASE log'[q[2]] = log[q[2]]
    BY <1>4, <2>4
  <2>5. CASE log'[q[2]] = Append(log[q[2]], record)
    BY <2>1, <2>3, <2>5
  <2> QED BY <1>3, <2>4, <2>5
<1> QED BY <1>5 DEF AtCommand, HasRecord, Cmd, Record

\* The environment writes commands to the partitions where they belong.
LEMMA WriteKeepsReplies ==
  ASSUME WalletInv, RepliesInv, NEW p \in Partition, NEW record \in Seq(Command),
         Write(p, record), \A k \in DOMAIN record : Routed(p, record[k]),
         UNCHANGED <<tables, fault, task, replies>>
  PROVE  RepliesInv'
<1> USE DEF WalletInv, RepliesInv, StoreOK
<1>1. RepliesStored'
  BY DEF RepliesStored, tables
<1>2. EffectsMatch'
  BY DEF EffectsMatch, OutboxIsSeq, RepliesMatchEffects, CancelsAnswered, WithdrawalsEnqueued,
         Enqueued, tables
<1>3. LogsRouted'
  <2> SUFFICES ASSUME NEW r \in Partition, NEW n \in DOMAIN log'[r], NEW k \in DOMAIN log'[r][n]
               PROVE  Routed(r, log'[r][n][k])
    BY DEF LogsRouted, Routed
  <2>1. log[r] \in Seq(Seq(Command))
    BY DEF LogsOK
  <2>2. log'[r] = IF r = p THEN Append(log[r], record) ELSE log[r]
    BY DEF Write, LogsOK
  <2>3. \/ n \in DOMAIN log[r] /\ log'[r][n] = log[r][n]
        \/ r = p /\ log'[r][n] = record
    BY <2>1, <2>2
  <2> QED BY <2>3 DEF LogsRouted
<1>4. ASSUME NEW q \in Task PROVE TaskFollows(q)'
  <2>1. TaskFollows(q)
    BY DEF TasksFollow
  <2>2. UNCHANGED <<next, pos, phase, seen, answer, idempotency, reservation>> /\ Running(q)' = Running(q)
    BY DEF task, tables, Running, Up
  <2>3. CASE AtCommand(q)
    <3>1. AtCommand(q)' /\ Cmd(q)' = Cmd(q)
      BY <2>2, <2>3, LogGrows
    <3>2. KeyOf(q)' = KeyOf(q)
      BY <3>1 DEF KeyOf, ReplyKeyOf
    <3> QED BY <2>1, <2>2, <3>1, <3>2 DEF TaskFollows
  <2>4. CASE ~AtCommand(q)
    BY <2>1, <2>2, <2>4 DEF TaskFollows
  <2> QED BY <2>3, <2>4
<1> QED BY <1>1, <1>2, <1>3, <1>4 DEF TasksFollow

\* Clients write to the partition of their user, the engine to its own topic.
LEMMA EnvironmentWrites ==
  ASSUME WalletInv, Environment
  PROVE  /\ UNCHANGED <<tables, saved, fault, task, replies, crashes>>
         /\ \E p \in Partition : \E record \in Seq(Command) :
              Write(p, record) /\ \A k \in DOMAIN record : Routed(p, record[k])
<1> DEFINE Goal == /\ UNCHANGED <<tables, saved, fault, task, replies, crashes>>
                   /\ \E p \in Partition : \E record \in Seq(Command) :
                        Write(p, record) /\ \A k \in DOMAIN record : Routed(p, record[k])
<1>1. ASSUME NEW cmd \in ClientCommands, Submit(cmd) PROVE Goal
  <2>1. cmd \in ClientCommand /\ cmd \in Command /\ cmd.type \in ClientCommandType /\ cmd.user \in User
    BY CommandAssumption DEF Command, ClientCommand, ClientCommandType
  <2>2. PICK p \in CommandPartition : p = UserPartition[cmd.user]
    BY <2>1, PartitionAssumption
  <2>3. PICK record \in Seq(Command) : record = <<cmd>>
    BY <2>1, OneCommand
  <2>4. \A k \in DOMAIN record : Routed(p, record[k])
    BY <2>1, <2>2, <2>3 DEF Routed
  <2>5. Write(p, record) /\ UNCHANGED <<tables, saved, fault, task, replies, crashes>>
    BY <1>1, <2>2, <2>3 DEF Submit
  <2> QED BY <2>4, <2>5 DEF Partition
<1>2. ASSUME NEW m \in Market, NEW record \in Seq(Command), Emit(m, record), EngineRecord(m, record)
      PROVE  Goal
  <2>1. PICK p \in EventPartition : p = MarketPartition[m]
    BY PartitionAssumption
  <2>2. p \notin CommandPartition /\ p \in Partition
    BY PartitionAssumption DEF Partition
  <2>3. \A k \in DOMAIN record : Routed(p, record[k])
    BY <1>2, <2>2 DEF Routed, EngineRecord
  <2> QED BY <1>2, <2>1, <2>2, <2>3 DEF Emit
<1> HIDE DEF Goal
<1>3. ASSUME NEW m \in Market,
             EngineRelease(m) \/ EngineTrade(m) \/ EngineDelta(m) \/ EngineOther(m)
      PROVE  \E record \in Seq(Command) : Emit(m, record) /\ EngineRecord(m, record)
  BY <1>3, EngineWrites
<1> QED BY <1>1, <1>2, <1>3 DEF Environment, Goal

\* A client command without a stored reply has none of its effects either, so
\* its transaction fails only in a deposit, whose reference is used or too much.
LEMMA ClientFault ==
  ASSUME EffectsMatch, NEW cmd \in Command, NEW req, NEW row, cmd.type \in ClientCommandType,
         idempotency[ReplyKeyOf(cmd)] = NoReply,
         Outcome(cmd, req, row) \notin {"ok", "nothing", "InsufficientFunds"}
  PROVE  cmd.type = "Deposit" /\ (ReusedReference(cmd) \/ DepositOverflows(cmd))
<1> USE DEF EffectsMatch
<1>1. PICK u \in User, k \in Key : u = cmd.user /\ k = cmd.key
  BY CommandFields
<1>2. EffectsOf(u, k)
  BY DEF RepliesMatchEffects, EffectsOf
<1>3. NoReply.type = "None" /\ idempotency[<<u, cmd.type, k>>] = NoReply
  BY <1>1 DEF NoReply, ReplyKeyOf
<1>4. \A x : OutboxConflict(x) => Enqueued(x.dedupe)
  BY DEF OutboxConflict, Enqueued
<1>5. CASE cmd.type = "Deposit"
  <2>1. ~Enqueued(<<"deposit-applied", u, k>>)
    BY <1>2, <1>3, <1>5 DEF EffectsOf
  <2>2. DepositApplied(cmd, req).dedupe = <<"deposit-applied", u, k>>
    BY <1>1 DEF DepositApplied, WalletEventRow
  <2>3. ~OutboxConflict(DepositApplied(cmd, req))
    BY <1>4, <2>1, <2>2
  <2>4. Outcome(cmd, req, row) = DepositOutcome(cmd, req)
    BY <1>5 DEF Outcome
  <2> QED BY <1>5, <2>3, <2>4 DEF DepositOutcome, ReusedReference, DepositOverflows
<1>6. CASE cmd.type = "Withdraw"
  <2>1. ~Enqueued(<<"withdrawal-applied", u, k>>)
    BY <1>2, <1>3, <1>6 DEF EffectsOf
  <2>2. WithdrawalApplied(cmd, req).dedupe = <<"withdrawal-applied", u, k>>
    BY <1>1 DEF WithdrawalApplied, WalletEventRow
  <2>3. ~OutboxConflict(WithdrawalApplied(cmd, req))
    BY <1>4, <2>1, <2>2
  <2>4. ~InLedger(cmd.user, cmd.asset, "WITHDRAW", cmd.key)
    BY <1>1, <2>1 DEF InLedger, WithdrawalsEnqueued
  <2>5. Outcome(cmd, req, row) = WithdrawOutcome(cmd, req)
    BY <1>6 DEF Outcome
  <2> QED BY <2>3, <2>4, <2>5 DEF WithdrawOutcome
<1>7. CASE cmd.type = "PlaceOrderIntent"
  <2>1. /\ ~Enqueued(<<"funds-reserved", <<u, k>> >>) /\ ~Enqueued(<<"place-order", u, k>>)
        /\ reservation[<<u, k>>].status = "NONE"
    BY <1>2, <1>3, <1>7 DEF EffectsOf
  <2>2. /\ FundsReserved(cmd, req).dedupe = <<"funds-reserved", <<u, k>> >>
        /\ PlaceOrder(cmd, req).dedupe = <<"place-order", u, k>>
    BY <1>1 DEF FundsReserved, PlaceOrder, WalletEventRow, EngineInputRow
  <2>3. ~OutboxConflict(FundsReserved(cmd, req)) /\ ~OutboxConflict(PlaceOrder(cmd, req))
    BY <1>4, <2>1, <2>2
  <2>4. Outcome(cmd, req, row) = ReserveOutcome(cmd, req)
    BY <1>7 DEF Outcome
  <2> QED BY <1>1, <2>1, <2>3, <2>4 DEF ReserveOutcome
<1>8. CASE cmd.type = "CancelOrderIntent"
  <2>1. ~Enqueued(<<"cancel-order", u, k>>)
    BY <1>3, <1>8 DEF CancelsAnswered
  <2>2. CancelOrder(cmd, req).dedupe = <<"cancel-order", u, k>>
    BY <1>1 DEF CancelOrder, EngineInputRow
  <2>3. ~OutboxConflict(CancelOrder(cmd, req))
    BY <1>4, <2>1, <2>2
  <2>4. Outcome(cmd, req, row) = CancelOutcome(cmd, req)
    BY <1>8 DEF Outcome
  <2> QED BY <2>3, <2>4 DEF CancelOutcome
<1> QED BY <1>5, <1>6, <1>7, <1>8 DEF ClientCommandType

\* What the lookup has found makes the client commands in a transaction new.
LEMMA ClientsRefused ==
  ASSUME WalletInv, RepliesInv
  PROVE  ClientFaultsAreBadDeposits
<1> SUFFICES ASSUME NEW t \in Task, Refused(t), Cmd(t).type \in ClientCommandType
             PROVE  /\ Cmd(t).type = "Deposit" /\ idempotency[ReplyKeyOf(Cmd(t))] = NoReply
                    /\ ReusedReference(Cmd(t)) \/ DepositOverflows(Cmd(t))
  BY DEF ClientFaultsAreBadDeposits
<1>1. PICK cmd \in Command : cmd = Cmd(t)
  BY CmdType DEF Refused, InTransaction, WalletInv
<1>2. Running(t) /\ phase[t] = "tx"
  BY DEF Refused, InTransaction, ClientCommandType
<1>3. idempotency[ReplyKeyOf(cmd)] = NoReply
  BY <1>1, <1>2 DEF RepliesInv, TasksFollow, TaskFollows, KeyOf
<1>4. Outcome(cmd, Req(t), seen[t]) \notin {"ok", "nothing", "InsufficientFunds"}
  BY <1>1 DEF Refused, Result
<1> QED BY <1>1, <1>3, <1>4, ClientFault DEF RepliesInv

-----------------------------------------------------------------------------
AnswersInv == WalletInv /\ RepliesInv

LEMMA AnswersInit == Init => AnswersInv
<1> SUFFICES ASSUME Init PROVE AnswersInv
  OBVIOUS
<1>1. WalletInv
  BY WalletInitInv
<1>2. LogsRouted /\ RepliesStored
  BY DEF Init, LogsRouted, RepliesStored
<1>3. TasksFollow
  BY DEF Init, TasksFollow, TaskFollows, NoReservation
<1>5. outbox = <<>> /\ walletLedger = {} /\ \A d : ~Enqueued(d)
  BY DEF Init, EmptyTables, Enqueued
<1>6. OutboxIsSeq
  BY <1>5 DEF OutboxIsSeq
<1>7. CancelsAnswered /\ WithdrawalsEnqueued
  BY <1>5 DEF CancelsAnswered, WithdrawalsEnqueued
<1>8. RepliesMatchEffects
  <2> SUFFICES ASSUME NEW u \in User, NEW k \in Key PROVE EffectsOf(u, k)
    BY DEF RepliesMatchEffects, EffectsOf
  <2>1. /\ \A type \in ClientCommandType : idempotency[<<u, type, k>>] = NoReply
        /\ reservation[<<u, k>>].status = "NONE" /\ NoReply.type = "None"
    BY DEF Init, EmptyTables, ReplyKey, ReservationId, NoReservation, NoReply
  <2> QED BY <1>5, <2>1 DEF EffectsOf, ClientCommandType
<1> QED BY <1>1, <1>2, <1>3, <1>6, <1>7, <1>8 DEF AnswersInv, RepliesInv, EffectsMatch

\* Nothing happens.
LEMMA SameAnswers ==
  ASSUME WalletInv, RepliesInv, UNCHANGED vars
  PROVE  RepliesInv'
<1> USE DEF vars, task, tables
<1>1. LogsRouted' /\ RepliesStored'
  BY DEF RepliesInv, LogsRouted, Routed, RepliesStored
<1>2. EffectsMatch'
  BY DEF RepliesInv, EffectsMatch, OutboxIsSeq, RepliesMatchEffects, CancelsAnswered,
         WithdrawalsEnqueued, Enqueued
<1>3. TasksFollow'
  BY DEF RepliesInv, TasksFollow, TaskFollows, Running, Up, AtCommand, HasRecord, Record, Cmd, KeyOf,
         ReplyKeyOf
<1> QED BY <1>1, <1>2, <1>3 DEF RepliesInv

LEMMA AnswersNext == OneWallet /\ AnswersInv /\ [Next]_vars => AnswersInv'
<1> SUFFICES ASSUME OneWallet, WalletInv, RepliesInv, [Next]_vars PROVE AnswersInv'
  BY DEF AnswersInv
<1>1. WalletInv'
  BY WalletNextInv
<1>2. CASE UNCHANGED vars
  BY <1>1, <1>2, SameAnswers DEF AnswersInv
<1>3. ASSUME NEW t \in Task, TaskStep(t) PROVE AnswersInv'
  <2>1. CASE FailTransaction(t)
    <3>1. /\ UNCHANGED <<tables, log, replies>> /\ t[1] \in Instance
          /\ \E why, p : Stop(t[1], why, p)
      BY <2>1 DEF FailTransaction, Task
    <3>2. RepliesInv'
      BY <3>1, ProcessKeepsReplies
    <3> QED BY <1>1, <3>2 DEF AnswersInv
  <2>2. CASE ~FailTransaction(t)
    <3>1. RepliesInv'
      BY <1>3, <2>2, ReadersKeepReplies, CommitKeepsReplies, RecordKeepsReplies, PublishKeepsReplies
         DEF TaskStep
    <3> QED BY <1>1, <3>1 DEF AnswersInv
  <2> QED BY <2>1, <2>2
<1>4. ASSUME NEW i \in Instance, Crash(i) \/ Restart(i) PROVE AnswersInv'
  <2>1. /\ UNCHANGED <<tables, log, replies>>
        /\ (\E why, p : Stop(i, why, p)) \/ Restart(i)
    BY <1>4 DEF Crash, Restart
  <2>2. RepliesInv'
    BY <2>1, ProcessKeepsReplies
  <2> QED BY <1>1, <2>2 DEF AnswersInv
<1>5. CASE Environment
  <2>1. UNCHANGED <<tables, fault, task, replies>>
    BY <1>5, EnvironmentWrites
  <2>2. PICK p \in Partition, record \in Seq(Command) :
          Write(p, record) /\ \A k \in DOMAIN record : Routed(p, record[k])
    BY <1>5, EnvironmentWrites
  <2>3. RepliesInv'
    BY <2>1, <2>2, WriteKeepsReplies
  <2> QED BY <1>1, <2>3 DEF AnswersInv
<1>6. ASSUME NEW t \in Task, Poll(t) PROVE AnswersInv'
  BY <1>2, <1>6 DEF Poll
<1> QED BY <1>2, <1>3, <1>4, <1>5, <1>6 DEF Next

LEMMA AnswersAlways == OneWallet /\ Spec => []AnswersInv
<1>1. OneWallet /\ AnswersInv /\ [Next]_vars => AnswersInv'
  BY AnswersNext
<1>2. OneWallet => OneWallet'
  BY DEF OneWallet
<1> QED BY <1>1, <1>2, AnswersInit, PTL DEF Spec

(***************************************************************************)
(* With one wallet process, whatever is retried by clients and replayed     *)
(* after crashes, all replies to one idempotent command say the same: a     *)
(* reply is published only as it is stored, and stored once.                *)
(***************************************************************************)
THEOREM WalletRepliesAgree == OneWallet /\ Spec => []RepliesAgree
<1>1. AnswersInv => RepliesAgree
  BY DEF AnswersInv, RepliesInv, RepliesStored, RepliesAgree
<1> QED BY <1>1, AnswersAlways, PTL

(***************************************************************************)
(* With one wallet process, funds are reserved, deposited or withdrawn, and *)
(* their events enqueued, exactly when the stored reply says so.            *)
(***************************************************************************)
THEOREM WalletRepliesMatchEffects == OneWallet /\ Spec => []RepliesMatchEffects
<1>1. AnswersInv => RepliesMatchEffects
  BY DEF AnswersInv, RepliesInv, EffectsMatch
<1> QED BY <1>1, AnswersAlways, PTL

(***************************************************************************)
(* With one wallet process, the only client command whose transaction ends  *)
(* the process is a deposit without a stored reply that names a reference   *)
(* of an earlier one or makes the total overflow its BIGINT.                *)
(***************************************************************************)
THEOREM WalletClientFaults == OneWallet /\ Spec => []ClientFaultsAreBadDeposits
<1>1. AnswersInv => ClientFaultsAreBadDeposits
  BY ClientsRefused DEF AnswersInv
<1> QED BY <1>1, AnswersAlways, PTL

-----------------------------------------------------------------------------
(***************************************************************************)
(* LockedCoversReservations.  The units that reservations hold, as a        *)
(* function of the table.                                                   *)
(***************************************************************************)
UnitsIn(rows, a) ==
  UNION { {r} \X (1 .. rows[r].remaining) :
            r \in {q \in ReservationId : <<q[1], rows[q].asset>> = a} }

\* The units of reservation r alone, should it hold n of account a.
UnitsOfOne(r, asset, n, a) == IF <<r[1], asset>> = a THEN UnitsTo(r, n) ELSE {}

LEMMA UnitMember ==
  ASSUME NEW rows, NEW a, NEW x
  PROVE  x \in UnitsIn(rows, a) <=>
           \E r \in ReservationId : /\ <<r[1], rows[r].asset>> = a
                                    /\ x \in UnitsTo(r, rows[r].remaining)
  BY Zenon DEF UnitsIn, UnitsTo

\* Writing the row of a reservation replaces its units and no others.
UnitsReplaced(rows, new, r, a) ==
  UnitsIn(new, a) = (UnitsIn(rows, a) \ UnitsOfOne(r, rows[r].asset, rows[r].remaining, a))
                      \cup UnitsOfOne(r, new[r].asset, new[r].remaining, a)

LEMMA UnitsPut ==
  ASSUME NEW rows, NEW new, NEW r \in ReservationId, NEW a,
         \A q \in ReservationId : q # r => new[q] = rows[q]
  PROVE  UnitsReplaced(rows, new, r, a)
<1>1. ASSUME NEW x
      PROVE  x \in UnitsIn(new, a) <=>
               \/ x \in UnitsIn(rows, a) /\ x \notin UnitsOfOne(r, rows[r].asset, rows[r].remaining, a)
               \/ x \in UnitsOfOne(r, new[r].asset, new[r].remaining, a)
  <2>1. x \in UnitsIn(new, a) <=>
          \E q \in ReservationId : <<q[1], new[q].asset>> = a /\ x \in UnitsTo(q, new[q].remaining)
    BY UnitMember
  <2>2. x \in UnitsIn(rows, a) <=>
          \E q \in ReservationId : <<q[1], rows[q].asset>> = a /\ x \in UnitsTo(q, rows[q].remaining)
    BY UnitMember
  <2>3. \A q, n : x \in UnitsTo(q, n) => x[1] = q
    BY DEF UnitsTo
  <2>4. CASE x[1] = r
    <3>1. x \in UnitsIn(new, a) <=> x \in UnitsOfOne(r, new[r].asset, new[r].remaining, a)
      BY <2>1, <2>3, <2>4 DEF UnitsOfOne
    <3>2. x \in UnitsIn(rows, a) <=> x \in UnitsOfOne(r, rows[r].asset, rows[r].remaining, a)
      BY <2>2, <2>3, <2>4 DEF UnitsOfOne
    <3> QED BY <3>1, <3>2
  <2>5. CASE x[1] # r
    <3>1. \A asset, n : x \notin UnitsOfOne(r, asset, n, a)
      BY <2>3, <2>5 DEF UnitsOfOne
    <3>2. x \in UnitsIn(new, a) <=> x \in UnitsIn(rows, a)
      BY <2>1, <2>2, <2>3, <2>5
    <3> QED BY <3>1, <3>2
  <2> QED BY <2>4, <2>5
<1> QED BY <1>1 DEF UnitsReplaced

LEMMA UnitsHeld ==
  ASSUME NEW rows, NEW r \in ReservationId, NEW a
  PROVE  UnitsOfOne(r, rows[r].asset, rows[r].remaining, a) \subseteq UnitsIn(rows, a)
  BY UnitMember DEF UnitsOfOne

(***************************************************************************)
(* The property, with the finiteness its counting needs: nothing bounds the *)
(* number of reservations but the steps that make them.                     *)
(***************************************************************************)
Covered ==
  \A a \in Account : /\ IsFiniteSet(UnitsIn(reservation, a))
                     /\ Cardinality(UnitsIn(reservation, a)) <= locked[a]

LEMMA CoveredMore ==
  ASSUME StoreOK, Covered, UNCHANGED reservation, locked' \in [Account -> Nat],
         \A a \in Account : locked[a] <= locked'[a]
  PROVE  Covered'
<1> SUFFICES ASSUME NEW a \in Account
             PROVE  /\ IsFiniteSet(UnitsIn(reservation, a))
                    /\ Cardinality(UnitsIn(reservation, a)) <= locked'[a]
  BY DEF Covered, UnitsIn
<1>1. IsFiniteSet(UnitsIn(reservation, a)) /\ Cardinality(UnitsIn(reservation, a)) <= locked[a]
  BY DEF Covered
<1>2. PICK n \in Nat : n = Cardinality(UnitsIn(reservation, a))
  BY <1>1, FS_CardinalityType
<1>3. PICK l \in Nat, k \in Nat : l = locked[a] /\ k = locked'[a] /\ l <= k
  BY DEF StoreOK, BalancesOK
<1> QED BY <1>1, <1>2, <1>3

\* The margin of a new reservation is locked with it.
LEMMA CoveredReserve ==
  ASSUME StoreOK, Covered, NEW r \in ReservationId, NEW row \in ReservationRow,
         NEW n \in Nat, row.remaining = n,
         reservation' = [reservation EXCEPT ![r] = row],
         <<r[1], row.asset>> \in Account,
         locked' = [locked EXCEPT ![<<r[1], row.asset>>] = @ + n]
  PROVE  Covered'
<1> SUFFICES ASSUME NEW a \in Account
             PROVE  /\ IsFiniteSet(UnitsIn(reservation', a))
                    /\ Cardinality(UnitsIn(reservation', a)) <= locked'[a]
  BY DEF Covered, UnitsIn
<1>1. PICK S, T : S = UnitsIn(reservation, a) /\ T = UnitsIn(reservation', a)
  OBVIOUS
<1>2. IsFiniteSet(S) /\ Cardinality(S) <= locked[a]
  BY <1>1 DEF Covered
<1>3. Cardinality(S) \in Nat /\ locked[a] \in Nat
  BY <1>2, FS_CardinalityType DEF StoreOK, BalancesOK
<1>4. T \subseteq S \cup UnitsOfOne(r, row.asset, n, a)
  <2>1. reservation \in [ReservationId -> ReservationRow]
    BY DEF StoreOK, RowsOK
  <2>2. UnitsIn(reservation', a) =
          (UnitsIn(reservation, a) \ UnitsOfOne(r, reservation[r].asset, reservation[r].remaining, a))
            \cup UnitsOfOne(r, row.asset, row.remaining, a)
    <3>1. PICK rows, new : rows = reservation /\ new = reservation'
      OBVIOUS
    <3>2. new[r] = row /\ \A q \in ReservationId : q # r => new[q] = rows[q]
      BY <2>1, <3>1
    <3>3. UnitsReplaced(rows, new, r, a)
      BY <3>2, UnitsPut
    <3> QED BY <3>1, <3>2, <3>3 DEF UnitsReplaced
  <2> QED BY <1>1, <2>2
<1>5. CASE a = <<r[1], row.asset>>
  <2>1. T \subseteq S \cup UnitsTo(r, n)
    BY <1>4, <1>5 DEF UnitsOfOne
  <2>2. IsFiniteSet(T) /\ Cardinality(T) <= Cardinality(S) + n
    BY <1>2, <2>1, UnitsAdded
  <2>3. Cardinality(T) \in Nat
    BY <2>2, FS_CardinalityType
  <2>4. locked'[a] = locked[a] + n
    BY <1>5 DEF StoreOK, BalancesOK
  <2> QED BY <1>1, <1>2, <1>3, <2>2, <2>3, <2>4
<1>6. CASE a # <<r[1], row.asset>>
  <2>1. T \subseteq S
    BY <1>4, <1>6 DEF UnitsOfOne
  <2>2. IsFiniteSet(T) /\ Cardinality(T) <= Cardinality(S)
    BY <1>2, <2>1, FS_Subset
  <2>3. Cardinality(T) \in Nat
    BY <2>2, FS_CardinalityType
  <2>4. locked'[a] = locked[a]
    BY <1>6 DEF StoreOK, BalancesOK
  <2> QED BY <1>1, <1>2, <1>3, <2>2, <2>3, <2>4
<1> QED BY <1>5, <1>6

\* What a reservation still holds is locked.
LEMMA ReservationLocked ==
  ASSUME StoreOK, Covered, NEW r \in ReservationId
  PROVE  /\ <<r[1], reservation[r].asset>> \in Account
         /\ reservation[r].remaining \in Nat
         /\ reservation[r].remaining <= locked[<<r[1], reservation[r].asset>>]
<1>1. PICK a, n : a = <<r[1], reservation[r].asset>> /\ n = reservation[r].remaining
  OBVIOUS
<1>2. a \in Account /\ n \in Nat
  BY <1>1 DEF StoreOK, RowsOK, ReservationRow, ReservationId, Account
<1>3. PICK S : S = UnitsIn(reservation, a)
  OBVIOUS
<1>4. IsFiniteSet(S) /\ Cardinality(S) <= locked[a] /\ locked[a] \in Nat
  BY <1>2, <1>3 DEF Covered, StoreOK, BalancesOK
<1>5. UnitsTo(r, n) \subseteq S
  BY <1>1, <1>3, UnitsHeld DEF UnitsOfOne
<1>6. 0 \in Nat /\ 0 <= n
  BY <1>2
<1>7. PICK T : T = (S \ UnitsTo(r, n)) \cup UnitsTo(r, 0)
  OBVIOUS
<1>8. n - 0 <= Cardinality(S) /\ Cardinality(S) \in Nat
  BY <1>2, <1>4, <1>5, <1>6, <1>7, UnitsTaken
<1> QED BY <1>1, <1>2, <1>4, <1>8

\* What is consumed of a reservation is unlocked with it.
LEMMA CoveredConsume ==
  ASSUME StoreOK, Covered, NEW r \in ReservationId, NEW row \in ReservationRow,
         NEW n \in Nat, n <= reservation[r].remaining,
         row.remaining = reservation[r].remaining - n, row.asset = reservation[r].asset,
         reservation' = [reservation EXCEPT ![r] = row],
         locked' = [locked EXCEPT ![<<r[1], reservation[r].asset>>] = @ - n]
  PROVE  Covered'
<1> SUFFICES ASSUME NEW a \in Account
             PROVE  /\ IsFiniteSet(UnitsIn(reservation', a))
                    /\ Cardinality(UnitsIn(reservation', a)) <= locked'[a]
  BY DEF Covered, UnitsIn
<1>1. PICK S, T : S = UnitsIn(reservation, a) /\ T = UnitsIn(reservation', a)
  OBVIOUS
<1>2. IsFiniteSet(S) /\ Cardinality(S) <= locked[a]
  BY <1>1 DEF Covered
<1>3. Cardinality(S) \in Nat /\ locked[a] \in Nat
  BY <1>2, FS_CardinalityType DEF StoreOK, BalancesOK
<1>4. PICK old \in Nat, left \in Nat : old = reservation[r].remaining /\ left = row.remaining
  BY DEF StoreOK, RowsOK, ReservationRow
<1>5. left <= old /\ old - left = n
  BY <1>4
<1>6. T = (S \ UnitsOfOne(r, row.asset, old, a)) \cup UnitsOfOne(r, row.asset, left, a)
  <2>1. reservation \in [ReservationId -> ReservationRow]
    BY DEF StoreOK, RowsOK
  <2>2. UnitsIn(reservation', a) =
          (UnitsIn(reservation, a) \ UnitsOfOne(r, reservation[r].asset, reservation[r].remaining, a))
            \cup UnitsOfOne(r, row.asset, row.remaining, a)
    <3>1. PICK rows, new : rows = reservation /\ new = reservation'
      OBVIOUS
    <3>2. new[r] = row /\ \A q \in ReservationId : q # r => new[q] = rows[q]
      BY <2>1, <3>1
    <3>3. UnitsReplaced(rows, new, r, a)
      BY <3>2, UnitsPut
    <3> QED BY <3>1, <3>2, <3>3 DEF UnitsReplaced
  <2> QED BY <1>1, <1>4, <2>2
<1>7. CASE a = <<r[1], row.asset>>
  <2>1. T = (S \ UnitsTo(r, old)) \cup UnitsTo(r, left)
    BY <1>6, <1>7 DEF UnitsOfOne
  <2>2. UnitsTo(r, old) \subseteq S
    BY <1>1, <1>4, <1>7, UnitsHeld DEF UnitsOfOne
  <2>3. IsFiniteSet(T) /\ Cardinality(T) = Cardinality(S) - (old - left)
    <3>1. left <= old
      BY <1>5
    <3> HIDE <1>5
    <3> QED BY <1>2, <2>1, <2>2, <3>1, UnitsTaken
  <2>4. locked'[a] = locked[a] - n
    BY <1>7 DEF StoreOK, BalancesOK
  <2> QED BY <1>1, <1>2, <1>3, <1>5, <2>3, <2>4
<1>8. CASE a # <<r[1], row.asset>>
  <2>1. T = S
    BY <1>6, <1>8 DEF UnitsOfOne
  <2>2. locked'[a] = locked[a]
    BY <1>8 DEF StoreOK, BalancesOK
  <2> QED BY <1>1, <1>2, <2>1, <2>2
<1> QED BY <1>7, <1>8

\* A committed transaction that computed with the row as it is keeps the
\* reservations covered.
LEMMA CommitCovers ==
  ASSUME StoreOK, StoreOK', Covered, NEW cmd \in Command, NEW req, NEW row \in ReservationRow,
         Outcome(cmd, req, row) = "ok", Commit(cmd, req, row),
         row.status # "NONE" => row = reservation[cmd.res]
  PROVE  Covered'
<1>1. CASE cmd.type \in {"Deposit", "Withdraw", "CancelOrderIntent"}
  <2>1. UNCHANGED <<locked, reservation>>
    BY <1>1 DEF Commit, ApplyDeposit, ApplyWithdraw, ForwardCancel
  <2> QED BY <2>1 DEF Covered, UnitsIn
<1>2. CASE cmd.type = "PlaceOrderIntent"
  <2>0. /\ cmd.user \in User /\ cmd.key \in Key /\ cmd.amount \in Nat /\ cmd.asset \in Asset
        /\ <<cmd.user, cmd.key>> \in ReservationId
    BY <1>2, CommandFields DEF ReservationId, ClientCommandType
  <2>1. PICK r \in ReservationId, n \in Nat, asset \in Asset :
          r = <<cmd.user, cmd.key>> /\ n = cmd.amount /\ asset = cmd.asset /\ r[1] = cmd.user
          /\ cmd.user \in User
    BY <2>0
  <2>2. PICK new : new = [asset |-> asset, amount |-> n, remaining |-> n, status |-> "ACTIVE"]
    OBVIOUS
  <2>3. new \in ReservationRow /\ new.asset = asset /\ new.remaining = n
    BY <2>2 DEF ReservationRow
  <2>4. /\ reservation' = [reservation EXCEPT ![r] = new]
        /\ locked' = [locked EXCEPT ![<<r[1], new.asset>>] = @ + n]
    BY <1>2, <2>1, <2>2, <2>3 DEF Commit, ReserveFunds
  <2>5. <<r[1], new.asset>> \in Account
    BY <2>1, <2>3 DEF Account
  <2> QED BY <2>3, <2>4, <2>5, CoveredReserve
<1>3. ASSUME cmd.res \in ReservationId, row = reservation[cmd.res], NEW n \in Nat, n <= row.remaining,
             NEW closing \in {"RELEASED", "SETTLED"},
             reservation' = Consume(cmd, row, n, closing),
             locked' = [locked EXCEPT ![<<cmd.res[1], row.asset>>] = @ - n]
      PROVE  Covered'
  <2>1. PICK r \in ReservationId : r = cmd.res
    BY <1>3
  <2>2. PICK ended \in {"RELEASED", "SETTLED", "ACTIVE"} :
          ended = IF row.remaining = n THEN closing ELSE "ACTIVE"
    OBVIOUS
  <2>3. PICK left \in Nat : left = row.remaining - n
    BY <1>3 DEF ReservationRow
  <2>4. PICK new : new = [row EXCEPT !.remaining = left, !.status = ended]
    OBVIOUS
  <2>5. new \in ReservationRow /\ new.remaining = left /\ new.asset = row.asset
    BY <2>4 DEF ReservationRow
  <2>6. reservation' = [reservation EXCEPT ![r] = new]
    BY <1>3, <2>1, <2>2, <2>3, <2>4 DEF Consume
  <2> QED BY <1>3, <2>1, <2>3, <2>5, <2>6, CoveredConsume
<1>4. CASE cmd.type = "ReleaseReservation"
  <2>1. ReleaseReservation(cmd, row) /\ ReleaseOutcome(cmd, row) = "ok"
    BY <1>4 DEF Commit, Outcome
  <2>2. PICK n \in Nat : n = cmd.amount /\ cmd.res \in ReservationId
    BY <1>4, CommandFields DEF ReservationId
  <2>3. row.status # "NONE" /\ n <= row.remaining
    BY <2>1, <2>2 DEF ReleaseOutcome, ReservationRow
  <2>4. PICK a \in Account : a = <<cmd.res[1], row.asset>> /\ row.remaining <= locked[a]
    BY <2>2, <2>3, ReservationLocked
  <2>5. locked' = [locked EXCEPT ![a] = @ - n]
    BY <2>1, <2>2, <2>3, <2>4 DEF ReleaseReservation, Unlock, StoreOK, BalancesOK, ReservationRow
  <2>6. reservation' = Consume(cmd, row, n, "RELEASED")
    BY <2>1, <2>2 DEF ReleaseReservation
  <2> QED BY <1>3, <2>2, <2>3, <2>4, <2>5, <2>6
<1>5. CASE cmd.type = "SettleTrade"
  <2>1. SettleTrade(cmd, row) /\ SettleOutcome(cmd, row) = "ok"
    BY <1>5 DEF Commit, Outcome
  <2>2. PICK n \in Nat : n = cmd.debitAmount /\ cmd.res \in ReservationId
    BY <1>5, CommandFields DEF ReservationId
  <2>3. row.status # "NONE" /\ n <= row.remaining /\ row.asset = cmd.debitAsset
    BY <2>1, <2>2 DEF SettleOutcome, ReservationRow
  <2>4. PICK a \in Account : a = <<cmd.res[1], row.asset>> /\ row.remaining <= locked[a]
    BY <2>2, <2>3, ReservationLocked
  <2>5. n <= locked[a] /\ n <= total[a]
    BY <2>3, <2>4 DEF StoreOK, BalancesOK, LockedWithinTotal, ReservationRow
  <2>6. Covers(a, n)
    BY <2>4, <2>5 DEF Covers, StoreOK, BalancesOK
  <2>7. Unlock(a, n) = [locked EXCEPT ![a] = @ - n]
    BY <2>4, <2>5 DEF Unlock, StoreOK, BalancesOK
  <2>8. locked' = [locked EXCEPT ![a] = @ - n]
    BY <2>1, <2>2, <2>3, <2>4, <2>6, <2>7 DEF SettleTrade
  <2>9. reservation' = Consume(cmd, row, n, "SETTLED")
    BY <2>1, <2>2 DEF SettleTrade
  <2> QED BY <1>3, <2>2, <2>3, <2>4, <2>8, <2>9
<1>6. CASE cmd.type = "ApplyAccountDelta"
  <2>1. ApplyAccountDelta(cmd) /\ DeltaOutcome(cmd) = "ok"
    BY <1>6 DEF Commit, Outcome
  <2>0. cmd.lockedDelta \in Int /\ <<cmd.user, cmd.asset>> \in Account /\ DeltaSelected(cmd)
    BY <1>6, <2>1, CommandFields DEF DeltaOutcome, Account
  <2>2. PICK d \in Nat, a \in Account : d = cmd.lockedDelta /\ a = <<cmd.user, cmd.asset>>
    BY <2>0 DEF DeltaSelected
  <2>3. locked' = [locked EXCEPT ![a] = @ + d] /\ UNCHANGED reservation
    BY <2>1, <2>2 DEF ApplyAccountDelta
  <2>4. locked' \in [Account -> Nat] /\ \A x \in Account : locked[x] <= locked'[x]
    BY <2>3 DEF StoreOK, BalancesOK
  <2> QED BY <2>3, <2>4, CoveredMore
<1> QED BY <1>1, <1>2, <1>4, <1>5, <1>6, CommandFields DEF ClientCommandType

(***************************************************************************)
(* An order is sent to one market: the outbox holds one row per dedupe key. *)
(***************************************************************************)
OneRowPerKey ==
  \A i, j \in DOMAIN outbox : outbox[i].dedupe = outbox[j].dedupe => i = j

RowsStay == \A i \in DOMAIN outbox : i \in DOMAIN outbox' /\ outbox'[i] = outbox[i]

LEMMA EnqueueKeepsRows ==
  ASSUME OutboxIsSeq, OneRowPerKey, NEW row, outbox' = Enqueue(outbox, row)
  PROVE  OneRowPerKey' /\ RowsStay
<1>1. CASE Enqueued(row.dedupe)
  BY <1>1 DEF Enqueue, OneRowPerKey, RowsStay
<1>2. CASE ~Enqueued(row.dedupe)
  <2>1. outbox' = Append(outbox, row)
    BY <1>2 DEF Enqueue
  <2>2. PICK S : outbox \in Seq(S) /\ row \in S
    <3>1. PICK R : outbox \in Seq(R)
      BY DEF OutboxIsSeq
    <3>2. outbox \in Seq(R \cup {row})
      BY <3>1
    <3> QED BY <3>2
  <2>3. \A i \in DOMAIN outbox : outbox[i].dedupe # row.dedupe
    BY <1>2 DEF Enqueued
  <2>4. PICK box, new : box = outbox /\ new = outbox'
    OBVIOUS
  <2>5. /\ \A i, j \in DOMAIN new : new[i].dedupe = new[j].dedupe => i = j
        /\ \A i \in DOMAIN box : i \in DOMAIN new /\ new[i] = box[i]
    BY <2>1, <2>2, <2>3, <2>4, AppendKeepsRows DEF OneRowPerKey
  <2> QED BY <2>4, <2>5 DEF OneRowPerKey, RowsStay
<1> QED BY <1>1, <1>2

LEMMA EnqueueTwoKeepsRows ==
  ASSUME OutboxIsSeq, OneRowPerKey, NEW first, NEW second, first.dedupe # second.dedupe,
         ~Enqueued(first.dedupe), ~Enqueued(second.dedupe),
         outbox' = Enqueue(Enqueue(outbox, first), second)
  PROVE  OneRowPerKey' /\ RowsStay
<1>1. PICK S : outbox \in Seq(S) /\ first \in S /\ second \in S
  <2>1. PICK R : outbox \in Seq(R)
    BY DEF OutboxIsSeq
  <2>2. outbox \in Seq(R \cup {first, second})
    BY <2>1
  <2> QED BY <2>2
<1>2. PICK box, mid, new : box = outbox /\ mid = Append(box, first) /\ new = outbox'
  OBVIOUS
<1>3. new = Append(mid, second)
  BY <1>2 DEF Enqueue
<1>4. /\ \A i \in DOMAIN box : box[i].dedupe # first.dedupe
      /\ \A i \in DOMAIN box : box[i].dedupe # second.dedupe
      /\ \A i, j \in DOMAIN box : box[i].dedupe = box[j].dedupe => i = j
  BY <1>2 DEF Enqueued, OneRowPerKey
<1>5. /\ mid \in Seq(S)
      /\ \A i, j \in DOMAIN mid : mid[i].dedupe = mid[j].dedupe => i = j
      /\ \A i \in DOMAIN box : i \in DOMAIN mid /\ mid[i] = box[i]
      /\ \A i \in DOMAIN mid : i \in DOMAIN box \/ mid[i] = first
  BY <1>1, <1>2, <1>4, AppendKeepsRows
<1>6. \A i \in DOMAIN mid : mid[i].dedupe # second.dedupe
  BY <1>4, <1>5
<1>7. /\ \A i, j \in DOMAIN new : new[i].dedupe = new[j].dedupe => i = j
      /\ \A i \in DOMAIN mid : i \in DOMAIN new /\ new[i] = mid[i]
  BY <1>1, <1>3, <1>5, <1>6, AppendKeepsRows
<1> QED BY <1>2, <1>5, <1>7 DEF OneRowPerKey, RowsStay

LEMMA CommitKeepsRows ==
  ASSUME EffectsMatch, OneRowPerKey, NEW cmd \in Command, NEW req, NEW row, Commit(cmd, req, row),
         cmd.type \in ClientCommandType => idempotency[ReplyKeyOf(cmd)] = NoReply
  PROVE  OneRowPerKey' /\ RowsStay
<1>1. CASE cmd.type = "PlaceOrderIntent"
  <2>1. PICK u \in User, k \in Key : u = cmd.user /\ k = cmd.key
    BY <1>1, CommandFields DEF ClientCommandType
  <2>2. idempotency[<<u, "PlaceOrderIntent", k>>].type # "FundsReserved"
    BY <1>1, <2>1 DEF ClientCommandType, ReplyKeyOf, NoReply
  <2>3. ~Enqueued(<<"funds-reserved", <<u, k>> >>) /\ ~Enqueued(<<"place-order", u, k>>)
    BY <2>2 DEF EffectsMatch, RepliesMatchEffects
  <2>4. PICK first, second : first = FundsReserved(cmd, req) /\ second = PlaceOrder(cmd, req)
    OBVIOUS
  <2>5. first.dedupe = <<"funds-reserved", <<u, k>> >> /\ second.dedupe = <<"place-order", u, k>>
    BY <2>1, <2>4 DEF FundsReserved, PlaceOrder, WalletEventRow, EngineInputRow
  <2>6. outbox' = Enqueue(Enqueue(outbox, first), second)
    BY <1>1, <2>4 DEF Commit, ReserveFunds
  <2>7. first.dedupe # second.dedupe
    BY <2>5
  <2> QED BY <2>3, <2>5, <2>6, <2>7, EnqueueTwoKeepsRows DEF EffectsMatch
<1>2. CASE cmd.type # "PlaceOrderIntent"
  <2>1. \E new : outbox' = Enqueue(outbox, new)
    BY <1>2 DEF Commit, ApplyDeposit, ApplyWithdraw, ForwardCancel, ReleaseReservation, SettleTrade,
                ApplyAccountDelta
  <2> QED BY <2>1, EnqueueKeepsRows DEF EffectsMatch
<1> QED BY <1>1, <1>2

(***************************************************************************)
(* So the engine events about a reservation are all on one partition, and   *)
(* one task handles them: the row its transaction has read is the row that  *)
(* it writes.                                                               *)
(***************************************************************************)
Ordered(p, cmd) ==
  cmd.type \in {"ReleaseReservation", "SettleTrade"} =>
    \E m \in Market : MarketPartition[m] = p /\ OrderedAt(m, cmd.res)

LogsOrdered ==
  \A p \in Partition : \A n \in DOMAIN log[p] : \A k \in DOMAIN log[p][n] : Ordered(p, log[p][n][k])

SeenFresh == \A t \in Task : seen[t].status # "NONE" => seen[t] = reservation[Cmd(t).res]

CoverInv == OneRowPerKey /\ LogsOrdered /\ SeenFresh /\ Covered

LEMMA ReservationsApart ==
  ASSUME OneWallet, TasksOK, LogsOK, OneRowPerKey, LogsOrdered,
         NEW t \in Task, NEW q \in Task, q # t, AtCommand(t), AtCommand(q),
         Cmd(t).type \in {"ReleaseReservation", "SettleTrade"},
         Cmd(q).type \in {"ReleaseReservation", "SettleTrade"}
  PROVE  Cmd(q).res # Cmd(t).res
<1>1. q[1] = t[1] /\ q = <<q[1], q[2]>> /\ t = <<t[1], t[2]>>
  BY DEF OneWallet, Task
<1>2. ASSUME NEW s \in Task, AtCommand(s) PROVE Ordered(s[2], Cmd(s))
  <2>1. s[2] \in Partition
    BY CmdType
  <2>2. log[s[2]] \in Seq(Seq(Command)) /\ next[s] \in Nat \ {0} /\ pos[s] \in Nat \ {0}
    BY <2>1 DEF LogsOK, TasksOK
  <2>3. next[s] \in DOMAIN log[s[2]]
    BY <1>2, <2>2 DEF AtCommand, HasRecord
  <2>4. log[s[2]][next[s]] \in Seq(Command)
    BY <2>2, <2>3
  <2>5. pos[s] \in DOMAIN log[s[2]][next[s]]
    BY <1>2, <2>2, <2>4 DEF AtCommand, Record
  <2> QED BY <2>1, <2>3, <2>5 DEF LogsOrdered, Cmd, Record
<1>3. PICK m \in Market : MarketPartition[m] = t[2] /\ OrderedAt(m, Cmd(t).res)
  BY <1>2 DEF Ordered
<1>4. PICK k \in Market : MarketPartition[k] = q[2] /\ OrderedAt(k, Cmd(q).res)
  BY <1>2 DEF Ordered
<1>5. m # k
  BY <1>1, <1>3, <1>4
<1>6. \A r : OrderedAt(m, r) /\ OrderedAt(k, r) => m = k
  BY DEF OrderedAt, OneRowPerKey
<1> QED BY <1>3, <1>4, <1>5, <1>6

\* Steps that leave reservations, balances and outbox alone, and of which every
\* task that is in a transaction afterwards has read its row as it is.
LEMMA KeepsCover ==
  ASSUME CoverInv, TasksFollow', UNCHANGED <<outbox, reservation, locked, log>>,
         \A q \in Task : phase'[q] = "tx" /\ seen'[q].status # "NONE" =>
           /\ next'[q] = next[q] /\ pos'[q] = pos[q]
           /\ seen'[q] = seen[q] \/ seen'[q] = reservation[Cmd(q).res]
  PROVE  CoverInv'
<1> USE DEF CoverInv
<1>1. OneRowPerKey' /\ Covered'
  BY DEF OneRowPerKey, Covered, UnitsIn
<1>2. LogsOrdered'
  <2>1. \A m, r : OrderedAt(m, r)' <=> OrderedAt(m, r)
    BY DEF OrderedAt
  <2> QED BY <2>1 DEF LogsOrdered, Ordered
<1>3. ASSUME NEW q \in Task, seen'[q].status # "NONE"
      PROVE  seen'[q] = (reservation[Cmd(q).res])'
  <2>1. phase'[q] = "tx"
    BY <1>3 DEF TasksFollow, TaskFollows
  <2>2. Cmd(q)' = Cmd(q)
    BY <1>3, <2>1 DEF Cmd, Record
  <2>3. seen'[q] = reservation[Cmd(q).res]
    BY <1>3, <2>1 DEF SeenFresh
  <2> QED BY <2>2, <2>3
<1> QED BY <1>1, <1>2, <1>3 DEF SeenFresh

LEMMA MovesKeepCover ==
  ASSUME WalletInv, RepliesInv, CoverInv, RepliesInv', NEW t \in Task,
         \/ LookupReply(t) \/ ReadReservation(t) \/ SkipDelta(t) \/ RejectFunds(t)
         \/ RecordRejection(t) \/ PublishReply(t) \/ SaveOffset(t)
  PROVE  CoverInv'
<1>1. UNCHANGED <<outbox, reservation, locked, log>>
  BY DEF LookupReply, ReadReservation, SkipDelta, RejectFunds, RecordRejection, RecordReply,
         PublishReply, SaveOffset, tables
<1>2. NoReservation.status = "NONE"
  BY DEF NoReservation
<1>3. ASSUME NEW q \in Task, q # t
      PROVE  next'[q] = next[q] /\ pos'[q] = pos[q] /\ seen'[q] = seen[q]
  BY <1>3 DEF WalletInv, TasksOK, LookupReply, ReadReservation, SkipDelta, RejectFunds,
              RecordRejection, PublishReply, SaveOffset, NextCommand, Goto
<1>4. \/ seen'[t] = NoReservation
      \/ phase'[t] = "ready"
      \/ seen'[t] = reservation[Cmd(t).res] /\ next'[t] = next[t] /\ pos'[t] = pos[t]
  BY DEF WalletInv, TasksOK, LookupReply, ReadReservation, SkipDelta, RejectFunds,
         RecordRejection, PublishReply, SaveOffset, NextCommand, Goto
<1> QED BY <1>1, <1>2, <1>3, <1>4, KeepsCover DEF RepliesInv

LEMMA ProcessKeepsCover ==
  ASSUME WalletInv, RepliesInv, CoverInv, RepliesInv', NEW i \in Instance,
         UNCHANGED <<tables, log>>,
         \/ \E why, p : Stop(i, why, p)
         \/ Restart(i)
  PROVE  CoverInv'
<1>1. UNCHANGED <<outbox, reservation, locked, log>>
  BY DEF tables
<1>2. ASSUME NEW q \in Task, phase'[q] = "tx"
      PROVE  next'[q] = next[q] /\ pos'[q] = pos[q] /\ seen'[q] = seen[q]
  <2>1. CASE \E why, p : Stop(i, why, p)
    BY <1>2, <2>1 DEF Stop
  <2>2. CASE Restart(i)
    <3>1. phase[q] = "tx" /\ ~Up(i)
      BY <1>2, <2>2 DEF Restart
    <3>2. q[1] # i
      BY <3>1 DEF RepliesInv, TasksFollow, TaskFollows, Running
    <3> QED BY <2>2, <3>2 DEF Restart
  <2> QED BY <2>1, <2>2
<1> QED BY <1>1, <1>2, KeepsCover DEF RepliesInv

LEMMA CommitKeepsCover ==
  ASSUME OneWallet, WalletInv, RepliesInv, CoverInv, WalletInv', RepliesInv',
         NEW t \in Task, CommitTransaction(t)
  PROVE  CoverInv'
<1> USE DEF WalletInv, RepliesInv, CoverInv
<1>1. /\ UNCHANGED <<log, fault, replies>> /\ AtCommand(t)
      /\ phase[t] = "tx" \/ Cmd(t).type = "ApplyAccountDelta"
      /\ Outcome(Cmd(t), Req(t), seen[t]) = "ok" /\ Commit(Cmd(t), Req(t), seen[t])
  BY DEF CommitTransaction, InTransaction, Result
<1>2. PICK cmd \in Command, row \in ReservationRow, req \in {Req(t)} : cmd = Cmd(t) /\ row = seen[t]
  BY <1>1, CmdType DEF TasksOK
<1>3. /\ cmd.type \in ClientCommandType => idempotency[ReplyKeyOf(cmd)] = NoReply
      /\ row.status # "NONE" => row = reservation[cmd.res]
  <2>1. TaskFollows(t)
    BY DEF TasksFollow
  <2> QED BY <1>1, <1>2, <2>1 DEF TaskFollows, SeenFresh, KeyOf, ClientCommandType
<1>4. Outcome(cmd, req, row) = "ok" /\ Commit(cmd, req, row)
  BY <1>1, <1>2
<1>5. Covered'
  BY <1>3, <1>4, CommitCovers
<1>6. OneRowPerKey' /\ RowsStay
  BY <1>3, <1>4, CommitKeepsRows
<1>7. LogsOrdered'
  <2>1. \A m, r : OrderedAt(m, r) => OrderedAt(m, r)'
    BY <1>6 DEF OrderedAt, RowsStay
  <2> QED BY <1>1, <2>1 DEF LogsOrdered, Ordered
<1>8. ASSUME NEW q \in Task, seen'[q].status # "NONE"
      PROVE  seen'[q] = (reservation[Cmd(q).res])'
  <2>1. seen'[t] = NoReservation /\ NoReservation.status = "NONE"
    BY DEF CommitTransaction, NextCommand, Goto, TasksOK, NoReservation
  <2>2. q # t
    BY <1>8, <2>1
  <2>3. seen'[q] = seen[q] /\ next'[q] = next[q] /\ pos'[q] = pos[q]
    BY <2>2 DEF CommitTransaction, NextCommand, Goto, TasksOK
  <2>4. /\ seen[q] = reservation[Cmd(q).res] /\ AtCommand(q) /\ Cmd(q)' = Cmd(q)
        /\ Cmd(q).type \in {"ReleaseReservation", "SettleTrade"}
    BY <1>1, <1>8, <2>3 DEF SeenFresh, TasksFollow, TaskFollows, Cmd, Record
  <2>5. PICK r \in ReservationId : r = Cmd(q).res
    BY <2>4, CmdType, CommandFields DEF ReservationId
  <2>6. reservation[r].status # "NONE"
    BY <1>8, <2>3, <2>4, <2>5
  <2>7. reservation'[r] = reservation[r]
    <3>1. CASE cmd.type = "PlaceOrderIntent"
      <4>1. reservation[<<cmd.user, cmd.key>>].status = "NONE"
        BY <1>4, <3>1 DEF Outcome, ReserveOutcome
      <4>2. r # <<cmd.user, cmd.key>>
        BY <2>6, <4>1
      <4> QED BY <1>4, <3>1, <4>2 DEF Commit, ReserveFunds, StoreOK, RowsOK
    <3>2. CASE cmd.type \in {"ReleaseReservation", "SettleTrade"}
      <4>1. r # cmd.res
        BY <1>1, <1>2, <2>2, <2>4, <2>5, <3>2, ReservationsApart
      <4>2. \E n, closing : reservation' = Consume(cmd, row, n, closing)
        BY <1>4, <3>2 DEF Commit, ReleaseReservation, SettleTrade
      <4> QED BY <4>1, <4>2 DEF Consume, StoreOK, RowsOK
    <3>3. CASE cmd.type \notin {"PlaceOrderIntent", "ReleaseReservation", "SettleTrade"}
      BY <1>4, <3>3 DEF Commit, ApplyDeposit, ApplyWithdraw, ForwardCancel, ApplyAccountDelta
    <3> QED BY <3>1, <3>2, <3>3
  <2> QED BY <2>3, <2>4, <2>5, <2>7
<1> QED BY <1>5, <1>6, <1>7, <1>8 DEF SeenFresh

\* Clients write commands that order nothing of the engine's; the engine writes
\* about the orders of the market it writes for.
LEMMA EnvironmentOrders ==
  ASSUME WalletInv, Environment
  PROVE  /\ UNCHANGED <<tables, task>>
         /\ \E p \in Partition : \E record \in Seq(Command) :
              Write(p, record) /\ \A k \in DOMAIN record : Ordered(p, record[k])
<1> DEFINE Goal == /\ UNCHANGED <<tables, task>>
                   /\ \E p \in Partition : \E record \in Seq(Command) :
                        Write(p, record) /\ \A k \in DOMAIN record : Ordered(p, record[k])
<1>1. ASSUME NEW cmd \in ClientCommands, Submit(cmd) PROVE Goal
  <2>1. /\ cmd \in Command /\ cmd.type \notin {"ReleaseReservation", "SettleTrade"}
        /\ cmd.user \in User
    BY CommandAssumption DEF Command, ClientCommand
  <2>2. PICK p \in Partition : p = UserPartition[cmd.user]
    BY <2>1, PartitionAssumption DEF Partition
  <2>3. PICK record \in Seq(Command) : record = <<cmd>>
    BY <2>1, OneCommand
  <2>4. \A k \in DOMAIN record : Ordered(p, record[k])
    BY <2>1, <2>3 DEF Ordered
  <2> QED BY <1>1, <2>2, <2>3, <2>4 DEF Submit
<1>2. ASSUME NEW m \in Market, NEW record \in Seq(Command), Emit(m, record), EngineRecord(m, record)
      PROVE  Goal
  <2>1. PICK p \in Partition : p = MarketPartition[m]
    BY PartitionAssumption DEF Partition
  <2>2. \A k \in DOMAIN record : Ordered(p, record[k])
    BY <1>2, <2>1 DEF Ordered, EngineRecord
  <2> QED BY <1>2, <2>1, <2>2 DEF Emit
<1> HIDE DEF Goal
<1>3. ASSUME NEW m \in Market,
             EngineRelease(m) \/ EngineTrade(m) \/ EngineDelta(m) \/ EngineOther(m)
      PROVE  \E record \in Seq(Command) : Emit(m, record) /\ EngineRecord(m, record)
  BY <1>3, EngineWrites
<1> QED BY <1>1, <1>2, <1>3 DEF Environment, Goal

LEMMA EnvironmentKeepsCover ==
  ASSUME WalletInv, RepliesInv, CoverInv, Environment
  PROVE  CoverInv'
<1> USE DEF WalletInv, RepliesInv, CoverInv
<1>1. UNCHANGED <<outbox, reservation, locked, phase, seen, next, pos>>
  BY EnvironmentOrders DEF tables, task
<1>2. PICK p \in Partition, record \in Seq(Command) :
        Write(p, record) /\ \A k \in DOMAIN record : Ordered(p, record[k])
  BY EnvironmentOrders
<1>3. OneRowPerKey' /\ Covered'
  BY <1>1 DEF OneRowPerKey, Covered, UnitsIn
<1>4. LogsOrdered'
  <2> SUFFICES ASSUME NEW r \in Partition, NEW n \in DOMAIN log'[r], NEW k \in DOMAIN log'[r][n]
               PROVE  Ordered(r, log'[r][n][k])
    <3>1. \A m, x : OrderedAt(m, x)' <=> OrderedAt(m, x)
      BY <1>1 DEF OrderedAt
    <3> QED BY <3>1 DEF LogsOrdered, Ordered
  <2>1. log[r] \in Seq(Seq(Command))
    BY DEF LogsOK
  <2>2. log'[r] = IF r = p THEN Append(log[r], record) ELSE log[r]
    BY <1>2 DEF Write, LogsOK
  <2>3. \/ n \in DOMAIN log[r] /\ log'[r][n] = log[r][n]
        \/ r = p /\ log'[r][n] = record
    BY <2>1, <2>2
  <2> QED BY <1>2, <2>3 DEF LogsOrdered
<1>5. ASSUME NEW q \in Task, seen'[q].status # "NONE"
      PROVE  seen'[q] = (reservation[Cmd(q).res])'
  <2>1. seen[q] = reservation[Cmd(q).res] /\ AtCommand(q)
    BY <1>1, <1>5 DEF SeenFresh, TasksFollow, TaskFollows
  <2>2. Cmd(q)' = Cmd(q)
    BY <1>1, <1>2, <2>1, LogGrows
  <2> QED BY <1>1, <2>1, <2>2
<1> QED BY <1>3, <1>4, <1>5 DEF SeenFresh

LEMMA CoverNext ==
  OneWallet /\ AnswersInv /\ CoverInv /\ [Next]_vars => AnswersInv' /\ CoverInv'
<1> SUFFICES ASSUME OneWallet, AnswersInv, CoverInv, [Next]_vars PROVE AnswersInv' /\ CoverInv'
  OBVIOUS
<1>1. AnswersInv'
  BY AnswersNext
<1> SUFFICES CoverInv'
  BY <1>1
<1>2. WalletInv /\ RepliesInv /\ WalletInv' /\ RepliesInv'
  BY <1>1 DEF AnswersInv
<1>3. CASE UNCHANGED vars
  <2>1. UNCHANGED <<outbox, reservation, locked, log, phase, next, pos, seen>> /\ TasksFollow'
    BY <1>2, <1>3 DEF vars, task, tables, RepliesInv
  <2> QED BY <2>1, KeepsCover
<1>4. ASSUME NEW t \in Task, TaskStep(t) PROVE CoverInv'
  <2>1. CASE FailTransaction(t)
    <3>1. /\ UNCHANGED <<tables, log>> /\ t[1] \in Instance /\ \E why, p : Stop(t[1], why, p)
      BY <2>1 DEF FailTransaction, Task
    <3> QED BY <1>2, <3>1, ProcessKeepsCover
  <2>2. CASE ~FailTransaction(t)
    BY <1>2, <1>4, <2>2, MovesKeepCover, CommitKeepsCover DEF TaskStep
  <2> QED BY <2>1, <2>2
<1>5. ASSUME NEW i \in Instance, Crash(i) \/ Restart(i) PROVE CoverInv'
  <2>1. /\ UNCHANGED <<tables, log>>
        /\ (\E why, p : Stop(i, why, p)) \/ Restart(i)
    BY <1>5 DEF Crash, Restart
  <2> QED BY <1>2, <2>1, ProcessKeepsCover
<1>6. CASE Environment
  BY <1>2, <1>6, EnvironmentKeepsCover
<1>7. ASSUME NEW t \in Task, Poll(t) PROVE CoverInv'
  BY <1>3, <1>7 DEF Poll
<1> QED BY <1>3, <1>4, <1>5, <1>6, <1>7 DEF Next

LEMMA CoverInit == Init => CoverInv
<1> SUFFICES ASSUME Init PROVE CoverInv
  OBVIOUS
<1>1. OneRowPerKey
  BY DEF Init, EmptyTables, OneRowPerKey
<1>2. LogsOrdered
  BY DEF Init, LogsOrdered
<1>3. SeenFresh
  BY DEF Init, SeenFresh, NoReservation
<1>4. Covered
  <2> SUFFICES ASSUME NEW a \in Account
               PROVE  /\ IsFiniteSet(UnitsIn(reservation, a))
                      /\ Cardinality(UnitsIn(reservation, a)) <= locked[a]
    BY DEF Covered
  <2>1. UnitsIn(reservation, a) = {}
    <3>1. \A r \in ReservationId : reservation[r].remaining = 0
      BY DEF Init, EmptyTables, NoReservation
    <3>2. \A r : UnitsTo(r, 0) = {}
      BY DEF UnitsTo
    <3> QED BY <3>1, <3>2, UnitMember
  <2>2. locked[a] = 0
    BY DEF Init, EmptyTables
  <2> QED BY <2>1, <2>2, FS_EmptySet
<1> QED BY <1>1, <1>2, <1>3, <1>4 DEF CoverInv

(***************************************************************************)
(* With one wallet process, what is locked in an account covers its open    *)
(* reservations, so the UPDATE ... WHERE locked >= $3 of a release or a     *)
(* settlement, whose row count nobody looks at, never changes no row.       *)
(***************************************************************************)
THEOREM WalletLockedCoversReservations == OneWallet /\ Spec => []LockedCoversReservations
<1>1. CoverInv => LockedCoversReservations
  BY DEF CoverInv, Covered, UnitsIn, LockedCoversReservations, Reserved, ReservedUnits
<1>2. OneWallet => OneWallet'
  BY DEF OneWallet
<1> QED BY <1>1, <1>2, AnswersInit, CoverInit, CoverNext, PTL DEF Spec

-----------------------------------------------------------------------------
(***************************************************************************)
(* The rows of wallet_ledger that belong to an account, and their sum.      *)
(***************************************************************************)
RowsOf(rows, a) == {row \in rows : <<row.user, row.asset>> = a}

SumOf(rows, a) == MapThenSumSet(RowAmount, RowsOf(rows, a))

SummableRows(rows) == IsFiniteSet(rows) /\ \A row \in rows : row.amount \in Int

LEMMA AmountsAreSum ==
  ASSUME NEW S, SummableRows(S)
  PROVE  MapThenSumSet(RowAmount, S) = SumOver([x \in S |-> x.amount], S)
<1>1. PICK f : f = [x \in S |-> x.amount]
  OBVIOUS
<1> DEFINE Step(g, s) ==
             IF s = {} THEN 0
             ELSE RowAmount(CHOOSE x \in s : TRUE) + g[s \ {CHOOSE x \in s : TRUE}]
           fold == CHOOSE g : g = [s \in SUBSET S |-> Step(g, s)]
<1>2. MapThenSumSet(RowAmount, S) = fold[S]
  BY DEF MapThenSumSet, MapThenFoldSet
<1>3. \A g : Folds(g, f, S) <=> g = [s \in SUBSET S |-> Step(g, s)]
  <2>1. ASSUME NEW g, NEW s \in SUBSET S PROVE FoldStep(g, f, s) = Step(g, s)
    <3>1. s # {} => f[CHOOSE x \in s : TRUE] = RowAmount(CHOOSE x \in s : TRUE)
      BY <1>1 DEF RowAmount
    <3> QED BY <3>1 DEF FoldStep
  <2> HIDE DEF Step
  <2>2. ASSUME NEW g
        PROVE  [s \in SUBSET S |-> FoldStep(g, f, s)] = [s \in SUBSET S |-> Step(g, s)]
    BY <2>1
  <2> QED BY <2>2 DEF Folds
<1>4. IsFiniteSet(S) /\ \A x \in S : f[x] \in Int
  BY <1>1 DEF SummableRows
<1>5. \E g : Folds(g, f, S)
  BY <1>4, FoldExists
<1>6. Folds(fold, f, S)
  <2> HIDE DEF Step
  <2> QED BY <1>3, <1>5
<1> HIDE DEF fold
<1>7. fold[S] = SumOver(f, S)
  BY <1>4, <1>6, FoldIsSum
<1> QED BY <1>1, <1>2, <1>7

\* One more row.
LEMMA AmountsAdd ==
  ASSUME NEW S, SummableRows(S), NEW e, e \notin S, e.amount \in Int
  PROVE  /\ SummableRows(S \cup {e})
         /\ MapThenSumSet(RowAmount, S) \in Int
         /\ MapThenSumSet(RowAmount, S \cup {e}) = e.amount + MapThenSumSet(RowAmount, S)
<1>1. PICK U : U = S \cup {e}
  OBVIOUS
<1>2. SummableRows(U)
  BY <1>1, FS_AddElement DEF SummableRows
<1>3. PICK f, h : f = [x \in U |-> x.amount] /\ h = [x \in S |-> x.amount]
  OBVIOUS
<1>4. IsFiniteSet(S) /\ (\A x \in S \cup {e} : f[x] \in Int) /\ (\A x \in S : f[x] \in Int /\ h[x] = f[x])
  BY <1>1, <1>2, <1>3 DEF SummableRows
<1>5. MapThenSumSet(RowAmount, U) = SumOver(f, U)
  BY <1>2, <1>3, AmountsAreSum
<1>6. MapThenSumSet(RowAmount, S) = SumOver(h, S)
  BY <1>3, AmountsAreSum
<1>7. SumOver(h, S) = SumOver(f, S)
  BY <1>4, SumOverSame
<1>8. SumOver(f, S) \in Int
  BY <1>4, SumOverType
<1>9. SumOver(f, S \cup {e}) = f[e] + SumOver(f, S)
  BY <1>4, SumOverAdd
<1>10. f[e] = e.amount
  BY <1>1, <1>3
<1> QED BY <1>1, <1>2, <1>5, <1>6, <1>7, <1>8, <1>9, <1>10

LEMMA NoAmounts == SummableRows({}) /\ \A a : SumOf({}, a) = 0
<1>1. SummableRows({})
  BY FS_EmptySet DEF SummableRows
<1>2. MapThenSumSet(RowAmount, {}) = SumOver([x \in {} |-> x.amount], {})
  BY <1>1, AmountsAreSum
<1>3. MapThenSumSet(RowAmount, {}) = 0
  BY <1>2, SumOverEmpty
<1>4. \A a : RowsOf({}, a) = {}
  BY DEF RowsOf
<1> QED BY <1>1, <1>3, <1>4 DEF SumOf

\* What a new row of wallet_ledger does to the sum of each account.
LEMMA RowAdded ==
  ASSUME NEW rows, SummableRows(rows), NEW e, e \notin rows, e.amount \in Int
  PROVE  /\ SummableRows(rows \cup {e})
         /\ \A a : /\ SumOf(rows, a) \in Int
                   /\ SumOf(rows \cup {e}, a) = SumOf(rows, a)
                        + (IF <<e.user, e.asset>> = a THEN e.amount ELSE 0)
<1>1. SummableRows(rows \cup {e})
  BY AmountsAdd
<1> SUFFICES ASSUME NEW a
             PROVE  /\ SumOf(rows, a) \in Int
                    /\ SumOf(rows \cup {e}, a) = SumOf(rows, a)
                         + (IF <<e.user, e.asset>> = a THEN e.amount ELSE 0)
  BY <1>1
<1>2. PICK S : S = RowsOf(rows, a)
  OBVIOUS
<1>3. SummableRows(S) /\ e \notin S
  BY <1>2, FS_Subset DEF SummableRows, RowsOf
<1>4. PICK n \in Int, m \in Int : n = MapThenSumSet(RowAmount, S) /\ m = e.amount
  BY <1>3, AmountsAdd
<1>5. SumOf(rows, a) = n
  BY <1>2, <1>4 DEF SumOf
<1>6. CASE <<e.user, e.asset>> = a
  <2>1. RowsOf(rows \cup {e}, a) = S \cup {e}
    BY <1>2, <1>6 DEF RowsOf
  <2>2. MapThenSumSet(RowAmount, S \cup {e}) = m + n
    BY <1>3, <1>4, AmountsAdd
  <2>3. SumOf(rows \cup {e}, a) = m + n
    BY <2>1, <2>2 DEF SumOf
  <2>4. m + n = n + m
    OBVIOUS
  <2> QED BY <1>4, <1>5, <1>6, <2>3, <2>4
<1>7. CASE <<e.user, e.asset>> # a
  <2>1. RowsOf(rows \cup {e}, a) = S
    BY <1>2, <1>7 DEF RowsOf
  <2>2. SumOf(rows \cup {e}, a) = n
    BY <1>4, <2>1 DEF SumOf
  <2> QED BY <1>4, <1>5, <1>7, <2>2
<1> QED BY <1>6, <1>7

LedgerInv ==
  /\ SummableRows(walletLedger)
  /\ \A a \in Account : total[a] = SumOf(walletLedger, a)

\* A transaction that adds one row and changes its account by as much.
LEMMA RowKeepsSums ==
  ASSUME BalancesOK, LedgerInv, NEW a \in Account, NEW n \in Int, NEW e, e \notin walletLedger,
         <<e.user, e.asset>> = a, e.amount = n, walletLedger' = walletLedger \cup {e},
         total' = [total EXCEPT ![a] = @ + n]
  PROVE  LedgerInv'
<1>1. SummableRows(walletLedger) /\ e.amount \in Int
  BY DEF LedgerInv
<1>2. SummableRows(walletLedger')
  BY <1>1, RowAdded
<1> SUFFICES ASSUME NEW b \in Account PROVE total'[b] = SumOf(walletLedger', b)
  BY <1>2 DEF LedgerInv, SumOf, RowsOf
<1>3. SumOf(walletLedger \cup {e}, b) = SumOf(walletLedger, b)
        + (IF <<e.user, e.asset>> = b THEN e.amount ELSE 0)
  BY <1>1, RowAdded
<1>4. SumOf(walletLedger', b) = total[b] + (IF a = b THEN n ELSE 0)
  BY <1>3 DEF LedgerInv
<1> QED BY <1>4 DEF BalancesOK

\* A settlement adds two: its debit row and its credit row are of different
\* kinds.
LEMMA TwoRowsKeepSums ==
  ASSUME BalancesOK, LedgerInv, NEW d \in Account, NEW c \in Account,
         NEW n \in Nat, NEW m \in Nat, NEW e, NEW x,
         e \notin walletLedger, x \notin walletLedger, e # x,
         <<e.user, e.asset>> = d, e.amount = -n, <<x.user, x.asset>> = c, x.amount = m,
         walletLedger' = walletLedger \cup {e, x},
         \/ d = c /\ n = m /\ total' = total
         \/ total' = [[total EXCEPT ![d] = @ - n] EXCEPT ![c] = @ + m]
  PROVE  LedgerInv'
<1>1. SummableRows(walletLedger) /\ e.amount \in Int /\ x.amount \in Int
  BY DEF LedgerInv
<1>2. PICK rows : rows = walletLedger \cup {e}
  OBVIOUS
<1>3. /\ SummableRows(rows) /\ x \notin rows
      /\ \A b : SumOf(walletLedger, b) \in Int
      /\ \A b : SumOf(rows, b) = SumOf(walletLedger, b) + (IF d = b THEN -n ELSE 0)
  BY <1>1, <1>2, RowAdded
<1>4. PICK all : all = rows \cup {x}
  OBVIOUS
<1>5. /\ SummableRows(all)
      /\ \A b : SumOf(all, b) = SumOf(rows, b) + (IF c = b THEN m ELSE 0)
  <2>1. /\ SummableRows(rows \cup {x})
        /\ \A b : SumOf(rows \cup {x}, b) = SumOf(rows, b)
                   + (IF <<x.user, x.asset>> = b THEN x.amount ELSE 0)
    <3>1. SummableRows(rows) /\ x \notin rows /\ x.amount \in Int
      BY <1>1, <1>3
    <3> HIDE <1>1, <1>3
    <3> QED BY <3>1, RowAdded
  <2>2. <<x.user, x.asset>> = c /\ x.amount = m
    OBVIOUS
  <2> QED BY <1>4, <2>1, <2>2
<1>6. walletLedger' = all
  BY <1>2, <1>4
<1> SUFFICES ASSUME NEW b \in Account PROVE total'[b] = SumOf(all, b)
  BY <1>5, <1>6 DEF LedgerInv, SumOf, RowsOf
<1>7. total[b] \in Int /\ total[b] = SumOf(walletLedger, b)
  BY DEF LedgerInv, BalancesOK
<1>8. SumOf(all, b) = total[b] + (IF d = b THEN -n ELSE 0) + (IF c = b THEN m ELSE 0)
  BY <1>3, <1>5, <1>7
<1>9. CASE d = c /\ n = m /\ total' = total
  BY <1>7, <1>8, <1>9
<1>10. CASE total' = [[total EXCEPT ![d] = @ - n] EXCEPT ![c] = @ + m]
  BY <1>7, <1>8, <1>10 DEF BalancesOK
<1> QED BY <1>9, <1>10

\* A row of a kind and reference that the account has not is new.
LEMMA NewRow ==
  ASSUME NEW user, NEW asset, NEW kind, NEW ref, NEW amount, ~InLedger(user, asset, kind, ref)
  PROVE  /\ LedgerRow(user, asset, kind, ref, amount) \notin walletLedger
         /\ LedgerRow(user, asset, kind, ref, amount).user = user
         /\ LedgerRow(user, asset, kind, ref, amount).asset = asset
         /\ LedgerRow(user, asset, kind, ref, amount).kind = kind
         /\ LedgerRow(user, asset, kind, ref, amount).amount = amount
BY DEF InLedger, LedgerRow

LEMMA CommitKeepsSums ==
  ASSUME StoreOK, Covered, LedgerInv, NEW cmd \in Command, NEW req, NEW row \in ReservationRow,
         Outcome(cmd, req, row) = "ok", Commit(cmd, req, row),
         row.status # "NONE" => row = reservation[cmd.res]
  PROVE  LedgerInv'
<1>1. BalancesOK
  BY DEF StoreOK
<1>2. CASE cmd.type \in {"PlaceOrderIntent", "CancelOrderIntent", "ReleaseReservation"}
  <2>1. UNCHANGED <<total, walletLedger>>
    BY <1>2 DEF Commit, ReserveFunds, ForwardCancel, ReleaseReservation
  <2> QED BY <2>1 DEF LedgerInv, SumOf, RowsOf
<1>3. CASE cmd.type = "Deposit"
  <2>0. cmd.amount \in Nat /\ <<cmd.user, cmd.asset>> \in Account
    BY <1>3, CommandFields DEF Account, ClientCommandType
  <2>1. PICK a \in Account, n \in Int : a = <<cmd.user, cmd.asset>> /\ n = cmd.amount
    BY <2>0
  <2>2. PICK e : e = LedgerRow(cmd.user, cmd.asset, "DEPOSIT", cmd.ref, cmd.amount)
    OBVIOUS
  <2>3. /\ ~InLedger(cmd.user, cmd.asset, "DEPOSIT", cmd.ref)
        /\ total' = [total EXCEPT ![a] = @ + n] /\ walletLedger' = walletLedger \cup {e}
    BY <1>3, <2>1, <2>2 DEF Commit, Outcome, DepositOutcome, ApplyDeposit
  <2>4. e \notin walletLedger /\ <<e.user, e.asset>> = a /\ e.amount = n
    BY <2>1, <2>2, <2>3, NewRow
  <2> QED BY <1>1, <2>3, <2>4, RowKeepsSums
<1>4. CASE cmd.type = "Withdraw"
  <2>1. cmd.amount \in Nat /\ <<cmd.user, cmd.asset>> \in Account
    BY <1>4, CommandFields DEF Account, ClientCommandType
  <2>2. PICK a \in Account, n \in Int : a = <<cmd.user, cmd.asset>> /\ n = -cmd.amount
    BY <2>1
  <2>3. PICK e : e = LedgerRow(cmd.user, cmd.asset, "WITHDRAW", cmd.key, -cmd.amount)
    OBVIOUS
  <2>4. /\ ~InLedger(cmd.user, cmd.asset, "WITHDRAW", cmd.key)
        /\ total' = [total EXCEPT ![a] = @ - cmd.amount] /\ walletLedger' = walletLedger \cup {e}
    BY <1>4, <2>2, <2>3 DEF Commit, Outcome, WithdrawOutcome, ApplyWithdraw
  <2>5. total' = [total EXCEPT ![a] = @ + n]
    <3>1. total[a] - cmd.amount = total[a] + n
      BY <1>1, <2>1, <2>2 DEF BalancesOK
    <3> QED BY <2>4, <3>1
  <2>6. e \notin walletLedger /\ <<e.user, e.asset>> = a /\ e.amount = n
    BY <2>2, <2>3, <2>4, NewRow
  <2> QED BY <1>1, <2>4, <2>5, <2>6, RowKeepsSums
<1>5. CASE cmd.type = "ApplyAccountDelta"
  <2>1. PICK a \in Account, n \in Int : a = <<cmd.user, cmd.asset>> /\ n = cmd.totalDelta
    BY <1>5, CommandFields DEF Account
  <2>2. PICK e : e = LedgerRow(cmd.user, cmd.asset, cmd.kind, cmd.ref, cmd.totalDelta)
    OBVIOUS
  <2>3. ApplyAccountDelta(cmd) /\ DeltaOutcome(cmd) = "ok"
    BY <1>5 DEF Commit, Outcome
  <2>4. /\ ~InLedger(cmd.user, cmd.asset, cmd.kind, cmd.ref)
        /\ total' = [total EXCEPT ![a] = @ + n] /\ walletLedger' = walletLedger \cup {e}
    BY <2>1, <2>2, <2>3 DEF DeltaOutcome, ApplyAccountDelta
  <2>5. e \notin walletLedger /\ <<e.user, e.asset>> = a /\ e.amount = n
    BY <2>1, <2>2, <2>4, NewRow
  <2> QED BY <1>1, <2>4, <2>5, RowKeepsSums
<1>6. CASE cmd.type = "SettleTrade"
  <2>1. SettleTrade(cmd, row) /\ SettleOutcome(cmd, row) = "ok"
    BY <1>6 DEF Commit, Outcome
  <2>2. /\ cmd.res \in ReservationId /\ cmd.debitAmount \in Nat /\ cmd.creditAmount \in Nat
        /\ <<cmd.res[1], cmd.debitAsset>> \in Account /\ <<cmd.res[1], cmd.creditAsset>> \in Account
    BY <1>6, CommandFields DEF ReservationId, Account
  <2>3. PICK d \in Account, c \in Account, n \in Nat, m \in Nat :
          /\ d = <<cmd.res[1], cmd.debitAsset>> /\ c = <<cmd.res[1], cmd.creditAsset>>
          /\ n = cmd.debitAmount /\ m = cmd.creditAmount
    BY <2>2
  <2>4. row.status # "NONE" /\ n <= row.remaining /\ row.asset = cmd.debitAsset
    BY <2>1, <2>3 DEF SettleOutcome, ReservationRow
  <2>5. row.remaining <= locked[d] /\ row.remaining \in Nat
    BY <2>2, <2>3, <2>4, ReservationLocked
  <2>6. Covers(d, n)
    BY <1>1, <2>4, <2>5 DEF Covers, BalancesOK, LockedWithinTotal
  <2>7. PICK e, x : /\ e = LedgerRow(cmd.res[1], cmd.debitAsset, "TRADE_DEBIT", cmd.fill, -n)
                    /\ x = LedgerRow(cmd.res[1], cmd.creditAsset, "TRADE_CREDIT", cmd.fill, m)
    OBVIOUS
  <2>8. /\ ~InLedger(cmd.res[1], cmd.debitAsset, "TRADE_DEBIT", cmd.fill)
        /\ ~InLedger(cmd.res[1], cmd.creditAsset, "TRADE_CREDIT", cmd.fill)
    BY <2>1 DEF SettleOutcome
  <2>9. /\ e \notin walletLedger /\ <<e.user, e.asset>> = d /\ e.amount = -n
        /\ x \notin walletLedger /\ <<x.user, x.asset>> = c /\ x.amount = m /\ e # x
    BY <2>3, <2>7, <2>8, NewRow
  <2>10. walletLedger' = walletLedger \cup {e, x}
    BY <2>1, <2>3, <2>7 DEF SettleTrade
  <2>11. CASE UnlocksReservedOnly(cmd)
    <3>1. d = c /\ n = m /\ total' = total
      BY <2>1, <2>3, <2>11 DEF SettleTrade, UnlocksReservedOnly
    <3> QED BY <1>1, <2>9, <2>10, <3>1, TwoRowsKeepSums
  <2>12. CASE ~UnlocksReservedOnly(cmd)
    <3>1. total' = [[total EXCEPT ![d] = @ - n] EXCEPT ![c] = @ + m]
      BY <2>1, <2>3, <2>6, <2>12 DEF SettleTrade, SettledTotal
    <3> QED BY <1>1, <2>9, <2>10, <3>1, TwoRowsKeepSums
  <2> QED BY <2>11, <2>12
<1> QED BY <1>2, <1>3, <1>4, <1>5, <1>6, CommandFields DEF ClientCommandType

LEMMA LedgerNext ==
  AnswersInv /\ CoverInv /\ LedgerInv /\ [Next]_vars => LedgerInv'
<1> SUFFICES ASSUME AnswersInv, CoverInv, LedgerInv, [Next]_vars PROVE LedgerInv'
  OBVIOUS
<1>1. WalletInv /\ RepliesInv
  BY DEF AnswersInv
<1>2. ASSUME UNCHANGED <<total, walletLedger>> PROVE LedgerInv'
  BY <1>2 DEF LedgerInv, SumOf, RowsOf
<1>3. ASSUME NEW t \in Task, CommitTransaction(t) PROVE LedgerInv'
  <2>1. /\ AtCommand(t)
        /\ Outcome(Cmd(t), Req(t), seen[t]) = "ok" /\ Commit(Cmd(t), Req(t), seen[t])
    BY <1>3 DEF CommitTransaction, InTransaction, Result
  <2>2. PICK cmd \in Command, row \in ReservationRow, req \in {Req(t)} :
          cmd = Cmd(t) /\ row = seen[t]
    BY <1>1, <2>1, CmdType DEF WalletInv, TasksOK
  <2>3. row.status # "NONE" => row = reservation[cmd.res]
    BY <2>2 DEF CoverInv, SeenFresh
  <2>4. Outcome(cmd, req, row) = "ok" /\ Commit(cmd, req, row)
    BY <2>1, <2>2
  <2>5. StoreOK /\ Covered
    BY <1>1 DEF WalletInv, CoverInv
  <2> QED BY <2>3, <2>4, <2>5, CommitKeepsSums
<1>4. ASSUME NEW t \in Task, TaskStep(t), ~CommitTransaction(t) PROVE LedgerInv'
  <2>1. UNCHANGED <<total, walletLedger>>
    BY <1>4 DEF TaskStep, LookupReply, ReadReservation, SkipDelta, RejectFunds, RecordRejection,
                RecordReply, PublishReply, SaveOffset, FailTransaction, tables
  <2> QED BY <1>2, <2>1
<1>5. ASSUME NEW i \in Instance, Crash(i) \/ Restart(i) PROVE LedgerInv'
  BY <1>2, <1>5 DEF Crash, Restart, tables
<1>6. CASE Environment
  BY <1>1, <1>2, <1>6, EnvironmentOrders DEF tables
<1>7. CASE UNCHANGED vars
  BY <1>2, <1>7 DEF vars, tables
<1>8. ASSUME NEW t \in Task, Poll(t) PROVE LedgerInv'
  BY <1>7, <1>8 DEF Poll
<1> QED BY <1>3, <1>4, <1>5, <1>6, <1>7, <1>8 DEF Next

(***************************************************************************)
(* With one wallet process, every account's total is the sum of its rows of *)
(* wallet_ledger: no replay, retry or crash applies a command twice, or     *)
(* without its row, and a settlement writes two rows only when it moves     *)
(* both amounts.                                                            *)
(***************************************************************************)
THEOREM WalletLedgerAddsUp == OneWallet /\ Spec => []LedgerAddsUp
<1>1. Init => LedgerInv
  <2> SUFFICES ASSUME Init PROVE LedgerInv
    OBVIOUS
  <2>1. walletLedger = {} /\ \A a \in Account : total[a] = 0
    BY DEF Init, EmptyTables
  <2> QED BY <2>1, NoAmounts DEF LedgerInv
<1>2. LedgerInv => LedgerAddsUp
  BY DEF LedgerInv, LedgerAddsUp, SumOf, RowsOf
<1>3. OneWallet => OneWallet'
  BY DEF OneWallet
<1> QED BY <1>1, <1>2, <1>3, AnswersInit, CoverInit, CoverNext, LedgerNext, PTL DEF Spec

-----------------------------------------------------------------------------
(***************************************************************************)
(* The entries that the ledger reads from the rows of an outbox, as sums:   *)
(* the places of an account's entries, and what the entries there add to    *)
(* its total and locked funds.                                              *)
(***************************************************************************)
RowEntries(row) == IF row.topic = "wallet.events" THEN EntriesOf(row.payload) ELSE <<>>

IsOf(e, a) == <<e.user, e.asset>> = a

PlacesIn(row, a) == {k \in DOMAIN RowEntries(row) : IsOf(RowEntries(row)[k], a)}

Places(box, a) == UNION {{i} \X PlacesIn(box[i], a) : i \in DOMAIN box}

EntryAt(box, x) == RowEntries(box[x[1]])[x[2]]
TotalDeltasOf(box, a) == [x \in Places(box, a) |-> EntryAt(box, x).totalDelta]
LockedDeltasOf(box, a) == [x \in Places(box, a) |-> EntryAt(box, x).lockedDelta]

EntriesAddUp(box, a, n, m) ==
  AddUp(Places(box, a), TotalDeltasOf(box, a), LockedDeltasOf(box, a), n, m)

\* The places of a row that is appended come after all others.
Appended(box, row, new, i, a) ==
  /\ Places(new, a) = Places(box, a) \cup ({i} \X PlacesIn(row, a))
  /\ \A x \in Places(box, a) : EntryAt(new, x) = EntryAt(box, x)
  /\ \A k : <<i, k>> \notin Places(box, a) /\ EntryAt(new, <<i, k>>) = RowEntries(row)[k]

LEMMA PlacesAppended ==
  ASSUME NEW R, NEW box \in Seq(R), NEW row \in R, NEW a, NEW new, new = Append(box, row),
         NEW i \in Nat, i = Len(box) + 1
  PROVE  Appended(box, row, new, i, a)
<1>1. PICK n \in Nat : n = Len(box) /\ DOMAIN box = 1 .. n /\ i = n + 1
  OBVIOUS
<1>2. DOMAIN new = (1 .. n) \cup {i} /\ new[i] = row /\ i \notin 1 .. n
  BY <1>1
<1>3. \A j \in 1 .. n : new[j] = box[j]
  BY <1>1
<1>4. ASSUME NEW b
      PROVE  \A x : x \in Places(b, a) <=>
               \E j \in DOMAIN b : x \in {j} \X PlacesIn(b[j], a)
  BY DEF Places
<1>5. PICK N : N = {i} \X PlacesIn(row, a)
  OBVIOUS
<1>6. \A x : x \in Places(new, a) <=> x \in Places(box, a) \/ x \in N
  <2>1. \A x : x \in Places(new, a) <=>
          \/ \E j \in 1 .. n : x \in {j} \X PlacesIn(box[j], a)
          \/ x \in N
    BY <1>2, <1>3, <1>4, <1>5
  <2> QED BY <1>1, <1>4, <2>1
<1>7. \A x \in Places(box, a) : x[1] \in 1 .. n
  BY <1>1, <1>4
<1>8. \A x \in Places(box, a) : EntryAt(new, x) = EntryAt(box, x)
  BY <1>3, <1>7 DEF EntryAt
<1>9. \A k : <<i, k>> \notin Places(box, a) /\ EntryAt(new, <<i, k>>) = RowEntries(row)[k]
  BY <1>2, <1>7 DEF EntryAt
<1>10. Places(new, a) = Places(box, a) \cup N
  BY <1>6
<1> QED BY <1>5, <1>8, <1>9, <1>10 DEF Appended

LEMMA AppendAddsUp ==
  ASSUME NEW box, NEW row, NEW new, NEW i, NEW a, Appended(box, row, new, i, a),
         NEW n, NEW m, EntriesAddUp(box, a, n, m)
  PROVE  AddUp(Places(box, a), TotalDeltasOf(new, a), LockedDeltasOf(new, a), n, m)
<1>1. /\ Places(box, a) \subseteq Places(new, a)
      /\ \A x \in Places(box, a) : EntryAt(new, x) = EntryAt(box, x)
  BY DEF Appended
<1>2. \A x \in Places(box, a) : /\ TotalDeltasOf(new, a)[x] = TotalDeltasOf(box, a)[x]
                                /\ LockedDeltasOf(new, a)[x] = LockedDeltasOf(box, a)[x]
  BY <1>1 DEF TotalDeltasOf, LockedDeltasOf
<1> QED BY <1>2, AddUpSame DEF EntriesAddUp

\* A row without entries, with one and with two.
LEMMA NoEntryAdded ==
  ASSUME NEW box, NEW row, NEW new, NEW i, NEW a, Appended(box, row, new, i, a),
         NEW n, NEW m, EntriesAddUp(box, a, n, m), RowEntries(row) = <<>>
  PROVE  EntriesAddUp(new, a, n, m)
<1>1. AddUp(Places(box, a), TotalDeltasOf(new, a), LockedDeltasOf(new, a), n, m)
  BY AppendAddsUp
<1>2. PlacesIn(row, a) = {}
  BY DEF PlacesIn
<1>3. Places(new, a) = Places(box, a)
  BY <1>2 DEF Appended
<1> QED BY <1>1, <1>3 DEF EntriesAddUp

Plus(n, e, d, a) == IF IsOf(e, a) THEN n + d ELSE n

LEMMA OneEntryAdded ==
  ASSUME NEW box, NEW row, NEW new, NEW i, NEW a, Appended(box, row, new, i, a),
         NEW n, NEW m, EntriesAddUp(box, a, n, m),
         NEW e, RowEntries(row) = <<e>>, e.totalDelta \in Int, e.lockedDelta \in Int
  PROVE  EntriesAddUp(new, a, Plus(n, e, e.totalDelta, a), Plus(m, e, e.lockedDelta, a))
<1>1. PICK S, f, g : S = Places(box, a) /\ f = TotalDeltasOf(new, a) /\ g = LockedDeltasOf(new, a)
  OBVIOUS
<1>2. AddUp(S, f, g, n, m)
  BY <1>1, AppendAddsUp
<1>3. PlacesIn(row, a) = IF IsOf(e, a) THEN {1} ELSE {}
  BY DEF PlacesIn
<1>4. PICK x : x = <<i, 1>>
  OBVIOUS
<1>5. /\ Places(new, a) = IF IsOf(e, a) THEN S \cup {x} ELSE S
      /\ x \notin S /\ EntryAt(new, x) = e
  BY <1>1, <1>3, <1>4 DEF Appended
<1>6. CASE IsOf(e, a)
  <2>1. f[x] = e.totalDelta /\ g[x] = e.lockedDelta
    BY <1>1, <1>5, <1>6 DEF TotalDeltasOf, LockedDeltasOf
  <2>2. AddUp(S \cup {x}, f, g, n + f[x], m + g[x])
    BY <1>2, <1>5, <2>1, AddUpMore
  <2> QED BY <1>1, <1>5, <1>6, <2>1, <2>2 DEF EntriesAddUp, Plus
<1>7. CASE ~IsOf(e, a)
  BY <1>1, <1>2, <1>5, <1>7 DEF EntriesAddUp, Plus
<1> QED BY <1>6, <1>7

LEMMA TwoEntriesAdded ==
  ASSUME NEW box, NEW row, NEW new, NEW i, NEW a, Appended(box, row, new, i, a),
         NEW n, NEW m, EntriesAddUp(box, a, n, m),
         NEW d, NEW c, RowEntries(row) = <<d, c>>,
         d.totalDelta \in Int, d.lockedDelta \in Int, c.totalDelta \in Int, c.lockedDelta \in Int
  PROVE  EntriesAddUp(new, a, Plus(Plus(n, d, d.totalDelta, a), c, c.totalDelta, a),
                              Plus(Plus(m, d, d.lockedDelta, a), c, c.lockedDelta, a))
<1>1. PICK S, f, g : S = Places(box, a) /\ f = TotalDeltasOf(new, a) /\ g = LockedDeltasOf(new, a)
  OBVIOUS
<1>2. AddUp(S, f, g, n, m)
  BY <1>1, AppendAddsUp
<1>3. \A k : k \in PlacesIn(row, a) <=> (k = 1 /\ IsOf(d, a)) \/ (k = 2 /\ IsOf(c, a))
  <2>1. PICK q : q = RowEntries(row)
    OBVIOUS
  <2>2. DOMAIN q = {1, 2} /\ q[1] = d /\ q[2] = c
    BY <2>1
  <2> QED BY <2>1, <2>2 DEF PlacesIn
<1>4. PICK x, y : x = <<i, 1>> /\ y = <<i, 2>>
  OBVIOUS
<1>5. /\ x # y
      /\ x \notin S /\ EntryAt(new, x) = d
      /\ y \notin S /\ EntryAt(new, y) = c
  BY <1>1, <1>4 DEF Appended
<1>6. PICK T, U : T = (IF IsOf(d, a) THEN S \cup {x} ELSE S) /\ U = (IF IsOf(c, a) THEN T \cup {y} ELSE T)
  OBVIOUS
<1>7. Places(new, a) = U
  <2>1. {i} \X PlacesIn(row, a) = (IF IsOf(d, a) THEN {x} ELSE {}) \cup (IF IsOf(c, a) THEN {y} ELSE {})
    BY <1>3, <1>4
  <2> QED BY <1>1, <1>6, <2>1 DEF Appended
<1>8. PICK n1, m1 : n1 = Plus(n, d, d.totalDelta, a) /\ m1 = Plus(m, d, d.lockedDelta, a)
  OBVIOUS
<1>9. AddUp(T, f, g, n1, m1)
  <2>1. CASE IsOf(d, a)
    <3>1. f[x] = d.totalDelta /\ g[x] = d.lockedDelta
      BY <1>1, <1>5, <1>6, <1>7, <2>1 DEF TotalDeltasOf, LockedDeltasOf
    <3>2. AddUp(S \cup {x}, f, g, n + f[x], m + g[x])
      BY <1>2, <1>5, <3>1, AddUpMore
    <3> QED BY <1>6, <1>8, <2>1, <3>1, <3>2 DEF Plus
  <2>2. CASE ~IsOf(d, a)
    BY <1>2, <1>6, <1>8, <2>2 DEF Plus
  <2> QED BY <2>1, <2>2
<1>10. AddUp(U, f, g, Plus(n1, c, c.totalDelta, a), Plus(m1, c, c.lockedDelta, a))
  <2>1. CASE IsOf(c, a)
    <3>1. f[y] = c.totalDelta /\ g[y] = c.lockedDelta /\ y \notin T
      BY <1>1, <1>4, <1>5, <1>6, <1>7, <2>1 DEF TotalDeltasOf, LockedDeltasOf
    <3>2. AddUp(T \cup {y}, f, g, n1 + f[y], m1 + g[y])
      BY <1>9, <3>1, AddUpMore
    <3> QED BY <1>6, <2>1, <3>1, <3>2 DEF Plus
  <2>2. CASE ~IsOf(c, a)
    BY <1>6, <1>9, <2>2 DEF Plus
  <2> QED BY <2>1, <2>2
<1> QED BY <1>1, <1>7, <1>8, <1>10 DEF EntriesAddUp

(***************************************************************************)
(* The event of a settlement or of an account delta is enqueued together    *)
(* with its rows of wallet_ledger, which the next one is checked against.   *)
(***************************************************************************)
Recorded(row) ==
  /\ row.payload.type = "TradeSettled" =>
       InLedger(row.payload.user, row.payload.debitAsset, "TRADE_DEBIT", row.payload.fill)
  /\ row.payload.type = "AccountDeltaApplied" =>
       InLedger(row.payload.user, row.payload.asset, row.payload.kind, row.payload.ref)

EventsRecorded == \A i \in DOMAIN outbox : Recorded(outbox[i])

ChangesEnqueued == \A a \in Account : EntriesAddUp(outbox, a, total[a], locked[a])

\* A row whose dedupe key is new is appended.
LEMMA EnqueueAppends ==
  ASSUME OutboxIsSeq, NEW row, ~Enqueued(row.dedupe), outbox' = Enqueue(outbox, row)
  PROVE  /\ \E i : \A a : Appended(outbox, row, outbox', i, a)
         /\ \A j \in DOMAIN outbox' : (j \in DOMAIN outbox /\ outbox'[j] = outbox[j]) \/ outbox'[j] = row
<1>1. PICK R : outbox \in Seq(R) /\ row \in R
  <2>1. PICK S : outbox \in Seq(S)
    BY DEF OutboxIsSeq
  <2>2. outbox \in Seq(S \cup {row})
    BY <2>1
  <2> QED BY <2>2
<1>2. PICK box \in Seq(R), i \in Nat, new \in {Append(outbox, row)} :
        box = outbox /\ new = Append(box, row) /\ i = Len(box) + 1
  BY <1>1
<1>3. outbox' = new
  BY <1>2 DEF Enqueue
<1>4. ASSUME NEW a PROVE Appended(box, row, new, i, a)
  <2>1. row \in R /\ new = Append(box, row) /\ i = Len(box) + 1
    BY <1>1, <1>2
  <2> QED BY <2>1, PlacesAppended
<1>5. \A j \in DOMAIN new : (j \in DOMAIN box /\ new[j] = box[j]) \/ new[j] = row
  BY <1>1, <1>2
<1> QED BY <1>2, <1>3, <1>4, <1>5

LEMMA KeepsRecorded ==
  ASSUME EventsRecorded, walletLedger \subseteq walletLedger', NEW row, Recorded(row)',
         \A j \in DOMAIN outbox' : (j \in DOMAIN outbox /\ outbox'[j] = outbox[j]) \/ outbox'[j] = row
  PROVE  EventsRecorded'
<1>1. ASSUME NEW r, Recorded(r) PROVE Recorded(r)'
  BY <1>1 DEF Recorded, InLedger
<1>2. ASSUME NEW j \in DOMAIN outbox' PROVE Recorded(outbox[j])'
  <2>1. PICK r : r = outbox'[j]
    OBVIOUS
  <2>2. Recorded(r)'
    BY <1>1, <2>1 DEF EventsRecorded
  <2> QED BY <2>1, <2>2 DEF Recorded, InLedger
<1> QED BY <1>2 DEF EventsRecorded

\* A transaction whose event has one entry, and one whose event has two.
LEMMA OneEntryKeeps ==
  ASSUME OutboxIsSeq, ChangesEnqueued, NEW row, ~Enqueued(row.dedupe),
         outbox' = Enqueue(outbox, row),
         NEW e, RowEntries(row) = <<e>>, e.totalDelta \in Int, e.lockedDelta \in Int,
         \A a \in Account : /\ total'[a] = Plus(total[a], e, e.totalDelta, a)
                            /\ locked'[a] = Plus(locked[a], e, e.lockedDelta, a)
  PROVE  ChangesEnqueued'
<1>1. PICK i : \A a : Appended(outbox, row, outbox', i, a)
  BY EnqueueAppends
<1>2. ASSUME NEW a \in Account PROVE EntriesAddUp(outbox', a, total'[a], locked'[a])
  <2>1. EntriesAddUp(outbox, a, total[a], locked[a])
    BY DEF ChangesEnqueued
  <2>2. EntriesAddUp(outbox', a, Plus(total[a], e, e.totalDelta, a), Plus(locked[a], e, e.lockedDelta, a))
    BY <1>1, <2>1, OneEntryAdded
  <2> QED BY <2>2
<1> QED BY <1>2 DEF ChangesEnqueued

LEMMA TwoEntriesKeep ==
  ASSUME OutboxIsSeq, ChangesEnqueued, NEW row, ~Enqueued(row.dedupe),
         outbox' = Enqueue(outbox, row),
         NEW d, NEW c, RowEntries(row) = <<d, c>>,
         d.totalDelta \in Int, d.lockedDelta \in Int, c.totalDelta \in Int, c.lockedDelta \in Int,
         \A a \in Account :
           /\ total'[a] = Plus(Plus(total[a], d, d.totalDelta, a), c, c.totalDelta, a)
           /\ locked'[a] = Plus(Plus(locked[a], d, d.lockedDelta, a), c, c.lockedDelta, a)
  PROVE  ChangesEnqueued'
<1>1. PICK i : \A a : Appended(outbox, row, outbox', i, a)
  BY EnqueueAppends
<1>2. ASSUME NEW a \in Account PROVE EntriesAddUp(outbox', a, total'[a], locked'[a])
  <2>1. EntriesAddUp(outbox, a, total[a], locked[a])
    BY DEF ChangesEnqueued
  <2>2. EntriesAddUp(outbox', a, Plus(Plus(total[a], d, d.totalDelta, a), c, c.totalDelta, a),
                                 Plus(Plus(locked[a], d, d.lockedDelta, a), c, c.lockedDelta, a))
    BY <1>1, <2>1, TwoEntriesAdded
  <2> QED BY <2>2
<1> QED BY <1>2 DEF ChangesEnqueued

\* What the ledger reads from each kind of row.
LEMMA ReadEntry ==
  ASSUME NEW dedupe, NEW key, NEW e
  PROVE  /\ RowEntries(WalletEventRow(dedupe, key, e)) = EntriesOf(e)
         /\ RowEntries(EngineInputRow(dedupe, key, e)) = <<>>
         /\ WalletEventRow(dedupe, key, e).dedupe = dedupe
         /\ WalletEventRow(dedupe, key, e).payload = e
         /\ EngineInputRow(dedupe, key, e).dedupe = dedupe
         /\ EngineInputRow(dedupe, key, e).payload = e
BY DEF RowEntries, WalletEventRow, EngineInputRow

EnqueuedInv == EventsRecorded /\ ChangesEnqueued

\* A transaction that changes one account and enqueues the event of it.
LEMMA OneChangeKeeps ==
  ASSUME OutboxIsSeq, EnqueuedInv, BalancesOK, NEW row, ~Enqueued(row.dedupe),
         outbox' = Enqueue(outbox, row), walletLedger \subseteq walletLedger', Recorded(row)',
         NEW a \in Account, NEW n \in Int, NEW m \in Int,
         NEW e, RowEntries(row) = <<e>>, IsOf(e, a), e.totalDelta = n, e.lockedDelta = m,
         \A b \in Account : /\ total'[b] = (IF b = a THEN total[b] + n ELSE total[b])
                            /\ locked'[b] = (IF b = a THEN locked[b] + m ELSE locked[b])
  PROVE  EnqueuedInv'
<1>1. EventsRecorded'
  BY EnqueueAppends, KeepsRecorded DEF EnqueuedInv
<1>2. \A b \in Account : IsOf(e, b) <=> b = a
  BY DEF IsOf
<1>3. \A b \in Account : /\ total'[b] = Plus(total[b], e, e.totalDelta, b)
                         /\ locked'[b] = Plus(locked[b], e, e.lockedDelta, b)
  BY <1>2 DEF Plus
<1>4. ChangesEnqueued /\ e.totalDelta \in Int /\ e.lockedDelta \in Int
  BY DEF EnqueuedInv
<1>5. ChangesEnqueued'
  BY <1>3, <1>4, OneEntryKeeps
<1> QED BY <1>1, <1>5 DEF EnqueuedInv

\* Client commands: the stored reply, which is not there, is there when the
\* event is.
LEMMA DepositEnqueues ==
  ASSUME EffectsMatch, EnqueuedInv, BalancesOK, NEW cmd \in Command, NEW req,
         cmd.type = "Deposit", idempotency[ReplyKeyOf(cmd)] = NoReply, ApplyDeposit(cmd, req)
  PROVE  EnqueuedInv'
<1>1. PICK u \in User, k \in Key, s \in Asset, n \in Nat :
        u = cmd.user /\ k = cmd.key /\ s = cmd.asset /\ n = cmd.amount
  BY CommandFields DEF ClientCommandType
<1>2. PICK a \in Account : a = <<u, s>>
  BY DEF Account
<1>3. PICK e, row :
        /\ e = [type |-> "DepositApplied", user |-> u, asset |-> s, amount |-> n, ref |-> cmd.ref,
                req |-> req, total |-> total[a] + n, locked |-> locked[a]]
        /\ row = WalletEventRow(<<"deposit-applied", u, k>>, u, e)
  OBVIOUS
<1>4. row = DepositApplied(cmd, req)
  BY <1>1, <1>2, <1>3 DEF DepositApplied
<1>5. /\ row.dedupe = <<"deposit-applied", u, k>> /\ row.payload = e
      /\ RowEntries(row) = EntriesOf(e)
  BY <1>3, ReadEntry
<1>6. ~Enqueued(row.dedupe)
  <2>1. idempotency[<<u, "Deposit", k>>] = NoReply
    BY <1>1 DEF ReplyKeyOf
  <2> QED BY <1>5, <2>1 DEF EffectsMatch, RepliesMatchEffects
<1>7. PICK x : x = Entry(u, s, "DEPOSIT", n, 0, cmd.ref)
  OBVIOUS
<1>8. EntriesOf(e) = <<x>>
  BY <1>3, <1>7 DEF EntriesOf
<1>9. IsOf(x, a) /\ x.totalDelta = n /\ x.lockedDelta = 0
  BY <1>2, <1>7 DEF IsOf, Entry
<1>10. Recorded(row)'
  BY <1>3, <1>5 DEF Recorded
<1>11. /\ outbox' = Enqueue(outbox, row) /\ walletLedger \subseteq walletLedger'
       /\ total' = [total EXCEPT ![a] = @ + n] /\ locked' = locked
  BY <1>1, <1>2, <1>4 DEF ApplyDeposit
<1>12. \A b \in Account : /\ total'[b] = (IF b = a THEN total[b] + n ELSE total[b])
                          /\ locked'[b] = (IF b = a THEN locked[b] + 0 ELSE locked[b])
  BY <1>11 DEF BalancesOK
<1>13. RowEntries(row) = <<x>> /\ OutboxIsSeq /\ n \in Int /\ 0 \in Int
  BY <1>5, <1>8 DEF EffectsMatch
<1> QED BY <1>6, <1>9, <1>10, <1>11, <1>12, <1>13, OneChangeKeeps

LEMMA WithdrawEnqueues ==
  ASSUME EffectsMatch, EnqueuedInv, BalancesOK, NEW cmd \in Command, NEW req,
         cmd.type = "Withdraw", idempotency[ReplyKeyOf(cmd)] = NoReply, ApplyWithdraw(cmd, req)
  PROVE  EnqueuedInv'
<1>1. PICK u \in User, k \in Key, s \in Asset, n \in Nat :
        u = cmd.user /\ k = cmd.key /\ s = cmd.asset /\ n = cmd.amount
  BY CommandFields DEF ClientCommandType
<1>2. PICK a \in Account : a = <<u, s>>
  BY DEF Account
<1>3. PICK e, row :
        /\ e = [type |-> "WithdrawalApplied", user |-> u, asset |-> s, amount |-> n,
                req |-> req, total |-> total[a] - n, locked |-> locked[a]]
        /\ row = WalletEventRow(<<"withdrawal-applied", u, k>>, u, e)
  OBVIOUS
<1>4. row = WithdrawalApplied(cmd, req)
  BY <1>1, <1>2, <1>3 DEF WithdrawalApplied
<1>5. /\ row.dedupe = <<"withdrawal-applied", u, k>> /\ row.payload = e
      /\ RowEntries(row) = EntriesOf(e)
  BY <1>3, ReadEntry
<1>6. ~Enqueued(row.dedupe)
  <2>1. idempotency[<<u, "Withdraw", k>>].type # "BalanceUpdated"
    BY <1>1 DEF ReplyKeyOf, NoReply
  <2> QED BY <1>5, <2>1 DEF EffectsMatch, RepliesMatchEffects
<1>7. PICK m \in Int : m = -n
  OBVIOUS
<1>8. PICK x : x = Entry(u, s, "WITHDRAWAL", m, 0, req)
  OBVIOUS
<1>9. EntriesOf(e) = <<x>>
  BY <1>3, <1>7, <1>8 DEF EntriesOf
<1>10. IsOf(x, a) /\ x.totalDelta = m /\ x.lockedDelta = 0
  BY <1>2, <1>8 DEF IsOf, Entry
<1>11. Recorded(row)'
  BY <1>3, <1>5 DEF Recorded
<1>12. /\ outbox' = Enqueue(outbox, row) /\ walletLedger \subseteq walletLedger'
       /\ total' = [total EXCEPT ![a] = @ - n] /\ locked' = locked
  BY <1>1, <1>2, <1>4 DEF ApplyWithdraw
<1>13. \A b \in Account : /\ total'[b] = (IF b = a THEN total[b] + m ELSE total[b])
                          /\ locked'[b] = (IF b = a THEN locked[b] + 0 ELSE locked[b])
  BY <1>7, <1>12 DEF BalancesOK
<1>14. RowEntries(row) = <<x>> /\ OutboxIsSeq /\ 0 \in Int
  BY <1>5, <1>9 DEF EffectsMatch
<1> QED BY <1>6, <1>10, <1>11, <1>12, <1>13, <1>14, OneChangeKeeps

LEMMA CancelEnqueues ==
  ASSUME EffectsMatch, EnqueuedInv, BalancesOK, NEW cmd \in Command, NEW req,
         cmd.type = "CancelOrderIntent", ForwardCancel(cmd, req)
  PROVE  EnqueuedInv'
<1>1. /\ UNCHANGED <<total, locked, walletLedger>>
      /\ outbox' = Enqueue(outbox, CancelOrder(cmd, req))
  BY DEF ForwardCancel
<1>2. CASE Enqueued(CancelOrder(cmd, req).dedupe)
  BY <1>1, <1>2 DEF Enqueue, EnqueuedInv, EventsRecorded, Recorded, InLedger, ChangesEnqueued
<1>3. CASE ~Enqueued(CancelOrder(cmd, req).dedupe)
  <2>1. PICK e, row : /\ e = [type |-> "CancelOrder", user |-> cmd.user, req |-> req]
                      /\ row = EngineInputRow(<<"cancel-order", cmd.user, cmd.key>>, cmd.market, e)
    OBVIOUS
  <2>2. row = CancelOrder(cmd, req) /\ row.payload = e /\ RowEntries(row) = <<>>
    BY <2>1, ReadEntry DEF CancelOrder
  <2>3. /\ ~Enqueued(row.dedupe) /\ outbox' = Enqueue(outbox, row)
        /\ walletLedger \subseteq walletLedger' /\ OutboxIsSeq
    BY <1>1, <1>3, <2>2 DEF EffectsMatch
  <2>4. Recorded(row)'
    BY <2>1, <2>2 DEF Recorded
  <2>5. PICK i : \A a : Appended(outbox, row, outbox', i, a)
    BY <2>3, EnqueueAppends
  <2>6. EventsRecorded'
    BY <2>3, <2>4, EnqueueAppends, KeepsRecorded DEF EnqueuedInv
  <2>7. ASSUME NEW a \in Account PROVE EntriesAddUp(outbox', a, total[a], locked[a])
    <3>1. EntriesAddUp(outbox, a, total[a], locked[a])
      BY DEF EnqueuedInv, ChangesEnqueued
    <3> QED BY <2>2, <2>5, <3>1, NoEntryAdded
  <2> QED BY <1>1, <2>6, <2>7 DEF EnqueuedInv, ChangesEnqueued
<1> QED BY <1>2, <1>3

LEMMA ReserveEnqueues ==
  ASSUME EffectsMatch, EnqueuedInv, BalancesOK, NEW cmd \in Command, NEW req,
         cmd.type = "PlaceOrderIntent", idempotency[ReplyKeyOf(cmd)] = NoReply,
         ReserveFunds(cmd, req)
  PROVE  EnqueuedInv'
<1>1. PICK u \in User, k \in Key, s \in Asset, n \in Nat :
        u = cmd.user /\ k = cmd.key /\ s = cmd.asset /\ n = cmd.amount
  BY CommandFields DEF ClientCommandType
<1>2. PICK a \in Account : a = <<u, s>>
  BY DEF Account
<1>3. PICK e, first :
        /\ e = [type |-> "FundsReserved", user |-> u, asset |-> s, amount |-> n,
                res |-> <<u, k>>, req |-> req]
        /\ first = WalletEventRow(<<"funds-reserved", <<u, k>> >>, u, e)
  OBVIOUS
<1>4. PICK i, second :
        /\ i = [type |-> "PlaceOrder", res |-> <<u, k>>, asset |-> s, amount |-> n, req |-> req]
        /\ second = EngineInputRow(<<"place-order", u, k>>, cmd.market, i)
  OBVIOUS
<1>5. first = FundsReserved(cmd, req) /\ second = PlaceOrder(cmd, req)
  BY <1>1, <1>3, <1>4 DEF FundsReserved, PlaceOrder
<1>6. /\ first.dedupe = <<"funds-reserved", <<u, k>> >> /\ first.payload = e
      /\ RowEntries(first) = EntriesOf(e)
      /\ second.dedupe = <<"place-order", u, k>> /\ second.payload = i
      /\ RowEntries(second) = <<>>
  BY <1>3, <1>4, ReadEntry
<1>7. ~Enqueued(first.dedupe) /\ ~Enqueued(second.dedupe)
  <2>1. idempotency[<<u, "PlaceOrderIntent", k>>].type # "FundsReserved"
    BY <1>1 DEF ReplyKeyOf, NoReply
  <2> QED BY <1>6, <2>1 DEF EffectsMatch, RepliesMatchEffects
<1>8. PICK x : x = Entry(u, s, "RESERVE", 0, n, <<u, k>>)
  OBVIOUS
<1>9. RowEntries(first) = <<x>>
  BY <1>3, <1>6, <1>8 DEF EntriesOf
<1>10. IsOf(x, a) /\ x.totalDelta = 0 /\ x.lockedDelta = n /\ \A b \in Account : IsOf(x, b) <=> b = a
  BY <1>2, <1>8 DEF IsOf, Entry
<1>11. outbox' = Append(Append(outbox, first), second)
  BY <1>5, <1>7 DEF ReserveFunds, Enqueue
<1>12. PICK R : outbox \in Seq(R) /\ first \in R /\ second \in R
  <2>1. PICK S : outbox \in Seq(S)
    BY DEF EffectsMatch, OutboxIsSeq
  <2>2. outbox \in Seq(S \cup {first, second})
    BY <2>1
  <2> QED BY <2>2
<1>13. PICK mid : mid = Append(outbox, first) /\ mid \in Seq(R)
  <2>1. \A box \in Seq(R), row \in R : Append(box, row) \in Seq(R)
    OBVIOUS
  <2> QED BY <1>12, <2>1
<1>14. PICK p \in Nat, q \in Nat : p = Len(outbox) + 1 /\ q = Len(mid) + 1
  BY <1>12, <1>13
<1>15. ASSUME NEW b PROVE Appended(outbox, first, mid, p, b)
  <2>1. outbox \in Seq(R) /\ first \in R /\ mid = Append(outbox, first) /\ p = Len(outbox) + 1
    BY <1>12, <1>13, <1>14
  <2> QED BY <2>1, PlacesAppended
<1>16. ASSUME NEW b PROVE Appended(mid, second, outbox', q, b)
  <2>1. mid \in Seq(R) /\ second \in R /\ outbox' = Append(mid, second) /\ q = Len(mid) + 1
    BY <1>11, <1>12, <1>13, <1>14
  <2> QED BY <2>1, PlacesAppended
<1>17. /\ total' = total /\ walletLedger' = walletLedger
       /\ locked' = [locked EXCEPT ![a] = @ + n]
  BY <1>1, <1>2 DEF ReserveFunds
<1>18. ASSUME NEW b \in Account PROVE EntriesAddUp(outbox', b, total'[b], locked'[b])
  <2>1. EntriesAddUp(outbox, b, total[b], locked[b])
    BY DEF EnqueuedInv, ChangesEnqueued
  <2>2. EntriesAddUp(mid, b, Plus(total[b], x, x.totalDelta, b), Plus(locked[b], x, x.lockedDelta, b))
    <3>1. x.totalDelta \in Int /\ x.lockedDelta \in Int
      BY <1>10
    <3> QED BY <1>9, <1>15, <2>1, <3>1, OneEntryAdded
  <2>3. Plus(total[b], x, x.totalDelta, b) = total'[b] /\ Plus(locked[b], x, x.lockedDelta, b) = locked'[b]
    BY <1>10, <1>17 DEF Plus, BalancesOK
  <2> QED BY <1>6, <1>16, <2>2, <2>3, NoEntryAdded
<1>19. EventsRecorded'
  <2>1. \A j \in DOMAIN outbox' : \/ j \in DOMAIN outbox /\ outbox'[j] = outbox[j]
                                  \/ outbox'[j] = first \/ outbox'[j] = second
    BY <1>11, <1>12
  <2>2. Recorded(first)' /\ Recorded(second)'
    BY <1>3, <1>4, <1>6 DEF Recorded
  <2>3. ASSUME NEW r, Recorded(r) PROVE Recorded(r)'
    BY <1>17, <2>3 DEF Recorded, InLedger
  <2>4. ASSUME NEW j \in DOMAIN outbox' PROVE Recorded(outbox[j])'
    <3>1. PICK r : r = outbox'[j]
      OBVIOUS
    <3>2. Recorded(r)'
      BY <2>1, <2>2, <2>3, <3>1 DEF EnqueuedInv, EventsRecorded
    <3> QED BY <3>1, <3>2 DEF Recorded, InLedger
  <2> QED BY <2>4 DEF EventsRecorded
<1> QED BY <1>18, <1>19 DEF EnqueuedInv, ChangesEnqueued

(***************************************************************************)
(* Engine commands.  A release unlocks what it says, because the locked     *)
(* funds cover the reservation; its event must be new.                      *)
(***************************************************************************)
LEMMA ReleaseEnqueues ==
  ASSUME StoreOK, Covered, OutboxIsSeq, EnqueuedInv, NEW cmd \in Command,
         NEW row \in ReservationRow, cmd.type = "ReleaseReservation",
         ReleaseOutcome(cmd, row) = "ok", ReleaseReservation(cmd, row),
         row.status # "NONE" => row = reservation[cmd.res],
         ~Enqueued(FundsReleased(cmd, row).dedupe)
  PROVE  EnqueuedInv'
<1>1. PICK r \in ReservationId, n \in Nat : r = cmd.res /\ n = cmd.amount
  BY CommandFields DEF ReservationId
<1>2. row = reservation[r] /\ n <= row.remaining
  BY <1>1 DEF ReleaseOutcome, ReservationRow
<1>3. PICK a \in Account : a = <<r[1], row.asset>> /\ row.remaining <= locked[a]
  BY <1>2, ReservationLocked
<1>4. BalancesOK /\ locked[a] >= n
  BY <1>2, <1>3 DEF StoreOK, BalancesOK, ReservationRow
<1>5. PICK e, new :
        /\ e = [type |-> "FundsReleased", user |-> r[1], asset |-> row.asset,
                amount |-> n, res |-> r, reason |-> cmd.reason]
        /\ new = WalletEventRow(<<"funds-released", r, cmd.reason, n>>, r, e)
  OBVIOUS
<1>6. new = FundsReleased(cmd, row) /\ new.payload = e /\ RowEntries(new) = EntriesOf(e)
  BY <1>1, <1>5, ReadEntry DEF FundsReleased
<1>7. PICK m \in Int : m = -n
  OBVIOUS
<1>8. PICK x : x = Entry(r[1], row.asset, "RELEASE", 0, m, r)
  OBVIOUS
<1>9. EntriesOf(e) = <<x>>
  BY <1>5, <1>7, <1>8 DEF EntriesOf
<1>10. IsOf(x, a) /\ x.totalDelta = 0 /\ x.lockedDelta = m
  BY <1>3, <1>8 DEF IsOf, Entry
<1>11. Recorded(new)'
  BY <1>5, <1>6 DEF Recorded
<1>12. /\ outbox' = Enqueue(outbox, new) /\ walletLedger \subseteq walletLedger'
       /\ total' = total /\ locked' = [locked EXCEPT ![a] = @ - n]
  BY <1>1, <1>3, <1>4, <1>6 DEF ReleaseReservation, Unlock
<1>13. \A b \in Account : /\ total'[b] = (IF b = a THEN total[b] + 0 ELSE total[b])
                          /\ locked'[b] = (IF b = a THEN locked[b] + m ELSE locked[b])
  BY <1>4, <1>7, <1>12 DEF BalancesOK
<1>14. RowEntries(new) = <<x>> /\ 0 \in Int /\ ~Enqueued(new.dedupe)
  BY <1>6, <1>9
<1> QED BY <1>4, <1>10, <1>11, <1>12, <1>13, <1>14, OneChangeKeeps

LEMMA DeltaEnqueues ==
  ASSUME StoreOK, OutboxIsSeq, EnqueuedInv, NEW cmd \in Command, cmd.type = "ApplyAccountDelta",
         DeltaOutcome(cmd) = "ok", ApplyAccountDelta(cmd)
  PROVE  EnqueuedInv'
<1>1. PICK u \in User, s \in Asset, n \in Int, m \in Int :
        u = cmd.user /\ s = cmd.asset /\ n = cmd.totalDelta /\ m = cmd.lockedDelta
  BY CommandFields
<1>2. PICK a \in Account : a = <<u, s>>
  BY DEF Account
<1>3. BalancesOK
  BY DEF StoreOK
<1>4. PICK e, row :
        /\ e = [type |-> "AccountDeltaApplied", user |-> u, asset |-> s, totalDelta |-> n,
                lockedDelta |-> m, kind |-> cmd.kind, ref |-> cmd.ref,
                total |-> total[a] + n, locked |-> locked[a] + m]
        /\ row = WalletEventRow(<<"account-delta-applied", cmd.kind, cmd.ref, u, s>>, u, e)
  OBVIOUS
<1>5. row = AccountDeltaApplied(cmd)
  BY <1>1, <1>2, <1>4 DEF AccountDeltaApplied
<1>6. row.payload = e /\ RowEntries(row) = EntriesOf(e)
  BY <1>4, ReadEntry
<1>7. e.type = "AccountDeltaApplied" /\ e.user = u /\ e.asset = s /\ e.kind = cmd.kind /\ e.ref = cmd.ref
  BY <1>4
<1>8. ~InLedger(u, s, cmd.kind, cmd.ref) /\ ~OutboxConflict(row)
  BY <1>1, <1>5 DEF DeltaOutcome
<1>9. ~Enqueued(row.dedupe)
  <2> SUFFICES ASSUME NEW j \in DOMAIN outbox, outbox[j].dedupe = row.dedupe PROVE FALSE
    BY DEF Enqueued
  <2>1. outbox[j] = row
    BY <1>8 DEF OutboxConflict
  <2>2. Recorded(row)
    BY <2>1 DEF EnqueuedInv, EventsRecorded
  <2> QED BY <1>6, <1>7, <1>8, <2>2 DEF Recorded
<1>10. PICK x : x = Entry(u, s, cmd.kind, n, m, cmd.ref)
  OBVIOUS
<1>11. EntriesOf(e) = <<x>>
  BY <1>4, <1>10 DEF EntriesOf
<1>12. IsOf(x, a) /\ x.totalDelta = n /\ x.lockedDelta = m
  BY <1>2, <1>10 DEF IsOf, Entry
<1>13. /\ outbox' = Enqueue(outbox, row)
       /\ walletLedger' = walletLedger \cup {LedgerRow(u, s, cmd.kind, cmd.ref, n)}
       /\ total' = [total EXCEPT ![a] = @ + n] /\ locked' = [locked EXCEPT ![a] = @ + m]
  BY <1>1, <1>2, <1>5 DEF ApplyAccountDelta
<1>14. Recorded(row)'
  <2>1. PICK l : l = LedgerRow(u, s, cmd.kind, cmd.ref, n)
    OBVIOUS
  <2>2. l \in walletLedger' /\ l.user = u /\ l.asset = s /\ l.kind = cmd.kind /\ l.ref = cmd.ref
    BY <1>13, <2>1 DEF LedgerRow
  <2>3. \E k \in walletLedger' : k.user = u /\ k.asset = s /\ k.kind = cmd.kind /\ k.ref = cmd.ref
    BY <2>2
  <2> QED BY <1>6, <1>7, <2>3 DEF Recorded, InLedger
<1>15. \A b \in Account : /\ total'[b] = (IF b = a THEN total[b] + n ELSE total[b])
                          /\ locked'[b] = (IF b = a THEN locked[b] + m ELSE locked[b])
  BY <1>3, <1>13 DEF BalancesOK
<1>16. RowEntries(row) = <<x>> /\ walletLedger \subseteq walletLedger'
  BY <1>6, <1>11, <1>13
<1> QED BY <1>3, <1>9, <1>12, <1>13, <1>14, <1>15, <1>16, OneChangeKeeps

\* A settlement takes its debit from the locked funds, which cover it.
LEMMA SettleEnqueues ==
  ASSUME StoreOK, Covered, OutboxIsSeq, EnqueuedInv, NEW cmd \in Command,
         NEW row \in ReservationRow, cmd.type = "SettleTrade",
         SettleOutcome(cmd, row) = "ok", SettleTrade(cmd, row),
         row.status # "NONE" => row = reservation[cmd.res]
  PROVE  EnqueuedInv'
<1>1. BalancesOK
  BY DEF StoreOK
<1>2. /\ cmd.res \in ReservationId /\ cmd.debitAmount \in Nat /\ cmd.creditAmount \in Nat
      /\ <<cmd.res[1], cmd.debitAsset>> \in Account /\ <<cmd.res[1], cmd.creditAsset>> \in Account
  BY CommandFields DEF ReservationId, Account
<1>3. PICK d \in Account, c \in Account, n \in Nat, m \in Nat :
        /\ d = <<cmd.res[1], cmd.debitAsset>> /\ c = <<cmd.res[1], cmd.creditAsset>>
        /\ n = cmd.debitAmount /\ m = cmd.creditAmount
  BY <1>2
<1>4. row.status # "NONE" /\ n <= row.remaining /\ row.asset = cmd.debitAsset
  BY <1>3 DEF SettleOutcome, ReservationRow
<1>5. row.remaining <= locked[d] /\ row.remaining \in Nat
  BY <1>2, <1>3, <1>4, ReservationLocked
<1>6. Covers(d, n) /\ locked[d] >= n
  BY <1>1, <1>4, <1>5 DEF Covers, BalancesOK, LockedWithinTotal
<1>7. PICK e, new :
        /\ e = [type |-> "TradeSettled", user |-> cmd.res[1], res |-> cmd.res, fill |-> cmd.fill,
                debitAsset |-> cmd.debitAsset, debitAmount |-> n,
                creditAsset |-> cmd.creditAsset, creditAmount |-> m]
        /\ new = WalletEventRow(<<"trade-settled", cmd.fill, cmd.res>>, cmd.res, e)
  OBVIOUS
<1>8. new = TradeSettled(cmd) /\ new.payload = e /\ RowEntries(new) = EntriesOf(e)
  BY <1>3, <1>7, ReadEntry DEF TradeSettled
<1>9. e.type = "TradeSettled" /\ e.user = cmd.res[1] /\ e.debitAsset = cmd.debitAsset /\ e.fill = cmd.fill
  BY <1>7
<1>10. ~InLedger(cmd.res[1], cmd.debitAsset, "TRADE_DEBIT", cmd.fill) /\ ~OutboxConflict(new)
  BY <1>8 DEF SettleOutcome
<1>11. ~Enqueued(new.dedupe)
  <2> SUFFICES ASSUME NEW j \in DOMAIN outbox, outbox[j].dedupe = new.dedupe PROVE FALSE
    BY DEF Enqueued
  <2>1. outbox[j] = new
    BY <1>10 DEF OutboxConflict
  <2>2. Recorded(new)
    BY <2>1 DEF EnqueuedInv, EventsRecorded
  <2> QED BY <1>8, <1>9, <1>10, <2>2 DEF Recorded
<1>12. PICK k \in Int : k = -n
  OBVIOUS
<1>13. PICK x, y : /\ x = Entry(cmd.res[1], cmd.debitAsset, "TRADE_DEBIT", k, k, cmd.fill)
                   /\ y = Entry(cmd.res[1], cmd.creditAsset, "TRADE_CREDIT", m, 0, cmd.fill)
  OBVIOUS
<1>14. RowEntries(new) = <<x, y>>
  BY <1>7, <1>8, <1>12, <1>13 DEF EntriesOf
<1>15. /\ \A b \in Account : (IsOf(x, b) <=> b = d) /\ (IsOf(y, b) <=> b = c)
       /\ x.totalDelta = k /\ x.lockedDelta = k /\ y.totalDelta = m /\ y.lockedDelta = 0
  BY <1>3, <1>13 DEF IsOf, Entry
<1>16. PICK l, g : /\ l = LedgerRow(cmd.res[1], cmd.debitAsset, "TRADE_DEBIT", cmd.fill, -cmd.debitAmount)
                   /\ g = LedgerRow(cmd.res[1], cmd.creditAsset, "TRADE_CREDIT", cmd.fill, cmd.creditAmount)
  OBVIOUS
<1>17. outbox' = Enqueue(outbox, new) /\ walletLedger' = walletLedger \cup {l, g}
  BY <1>8, <1>16 DEF SettleTrade
<1>18. Recorded(new)'
  <2>1. /\ l \in walletLedger' /\ l.user = cmd.res[1] /\ l.asset = cmd.debitAsset
        /\ l.kind = "TRADE_DEBIT" /\ l.ref = cmd.fill
    BY <1>16, <1>17 DEF LedgerRow
  <2>2. \E w \in walletLedger' : /\ w.user = cmd.res[1] /\ w.asset = cmd.debitAsset
                                 /\ w.kind = "TRADE_DEBIT" /\ w.ref = cmd.fill
    BY <2>1
  <2> QED BY <1>8, <1>9, <2>2 DEF Recorded, InLedger
<1>19. locked' = [locked EXCEPT ![d] = @ - n]
  BY <1>3, <1>6 DEF SettleTrade, Unlock
<1>20. ASSUME NEW b \in Account
       PROVE  /\ total'[b] = Plus(Plus(total[b], x, x.totalDelta, b), y, y.totalDelta, b)
              /\ locked'[b] = Plus(Plus(locked[b], x, x.lockedDelta, b), y, y.lockedDelta, b)
  <2>1. total[b] \in Nat /\ locked[b] \in Nat /\ total[d] \in Nat /\ locked[d] \in Nat
    BY <1>1 DEF BalancesOK
  <2>2. locked'[b] = (IF b = d THEN locked[b] - n ELSE locked[b])
    BY <1>1, <1>19 DEF BalancesOK
  <2>3. total'[b] = (IF b = d THEN total[b] - n ELSE total[b]) + (IF b = c THEN m ELSE 0)
    <3>1. CASE UnlocksReservedOnly(cmd)
      <4>1. d = c /\ n = m /\ total' = total
        BY <1>3, <3>1 DEF SettleTrade, UnlocksReservedOnly
      <4> QED BY <2>1, <4>1
    <3>2. CASE ~UnlocksReservedOnly(cmd)
      <4>1. total' = [[total EXCEPT ![d] = @ - n] EXCEPT ![c] = @ + m]
        BY <1>3, <1>6, <3>2 DEF SettleTrade, SettledTotal
      <4>2. PICK f : f = [total EXCEPT ![d] = @ - n]
        OBVIOUS
      <4>3. /\ DOMAIN f = Account /\ total' = [f EXCEPT ![c] = @ + m]
            /\ f[b] = (IF b = d THEN total[b] - n ELSE total[b])
        BY <1>1, <4>1, <4>2 DEF BalancesOK
      <4>4. total'[b] = IF b = c THEN f[b] + m ELSE f[b]
        BY <4>3
      <4> QED BY <2>1, <4>3, <4>4
    <3> QED BY <3>1, <3>2
  <2>4. PICK p \in Nat, q \in Nat : p = total[b] /\ q = locked[b]
    BY <2>1
  <2>5. Plus(Plus(p, x, k, b), y, m, b) = (IF b = d THEN p + k ELSE p) + (IF b = c THEN m ELSE 0)
    BY <1>15 DEF Plus
  <2>6. Plus(Plus(q, x, k, b), y, 0, b) = (IF b = d THEN q + k ELSE q)
    BY <1>15 DEF Plus
  <2>7. p + k = p - n /\ q + k = q - n
    BY <1>12
  <2> QED BY <1>15, <2>2, <2>3, <2>4, <2>5, <2>6, <2>7
<1>21. ChangesEnqueued'
  <2>1. /\ x.totalDelta \in Int /\ x.lockedDelta \in Int /\ y.totalDelta \in Int /\ y.lockedDelta \in Int
        /\ ChangesEnqueued
    BY <1>15 DEF EnqueuedInv
  <2> QED BY <1>11, <1>14, <1>17, <1>20, <2>1, TwoEntriesKeep
<1>22. EventsRecorded'
  BY <1>11, <1>17, <1>18, EnqueueAppends, KeepsRecorded DEF EnqueuedInv
<1> QED BY <1>21, <1>22 DEF EnqueuedInv

LEMMA CommitEnqueues ==
  ASSUME StoreOK, Covered, EffectsMatch, EnqueuedInv, NEW cmd \in Command, NEW req,
         NEW row \in ReservationRow,
         Outcome(cmd, req, row) = "ok", Commit(cmd, req, row),
         cmd.type \in ClientCommandType => idempotency[ReplyKeyOf(cmd)] = NoReply,
         row.status # "NONE" => row = reservation[cmd.res],
         cmd.type = "ReleaseReservation" => ~Enqueued(FundsReleased(cmd, row).dedupe)
  PROVE  EnqueuedInv'
<1>1. BalancesOK /\ OutboxIsSeq
  BY DEF StoreOK, EffectsMatch
<1>2. CASE cmd.type = "Deposit"
  <2>1. ApplyDeposit(cmd, req) /\ idempotency[ReplyKeyOf(cmd)] = NoReply
    BY <1>2 DEF Commit, ClientCommandType
  <2> QED BY <1>1, <1>2, <2>1, DepositEnqueues
<1>3. CASE cmd.type = "Withdraw"
  <2>1. ApplyWithdraw(cmd, req) /\ idempotency[ReplyKeyOf(cmd)] = NoReply
    BY <1>3 DEF Commit, ClientCommandType
  <2> QED BY <1>1, <1>3, <2>1, WithdrawEnqueues
<1>4. CASE cmd.type = "PlaceOrderIntent"
  <2>1. ReserveFunds(cmd, req) /\ idempotency[ReplyKeyOf(cmd)] = NoReply
    BY <1>4 DEF Commit, ClientCommandType
  <2> QED BY <1>1, <1>4, <2>1, ReserveEnqueues
<1>5. CASE cmd.type = "CancelOrderIntent"
  <2>1. ForwardCancel(cmd, req)
    BY <1>5 DEF Commit
  <2> QED BY <1>1, <1>5, <2>1, CancelEnqueues
<1>6. CASE cmd.type = "ReleaseReservation"
  <2>1. ReleaseReservation(cmd, row) /\ ReleaseOutcome(cmd, row) = "ok"
    BY <1>6 DEF Commit, Outcome
  <2> QED BY <1>1, <1>6, <2>1, ReleaseEnqueues
<1>7. CASE cmd.type = "SettleTrade"
  <2>1. SettleTrade(cmd, row) /\ SettleOutcome(cmd, row) = "ok"
    BY <1>7 DEF Commit, Outcome
  <2> QED BY <1>1, <1>7, <2>1, SettleEnqueues
<1>8. CASE cmd.type = "ApplyAccountDelta"
  <2>1. ApplyAccountDelta(cmd) /\ DeltaOutcome(cmd) = "ok"
    BY <1>8 DEF Commit, Outcome
  <2> QED BY <1>1, <1>8, <2>1, DeltaEnqueues
<1> QED BY <1>2, <1>3, <1>4, <1>5, <1>6, <1>7, <1>8, CommandFields DEF ClientCommandType

(***************************************************************************)
(* No release is applied in this step when the event of an equal one - the  *)
(* same reservation, reason and amount - is in the outbox: the wallet does  *)
(* not look for it, and its event would be taken for that one.              *)
(***************************************************************************)
ReleasesAreNew ==
  \A t \in Task :
    CommitTransaction(t) /\ Cmd(t).type = "ReleaseReservation" =>
      ~Enqueued(FundsReleased(Cmd(t), seen[t]).dedupe)

LEMMA EnqueuedNext ==
  AnswersInv /\ CoverInv /\ ReleasesAreNew /\ EnqueuedInv /\ [Next]_vars => EnqueuedInv'
<1> SUFFICES ASSUME AnswersInv, CoverInv, ReleasesAreNew, EnqueuedInv, [Next]_vars
             PROVE  EnqueuedInv'
  OBVIOUS
<1>1. WalletInv /\ RepliesInv
  BY DEF AnswersInv
<1>2. ASSUME UNCHANGED <<total, locked, walletLedger, outbox>> PROVE EnqueuedInv'
  BY <1>2 DEF EnqueuedInv, EventsRecorded, Recorded, InLedger, ChangesEnqueued
<1>3. ASSUME NEW t \in Task, CommitTransaction(t) PROVE EnqueuedInv'
  <2>1. /\ AtCommand(t) /\ InTransaction(t) /\ Result(t) = "ok"
        /\ phase[t] = "tx" \/ Cmd(t).type = "ApplyAccountDelta"
        /\ Outcome(Cmd(t), Req(t), seen[t]) = "ok" /\ Commit(Cmd(t), Req(t), seen[t])
    BY <1>3 DEF CommitTransaction, InTransaction, Result
  <2>2. PICK cmd \in Command, row \in ReservationRow, req \in {Req(t)} :
          cmd = Cmd(t) /\ row = seen[t]
    BY <1>1, <2>1, CmdType DEF WalletInv, TasksOK
  <2>3. row.status # "NONE" => row = reservation[cmd.res]
    BY <2>2 DEF CoverInv, SeenFresh
  <2>4. Outcome(cmd, req, row) = "ok" /\ Commit(cmd, req, row)
    BY <2>1, <2>2
  <2>5. StoreOK /\ Covered /\ EffectsMatch /\ TaskFollows(t)
    BY <1>1 DEF WalletInv, CoverInv, RepliesInv, TasksFollow
  <2>6. cmd.type \in ClientCommandType => idempotency[ReplyKeyOf(cmd)] = NoReply
    BY <2>1, <2>2, <2>5 DEF TaskFollows, ClientCommandType, KeyOf
  <2>7. cmd.type = "ReleaseReservation" => ~Enqueued(FundsReleased(cmd, row).dedupe)
    BY <1>3, <2>2 DEF ReleasesAreNew
  <2> QED BY <2>3, <2>4, <2>5, <2>6, <2>7, CommitEnqueues
<1>4. ASSUME NEW t \in Task, TaskStep(t), ~CommitTransaction(t) PROVE EnqueuedInv'
  <2>1. UNCHANGED <<total, locked, walletLedger, outbox>>
    BY <1>4 DEF TaskStep, LookupReply, ReadReservation, SkipDelta, RejectFunds, RecordRejection,
                RecordReply, PublishReply, SaveOffset, FailTransaction, tables
  <2> QED BY <1>2, <2>1
<1>5. ASSUME NEW i \in Instance, Crash(i) \/ Restart(i) PROVE EnqueuedInv'
  BY <1>2, <1>5 DEF Crash, Restart, tables
<1>6. CASE Environment
  BY <1>1, <1>2, <1>6, EnvironmentOrders DEF tables
<1>7. CASE UNCHANGED vars
  BY <1>2, <1>7 DEF vars, tables
<1>8. ASSUME NEW t \in Task, Poll(t) PROVE EnqueuedInv'
  BY <1>7, <1>8 DEF Poll
<1> QED BY <1>3, <1>4, <1>5, <1>6, <1>7, <1>8 DEF Next

(***************************************************************************)
(* The sums of the property are those of the invariant.                     *)
(***************************************************************************)
LEMMA PlacesAreEntries ==
  ASSUME NEW a
  PROVE  /\ EventEntries(a) = Places(outbox, a)
         /\ \A x : EntryAt(outbox, x) = Entries(x[1])[x[2]]
<1>1. \A i : Entries(i) = RowEntries(outbox[i])
  BY DEF Entries, RowEntries
<1> QED BY <1>1 DEF EventEntries, Places, PlacesIn, IsOf, EntryAt

LEMMA TotalsAreSum ==
  ASSUME NEW S, IsFiniteSet(S), NEW f, \A x \in S : f[x] \in Int /\ f[x] = EntryTotal(x)
  PROVE  MapThenSumSet(EntryTotal, S) = SumOver(f, S)
<1> DEFINE Step(g, s) ==
             IF s = {} THEN 0
             ELSE EntryTotal(CHOOSE x \in s : TRUE) + g[s \ {CHOOSE x \in s : TRUE}]
           fold == CHOOSE g : g = [s \in SUBSET S |-> Step(g, s)]
<1>1. MapThenSumSet(EntryTotal, S) = fold[S]
  BY DEF MapThenSumSet, MapThenFoldSet
<1>2. \A g : Folds(g, f, S) <=> g = [s \in SUBSET S |-> Step(g, s)]
  <2>1. ASSUME NEW g, NEW s \in SUBSET S PROVE FoldStep(g, f, s) = Step(g, s)
    <3>1. s # {} => f[CHOOSE x \in s : TRUE] = EntryTotal(CHOOSE x \in s : TRUE)
      OBVIOUS
    <3> QED BY <3>1 DEF FoldStep
  <2> HIDE DEF Step
  <2>2. ASSUME NEW g
        PROVE  [s \in SUBSET S |-> FoldStep(g, f, s)] = [s \in SUBSET S |-> Step(g, s)]
    BY <2>1
  <2> QED BY <2>2 DEF Folds
<1>3. IsFiniteSet(S) /\ \A x \in S : f[x] \in Int
  OBVIOUS
<1>4. \E g : Folds(g, f, S)
  BY <1>3, FoldExists
<1>5. Folds(fold, f, S)
  <2> HIDE DEF Step
  <2> QED BY <1>2, <1>4
<1> HIDE DEF fold
<1>6. fold[S] = SumOver(f, S)
  BY <1>3, <1>5, FoldIsSum
<1> QED BY <1>1, <1>6

LEMMA LockedIsSum ==
  ASSUME NEW S, IsFiniteSet(S), NEW f, \A x \in S : f[x] \in Int /\ f[x] = EntryLocked(x)
  PROVE  MapThenSumSet(EntryLocked, S) = SumOver(f, S)
<1> DEFINE Step(g, s) ==
             IF s = {} THEN 0
             ELSE EntryLocked(CHOOSE x \in s : TRUE) + g[s \ {CHOOSE x \in s : TRUE}]
           fold == CHOOSE g : g = [s \in SUBSET S |-> Step(g, s)]
<1>1. MapThenSumSet(EntryLocked, S) = fold[S]
  BY DEF MapThenSumSet, MapThenFoldSet
<1>2. \A g : Folds(g, f, S) <=> g = [s \in SUBSET S |-> Step(g, s)]
  <2>1. ASSUME NEW g, NEW s \in SUBSET S PROVE FoldStep(g, f, s) = Step(g, s)
    <3>1. s # {} => f[CHOOSE x \in s : TRUE] = EntryLocked(CHOOSE x \in s : TRUE)
      OBVIOUS
    <3> QED BY <3>1 DEF FoldStep
  <2> HIDE DEF Step
  <2>2. ASSUME NEW g
        PROVE  [s \in SUBSET S |-> FoldStep(g, f, s)] = [s \in SUBSET S |-> Step(g, s)]
    BY <2>1
  <2> QED BY <2>2 DEF Folds
<1>3. IsFiniteSet(S) /\ \A x \in S : f[x] \in Int
  OBVIOUS
<1>4. \E g : Folds(g, f, S)
  BY <1>3, FoldExists
<1>5. Folds(fold, f, S)
  <2> HIDE DEF Step
  <2> QED BY <1>2, <1>4
<1> HIDE DEF fold
<1>6. fold[S] = SumOver(f, S)
  BY <1>3, <1>5, FoldIsSum
<1> QED BY <1>1, <1>6

LEMMA InvAddsUp == EnqueuedInv => EveryChangeIsEnqueued
<1> SUFFICES ASSUME EnqueuedInv, NEW a \in Account
             PROVE  /\ total[a] = MapThenSumSet(EntryTotal, EventEntries(a))
                    /\ locked[a] = MapThenSumSet(EntryLocked, EventEntries(a))
  BY DEF EveryChangeIsEnqueued
<1>1. PICK S, f, g : S = Places(outbox, a) /\ f = TotalDeltasOf(outbox, a) /\ g = LockedDeltasOf(outbox, a)
  OBVIOUS
<1>2. AddUp(S, f, g, total[a], locked[a])
  BY <1>1 DEF EnqueuedInv, ChangesEnqueued, EntriesAddUp
<1>3. /\ IsFiniteSet(S) /\ \A x \in S : f[x] \in Int /\ g[x] \in Int
      /\ SumOver(f, S) = total[a] /\ SumOver(g, S) = locked[a]
  BY <1>2 DEF AddUp
<1>4. \A x : EntryTotal(x) = EntryAt(outbox, x).totalDelta /\ EntryLocked(x) = EntryAt(outbox, x).lockedDelta
  BY PlacesAreEntries DEF EntryTotal, EntryLocked
<1>5. \A x \in S : f[x] = EntryTotal(x) /\ g[x] = EntryLocked(x)
  BY <1>1, <1>4 DEF TotalDeltasOf, LockedDeltasOf
<1>6. MapThenSumSet(EntryTotal, S) = SumOver(f, S)
  BY <1>3, <1>5, TotalsAreSum
<1>7. MapThenSumSet(EntryLocked, S) = SumOver(g, S)
  BY <1>3, <1>5, LockedIsSum
<1> QED BY <1>1, <1>3, <1>6, <1>7, PlacesAreEntries

LEMMA EnqueuedInit == Init => EnqueuedInv
<1> SUFFICES ASSUME Init PROVE EnqueuedInv
  OBVIOUS
<1>1. outbox = <<>> /\ \A a \in Account : total[a] = 0 /\ locked[a] = 0
  BY DEF Init, EmptyTables
<1>2. EventsRecorded
  BY <1>1 DEF EventsRecorded
<1>3. \A a : Places(outbox, a) = {}
  BY <1>1 DEF Places
<1>4. ASSUME NEW a \in Account PROVE EntriesAddUp(outbox, a, total[a], locked[a])
  BY <1>1, <1>3, SumOverEmpty, FS_EmptySet DEF EntriesAddUp, AddUp
<1> QED BY <1>2, <1>4 DEF EnqueuedInv, ChangesEnqueued

(***************************************************************************)
(* An order with a price that validate_place_order lets through reserves    *)
(* the least margin that covers it: at least one unit, no more than the     *)
(* client offered, and within i64 although quantity times price need not    *)
(* be, for every quantity, price and leverage.                              *)
(***************************************************************************)
THEOREM ValidOrderTakesLeastMargin ==
  ASSUME NEW form \in Form, ValidOrder(form), form.price > 0
  PROVE  /\ IsLeastMargin(form, OrderMargin(form))
         /\ OrderMargin(form) \in 1 .. form.margin
         /\ OrderMargin(form) <= I64Max
<1> DEFINE n == form.quantity * form.price
           d == form.leverage
           m == RequiredMargin(form)
<1>1. form.quantity \in Nat \ {0} /\ form.price \in Nat \ {0} /\ d \in Nat \ {0}
      /\ form.margin \in Int
  BY I64Assumption DEF Form, I64, ValidOrder, MinLeverage, MaxLeverage
<1>2. n \in Nat \ {0}
  BY <1>1, PositiveProduct
<1>3. m = (n + d - 1) \div d
  BY DEF RequiredMargin
<1>4. m \in Nat /\ m * d >= n /\ (m - 1) * d < n
  <2> HIDE DEF n, d
  <2> QED BY <1>1, <1>2, <1>3, RoundedUp
<1>5. OrderMargin(form) = m
  BY DEF OrderMargin
<1>6. m # 0
  <2>1. SUFFICES ASSUME m = 0 PROVE FALSE
    OBVIOUS
  <2>2. 0 * d >= n
    BY <2>1, <1>4
  <2> HIDE DEF n, d
  <2> QED BY <2>2, <1>1, <1>2, SMT
<1>7. m <= form.margin /\ m <= I64Max
  BY DEF ValidOrder
<1> HIDE DEF m
<1>8. m \in 1 .. form.margin
  BY <1>1, <1>4, <1>6, <1>7, SMT
<1>9. IsLeastMargin(form, m)
  BY <1>4 DEF IsLeastMargin
<1> QED BY <1>5, <1>7, <1>8, <1>9

-----------------------------------------------------------------------------
(***************************************************************************)
(* The way of an order through wallet, relay and engine (CommandFlow), for  *)
(* any number of wallet processes, requests, retries, crashes, lost and     *)
(* repeated publications.                                                   *)
(*                                                                          *)
(* The invariant follows an order from its request to its release.  A       *)
(* request of wallet.commands holds one command, which fits the body that   *)
(* the client sent.                                                         *)
(***************************************************************************)
CmdOf(req) == log[req[1]][req[2]][1]

Sent(req) == req \in Request /\ req[2] \in DOMAIN log[req[1]]

Body == Form \cup [order: Request \cup {<<>>}]

BodyFits(cmd, body) ==
  /\ cmd.type \in ClientCommandType
  /\ cmd.type = "PlaceOrderIntent" =>
       body \in Form /\ ValidOrder(body) /\ cmd.amount = OrderMargin(body)
  /\ cmd.type = "CancelOrderIntent" => body.order \in Request

BodiesFit(p) ==
  /\ bodies[p] \in Seq(Body)
  /\ Len(bodies[p]) = Len(log[p]) /\ Len(log[p]) <= MaxCommands
  /\ \A n \in DOMAIN log[p] : Len(log[p][n]) = 1 /\ BodyFits(log[p][n][1], bodies[p][n])

CommandsFit ==
  DOMAIN bodies = CommandPartition /\ \A p \in CommandPartition : BodiesFit(p)

(***************************************************************************)
(* A row of engine.input names the request it comes from.  A reservation    *)
(* has one PlaceOrder, of its command's amount, and keeps that amount.      *)
(***************************************************************************)
IsPlace(row) == IsInput(row) /\ row.payload.type = "PlaceOrder"
IsCancel(row) == IsInput(row) /\ row.payload.type = "CancelOrder"

PlaceFits(x) ==
  /\ Sent(x.req) /\ CmdOf(x.req).type = "PlaceOrderIntent"
  /\ x.res \in ReservationId /\ x.res = <<CmdOf(x.req).user, CmdOf(x.req).key>>
  /\ x.amount = CmdOf(x.req).amount
  /\ reservation[x.res].status # "NONE" /\ reservation[x.res].amount = x.amount

CancelFits(x) == Sent(x.req) /\ CmdOf(x.req).type = "CancelOrderIntent"

RowFits(row) ==
  /\ IsInput(row) => IsPlace(row) \/ IsCancel(row)
  /\ IsPlace(row) => PlaceFits(row.payload)
  /\ IsCancel(row) => CancelFits(row.payload)
  /\ \A u, k : row.dedupe = <<"place-order", u, k>> =>
       IsPlace(row) /\ row.payload.res = <<u, k>>

PlaceRows(r) == {i \in DOMAIN outbox : IsPlace(outbox[i]) /\ outbox[i].payload.res = r}

RowsFit ==
  /\ OutboxIsSeq
  /\ \A i \in DOMAIN outbox : RowFits(outbox[i])
  /\ \A r \in ReservationId : \A i, j \in PlaceRows(r) : i = j
  /\ \A r \in ReservationId : reservation[r].status # "NONE" => PlaceRows(r) # {}

(***************************************************************************)
(* An engine event releases the whole of a reservation or moves no funds.   *)
(* A reservation is untouched, or released by an event of the log.          *)
(***************************************************************************)
ReleaseFits(cmd) ==
  /\ cmd.type = "ReleaseReservation" /\ cmd.res \in ReservationId
  /\ reservation[cmd.res].status # "NONE"
  /\ cmd.amount = reservation[cmd.res].amount

EventsFit ==
  \A p \in EventPartition : \A n \in DOMAIN log[p] :
    Len(log[p][n]) <= 1 /\ \A k \in DOMAIN log[p][n] : ReleaseFits(log[p][n][k])

ReleaseLogged(r) ==
  \E p \in EventPartition : \E n \in DOMAIN log[p] : \E k \in DOMAIN log[p][n] :
    log[p][n][k].res = r

ReservationsFit ==
  \A r \in ReservationId :
    reservation[r].status # "NONE" =>
      \/ reservation[r].status = "ACTIVE" /\ reservation[r].remaining = reservation[r].amount
      \/ reservation[r].status = "RELEASED" /\ ReleaseLogged(r)

\* The wallet has applied the n-th event of a partition.
Applied(p, n) ==
  \A k \in DOMAIN log[p][n] : reservation[log[p][n][k].res].status = "RELEASED"

AppliedBefore(p, m) ==
  m <= Len(log[p]) + 1 /\ \A n \in 1 .. (m - 1) : Applied(p, n)

\* A task of an engine.events partition has applied every event before the one it
\* is at; a release that has read an active reservation takes all of it.
TaskFits(t) ==
  /\ t[2] \in EventPartition =>
       /\ phase[t] \in {"ready", "tx"}
       /\ AppliedBefore(t[2], next[t])
       /\ pos[t] > 1 => next[t] \in DOMAIN log[t[2]] /\ Applied(t[2], next[t])
  /\ seen[t].status = "ACTIVE" => Running(t) /\ AtCommand(t) /\ seen[t].remaining = Cmd(t).amount

ReadersFit ==
  /\ \A p \in EventPartition : AppliedBefore(p, saved[p])
  /\ \A t \in Task : TaskFits(t)

(***************************************************************************)
(* The relay publishes rows of engine.input and nothing else, and a row     *)
(* that counts as published is on engine.input.                             *)
(***************************************************************************)
InputId(id) == id \in Row /\ id \in DOMAIN outbox /\ IsInput(outbox[id])

OnInput(id) == \E n \in DOMAIN input[InputPartition] : input[InputPartition][n] = id

RelayFits ==
  /\ status \in [Row -> Relay!Status]
  /\ input \in [{InputPartition} -> Seq(Row)]
  /\ batch \in [Instance -> SUBSET Row]
  /\ sending \in [Instance -> Row]
  /\ relayPhase \in [Instance -> Relay!Phase]
  /\ Len(outbox) <= MaxRows
  /\ \A id \in Row : (status[id] # "NONE" <=> InputId(id))
  /\ \A id \in Row : status[id] = "PUBLISHED" => OnInput(id)
  /\ \A id \in Row : OnInput(id) => InputId(id)
  /\ \A i \in Instance :
       /\ \A id \in batch[i] : InputId(id)
       /\ relayPhase[i] \in {"published", "failed"} => InputId(sending[i])
       /\ relayPhase[i] = "published" => OnInput(sending[i])

(***************************************************************************)
(* The engine: a PlaceOrder of the outbox asks for every open order.        *)
(***************************************************************************)
OrderRow == [res: ReservationId \cup {<<>>}, amount: Nat]

OrderFits(o, row) ==
  \E i \in DOMAIN outbox :
    /\ IsPlace(outbox[i])
    /\ outbox[i].payload.req = o
    /\ row = [res |-> outbox[i].payload.res, amount |-> outbox[i].payload.amount]

\* The engine has begun to handle the n-th input, or has handled it.
Reached(n) == n < peerAt \/ (n = peerAt /\ peer # "input")
Handled(n) == n < peerAt \/ (n = peerAt /\ peer = "reply")

Cancelled(o) ==
  \E n \in DOMAIN input[InputPartition] :
    Reached(n) /\ InputAt(n).type = "CancelOrder" /\ BodyOf(InputAt(n).req).order = o

EngineFits ==
  /\ orders \in [Request -> OrderRow]
  /\ \A o \in Request : orders[o] # NoOrder => OrderFits(o, orders[o])
  /\ peerAt \in Nat \ {0} /\ peerAt <= Len(input[InputPartition]) + 1
  /\ peer \in {"input", "reply", "down"}
  /\ peer = "reply" => peerAt \in DOMAIN input[InputPartition]
  /\ \A x \in engineReplies : x.order \in Request

(***************************************************************************)
(* An order that the engine has opened is open until an event releases its  *)
(* funds; such an event follows a cancel of the order; and an order that is *)
(* open although its funds are released was opened again after the cancel.  *)
(***************************************************************************)
OrdersFit ==
  /\ \A n \in DOMAIN input[InputPartition] :
       Handled(n) /\ InputAt(n).type = "PlaceOrder" =>
         orders[InputAt(n).req] # NoOrder \/ ReleaseLogged(InputAt(n).res)
  /\ \A r \in ReservationId : ReleaseLogged(r) =>
       \E i \in PlaceRows(r) : Cancelled(outbox[i].payload.req)
  /\ \A o \in Open : ReleaseLogged(orders[o].res) => Reopened(o)

FlowInv ==
  /\ CommandsFit /\ RowsFit
  /\ EventsFit /\ ReservationsFit /\ ReadersFit
  /\ RelayFits /\ EngineFits /\ OrdersFit

(***************************************************************************)
(* What no step of the flow takes back: records and bodies, rows of the     *)
(* outbox, inputs of the engine, and the amounts of reservations.           *)
(***************************************************************************)
LogStays ==
  \A p \in Partition : \A n \in DOMAIN log[p] : n \in DOMAIN log'[p] /\ log'[p][n] = log[p][n]

BodiesStay ==
  \A p \in CommandPartition : \A n \in DOMAIN bodies[p] :
    n \in DOMAIN bodies'[p] /\ bodies'[p][n] = bodies[p][n]

InputStays ==
  \A n \in DOMAIN input[InputPartition] :
    n \in DOMAIN input'[InputPartition] /\ input'[InputPartition][n] = input[InputPartition][n]

ReservationsKept ==
  \A r \in ReservationId :
    /\ reservation[r].status # "NONE" =>
         reservation'[r].status # "NONE" /\ reservation'[r].amount = reservation[r].amount
    /\ reservation[r].status = "RELEASED" => reservation'[r].status = "RELEASED"

NothingTakenBack == LogStays /\ BodiesStay /\ InputStays /\ RowsStay /\ ReservationsKept

\* A request that was sent stays sent.
LEMMA SentStays ==
  ASSUME LogStays, NEW req, Sent(req)
  PROVE  Sent(req)' /\ CmdOf(req)' = CmdOf(req)
  BY DEF Sent, LogStays, CmdOf, Request, Partition

\* Its body stays as well and fits its command.
LEMMA BodyStays ==
  ASSUME WalletInv, CommandsFit, BodiesStay, NEW req, Sent(req)
  PROVE  BodyOf(req)' = BodyOf(req) /\ BodyFits(CmdOf(req), BodyOf(req))
<1>1. PICK p \in CommandPartition : p = req[1] /\ req[2] \in DOMAIN log[p]
  BY DEF Sent, Request
<1>2. BodiesFit(p)
  BY DEF CommandsFit
<1>3. log[p] \in Seq(Seq(Command)) /\ bodies[p] \in Seq(Body)
  BY <1>2 DEF WalletInv, LogsOK, Partition, BodiesFit
<1>4. req[2] \in DOMAIN bodies[p]
  BY <1>1, <1>2, <1>3 DEF BodiesFit
<1> QED BY <1>1, <1>2, <1>4 DEF BodiesStay, BodyOf, BodiesFit, CmdOf

\* A row of the outbox that fits goes on fitting.
LEMMA RowFitsStays ==
  ASSUME LogStays, ReservationsKept, NEW row, RowFits(row)
  PROVE  RowFits(row)'
<1>1. PICK x : x = row.payload
  OBVIOUS
<1>2. ASSUME PlaceFits(x) PROVE PlaceFits(x)'
  <2>1. Sent(x.req)' /\ CmdOf(x.req)' = CmdOf(x.req)
    BY <1>2, SentStays DEF PlaceFits
  <2>2. reservation'[x.res].status # "NONE" /\ reservation'[x.res].amount = x.amount
    BY <1>2 DEF PlaceFits, ReservationsKept
  <2> QED BY <1>2, <2>1, <2>2 DEF PlaceFits
<1>3. ASSUME CancelFits(x) PROVE CancelFits(x)'
  BY <1>3, SentStays DEF CancelFits
<1> QED BY <1>1, <1>2, <1>3 DEF RowFits, IsPlace, IsCancel, IsInput

\* So does a release.
LEMMA ReleaseFitsStays ==
  ASSUME ReservationsKept, NEW cmd, ReleaseFits(cmd)
  PROVE  ReleaseFits(cmd)'
  BY DEF ReservationsKept, ReleaseFits

\* A release that was logged stays logged.
LEMMA LoggedStays ==
  ASSUME LogStays, NEW r, ReleaseLogged(r)
  PROVE  ReleaseLogged(r)'
<1>1. PICK p \in EventPartition : \E n \in DOMAIN log[p] : \E k \in DOMAIN log[p][n] :
        log[p][n][k].res = r
  BY DEF ReleaseLogged
<1>2. PICK n \in DOMAIN log[p] : \E k \in DOMAIN log[p][n] : log[p][n][k].res = r
  BY <1>1
<1>3. p \in Partition
  BY DEF Partition
<1>4. n \in DOMAIN log'[p] /\ log'[p][n] = log[p][n]
  BY <1>3 DEF LogStays
<1> QED BY <1>2, <1>4 DEF ReleaseLogged

\* A row of engine.input stays one.
LEMMA InputIdStays ==
  ASSUME RowsStay, NEW id, InputId(id)
  PROVE  InputId(id)' /\ outbox'[id] = outbox[id]
  BY DEF RowsStay, InputId, IsInput

\* What the engine reads at a place of engine.input.
LEMMA InputFits ==
  ASSUME RelayFits, RowsFit, NEW n \in DOMAIN input[InputPartition]
  PROVE  /\ InputId(input[InputPartition][n])
         /\ RowFits(outbox[input[InputPartition][n]])
         /\ InputAt(n).type \in {"PlaceOrder", "CancelOrder"}
         /\ InputAt(n).type = "PlaceOrder" => PlaceFits(InputAt(n))
         /\ InputAt(n).type = "CancelOrder" => CancelFits(InputAt(n))
<1>1. input[InputPartition][n] \in Row /\ OnInput(input[InputPartition][n])
  BY DEF RelayFits, OnInput
<1>2. PICK id \in Row : id = input[InputPartition][n] /\ InputId(id)
  BY <1>1 DEF RelayFits
<1>3. RowFits(outbox[id]) /\ IsInput(outbox[id])
  BY <1>2 DEF RowsFit, InputId
<1>4. InputAt(n) = outbox[id].payload
  BY <1>2 DEF InputAt
<1> QED BY <1>2, <1>3, <1>4 DEF RowFits, IsPlace, IsCancel

\* What the engine reads at a place stays the same.
LEMMA InputAtStays ==
  ASSUME RelayFits, RowsFit, RowsStay, InputStays, NEW n \in DOMAIN input[InputPartition]
  PROVE  n \in DOMAIN input'[InputPartition] /\ InputAt(n)' = InputAt(n)
<1>1. PICK id : id = input[InputPartition][n] /\ InputId(id)
  BY InputFits
<1>2. outbox'[id] = outbox[id]
  BY <1>1, InputIdStays
<1>3. n \in DOMAIN input'[InputPartition] /\ input'[InputPartition][n] = id
  BY <1>1 DEF InputStays
<1> QED BY <1>1, <1>2, <1>3 DEF InputAt

\* The PlaceOrder of an open order stays.
LEMMA OrderFitsStays ==
  ASSUME RowsStay, NEW o, NEW row, OrderFits(o, row)
  PROVE  OrderFits(o, row)'
  BY DEF RowsStay, OrderFits, IsPlace, IsInput

\* The PlaceOrder of a reservation stays.
LEMMA PlaceRowsStay ==
  ASSUME RowsStay, NEW r, NEW i \in PlaceRows(r)
  PROVE  i \in PlaceRows(r)' /\ outbox'[i] = outbox[i]
  BY DEF RowsStay, PlaceRows, IsPlace, IsInput

\* An event that was applied stays applied.
LEMMA AppliedStays ==
  ASSUME LogStays, ReservationsKept, EventsFit, NEW p \in EventPartition, NEW n \in DOMAIN log[p],
         Applied(p, n)
  PROVE  Applied(p, n)' /\ n \in DOMAIN log'[p]
<1>1. log'[p][n] = log[p][n] /\ n \in DOMAIN log'[p]
  BY DEF LogStays, Partition
<1>2. \A k \in DOMAIN log[p][n] : log[p][n][k].res \in ReservationId
  BY DEF EventsFit, ReleaseFits
<1> QED BY <1>1, <1>2 DEF Applied, ReservationsKept

(***************************************************************************)
(* The parts of the invariant, for a step that does not work on them.       *)
(***************************************************************************)
CommandLogSame == \A p \in CommandPartition : log'[p] = log[p]
EventLogSame == \A p \in EventPartition : log'[p] = log[p]

\* The requests, when no client asks.
LEMMA CommandsSame ==
  ASSUME CommandsFit, CommandLogSame, bodies' = bodies
  PROVE  CommandsFit'
  BY DEF CommandsFit, BodiesFit, BodyFits, CommandLogSame, ValidOrder, OrderMargin, RequiredMargin

\* The rows, when the tables stay.
LEMMA RowsSame ==
  ASSUME RowsFit, LogStays, outbox' = outbox, reservation' = reservation
  PROVE  RowsFit'
<1>1. ReservationsKept
  BY DEF ReservationsKept
<1>2. \A i \in DOMAIN outbox : RowFits(outbox[i])'
  BY <1>1, RowFitsStays DEF RowsFit
<1>3. \A r : PlaceRows(r)' = PlaceRows(r)
  BY DEF PlaceRows, IsPlace, IsInput
<1> QED BY <1>2, <1>3 DEF RowsFit, OutboxIsSeq

\* The events, when the engine publishes none.
LEMMA EventsSame ==
  ASSUME EventsFit, EventLogSame, ReservationsKept
  PROVE  EventsFit'
<1> SUFFICES ASSUME NEW p \in EventPartition, NEW n \in DOMAIN log'[p]
             PROVE  Len(log'[p][n]) <= 1 /\ \A k \in DOMAIN log'[p][n] : ReleaseFits(log[p][n][k])'
  BY DEF EventsFit, EventLogSame
<1>1. log'[p] = log[p]
  BY DEF EventLogSame
<1>2. Len(log[p][n]) <= 1 /\ \A k \in DOMAIN log[p][n] : ReleaseFits(log[p][n][k])
  BY <1>1 DEF EventsFit
<1> QED BY <1>1, <1>2, ReleaseFitsStays

\* No event, no new release.
LEMMA LoggedSame ==
  ASSUME EventLogSame, NEW r
  PROVE  ReleaseLogged(r)' <=> ReleaseLogged(r)
  BY DEF EventLogSame, ReleaseLogged

\* The reservations, when the tables stay.
LEMMA ReservationsSame ==
  ASSUME ReservationsFit, LogStays, reservation' = reservation
  PROVE  ReservationsFit'
  BY LoggedStays DEF ReservationsFit

\* The relay, when it rests.
LEMMA RelaySame ==
  ASSUME RelayFits, UNCHANGED <<status, input, batch, sending, relayPhase, outbox>>
  PROVE  RelayFits'
  BY DEF RelayFits, InputId, OnInput, IsInput

\* engine.input only grows.
LEMMA InputLonger ==
  ASSUME RelayFits, RelayFits', InputStays
  PROVE  /\ Len(input[InputPartition]) \in Nat
         /\ DOMAIN input[InputPartition] = 1 .. Len(input[InputPartition])
         /\ Len(input'[InputPartition]) \in Nat
         /\ DOMAIN input'[InputPartition] = 1 .. Len(input'[InputPartition])
         /\ Len(input[InputPartition]) <= Len(input'[InputPartition])
<1>1. PICK old \in Seq(Row), new \in Seq(Row) :
        old = input[InputPartition] /\ new = input'[InputPartition]
  BY DEF RelayFits
<1>2. PICK a \in Nat, b \in Nat : a = Len(old) /\ b = Len(new) /\ DOMAIN old = 1 .. a /\ DOMAIN new = 1 .. b
  OBVIOUS
<1>3. \A n \in 1 .. a : n \in 1 .. b
  BY <1>1, <1>2 DEF InputStays
<1>4. a <= b
  <2>1. CASE a = 0
    BY <2>1
  <2>2. CASE a # 0
    <3>1. a \in 1 .. a
      BY <2>2
    <3> QED BY <3>1, <1>3
  <2> QED BY <2>1, <2>2
<1> QED BY <1>1, <1>2, <1>4

\* The engine, when it rests.
LEMMA EngineSame ==
  ASSUME EngineFits, RelayFits, RelayFits', InputStays, RowsStay, UNCHANGED peerVars
  PROVE  EngineFits'
<1>1. /\ Len(input[InputPartition]) \in Nat /\ Len(input'[InputPartition]) \in Nat
      /\ Len(input[InputPartition]) <= Len(input'[InputPartition])
  BY InputLonger
<1>2. UNCHANGED <<orders, peer, peerAt, engineReplies>>
  BY DEF peerVars
<1>3. peerAt' \in Nat \ {0} /\ peerAt' <= Len(input'[InputPartition]) + 1
  BY <1>1, <1>2 DEF EngineFits
<1>4. \A o \in Request : orders'[o] # NoOrder => OrderFits(o, orders[o])'
  BY <1>2, OrderFitsStays DEF EngineFits
<1>5. peer' = "reply" => peerAt' \in DOMAIN input'[InputPartition]
  BY <1>2 DEF EngineFits, InputStays
<1> QED BY <1>2, <1>3, <1>4, <1>5 DEF EngineFits

\* A cancelled order stays cancelled.
LEMMA CancelledStays ==
  ASSUME WalletInv, CommandsFit, RelayFits, RowsFit, NothingTakenBack, NEW o, Cancelled(o),
         \A n \in DOMAIN input[InputPartition] : Reached(n) => Reached(n)'
  PROVE  Cancelled(o)'
<1> USE DEF NothingTakenBack
<1>1. PICK n \in DOMAIN input[InputPartition] :
        Reached(n) /\ InputAt(n).type = "CancelOrder" /\ BodyOf(InputAt(n).req).order = o
  BY DEF Cancelled
<1>2. n \in DOMAIN input'[InputPartition] /\ InputAt(n)' = InputAt(n)
  BY InputAtStays
<1>3. PICK req : req = InputAt(n).req /\ Sent(req)
  BY <1>1, InputFits DEF CancelFits
<1>4. BodyOf(req)' = BodyOf(req)
  BY <1>3, BodyStays
<1>5. InputAt(n)'.req = req
  BY <1>2, <1>3
<1>6. BodyOf(InputAt(n).req)' = BodyOf(req)'
  BY <1>5 DEF BodyOf
<1> QED BY <1>1, <1>2, <1>3, <1>4, <1>6 DEF Cancelled

\* An order that was opened again stays so.
LEMMA ReopenedStays ==
  ASSUME WalletInv, CommandsFit, RelayFits, RowsFit, NothingTakenBack, NEW o, Reopened(o)
  PROVE  Reopened(o)'
<1> USE DEF NothingTakenBack
<1>1. PICK n, k \in DOMAIN input[InputPartition] :
        /\ n < k
        /\ InputAt(n).type = "CancelOrder" /\ BodyOf(InputAt(n).req).order = o
        /\ InputAt(k).type = "PlaceOrder" /\ InputAt(k).req = o
  BY DEF Reopened
<1>2. /\ n \in DOMAIN input'[InputPartition] /\ InputAt(n)' = InputAt(n)
      /\ k \in DOMAIN input'[InputPartition] /\ InputAt(k)' = InputAt(k)
  BY InputAtStays
<1>3. PICK req : req = InputAt(n).req /\ Sent(req)
  BY <1>1, InputFits DEF CancelFits
<1>4. BodyOf(req)' = BodyOf(req)
  BY <1>3, BodyStays
<1>5. InputAt(n)'.req = req
  BY <1>2, <1>3
<1>6. BodyOf(InputAt(n).req)' = BodyOf(req)'
  BY <1>5 DEF BodyOf
<1> QED BY <1>1, <1>2, <1>3, <1>4, <1>6 DEF Reopened

\* The orders, when engine and engine.events rest.
LEMMA OrdersSame ==
  ASSUME WalletInv, CommandsFit, RowsFit, RelayFits, RelayFits', EngineFits, OrdersFit,
         NothingTakenBack, EventLogSame, UNCHANGED peerVars
  PROVE  OrdersFit'
<1> USE DEF NothingTakenBack
<1>1. UNCHANGED <<orders, peer, peerAt, engineReplies>>
  BY DEF peerVars
<1>2. \A r : ReleaseLogged(r)' <=> ReleaseLogged(r)
  BY LoggedSame
<1>3. ASSUME NEW n \in DOMAIN input'[InputPartition], Handled(n)', InputAt(n)'.type = "PlaceOrder"
      PROVE  orders'[InputAt(n)'.req] # NoOrder \/ ReleaseLogged(InputAt(n).res)'
  <2>1. Handled(n)
    BY <1>1, <1>3 DEF Handled
  <2>2. n \in DOMAIN input[InputPartition]
    <3>1. n \in Nat \ {0} /\ DOMAIN input[InputPartition] = 1 .. Len(input[InputPartition])
          /\ Len(input[InputPartition]) \in Nat
      BY <1>3, InputLonger
    <3>2. CASE n < peerAt
      BY <3>1, <3>2 DEF EngineFits
    <3>3. CASE n = peerAt /\ peer = "reply"
      BY <3>3 DEF EngineFits
    <3> QED BY <2>1, <3>2, <3>3 DEF Handled
  <2>3. InputAt(n)' = InputAt(n)
    BY <2>2, InputAtStays
  <2>4. orders[InputAt(n).req] # NoOrder \/ ReleaseLogged(InputAt(n).res)
    BY <1>3, <2>1, <2>2, <2>3 DEF OrdersFit
  <2>5. PICK r : r = InputAt(n).res /\ InputAt(n)'.res = r
    BY <2>3
  <2>6. ReleaseLogged(r) => ReleaseLogged(r)'
    BY <1>2
  <2>7. ReleaseLogged(InputAt(n).res)' = ReleaseLogged(r)'
    BY <2>5 DEF ReleaseLogged
  <2> QED BY <1>1, <2>3, <2>4, <2>5, <2>6, <2>7
<1>4. ASSUME NEW r \in ReservationId, ReleaseLogged(r)'
      PROVE  \E i \in PlaceRows(r)' : Cancelled(outbox[i].payload.req)'
  <2>1. PICK i \in PlaceRows(r) : Cancelled(outbox[i].payload.req)
    BY <1>2, <1>4 DEF OrdersFit
  <2>2. i \in PlaceRows(r)' /\ outbox'[i] = outbox[i]
    BY PlaceRowsStay
  <2>3. \A n \in DOMAIN input[InputPartition] : Reached(n) => Reached(n)'
    BY <1>1 DEF Reached
  <2>4. PICK o : o = outbox[i].payload.req
    OBVIOUS
  <2>5. Cancelled(o)'
    BY <2>1, <2>3, <2>4, CancelledStays
  <2>6. Cancelled(outbox[i].payload.req)' = Cancelled(o)'
    BY <2>2, <2>4 DEF Cancelled
  <2> QED BY <2>2, <2>5, <2>6
<1>5. ASSUME NEW o \in Open', ReleaseLogged(orders[o].res)' PROVE Reopened(o)'
  <2>1. o \in Open
    BY <1>1, <1>5 DEF Open
  <2>2. ReleaseLogged(orders[o].res)
    BY <1>1, <1>5 DEF ReleaseLogged, EventLogSame
  <2> QED BY <2>1, <2>2, ReopenedStays DEF OrdersFit
<1> QED BY <1>3, <1>4, <1>5 DEF OrdersFit

(***************************************************************************)
(* The command that a task is at: a client's, with its request, or the      *)
(* release that an engine event stands for.                                 *)
(***************************************************************************)
LEMMA CmdAt ==
  ASSUME WalletInv, CommandsFit, EventsFit, NEW t \in Task, AtCommand(t)
  PROVE  /\ Cmd(t) \in Command
         /\ \/ /\ t[2] \in CommandPartition /\ t[2] \notin EventPartition
               /\ Cmd(t).type \in ClientCommandType
               /\ Sent(Req(t)) /\ CmdOf(Req(t)) = Cmd(t)
            \/ /\ t[2] \in EventPartition /\ ReleaseFits(Cmd(t))
               /\ pos[t] = 1 /\ Len(Record(t)) = 1 /\ Cmd(t) = log[t[2]][next[t]][1]
<1>1. t[2] \in Partition /\ Cmd(t) \in Command
  BY CmdType DEF WalletInv
<1>2. PICK p \in Partition, n \in Nat \ {0}, k \in Nat \ {0} : p = t[2] /\ n = next[t] /\ k = pos[t]
  BY <1>1 DEF WalletInv, TasksOK
<1>3. log[p] \in Seq(Seq(Command)) /\ n <= Len(log[p])
  BY <1>2 DEF WalletInv, LogsOK, AtCommand, HasRecord
<1>4. n \in DOMAIN log[p] /\ log[p][n] \in Seq(Command) /\ Record(t) = log[p][n]
  BY <1>2, <1>3 DEF Record
<1>5. k <= Len(log[p][n]) /\ Cmd(t) = log[p][n][k] /\ k \in DOMAIN log[p][n]
  BY <1>2, <1>4 DEF AtCommand, Cmd
<1>6. CASE p \in CommandPartition
  <2>1. BodiesFit(p)
    BY <1>6 DEF CommandsFit
  <2>2. Len(log[p][n]) = 1 /\ BodyFits(log[p][n][1], bodies[p][n]) /\ Len(log[p]) <= MaxCommands
    BY <1>4, <2>1 DEF BodiesFit
  <2>3. k = 1
    BY <1>2, <1>5, <2>2
  <2>4. n \in 1 .. MaxCommands
    BY <1>2, <1>3, <2>2, CommandAssumption
  <2>5. Req(t) = <<p, n>>
    BY <1>2 DEF Req
  <2>6. Sent(Req(t)) /\ CmdOf(Req(t)) = Cmd(t)
    BY <1>4, <1>5, <1>6, <2>3, <2>4, <2>5 DEF Sent, CmdOf, Request
  <2> QED BY <1>1, <1>2, <1>5, <1>6, <2>2, <2>3, <2>6, PartitionAssumption DEF BodyFits
<1>7. CASE p \in EventPartition
  <2>1. Len(log[p][n]) <= 1 /\ ReleaseFits(log[p][n][k])
    BY <1>4, <1>5, <1>7 DEF EventsFit
  <2>2. PICK l \in Nat : l = Len(log[p][n])
    BY <1>4
  <2>4. k <= l /\ l <= 1
    BY <1>5, <2>1, <2>2
  <2>5. k = 1 /\ l = 1
    BY <2>4
  <2>3. k = 1 /\ Len(log[p][n]) = 1
    BY <2>2, <2>5
  <2> QED BY <1>1, <1>2, <1>4, <1>5, <1>7, <2>1, <2>3
<1> QED BY <1>6, <1>7 DEF Partition

\* A row that is enqueued leaves the others as they are.
LEMMA EnqueueStays ==
  ASSUME OutboxIsSeq, NEW row, outbox' = Enqueue(outbox, row)
  PROVE  OutboxIsSeq' /\ RowsStay /\ \A i \in DOMAIN outbox' : i \in DOMAIN outbox \/ outbox'[i] = row
<1>1. CASE Enqueued(row.dedupe)
  BY <1>1 DEF Enqueue, OutboxIsSeq, RowsStay
<1>2. CASE ~Enqueued(row.dedupe)
  <2>1. outbox' = Append(outbox, row)
    BY <1>2 DEF Enqueue
  <2>2. PICK S : outbox \in Seq(S)
    BY DEF OutboxIsSeq
  <2>3. /\ outbox' \in Seq(S \cup {row})
        /\ outbox'[Len(outbox) + 1] = row
        /\ \A i \in DOMAIN outbox : i \in DOMAIN outbox' /\ outbox'[i] = outbox[i]
        /\ \A i \in DOMAIN outbox' : i \in DOMAIN outbox \/ i = Len(outbox) + 1
    BY <2>1, <2>2, AppendStays
  <2> QED BY <2>3 DEF OutboxIsSeq, RowsStay
<1> QED BY <1>1, <1>2

\* A row at its place in the outbox after the step.
LEMMA RowFitsOf ==
  ASSUME NEW i, NEW row, row = outbox'[i], RowFits(row)'
  PROVE  RowFits(outbox[i])'
  BY DEF RowFits, IsPlace, IsCancel, IsInput, PlaceFits, CancelFits, Sent, CmdOf

\* A row that is not an order's: the rows fit as before.
LEMMA OtherRowFits ==
  ASSUME RowsFit, LogStays, ReservationsKept, NEW row, outbox' = Enqueue(outbox, row),
         RowFits(row)', ~IsPlace(row),
         \A r \in ReservationId : reservation'[r].status # "NONE" => reservation[r].status # "NONE"
  PROVE  RowsFit' /\ RowsStay
<1>1. OutboxIsSeq' /\ RowsStay /\ \A i \in DOMAIN outbox' : i \in DOMAIN outbox \/ outbox'[i] = row
  BY EnqueueStays DEF RowsFit
<1>2. \A i \in DOMAIN outbox : outbox'[i] = outbox[i] /\ RowFits(outbox[i])'
  BY <1>1, RowFitsStays DEF RowsFit, RowsStay
<1>3. \A i \in DOMAIN outbox' : IsPlace(outbox'[i]) => i \in DOMAIN outbox
  BY <1>1
<1>4. ASSUME NEW r PROVE PlaceRows(r)' = PlaceRows(r)
  <2>1. \A i \in DOMAIN outbox : i \in DOMAIN outbox' /\ outbox'[i] = outbox[i]
    BY <1>1 DEF RowsStay
  <2>2. PlaceRows(r)' = {i \in DOMAIN outbox' : IsPlace(outbox'[i]) /\ outbox'[i].payload.res = r}
    BY DEF PlaceRows, IsPlace, IsInput
  <2> QED BY <1>3, <2>1, <2>2 DEF PlaceRows
<1>5. \A i \in DOMAIN outbox' : RowFits(outbox[i])'
  <2> SUFFICES ASSUME NEW i \in DOMAIN outbox' PROVE RowFits(outbox[i])'
    OBVIOUS
  <2>1. PICK x : x = outbox'[i]
    OBVIOUS
  <2>2. RowFits(x)'
    BY <1>1, <1>2, <2>1
  <2> QED BY <2>1, <2>2, RowFitsOf
<1> QED BY <1>1, <1>4, <1>5 DEF RowsFit

\* The rows of wallet.events are of no concern to the engine.
LEMMA EventRowFits ==
  ASSUME NEW d, NEW key, NEW event, NEW row, row = WalletEventRow(d, key, event),
         \A u, k : d # <<"place-order", u, k>>
  PROVE  RowFits(row)' /\ ~IsPlace(row)
<1>1. row.topic = "wallet.events" /\ row.dedupe = d
  BY DEF WalletEventRow
<1> QED BY <1>1 DEF RowFits, IsPlace, IsCancel, IsInput

\* A deposit, a withdrawal or a cancel changes no reservation.
LEMMA TransferFits ==
  ASSUME WalletInv, RowsFit, NEW cmd \in Command, NEW req, Sent(req), CmdOf(req) = cmd, log' = log,
         \/ cmd.type = "Deposit" /\ ApplyDeposit(cmd, req)
         \/ cmd.type = "Withdraw" /\ ApplyWithdraw(cmd, req)
         \/ cmd.type = "CancelOrderIntent" /\ ForwardCancel(cmd, req)
  PROVE  RowsFit' /\ RowsStay /\ reservation' = reservation
<1>1. LogStays
  BY DEF LogStays
<1>2. PICK row : /\ outbox' = Enqueue(outbox, row) /\ RowFits(row)' /\ ~IsPlace(row)
                 /\ reservation' = reservation
  <2>1. CASE cmd.type = "Deposit"
    <3>1. ApplyDeposit(cmd, req)
      BY <2>1
    <3>2. PICK row : row = DepositApplied(cmd, req)
      OBVIOUS
    <3>3. RowFits(row)' /\ ~IsPlace(row)
      <4>1. PICK event : row = WalletEventRow(<<"deposit-applied", cmd.user, cmd.key>>, cmd.user, event)
        BY <3>2 DEF DepositApplied
      <4>2. \A u, k : <<"deposit-applied", cmd.user, cmd.key>> # <<"place-order", u, k>>
        OBVIOUS
      <4> QED BY <4>1, <4>2, EventRowFits
    <3> QED BY <3>1, <3>2, <3>3 DEF ApplyDeposit
  <2>2. CASE cmd.type = "Withdraw"
    <3>1. ApplyWithdraw(cmd, req)
      BY <2>2
    <3>2. PICK row : row = WithdrawalApplied(cmd, req)
      OBVIOUS
    <3>3. RowFits(row)' /\ ~IsPlace(row)
      <4>1. PICK event : row = WalletEventRow(<<"withdrawal-applied", cmd.user, cmd.key>>, cmd.user, event)
        BY <3>2 DEF WithdrawalApplied
      <4>2. \A u, k : <<"withdrawal-applied", cmd.user, cmd.key>> # <<"place-order", u, k>>
        OBVIOUS
      <4> QED BY <4>1, <4>2, EventRowFits
    <3> QED BY <3>1, <3>2, <3>3 DEF ApplyWithdraw
  <2>3. CASE cmd.type = "CancelOrderIntent"
    <3>1. ForwardCancel(cmd, req)
      BY <2>3
    <3>2. PICK row : row = CancelOrder(cmd, req)
      OBVIOUS
    <3>3. /\ row.topic = "engine.input" /\ row.payload.type = "CancelOrder" /\ row.payload.req = req
          /\ row.dedupe = <<"cancel-order", cmd.user, cmd.key>>
      BY <3>2 DEF CancelOrder, EngineInputRow
    <3>4. CancelFits(row.payload)'
      BY <2>3, <3>3 DEF CancelFits, Sent, CmdOf
    <3>5. RowFits(row)' /\ ~IsPlace(row)
      BY <3>3, <3>4 DEF RowFits, IsPlace, IsCancel, IsInput
    <3> QED BY <3>1, <3>2, <3>5 DEF ForwardCancel
  <2> QED BY <2>1, <2>2, <2>3
<1>3. ReservationsKept
  BY <1>2 DEF ReservationsKept
<1> QED BY <1>1, <1>2, <1>3, OtherRowFits

(***************************************************************************)
(* The rows of an order: its reservation was not there, so its PlaceOrder   *)
(* was not either, and is enqueued last.                                    *)
(***************************************************************************)
LEMMA PlacedLast ==
  ASSUME RowsFit, NEW a, NEW b, ~Enqueued(b.dedupe), outbox' = Enqueue(Enqueue(outbox, a), b)
  PROVE  /\ OutboxIsSeq' /\ RowsStay
         /\ \E m \in DOMAIN outbox' :
              /\ outbox'[m] = b /\ m \notin DOMAIN outbox
              /\ \A i \in DOMAIN outbox' : i \in DOMAIN outbox \/ i = m \/ outbox'[i] = a
<1>1. PICK S : outbox \in Seq(S)
  BY DEF RowsFit, OutboxIsSeq
<1>2. PICK box : box = Enqueue(outbox, a) /\ outbox' = Append(box, b)
  BY DEF Enqueue
<1>3. /\ \E T : box \in Seq(T)
      /\ \A i \in DOMAIN outbox : i \in DOMAIN box /\ box[i] = outbox[i]
      /\ \A i \in DOMAIN box : i \in DOMAIN outbox \/ box[i] = a
  <2>1. CASE box = outbox
    BY <1>1, <2>1
  <2>2. CASE box = Append(outbox, a)
    <3>1. /\ box \in Seq(S \cup {a})
          /\ box[Len(outbox) + 1] = a
          /\ \A i \in DOMAIN outbox : i \in DOMAIN box /\ box[i] = outbox[i]
          /\ \A i \in DOMAIN box : i \in DOMAIN outbox \/ i = Len(outbox) + 1
      BY <1>1, <2>2, AppendStays
    <3> QED BY <3>1
  <2> QED BY <1>2, <2>1, <2>2 DEF Enqueue
<1>4. PICK T : box \in Seq(T)
  BY <1>3
<1>5. PICK m : m = Len(box) + 1
  OBVIOUS
<1>6. /\ outbox' \in Seq(T \cup {b})
      /\ outbox'[m] = b /\ m \in DOMAIN outbox' /\ m \notin DOMAIN box
      /\ \A i \in DOMAIN box : i \in DOMAIN outbox' /\ outbox'[i] = box[i]
      /\ \A i \in DOMAIN outbox' : i \in DOMAIN box \/ i = m
  BY <1>2, <1>4, <1>5, AppendStays
<1>7. OutboxIsSeq' /\ RowsStay
  BY <1>3, <1>6 DEF OutboxIsSeq, RowsStay
<1>8. m \notin DOMAIN outbox /\ \A i \in DOMAIN outbox' : i \in DOMAIN outbox \/ i = m \/ outbox'[i] = a
  BY <1>3, <1>6
<1> QED BY <1>6, <1>7, <1>8

\* Funds that are reserved: a reservation with its PlaceOrder.
LEMMA ReserveFits ==
  ASSUME WalletInv, RowsFit, ReservationsFit, NEW cmd \in Command, NEW req,
         Sent(req), CmdOf(req) = cmd, log' = log, cmd.type = "PlaceOrderIntent",
         ReserveOutcome(cmd, req) = "ok", ReserveFunds(cmd, req)
  PROVE  RowsFit' /\ RowsStay /\ ReservationsKept /\ ReservationsFit'
<1>1. LogStays
  BY DEF LogStays
<1>2. PICK u \in User, k \in Key, n \in Nat \ {0} : cmd.user = u /\ cmd.key = k /\ cmd.amount = n
  BY CommandFields DEF ClientCommandType
<1>3. PICK res \in ReservationId : res = <<u, k>> /\ reservation[res].status = "NONE"
  BY <1>2 DEF ReserveOutcome, ReservationId
<1>4. PICK new : /\ new.amount = n /\ new.remaining = n /\ new.status = "ACTIVE"
                 /\ reservation' = [reservation EXCEPT ![res] = new]
  <2>1. PICK new : new = [asset |-> cmd.asset, amount |-> n, remaining |-> n, status |-> "ACTIVE"]
    OBVIOUS
  <2> QED BY <1>2, <1>3, <2>1 DEF ReserveFunds
<1>5. reservation'[res] = new /\ \A r \in ReservationId : r # res => reservation'[r] = reservation[r]
  BY <1>4 DEF WalletInv, StoreOK, RowsOK
<1>6. ReservationsKept
  BY <1>3, <1>5 DEF ReservationsKept
<1>7. ReservationsFit'
  <2> SUFFICES ASSUME NEW r \in ReservationId, reservation'[r].status # "NONE"
               PROVE  \/ reservation'[r].status = "ACTIVE" /\ reservation'[r].remaining = reservation'[r].amount
                      \/ reservation'[r].status = "RELEASED" /\ ReleaseLogged(r)'
    BY DEF ReservationsFit
  <2>1. CASE r = res
    BY <1>4, <1>5, <2>1
  <2>2. CASE r # res
    BY <1>1, <1>5, <2>2, LoggedStays DEF ReservationsFit
  <2> QED BY <2>1, <2>2
<1>8. PICK a, b : a = FundsReserved(cmd, req) /\ b = PlaceOrder(cmd, req)
  OBVIOUS
<1>9. outbox' = Enqueue(Enqueue(outbox, a), b)
  BY <1>8 DEF ReserveFunds
<1>10. /\ IsPlace(b) /\ b.dedupe = <<"place-order", u, k>> /\ b.payload.res = res
       /\ b.payload.req = req /\ b.payload.amount = n
  BY <1>2, <1>3, <1>8 DEF PlaceOrder, EngineInputRow, IsPlace, IsInput
<1>11. RowFits(a)' /\ ~IsPlace(a)
  <2>1. PICK event : a = WalletEventRow(<<"funds-reserved", <<cmd.user, cmd.key>> >>, cmd.user, event)
    BY <1>8 DEF FundsReserved
  <2>2. \A v, j : <<"funds-reserved", <<cmd.user, cmd.key>> >> # <<"place-order", v, j>>
    OBVIOUS
  <2> QED BY <2>1, <2>2, EventRowFits
<1>12. RowFits(b)'
  <2>1. PlaceFits(b.payload)'
    BY <1>2, <1>3, <1>4, <1>5, <1>10 DEF PlaceFits, Sent, CmdOf
  <2> QED BY <1>3, <1>10, <2>1 DEF RowFits, IsPlace, IsInput, IsCancel
<1>13. PlaceRows(res) = {}
  BY <1>3 DEF PlaceRows, RowsFit, RowFits, PlaceFits
<1>14. ~Enqueued(b.dedupe)
  BY <1>3, <1>10, <1>13 DEF Enqueued, RowsFit, RowFits, PlaceRows
<1>15. OutboxIsSeq' /\ RowsStay
  BY <1>9, <1>14, PlacedLast
<1>16. PICK m \in DOMAIN outbox' :
         /\ outbox'[m] = b /\ m \notin DOMAIN outbox
         /\ \A i \in DOMAIN outbox' : i \in DOMAIN outbox \/ i = m \/ outbox'[i] = a
  BY <1>9, <1>14, PlacedLast
<1>17. \A i \in DOMAIN outbox : i \in DOMAIN outbox' /\ outbox'[i] = outbox[i]
  BY <1>15 DEF RowsStay
<1>18. ASSUME NEW i \in DOMAIN outbox' PROVE RowFits(outbox[i])'
  <2>1. PICK x : x = outbox'[i]
    OBVIOUS
  <2>2. i \in DOMAIN outbox => RowFits(x)'
    <3>1. i \in DOMAIN outbox => x = outbox[i] /\ RowFits(x)
      BY <2>1, <1>17 DEF RowsFit
    <3> QED BY <3>1, <1>1, <1>6, RowFitsStays
  <2>3. RowFits(x)'
    BY <1>11, <1>12, <1>16, <2>1, <2>2
  <2> QED BY <2>1, <2>3, RowFitsOf
<1>19. ASSUME NEW r PROVE PlaceRows(r)' = IF r = res THEN {m} ELSE PlaceRows(r)
  <2>1. PlaceRows(r)' = {i \in DOMAIN outbox' : IsPlace(outbox'[i]) /\ outbox'[i].payload.res = r}
    BY DEF PlaceRows, IsPlace, IsInput
  <2>2. \A i \in DOMAIN outbox' : i \in DOMAIN outbox \/ i = m \/ ~IsPlace(outbox'[i])
    BY <1>11, <1>16
  <2>3. CASE r = res
    BY <1>10, <1>13, <1>16, <1>17, <2>1, <2>2, <2>3 DEF PlaceRows
  <2>4. CASE r # res
    BY <1>10, <1>16, <1>17, <2>1, <2>2, <2>4 DEF PlaceRows
  <2> QED BY <2>3, <2>4
<1>20. RowsFit'
  <2>1. \A r \in ReservationId : \A i, j \in PlaceRows(r)' : i = j
    BY <1>19 DEF RowsFit
  <2>2. \A r \in ReservationId : reservation'[r].status # "NONE" => PlaceRows(r)' # {}
    BY <1>5, <1>19 DEF RowsFit
  <2> QED BY <1>15, <1>18, <2>1, <2>2 DEF RowsFit
<1> QED BY <1>6, <1>7, <1>15, <1>20

(***************************************************************************)
(* A release of a whole reservation, whatever row the transaction has read. *)
(***************************************************************************)
LEMMA ReleaseClosesFits ==
  ASSUME WalletInv, RowsFit, ReservationsFit, NEW cmd \in Command, ReleaseFits(cmd),
         ReleaseLogged(cmd.res), NEW row \in ReservationRow, row.remaining = cmd.amount, log' = log,
         ReleaseReservation(cmd, row)
  PROVE  /\ RowsFit' /\ RowsStay /\ ReservationsKept /\ ReservationsFit'
         /\ reservation'[cmd.res].status = "RELEASED"
<1>1. LogStays
  BY DEF LogStays
<1>2. PICK res \in ReservationId : res = cmd.res
  BY DEF ReleaseFits
<1>3. PICK left : left = row.remaining - cmd.amount
  OBVIOUS
<1>4. reservation' = [reservation EXCEPT ![res] =
                        [@ EXCEPT !.remaining = left, !.status = "RELEASED"]]
  BY <1>2, <1>3 DEF ReleaseReservation, Consume
<1>5. PICK new : new = [reservation[res] EXCEPT !.remaining = left, !.status = "RELEASED"]
  OBVIOUS
<1>6. reservation[res] \in ReservationRow
  BY DEF WalletInv, StoreOK, RowsOK
<1>7. new.status = "RELEASED" /\ new.amount = reservation[res].amount
  BY <1>5, <1>6 DEF ReservationRow
<1>8. reservation'[res] = new /\ \A r \in ReservationId : r # res => reservation'[r] = reservation[r]
  BY <1>4, <1>5 DEF WalletInv, StoreOK, RowsOK
<1>9. ReservationsKept
  BY <1>7, <1>8 DEF ReservationsKept
<1>10. ReservationsFit'
  <2> SUFFICES ASSUME NEW r \in ReservationId, reservation'[r].status # "NONE"
               PROVE  \/ reservation'[r].status = "ACTIVE" /\ reservation'[r].remaining = reservation'[r].amount
                      \/ reservation'[r].status = "RELEASED" /\ ReleaseLogged(r)'
    BY DEF ReservationsFit
  <2>1. CASE r = res
    BY <1>1, <1>2, <1>7, <1>8, <2>1, LoggedStays
  <2>2. CASE r # res
    BY <1>1, <1>8, <2>2, LoggedStays DEF ReservationsFit
  <2> QED BY <2>1, <2>2
<1>11. PICK event : event = FundsReleased(cmd, row) /\ outbox' = Enqueue(outbox, event)
  BY DEF ReleaseReservation
<1>12. RowFits(event)' /\ ~IsPlace(event)
  <2>1. PICK x : event = WalletEventRow(<<"funds-released", cmd.res, cmd.reason, cmd.amount>>, cmd.res, x)
    BY <1>11 DEF FundsReleased
  <2>2. \A u, k : <<"funds-released", cmd.res, cmd.reason, cmd.amount>> # <<"place-order", u, k>>
    OBVIOUS
  <2> QED BY <2>1, <2>2, EventRowFits
<1>13. \A r \in ReservationId : reservation'[r].status # "NONE" => reservation[r].status # "NONE"
  BY <1>2, <1>8 DEF ReleaseFits
<1>14. RowsFit' /\ RowsStay
  BY <1>1, <1>9, <1>11, <1>12, <1>13, OtherRowFits
<1> QED BY <1>2, <1>7, <1>8, <1>9, <1>10, <1>14

\* A transaction that commits.
LEMMA CommitFits ==
  ASSUME WalletInv, CommandsFit, RowsFit, EventsFit, ReservationsFit, log' = log,
         NEW t \in Task, TaskFits(t), AtCommand(t), Result(t) = "ok",
         Commit(Cmd(t), Req(t), seen[t])
  PROVE  /\ RowsFit' /\ RowsStay /\ ReservationsKept /\ ReservationsFit'
         /\ t[2] \in EventPartition => reservation'[Cmd(t).res].status = "RELEASED"
<1>0. PICK cmd \in Command : cmd = Cmd(t)
  BY CmdAt
<1>1. PICK req, row : cmd = Cmd(t) /\ req = Req(t) /\ row = seen[t]
  BY <1>0
<1>2. Commit(cmd, req, row) /\ Outcome(cmd, req, row) = "ok"
  BY <1>1 DEF Result
<1>3. CASE /\ t[2] \notin EventPartition /\ cmd.type \in ClientCommandType
           /\ Sent(req) /\ CmdOf(req) = cmd
  <2>1. CASE cmd.type \in {"Deposit", "Withdraw", "CancelOrderIntent"}
    <3>1. \/ cmd.type = "Deposit" /\ ApplyDeposit(cmd, req)
          \/ cmd.type = "Withdraw" /\ ApplyWithdraw(cmd, req)
          \/ cmd.type = "CancelOrderIntent" /\ ForwardCancel(cmd, req)
      BY <1>2, <2>1 DEF Commit
    <3>2. RowsFit' /\ RowsStay /\ reservation' = reservation
      BY <1>3, <3>1, TransferFits
    <3>3. LogStays
      BY DEF LogStays
    <3> QED BY <1>3, <3>2, <3>3, ReservationsSame DEF ReservationsKept
  <2>2. CASE cmd.type = "PlaceOrderIntent"
    <3>1. ReserveFunds(cmd, req) /\ ReserveOutcome(cmd, req) = "ok"
      BY <1>2, <2>2 DEF Commit, Outcome
    <3> QED BY <1>3, <2>2, <3>1, ReserveFits
  <2> QED BY <1>3, <2>1, <2>2 DEF ClientCommandType
<1>4. CASE /\ t[2] \in EventPartition /\ ReleaseFits(cmd) /\ cmd = log[t[2]][next[t]][1]
           /\ Len(Record(t)) = 1
  <2>1. ReleaseReservation(cmd, row) /\ ReleaseOutcome(cmd, row) = "ok"
    BY <1>2, <1>4 DEF Commit, Outcome, ReleaseFits
  <2>2. row \in ReservationRow /\ row.status = "ACTIVE"
    BY <1>1, <2>1 DEF ReleaseOutcome, WalletInv, TasksOK
  <2>3. row.remaining = cmd.amount
    BY <1>1, <2>2 DEF TaskFits
  <2>4. ReleaseLogged(cmd.res)
    <3>1. PICK p \in EventPartition, n \in Nat \ {0} : p = t[2] /\ n = next[t]
      BY <1>4 DEF WalletInv, TasksOK
    <3>2. log[p] \in Seq(Seq(Command)) /\ n <= Len(log[p])
      BY <3>1 DEF WalletInv, LogsOK, AtCommand, HasRecord, Partition
    <3>3. n \in DOMAIN log[p] /\ log[p][n] \in Seq(Command) /\ log[p][n] = Record(t)
      BY <3>1, <3>2 DEF Record
    <3>4. 1 \in DOMAIN log[p][n]
      BY <1>4, <3>3
    <3> QED BY <1>4, <3>1, <3>3, <3>4 DEF ReleaseLogged
  <2> QED BY <1>1, <1>4, <2>1, <2>2, <2>3, <2>4, ReleaseClosesFits
<1> QED BY <1>1, <1>3, <1>4, CmdAt

(***************************************************************************)
(* A task that moves on leaves the others as they fit.                      *)
(***************************************************************************)
LEMMA AppliedBeforeStays ==
  ASSUME WalletInv, EventsFit, LogStays, ReservationsKept, NEW p \in EventPartition,
         NEW m \in Nat \ {0}, AppliedBefore(p, m), LogsOK'
  PROVE  AppliedBefore(p, m)'
<1>1. PICK old \in Seq(Seq(Command)), new \in Seq(Seq(Command)) : old = log[p] /\ new = log'[p]
  BY DEF WalletInv, LogsOK, Partition
<1>2. PICK a \in Nat, b \in Nat : a = Len(old) /\ b = Len(new) /\ DOMAIN old = 1 .. a /\ DOMAIN new = 1 .. b
  OBVIOUS
<1>3. m <= a + 1
  BY <1>1, <1>2 DEF AppliedBefore
<1>4. \A n \in 1 .. a : n \in 1 .. b
  BY <1>1, <1>2 DEF LogStays, Partition
<1>5. a <= b
  <2>1. CASE a = 0
    BY <2>1
  <2>2. CASE a # 0
    <3>1. a \in 1 .. a
      BY <2>2
    <3>2. a \in 1 .. b
      BY <3>1, <1>4
    <3> QED BY <3>2
  <2> QED BY <2>1, <2>2
<1>6. ASSUME NEW n \in 1 .. (m - 1) PROVE Applied(p, n)'
  <2>1. n \in DOMAIN log[p] /\ Applied(p, n)
    BY <1>1, <1>2, <1>3, <1>6 DEF AppliedBefore
  <2> QED BY <2>1, AppliedStays
<1>7. m <= Len(log'[p]) + 1
  BY <1>1, <1>2, <1>3, <1>5
<1> QED BY <1>6, <1>7 DEF AppliedBefore

\* A task that stays at its command.
LEMMA TaskStaysFit ==
  ASSUME WalletInv, EventsFit, LogStays, ReservationsKept, LogsOK', NEW t \in Task, TaskFits(t),
         next'[t] = next[t], pos'[t] = pos[t],
         t[2] \in EventPartition => phase'[t] \in {"ready", "tx"},
         seen'[t].status = "ACTIVE" => Running(t)' /\ AtCommand(t)' /\ seen'[t].remaining = Cmd(t)'.amount
  PROVE  TaskFits(t)'
<1>1. ASSUME t[2] \in EventPartition
      PROVE  /\ phase'[t] \in {"ready", "tx"} /\ AppliedBefore(t[2], next[t])'
             /\ pos'[t] > 1 => next'[t] \in DOMAIN log'[t[2]] /\ Applied(t[2], next[t])'
  <2>1. PICK p \in EventPartition, n \in Nat \ {0} : p = t[2] /\ n = next[t] /\ n = next'[t]
    BY <1>1 DEF WalletInv, TasksOK
  <2>2. AppliedBefore(p, n)
        /\ (pos[t] > 1 => n \in DOMAIN log[p] /\ Applied(p, n))
    BY <1>1, <2>1 DEF TaskFits
  <2>3. AppliedBefore(p, n)'
    BY <2>2, AppliedBeforeStays
  <2>4. pos[t] > 1 => Applied(p, n)' /\ n \in DOMAIN log'[p]
    BY <2>2, AppliedStays
  <2>5. AppliedBefore(t[2], next[t])' = AppliedBefore(p, n)' /\ Applied(t[2], next[t])' = Applied(p, n)'
    BY <2>1 DEF AppliedBefore, Applied
  <2> QED BY <2>1, <2>2, <2>3, <2>4, <2>5
<1> QED BY <1>1 DEF TaskFits

\* A task that moves on leaves the others as they fit.
LEMMA ReadersMove ==
  ASSUME WalletInv, EventsFit, ReadersFit, ReservationsKept, LogsOK', NEW t \in Task, OnlyTask(t),
         TaskFits(t)', saved' = saved \/ \A p \in EventPartition : AppliedBefore(p, saved[p])'
  PROVE  ReadersFit'
<1>1. LogStays /\ log' = log
  BY DEF OnlyTask, LogStays
<1>2. ASSUME NEW p \in EventPartition, saved' = saved PROVE AppliedBefore(p, saved[p])'
  <2>1. PICK m \in Nat \ {0} : m = saved[p] /\ AppliedBefore(p, m)
    BY DEF ReadersFit, WalletInv, LogsOK, Partition
  <2>2. AppliedBefore(p, m)'
    BY <1>1, <2>1, AppliedBeforeStays
  <2>3. m = saved'[p]
    BY <1>2, <2>1
  <2> QED BY <2>2, <2>3 DEF AppliedBefore
<1>3. ASSUME NEW q \in Task, q # t PROVE TaskFits(q)'
  <2>1. /\ next'[q] = next[q] /\ pos'[q] = pos[q] /\ phase'[q] = phase[q] /\ seen'[q] = seen[q]
        /\ TaskFits(q)
    BY <1>3 DEF OnlyTask, ReadersFit
  <2>2. Running(q)' = Running(q) /\ AtCommand(q)' = AtCommand(q) /\ Cmd(q)' = Cmd(q)
    BY <1>1, <2>1 DEF OnlyTask, Running, Up, AtCommand, HasRecord, Record, Cmd
  <2>3. /\ q[2] \in EventPartition => phase'[q] \in {"ready", "tx"}
        /\ seen'[q].status = "ACTIVE" => Running(q)' /\ AtCommand(q)' /\ seen'[q].remaining = Cmd(q)'.amount
    BY <2>1, <2>2 DEF TaskFits
  <2> QED BY <1>1, <2>1, <2>3, TaskStaysFit
<1> QED BY <1>2, <1>3 DEF ReadersFit

(***************************************************************************)
(* A step of a consumer task.                                               *)
(***************************************************************************)
LEMMA StoppedFits ==
  ASSUME WalletInv, WalletInv', EventsFit, ReadersFit, NEW i, NEW why, NEW at, Stop(i, why, at),
         UNCHANGED <<log, saved, reservation>>
  PROVE  ReadersFit'
<1>1. LogStays /\ ReservationsKept /\ LogsOK'
  BY DEF LogStays, ReservationsKept, WalletInv
<1>2. \A p \in EventPartition : AppliedBefore(p, saved[p])'
  BY DEF ReadersFit, AppliedBefore, Applied
<1>3. ASSUME NEW q \in Task PROVE TaskFits(q)'
  <2>1. next'[q] = next[q] /\ pos'[q] = pos[q] /\ TaskFits(q)
    BY DEF Stop, ReadersFit
  <2>2. AtCommand(q)' = AtCommand(q) /\ Cmd(q)' = Cmd(q)
    BY <2>1 DEF AtCommand, HasRecord, Record, Cmd
  <2>3. \/ phase'[q] = "ready" /\ seen'[q].status = "NONE"
        \/ phase'[q] = phase[q] /\ seen'[q] = seen[q] /\ Running(q)' = Running(q)
    BY DEF Stop, NoReservation, Running, Up, WalletInv, LogsOK, Task
  <2>4. /\ q[2] \in EventPartition => phase'[q] \in {"ready", "tx"}
        /\ seen'[q].status = "ACTIVE" => Running(q)' /\ AtCommand(q)' /\ seen'[q].remaining = Cmd(q)'.amount
    BY <2>1, <2>2, <2>3 DEF TaskFits
  <2> QED BY <1>1, <2>1, <2>4, TaskStaysFit
<1> QED BY <1>2, <1>3 DEF ReadersFit

\* A task that reads, in a step that changes neither tables nor logs.
LEMMA ReaderFits ==
  ASSUME WalletInv, WalletInv', EventsFit, ReadersFit, ReservationsKept, NEW t \in Task,
         NEW ph, NEW row, NEW reply, Goto(t, ph, row, reply),
         UNCHANGED <<next, pos, log, saved, fault>>,
         t[2] \in EventPartition => ph \in {"ready", "tx"},
         row.status = "ACTIVE" => Running(t) /\ AtCommand(t) /\ row.remaining = Cmd(t).amount
  PROVE  ReadersFit'
<1>1. LogStays /\ LogsOK' /\ OnlyTask(t)
  BY MoveIsLocal DEF LogStays, WalletInv
<1>2. Running(t)' = Running(t) /\ AtCommand(t)' = AtCommand(t) /\ Cmd(t)' = Cmd(t)
  BY DEF Running, Up, AtCommand, HasRecord, Record, Cmd
<1>3. phase'[t] = ph /\ seen'[t] = row /\ next'[t] = next[t] /\ pos'[t] = pos[t] /\ TaskFits(t)
  BY DEF Goto, WalletInv, TasksOK, ReadersFit
<1>4. TaskFits(t)'
  BY <1>1, <1>2, <1>3, TaskStaysFit
<1> QED BY <1>1, <1>4, ReadersMove

\* A task that goes on to the next command, of a request or of an event that is
\* applied.
LEMMA GoesOnFits ==
  ASSUME WalletInv, WalletInv', EventsFit, ReadersFit, ReservationsKept, NEW t \in Task,
         NextCommand(t), UNCHANGED <<log, saved, fault>>,
         t[2] \in EventPartition => next[t] \in DOMAIN log[t[2]] /\ Applied(t[2], next[t])'
  PROVE  ReadersFit'
<1>1. LogStays /\ LogsOK' /\ OnlyTask(t)
  BY MoveIsLocal DEF LogStays, WalletInv
<1>2. phase'[t] = "ready" /\ seen'[t].status = "NONE" /\ next'[t] = next[t] /\ TaskFits(t)
  BY DEF NextCommand, Goto, WalletInv, TasksOK, ReadersFit, NoReservation
<1>3. ASSUME t[2] \in EventPartition PROVE AppliedBefore(t[2], next[t])'
  <2>1. PICK p \in EventPartition, n \in Nat \ {0} : p = t[2] /\ n = next[t] /\ n = next'[t]
    BY <1>2, <1>3 DEF WalletInv, TasksOK
  <2>2. AppliedBefore(p, n)
    BY <1>2, <1>3, <2>1 DEF TaskFits
  <2>3. AppliedBefore(p, n)'
    BY <1>1, <2>2, AppliedBeforeStays
  <2> QED BY <2>1, <2>3 DEF AppliedBefore, Applied
<1>4. TaskFits(t)'
  BY <1>2, <1>3 DEF TaskFits
<1> QED BY <1>1, <1>4, ReadersMove

\* An offset is saved once its event is applied.
LEMMA SavedFits ==
  ASSUME WalletInv, WalletInv', EventsFit, ReadersFit, NEW t \in Task, SaveOffset(t)
  PROVE  ReadersFit'
<1>1. /\ log' = log /\ reservation' = reservation /\ fault' = fault /\ phase' = phase /\ seen' = seen
      /\ answer' = answer
      /\ next' = [next EXCEPT ![t] = @ + 1] /\ pos' = [pos EXCEPT ![t] = 1]
      /\ phase[t] = "ready" /\ HasRecord(t) /\ ~AtCommand(t)
  BY DEF SaveOffset, tables
<1>2. LogStays /\ ReservationsKept /\ LogsOK' /\ OnlyTask(t)
  BY <1>1 DEF LogStays, ReservationsKept, WalletInv, OnlyTask, TasksOK
<1>3. TaskFits(t) /\ seen'[t].status # "ACTIVE" /\ phase'[t] = "ready" /\ pos'[t] = 1
  BY <1>1 DEF ReadersFit, TaskFits, WalletInv, TasksOK
<1>4. ASSUME t[2] \in EventPartition
      PROVE  /\ AppliedBefore(t[2], next[t])'
             /\ \A p \in EventPartition : AppliedBefore(p, saved[p])'
  <2>1. PICK q \in EventPartition, n \in Nat \ {0} : q = t[2] /\ n = next[t] /\ next'[t] = n + 1
    BY <1>1, <1>4 DEF WalletInv, TasksOK
  <2>2. log[q] \in Seq(Seq(Command)) /\ n <= Len(log[q])
    BY <1>1, <2>1 DEF WalletInv, LogsOK, Partition, HasRecord
  <2>3. PICK l \in Nat : l = Len(log[q]) /\ DOMAIN log[q] = 1 .. l
    BY <2>2
  <2>4. n \in DOMAIN log[q] /\ log[q][n] \in Seq(Command) /\ Record(t) = log[q][n]
    BY <2>1, <2>2 DEF Record
  <2>5. Applied(q, n)
    <3>1. CASE pos[t] > 1
      BY <1>3, <1>4, <2>1, <3>1 DEF TaskFits
    <3>2. CASE ~(pos[t] > 1)
      <4>1. pos[t] = 1
        BY <3>2 DEF WalletInv, TasksOK
      <4>2. Len(log[q][n]) = 0
        BY <1>1, <2>4, <4>1 DEF AtCommand
      <4>3. DOMAIN log[q][n] = {}
        BY <2>4, <4>2
      <4> QED BY <4>3 DEF Applied
    <3> QED BY <3>1, <3>2
  <2>6. AppliedBefore(q, n)
    BY <1>3, <1>4, <2>1 DEF TaskFits
  <2>7. AppliedBefore(q, n + 1)
    <3>1. n + 1 <= Len(log[q]) + 1
      BY <2>2, <2>3
    <3>2. \A j \in 1 .. ((n + 1) - 1) : j \in 1 .. (n - 1) \/ j = n
      OBVIOUS
    <3>3. \A j \in 1 .. (n - 1) : Applied(q, j)
      BY <2>6 DEF AppliedBefore
    <3>4. \A j \in 1 .. ((n + 1) - 1) : Applied(q, j)
      BY <2>5, <3>2, <3>3
    <3> QED BY <3>1, <3>4 DEF AppliedBefore
  <2>8. AppliedBefore(q, n + 1)'
    BY <1>1, <2>7 DEF AppliedBefore, Applied
  <2>9. AppliedBefore(t[2], next[t])'
    BY <2>1, <2>8 DEF AppliedBefore
  <2>10. ASSUME NEW p \in EventPartition PROVE AppliedBefore(p, saved[p])'
    <3>1. p \in Partition /\ q \in Partition
      BY DEF Partition
    <3>2. CASE saved'[p] = saved[p]
      BY <1>1, <3>2 DEF ReadersFit, AppliedBefore, Applied
    <3>3. CASE saved'[p] = n + 1 /\ p = q
      BY <2>8, <3>3 DEF AppliedBefore
    <3>4. saved'[p] = saved[p] \/ (saved'[p] = n + 1 /\ p = q)
      <4>1. saved' = [saved EXCEPT ![q] = IF @ < n + 1 THEN n + 1 ELSE @]
        BY <2>1 DEF SaveOffset
      <4> QED BY <3>1, <4>1 DEF WalletInv, LogsOK
    <3> QED BY <3>2, <3>3, <3>4
  <2> QED BY <2>9, <2>10
<1>5. CASE t[2] \in EventPartition
  <2>1. TaskFits(t)'
    BY <1>3, <1>4, <1>5 DEF TaskFits
  <2> QED BY <1>2, <1>4, <1>5, <2>1, ReadersMove
<1>6. CASE t[2] \notin EventPartition
  <2>1. TaskFits(t)'
    BY <1>3, <1>6 DEF TaskFits
  <2>2. ASSUME NEW p \in EventPartition PROVE AppliedBefore(p, saved[p])'
    <3>1. saved'[p] = saved[p]
      BY <1>6 DEF SaveOffset, WalletInv, LogsOK, Partition
    <3> QED BY <1>1, <3>1 DEF ReadersFit, AppliedBefore, Applied
  <2> QED BY <1>2, <2>1, <2>2, ReadersMove
<1> QED BY <1>5, <1>6

\* Every step of a task keeps rows, reservations and readers fitting.
LEMMA TaskStepFits ==
  ASSUME WalletInv, WalletInv', CommandsFit, RowsFit, EventsFit, ReservationsFit, ReadersFit,
         NEW t \in Task, TaskStep(t)
  PROVE  /\ log' = log /\ RowsFit' /\ RowsStay
         /\ ReservationsKept /\ ReservationsFit' /\ ReadersFit'
<1>1. TaskFits(t) /\ NoReservation.status = "NONE"
  BY DEF ReadersFit, NoReservation
<1>2. ASSUME UNCHANGED <<log, reservation, outbox>>
      PROVE  RowsFit' /\ RowsStay /\ ReservationsKept /\ ReservationsFit'
  <2>1. LogStays
    BY <1>2 DEF LogStays
  <2> QED BY <1>2, <2>1, RowsSame, ReservationsSame DEF RowsStay, ReservationsKept
<1>3. CASE LookupReply(t)
  <2>1. UNCHANGED <<log, reservation, outbox, next, pos, saved, fault>>
    BY <1>3 DEF LookupReply, tables
  <2>2. t[2] \notin EventPartition
    BY <1>3, CmdAt DEF LookupReply, ReleaseFits, ClientCommandType
  <2>3. PICK ph, reply : Goto(t, ph, NoReservation, reply)
    BY <1>3 DEF LookupReply
  <2>4. ReservationsKept
    BY <1>2, <2>1
  <2>5. ReadersFit'
    BY <1>1, <2>1, <2>2, <2>3, <2>4, ReaderFits
  <2> QED BY <1>2, <2>1, <2>5
<1>4. CASE ReadReservation(t)
  <2>1. UNCHANGED <<log, reservation, outbox, next, pos, saved, fault>> /\ Running(t) /\ AtCommand(t)
    BY <1>4 DEF ReadReservation, tables
  <2>2. ReleaseFits(Cmd(t))
    BY <1>4, <2>1, CmdAt DEF ReadReservation, ClientCommandType
  <2>3. PICK row : row = reservation[Cmd(t).res] /\ Goto(t, "tx", row, NoReply)
    BY <1>4 DEF ReadReservation
  <2>4. row.status = "ACTIVE" => row.remaining = Cmd(t).amount
    BY <2>2, <2>3 DEF ReleaseFits, ReservationsFit
  <2>5. ReservationsKept
    BY <1>2, <2>1
  <2>6. ReadersFit'
    BY <2>1, <2>3, <2>4, <2>5, ReaderFits
  <2> QED BY <1>2, <2>1, <2>6
<1>5. CASE CommitTransaction(t)
  <2>1. /\ UNCHANGED <<log, saved, fault>> /\ AtCommand(t) /\ Result(t) = "ok"
        /\ Commit(Cmd(t), Req(t), seen[t])
    BY <1>5 DEF CommitTransaction, InTransaction
  <2>2. /\ RowsFit' /\ RowsStay /\ ReservationsKept /\ ReservationsFit'
        /\ t[2] \in EventPartition => reservation'[Cmd(t).res].status = "RELEASED"
    BY <1>1, <2>1, CommitFits
  <2>3. CASE Cmd(t).type \in ClientCommandType
    <3>1. t[2] \notin EventPartition
      BY <2>1, <2>3, CmdAt DEF ReleaseFits, ClientCommandType
    <3>2. PICK reply : Goto(t, "reply", NoReservation, reply) /\ UNCHANGED <<next, pos>>
      BY <1>5, <2>3 DEF CommitTransaction
    <3>3. ReadersFit'
      BY <1>1, <2>1, <2>2, <3>1, <3>2, ReaderFits
    <3> QED BY <2>1, <2>2, <3>3
  <2>4. CASE Cmd(t).type \notin ClientCommandType
    <3>1. NextCommand(t)
      BY <1>5, <2>4 DEF CommitTransaction
    <3>2. /\ t[2] \in EventPartition /\ ReleaseFits(Cmd(t)) /\ Len(Record(t)) = 1
          /\ Cmd(t) = log[t[2]][next[t]][1]
      BY <2>1, <2>4, CmdAt
    <3>3. next[t] \in DOMAIN log[t[2]] /\ Record(t) \in Seq(Command)
      <4>1. PICK p \in EventPartition, n \in Nat \ {0} : p = t[2] /\ n = next[t]
        BY <3>2 DEF WalletInv, TasksOK
      <4>2. log[p] \in Seq(Seq(Command)) /\ n <= Len(log[p])
        BY <2>1, <4>1 DEF WalletInv, LogsOK, AtCommand, HasRecord, Partition
      <4>3. n \in DOMAIN log[p] /\ log[p][n] \in Seq(Command)
        BY <4>2
      <4> QED BY <4>1, <4>3 DEF Record
    <3>4. Applied(t[2], next[t])'
      <4>1. next' = next
        BY <3>1 DEF NextCommand
      <4>2. log'[t[2]][next'[t]] = Record(t) /\ DOMAIN Record(t) = {1}
        BY <2>1, <3>2, <3>3, <4>1 DEF Record
      <4>3. log'[t[2]][next'[t]][1] = Cmd(t)
        BY <2>1, <3>2, <4>1
      <4> QED BY <2>2, <3>2, <4>2, <4>3 DEF Applied
    <3>5. ReadersFit'
      BY <2>1, <2>2, <3>1, <3>3, <3>4, GoesOnFits
    <3> QED BY <2>1, <2>2, <3>5
  <2> QED BY <2>3, <2>4
<1>6. CASE SkipDelta(t)
  <2>1. UNCHANGED <<log, reservation, outbox, saved, fault>> /\ AtCommand(t) /\ NextCommand(t)
    BY <1>6 DEF SkipDelta, InTransaction, tables
  <2>2. t[2] \notin EventPartition
    <3>1. ReleaseFits(Cmd(t)) => Result(t) # "nothing"
      BY DEF ReleaseFits, Result, Outcome, ReleaseOutcome
    <3> QED BY <1>6, <2>1, <3>1, CmdAt DEF SkipDelta
  <2>3. ReservationsKept
    BY <1>2, <2>1
  <2>4. ReadersFit'
    BY <2>1, <2>2, <2>3, GoesOnFits
  <2> QED BY <1>2, <2>1, <2>4
<1>7. CASE RejectFunds(t)
  <2>1. UNCHANGED <<log, reservation, outbox, next, pos, saved, fault>> /\ AtCommand(t)
    BY <1>7 DEF RejectFunds, InTransaction, tables
  <2>2. t[2] \notin EventPartition
    <3>1. ReleaseFits(Cmd(t)) => Result(t) # "InsufficientFunds"
      BY DEF ReleaseFits, Result, Outcome, ReleaseOutcome
    <3> QED BY <1>7, <2>1, <3>1, CmdAt DEF RejectFunds
  <2>3. PICK ph, reply : Goto(t, ph, NoReservation, reply)
    BY <1>7 DEF RejectFunds
  <2>4. ReservationsKept
    BY <1>2, <2>1
  <2>5. ReadersFit'
    BY <1>1, <2>1, <2>2, <2>3, <2>4, ReaderFits
  <2> QED BY <1>2, <2>1, <2>5
<1>8. CASE FailTransaction(t)
  <2>1. UNCHANGED <<log, reservation, outbox, saved>>
    BY <1>8 DEF FailTransaction, tables
  <2>2. Stop(t[1], Result(t), t[2])
    BY <1>8 DEF FailTransaction
  <2>3. ReadersFit'
    BY <2>1, <2>2, StoppedFits
  <2> QED BY <1>2, <2>1, <2>3
<1>9. CASE RecordRejection(t)
  <2>1. UNCHANGED <<log, reservation, outbox, next, pos, saved, fault>> /\ phase[t] = "record"
    BY <1>9 DEF RecordRejection, RecordReply
  <2>2. t[2] \notin EventPartition
    BY <1>1, <2>1 DEF TaskFits
  <2>3. PICK ph, reply : Goto(t, ph, NoReservation, reply)
    BY <1>9 DEF RecordRejection
  <2>4. ReservationsKept
    BY <1>2, <2>1
  <2>5. ReadersFit'
    BY <1>1, <2>1, <2>2, <2>3, <2>4, ReaderFits
  <2> QED BY <1>2, <2>1, <2>5
<1>10. CASE PublishReply(t)
  <2>1. /\ UNCHANGED <<log, reservation, outbox, saved, fault>> /\ phase[t] = "reply"
        /\ NextCommand(t)
    BY <1>10 DEF PublishReply, tables
  <2>2. t[2] \notin EventPartition
    BY <1>1, <2>1 DEF TaskFits
  <2>3. ReservationsKept
    BY <1>2, <2>1
  <2>4. ReadersFit'
    BY <2>1, <2>2, <2>3, GoesOnFits
  <2> QED BY <1>2, <2>1, <2>4
<1>11. CASE SaveOffset(t)
  <2>1. UNCHANGED <<log, reservation, outbox>>
    BY <1>11 DEF SaveOffset, tables
  <2> QED BY <1>2, <1>11, <2>1, SavedFits
<1> QED BY <1>3, <1>4, <1>5, <1>6, <1>7, <1>8, <1>9, <1>10, <1>11 DEF TaskStep

\* A process that starts reads on at its saved offsets.
LEMMA RestartFits ==
  ASSUME WalletInv, ReadersFit, NEW i \in Instance, Restart(i)
  PROVE  ReadersFit'
<1>1. /\ UNCHANGED <<log, saved, reservation, phase, seen>>
      /\ next' = [t \in Task |-> IF t[1] = i THEN saved[t[2]] ELSE next[t]]
      /\ pos' = [t \in Task |-> IF t[1] = i THEN 1 ELSE pos[t]]
  BY DEF Restart, tables
<1>2. \A p \in EventPartition : AppliedBefore(p, saved[p])'
  BY <1>1 DEF ReadersFit, AppliedBefore, Applied
<1>3. ASSUME NEW t \in Task PROVE TaskFits(t)'
  <2>1. CASE t[1] = i
    <3>1. next'[t] = saved[t[2]] /\ pos'[t] = 1
      BY <1>1, <2>1
    <3>2. TaskFits(t) /\ seen[t].status # "ACTIVE"
      BY <2>1 DEF ReadersFit, TaskFits, Restart, Running
    <3>3. t[2] \in EventPartition => AppliedBefore(t[2], next[t])'
      BY <1>1, <3>1 DEF ReadersFit, AppliedBefore, Applied
    <3> QED BY <1>1, <3>1, <3>2, <3>3 DEF TaskFits
  <2>2. CASE t[1] # i
    <3>1. next'[t] = next[t] /\ pos'[t] = pos[t] /\ TaskFits(t)
      BY <1>1, <2>2 DEF ReadersFit
    <3>2. Running(t)' = Running(t)
      BY <2>2 DEF Restart, Running, Up, WalletInv, LogsOK, Task
    <3> QED BY <1>1, <3>1, <3>2 DEF TaskFits, AppliedBefore, Applied, AtCommand, HasRecord, Record, Cmd
  <2> QED BY <2>1, <2>2
<1> QED BY <1>2, <1>3 DEF ReadersFit

(***************************************************************************)
(* The relay.                                                               *)
(***************************************************************************)
LEMMA RowsRelayed ==
  ASSUME RelayFits, RowsFit', RowsStay, Len(outbox') <= MaxRows,
         status' = [id \in Row |->
           IF id \in DOMAIN outbox' \ DOMAIN outbox /\ IsInput(outbox'[id]) THEN "PENDING"
           ELSE status[id]],
         UNCHANGED <<input, relayPhase, batch, sending>>
  PROVE  RelayFits'
<1>1. ASSUME NEW id \in Row
      PROVE  /\ InputId(id) => InputId(id)'
             /\ InputId(id)' <=> (status'[id] # "NONE")
             /\ status'[id] \in Relay!Status /\ (status'[id] = "PUBLISHED" => status[id] = "PUBLISHED")
  <2>1. InputId(id) => InputId(id)' /\ outbox'[id] = outbox[id]
    BY InputIdStays
  <2>2. id \in DOMAIN outbox => id \in DOMAIN outbox' /\ outbox'[id] = outbox[id]
    BY DEF RowsStay
  <2>3. InputId(id)' <=> id \in DOMAIN outbox' /\ IsInput(outbox'[id])
    BY DEF InputId, IsInput
  <2>4. InputId(id) <=> id \in DOMAIN outbox /\ IsInput(outbox[id])
    BY DEF InputId
  <2>5. status'[id] = IF id \in DOMAIN outbox' \ DOMAIN outbox /\ IsInput(outbox'[id]) THEN "PENDING"
                      ELSE status[id]
    OBVIOUS
  <2>6. status[id] # "NONE" <=> InputId(id)
    BY DEF RelayFits
  <2>7. status[id] \in Relay!Status
    BY DEF RelayFits
  <2>8. "PENDING" \in Relay!Status
    BY DEF Relay!Status
  <2> QED BY <2>1, <2>2, <2>3, <2>4, <2>5, <2>6, <2>7, <2>8
<1>2. status' \in [Row -> Relay!Status]
  BY <1>1
<1>3. \A id \in Row : OnInput(id)' <=> OnInput(id)
  BY DEF OnInput
<1>4. \A i \in Instance : batch[i] \subseteq Row /\ sending[i] \in Row
  BY DEF RelayFits
<1> QED BY <1>1, <1>2, <1>3, <1>4 DEF RelayFits

\* The relay ends with its process and leaves its batch.
LEMMA RelayEndsFits ==
  ASSUME RelayFits, NEW i \in Instance, RelayEnds(i), outbox' = outbox
  PROVE  RelayFits'
<1>1. /\ UNCHANGED <<status, input, sending>>
      /\ batch' = [batch EXCEPT ![i] = {}] /\ relayPhase' = [relayPhase EXCEPT ![i] = "down"]
  BY DEF RelayEnds
<1>2. /\ \A id : InputId(id)' <=> InputId(id)
      /\ \A id : OnInput(id)' <=> OnInput(id)
  BY <1>1 DEF InputId, OnInput, IsInput
<1>3. batch' \in [Instance -> SUBSET Row] /\ relayPhase' \in [Instance -> Relay!Phase]
  BY <1>1 DEF RelayFits, Relay!Phase
<1>4. ASSUME NEW j \in Instance
      PROVE  /\ \A id \in batch'[j] : InputId(id)'
             /\ relayPhase'[j] \in {"published", "failed"} => InputId(sending[j])
             /\ relayPhase'[j] = "published" => OnInput(sending[j])
  BY <1>1, <1>2 DEF RelayFits
<1>5. \A j \in Instance : sending'[j] = sending[j] /\ InputId(sending[j])' = InputId(sending[j])
                          /\ OnInput(sending[j])' = OnInput(sending[j])
  BY <1>1, <1>2 DEF InputId, OnInput, IsInput
<1> QED BY <1>1, <1>2, <1>3, <1>4, <1>5 DEF RelayFits

\* A step of the relay.
LEMMA RelayStepFits ==
  ASSUME RelayFits, NEW i \in Instance, Relay!RelayStep(i), outbox' = outbox
  PROVE  RelayFits' /\ InputStays
<1>1. \A id : InputId(id)' <=> InputId(id)
  BY DEF InputId, IsInput
<1>2. ASSUME InputStays, NEW id, OnInput(id) PROVE OnInput(id)'
  BY <1>2 DEF OnInput, InputStays
<1>3. CASE Relay!RequeueStale(i)
  <2>1. /\ status' = [id \in Row |-> IF status[id] = "PROCESSING" /\ stale[id] THEN "PENDING" ELSE status[id]]
        /\ relayPhase' = [relayPhase EXCEPT ![i] = "claim"] /\ UNCHANGED <<input, batch, sending>>
    BY <1>3 DEF Relay!RequeueStale, Relay!Requeueable
  <2> QED BY <1>1, <2>1 DEF RelayFits, InputStays, InputId, OnInput, IsInput, Relay!Status, Relay!Phase
<1>4. CASE Relay!Claim(i)
  <2>1. PICK C : C = Relay!Claimed
    OBVIOUS
  <2>2. \A id \in C : id \in Row /\ status[id] = "PENDING"
    BY <2>1 DEF Relay!Claimed, Relay!Claimable
  <2>3. PICK ph \in Relay!Phase : relayPhase' = [relayPhase EXCEPT ![i] = ph] /\ ph \in {"requeue", "publish"}
    BY <1>4 DEF Relay!Claim, Relay!Phase
  <2>4. /\ status' = [id \in Row |-> IF id \in C THEN "PROCESSING" ELSE status[id]]
        /\ batch' = [batch EXCEPT ![i] = C] /\ UNCHANGED <<input, sending>>
    BY <1>4, <2>1 DEF Relay!Claim
  <2>5. \A id \in C : InputId(id)
    BY <2>2 DEF RelayFits
  <2> QED BY <1>1, <2>2, <2>3, <2>4, <2>5
          DEF RelayFits, InputStays, InputId, OnInput, IsInput, Relay!Status
<1>5. ASSUME NEW id \in batch[i], NEW ph \in {"published", "failed"},
             \/ input' = [input EXCEPT ![InputPartition] = Append(@, id)]
             \/ input' = input /\ ph = "failed",
             sending' = [sending EXCEPT ![i] = id], relayPhase' = [relayPhase EXCEPT ![i] = ph],
             UNCHANGED <<status, batch>>
      PROVE  RelayFits' /\ InputStays
  <2>1. id \in Row /\ InputId(id)
    BY DEF RelayFits
  <2>10. PICK old \in Seq(Row) : old = input[InputPartition]
    BY DEF RelayFits
  <2>11. \/ input'[InputPartition] = Append(old, id)
         \/ input'[InputPartition] = old /\ ph = "failed"
    BY <1>5, <2>10 DEF RelayFits
  <2>12. Append(old, id) \in Seq(Row)
    BY <2>1
  <2>2. PICK new \in Seq(Row) :
          /\ old = input[InputPartition] /\ new = input'[InputPartition]
          /\ new = Append(old, id) \/ (new = old /\ ph = "failed")
    BY <2>10, <2>11, <2>12
  <2>3. input' \in [{InputPartition} -> Seq(Row)]
    BY <1>5, <2>1, <2>2 DEF RelayFits
  <2>4. InputStays /\ \A n \in DOMAIN new : n \in DOMAIN old \/ new[n] = id
    <3>1. CASE new = Append(old, id)
      <4>1. /\ \A n \in DOMAIN old : n \in DOMAIN new /\ new[n] = old[n]
            /\ new[Len(old) + 1] = id
            /\ \A n \in DOMAIN new : n \in DOMAIN old \/ n = Len(old) + 1
        BY <3>1, AppendStays
      <4> QED BY <2>2, <4>1 DEF InputStays
    <3>2. CASE new = old
      BY <2>2, <3>2 DEF InputStays
    <3> QED BY <2>2, <3>1, <3>2
  <2>5. ph = "published" => OnInput(id)'
    <3>1. ASSUME ph = "published" PROVE \E n \in DOMAIN new : new[n] = id
      <4>1. new = Append(old, id)
        BY <2>2, <3>1
      <4>2. Len(old) + 1 \in DOMAIN new /\ new[Len(old) + 1] = id
        BY <4>1
      <4> QED BY <4>2
    <3> QED BY <2>2, <3>1 DEF OnInput
  <2>6. ASSUME NEW x \in Row, OnInput(x)' PROVE InputId(x)'
    <3>1. PICK n \in DOMAIN new : new[n] = x
      BY <2>2, <2>6 DEF OnInput
    <3>2. CASE x = id
      BY <1>1, <2>1, <3>2
    <3>3. CASE x # id
      <4>1. n \in DOMAIN old /\ old[n] = x
        BY <2>2, <2>4, <3>1, <3>3 DEF InputStays
      <4>2. OnInput(x)
        BY <2>2, <4>1 DEF OnInput
      <4> QED BY <1>1, <4>2 DEF RelayFits
    <3> QED BY <3>2, <3>3
  <2>7. \A x \in Row : status'[x] = "PUBLISHED" => OnInput(x)'
    BY <1>2, <1>5, <2>4 DEF RelayFits
  <2>8. ASSUME NEW j \in Instance
        PROVE  /\ \A x \in batch'[j] : InputId(x)'
               /\ relayPhase'[j] \in {"published", "failed"} => InputId(sending[j])'
               /\ relayPhase'[j] = "published" => OnInput(sending[j])'
    <3>1. PICK x \in Row : x = sending'[j]
      BY <1>5, <2>1 DEF RelayFits
    <3>2. relayPhase'[j] \in {"published", "failed"} => InputId(x)'
      BY <1>1, <1>5, <2>1, <3>1 DEF RelayFits
    <3>3. relayPhase'[j] = "published" => OnInput(x)'
      <4>1. CASE j = i
        BY <1>5, <2>5, <3>1, <4>1 DEF RelayFits
      <4>2. CASE j # i
        BY <1>2, <1>5, <2>4, <3>1, <4>2 DEF RelayFits
      <4> QED BY <4>1, <4>2
    <3>4. InputId(sending[j])' = InputId(x)' /\ OnInput(sending[j])' = OnInput(x)'
      BY <3>1 DEF InputId, OnInput
    <3> QED BY <1>1, <1>5, <3>2, <3>3, <3>4 DEF RelayFits
  <2>9. sending' \in [Instance -> Row] /\ relayPhase' \in [Instance -> Relay!Phase]
    BY <1>5, <2>1 DEF RelayFits, Relay!Phase
  <2> QED BY <1>1, <1>5, <2>3, <2>4, <2>6, <2>7, <2>8, <2>9 DEF RelayFits
<1>6. CASE Relay!Publish(i)
  <2>1. PICK id \in batch[i] : /\ Relay!Write(id) /\ sending' = [sending EXCEPT ![i] = id]
    BY <1>6 DEF Relay!Publish
  <2>2. id \in Row
    BY DEF RelayFits
  <2>3. input' = [input EXCEPT ![InputPartition] = Append(@, id)]
    BY <2>1, <2>2 DEF Relay!Write
  <2>4. relayPhase' = [relayPhase EXCEPT ![i] = "published"] /\ UNCHANGED <<status, batch>>
    BY <1>6 DEF Relay!Publish, Relay!outboxTable
  <2> QED BY <1>5, <2>1, <2>3, <2>4
<1>7. CASE Relay!PublishFails(i)
  <2>1. PICK id \in batch[i] : /\ Relay!Write(id) \/ input' = input
                               /\ sending' = [sending EXCEPT ![i] = id]
    BY <1>7 DEF Relay!PublishFails
  <2>2. id \in Row
    BY DEF RelayFits
  <2>3. input' = [input EXCEPT ![InputPartition] = Append(@, id)] \/ input' = input
    BY <2>1, <2>2 DEF Relay!Write
  <2>4. relayPhase' = [relayPhase EXCEPT ![i] = "failed"] /\ UNCHANGED <<status, batch>>
    BY <1>7 DEF Relay!PublishFails, Relay!outboxTable
  <2> QED BY <1>5, <2>1, <2>3, <2>4
<1>8. ASSUME NEW id \in Row, InputId(id), NEW st \in {"PENDING", "PUBLISHED"},
             st = "PUBLISHED" => OnInput(id), id = sending[i],
             status' = [status EXCEPT ![id] = st], Relay!Done(i)
      PROVE  RelayFits' /\ InputStays
  <2>1. PICK ph \in {"requeue", "publish"} : relayPhase' = [relayPhase EXCEPT ![i] = ph]
    BY <1>8 DEF Relay!Done
  <2>2. batch' = [batch EXCEPT ![i] = @ \ {id}] /\ UNCHANGED <<input, sending>>
    BY <1>8 DEF Relay!Done
  <2>3. \A x : OnInput(x)' <=> OnInput(x)
    BY <2>2 DEF OnInput
  <2>4. status' \in [Row -> Relay!Status] /\ relayPhase' \in [Instance -> Relay!Phase]
        /\ batch' \in [Instance -> SUBSET Row]
    BY <1>8, <2>1, <2>2 DEF RelayFits, Relay!Status, Relay!Phase
  <2>5. \A x \in Row : /\ status'[x] # "NONE" <=> InputId(x)
                       /\ status'[x] = "PUBLISHED" => OnInput(x)
    BY <1>8 DEF RelayFits
  <2>6. ASSUME NEW j \in Instance
        PROVE  /\ \A x \in batch'[j] : InputId(x)'
               /\ relayPhase'[j] \in {"published", "failed"} => InputId(sending[j])
               /\ relayPhase'[j] = "published" => OnInput(sending[j])
    BY <1>1, <2>1, <2>2 DEF RelayFits
  <2>7. \A j \in Instance : sending'[j] = sending[j] /\ InputId(sending[j])' = InputId(sending[j])
                            /\ OnInput(sending[j])' = OnInput(sending[j])
    BY <2>2 DEF InputId, OnInput, IsInput
  <2> QED BY <1>1, <2>2, <2>3, <2>4, <2>5, <2>6, <2>7 DEF RelayFits, InputStays
<1>9. CASE Relay!MarkPublished(i)
  <2>1. PICK id \in Row : id = sending[i]
    BY DEF RelayFits
  <2>2. /\ relayPhase[i] = "published" /\ status' = [status EXCEPT ![id] = "PUBLISHED"]
        /\ Relay!Done(i)
    BY <1>9, <2>1 DEF Relay!MarkPublished
  <2>3. InputId(id) /\ OnInput(id)
    BY <2>1, <2>2 DEF RelayFits
  <2> QED BY <1>8, <2>1, <2>2, <2>3
<1>10. CASE Relay!MarkPending(i)
  <2>1. PICK id \in Row : id = sending[i]
    BY DEF RelayFits
  <2>2. /\ relayPhase[i] = "failed" /\ status' = [status EXCEPT ![id] = "PENDING"]
        /\ Relay!Done(i)
    BY <1>10, <2>1 DEF Relay!MarkPending
  <2>3. InputId(id)
    BY <2>1, <2>2 DEF RelayFits
  <2> QED BY <1>8, <2>1, <2>2, <2>3
<1>11. CASE Relay!RestartRelay(i)
  <2>1. /\ relayPhase' = [relayPhase EXCEPT ![i] = "requeue"]
        /\ UNCHANGED <<status, input, batch, sending>>
    BY <1>11 DEF Relay!RestartRelay, Relay!outboxTable
  <2> QED BY <2>1 DEF RelayFits, InputStays, InputId, OnInput, IsInput, Relay!Phase
<1> QED BY <1>3, <1>4, <1>6, <1>7, <1>9, <1>10, <1>11 DEF Relay!RelayStep

(***************************************************************************)
(* A record that is appended to a log.                                      *)
(***************************************************************************)
LEMMA LogLonger ==
  ASSUME WalletInv, NEW p \in Partition, NEW record \in Seq(Command), Write(p, record),
         UNCHANGED <<tables, saved, fault, task, taken, crashes>>
  PROVE  /\ WalletInv' /\ LogStays /\ RowsStay /\ ReservationsKept
         /\ log'[p] = Append(log[p], record)
         /\ \A q \in Partition : q # p => log'[q] = log[q]
         /\ UNCHANGED <<outbox, reservation>>
<1>1. log' = [log EXCEPT ![p] = Append(@, record)]
  BY DEF Write
<1>2. log'[p] = Append(log[p], record) /\ \A q \in Partition : q # p => log'[q] = log[q]
  BY <1>1 DEF WalletInv, LogsOK
<1>3. LogStays
  <2>1. \A n \in DOMAIN log[p] : n \in DOMAIN log'[p] /\ log'[p][n] = log[p][n]
    BY <1>2, AppendStays DEF WalletInv, LogsOK
  <2> QED BY <1>2, <2>1 DEF LogStays
<1>4. LogsOK'
  BY WriteType DEF WalletInv, LogsOK
<1>5. StoreOK' /\ TasksOK'
  BY SameStore DEF WalletInv, TasksOK, task
<1> QED BY <1>2, <1>3, <1>4, <1>5 DEF WalletInv, RowsStay, ReservationsKept, tables

\* The readers of a log that grows.
LEMMA ReadersLog ==
  ASSUME WalletInv, EventsFit, ReadersFit, NEW p \in Partition, NEW record \in Seq(Command),
         Write(p, record), UNCHANGED <<tables, saved, fault, task, taken, crashes>>
  PROVE  ReadersFit'
<1>1. WalletInv' /\ LogStays /\ ReservationsKept
  BY LogLonger
<1>2. UNCHANGED <<saved, fault, phase, next, pos, seen>>
  BY DEF task
<1>3. ASSUME NEW q \in EventPartition PROVE AppliedBefore(q, saved[q])'
  <2>1. PICK m \in Nat \ {0} : m = saved[q] /\ AppliedBefore(q, m)
    BY DEF ReadersFit, WalletInv, LogsOK, Partition
  <2>2. AppliedBefore(q, m)'
    BY <1>1, <2>1, AppliedBeforeStays DEF WalletInv
  <2> QED BY <1>2, <2>1, <2>2 DEF AppliedBefore
<1>4. ASSUME NEW t \in Task PROVE TaskFits(t)'
  <2>1. AtCommand(t) => AtCommand(t)' /\ Cmd(t)' = Cmd(t)
    BY <1>2, LogGrows DEF WalletInv
  <2>2. TaskFits(t)
    BY DEF ReadersFit
  <2>3. Running(t)' = Running(t)
    BY <1>2 DEF Running, Up
  <2>4. /\ t[2] \in EventPartition => phase'[t] \in {"ready", "tx"}
        /\ seen'[t].status = "ACTIVE" =>
             Running(t)' /\ AtCommand(t)' /\ seen'[t].remaining = Cmd(t)'.amount
    BY <1>2, <2>1, <2>2, <2>3 DEF TaskFits
  <2> QED BY <1>1, <1>2, <2>2, <2>4, TaskStaysFit DEF WalletInv
<1> QED BY <1>3, <1>4 DEF ReadersFit

(***************************************************************************)
(* Clients.                                                                 *)
(***************************************************************************)
LEMMA AskFits ==
  ASSUME WalletInv, FlowInv, NEW cmd \in ClientCommand, NEW body \in Body, BodyFits(cmd, body),
         Ask(cmd, body)
  PROVE  WalletInv' /\ FlowInv'
<1> USE DEF FlowInv
<1>1. PICK p \in CommandPartition : p = UserPartition[cmd.user]
  BY PartitionAssumption DEF ClientCommand, CommandPartition
<1>2. p \in Partition /\ <<cmd>> \in Seq(Command)
  BY OneCommand DEF Partition, Command
<1>3. /\ Write(p, <<cmd>>) /\ Len(log[p]) < MaxCommands
      /\ UNCHANGED <<tables, saved, fault, task, taken, crashes>>
      /\ bodies' = [bodies EXCEPT ![p] = Append(@, body)]
      /\ UNCHANGED <<relayVars, peerVars>>
  BY <1>1 DEF Ask, Submit
<1>4. /\ WalletInv' /\ LogStays /\ RowsStay /\ ReservationsKept
      /\ log'[p] = Append(log[p], <<cmd>>)
      /\ \A q \in Partition : q # p => log'[q] = log[q]
      /\ UNCHANGED <<outbox, reservation>>
  BY <1>2, <1>3, LogLonger
<1>5. EventLogSame
  BY <1>4, PartitionAssumption DEF EventLogSame, Partition
<1>6. /\ bodies'[p] = Append(bodies[p], body) /\ DOMAIN bodies' = CommandPartition
      /\ \A q \in CommandPartition : q # p => bodies'[q] = bodies[q]
  BY <1>3 DEF CommandsFit
<1>7. BodiesFit(p)
  BY DEF CommandsFit
<1>8. bodies[p] \in Seq(Body) /\ log[p] \in Seq(Seq(Command)) /\ Len(bodies[p]) = Len(log[p])
  BY <1>2, <1>7 DEF BodiesFit, WalletInv, LogsOK
<1>9. /\ DOMAIN bodies[p] = DOMAIN log[p] /\ bodies'[p] \in Seq(Body)
      /\ \A n \in DOMAIN bodies[p] : n \in DOMAIN bodies'[p] /\ bodies'[p][n] = bodies[p][n]
      /\ bodies'[p][Len(log[p]) + 1] = body /\ Len(bodies'[p]) = Len(log[p]) + 1
  <2>1. DOMAIN bodies[p] = DOMAIN log[p]
    BY <1>8
  <2>2. bodies'[p] \in Seq(Body)
    BY <1>6, <1>8
  <2> QED BY <1>6, <1>8, <2>1, <2>2, AppendStays
<1>10. /\ \A n \in DOMAIN log[p] : n \in DOMAIN log'[p] /\ log'[p][n] = log[p][n]
       /\ log'[p][Len(log[p]) + 1] = <<cmd>> /\ Len(log'[p]) = Len(log[p]) + 1
       /\ \A n \in DOMAIN log'[p] : n \in DOMAIN log[p] \/ n = Len(log[p]) + 1
  BY <1>4, <1>8, AppendStays
<1>11. BodiesStay
  BY <1>6, <1>9 DEF BodiesStay
<1>12. BodiesFit(p)'
  <2>1. Len(log'[p]) <= MaxCommands
    BY <1>3, <1>8, <1>10, CommandAssumption
  <2>2. ASSUME NEW n \in DOMAIN log'[p]
        PROVE  Len(log'[p][n]) = 1 /\ BodyFits(log'[p][n][1], bodies'[p][n])
    <3>1. CASE n \in DOMAIN log[p]
      BY <1>7, <1>9, <1>10, <3>1 DEF BodiesFit
    <3>2. CASE n = Len(log[p]) + 1
      <4>1. log'[p][n] = <<cmd>> /\ bodies'[p][n] = body
        BY <1>9, <1>10, <3>2
      <4>2. log'[p][n][1] = cmd /\ Len(log'[p][n]) = 1
        BY <4>1
      <4> QED BY <4>1, <4>2
    <3> QED BY <1>10, <3>1, <3>2
  <2>3. \A n \in DOMAIN log'[p] : Len(log'[p][n]) = 1 /\ BodyFits(log[p][n][1], bodies[p][n])'
    BY <2>2 DEF BodyFits
  <2> QED BY <1>9, <1>10, <2>1, <2>3 DEF BodiesFit
<1>13. ASSUME NEW q \in CommandPartition, q # p PROVE BodiesFit(q)'
  <2>1. log'[q] = log[q] /\ bodies'[q] = bodies[q] /\ BodiesFit(q)
    BY <1>4, <1>6, <1>13 DEF CommandsFit, Partition
  <2> QED BY <2>1 DEF BodiesFit, BodyFits
<1>14. CommandsFit'
  <2>1. \A q \in CommandPartition : BodiesFit(q)'
    BY <1>12, <1>13
  <2>2. DOMAIN bodies' = CommandPartition
    BY <1>6
  <2> HIDE DEF FlowInv
  <2> QED BY <2>1, <2>2 DEF CommandsFit
<1>15. UNCHANGED <<status, input, batch, sending, relayPhase>>
  BY <1>3 DEF relayVars
<1>16. InputStays
  BY <1>15 DEF InputStays
<1>17. RowsFit' /\ EventsFit' /\ ReservationsFit' /\ RelayFits'
  BY <1>4, <1>5, <1>15, RowsSame, EventsSame, ReservationsSame, RelaySame
<1>18. ReadersFit'
  BY <1>2, <1>3, ReadersLog
<1>19. NothingTakenBack
  BY <1>4, <1>11, <1>16 DEF NothingTakenBack
<1>20. EngineFits'
  BY <1>3, <1>4, <1>16, <1>17, EngineSame
<1>21. OrdersFit'
  BY <1>3, <1>5, <1>17, <1>19, OrdersSame
<1> QED BY <1>4, <1>14, <1>17, <1>18, <1>20, <1>21

\* The margin of a valid order is positive and no more than was offered.
LEMMA OrderMarginPositive ==
  ASSUME NEW form \in Form, ValidOrder(form)
  PROVE  OrderMargin(form) \in Nat \ {0} /\ OrderMargin(form) <= form.margin
<1>1. form.margin \in Nat \ {0} /\ form.price \in Nat
  BY I64Assumption DEF Form, I64, ValidOrder
<1>2. CASE form.price = 0
  BY <1>1, <1>2 DEF OrderMargin
<1>3. CASE form.price > 0
  <2>1. OrderMargin(form) \in 1 .. form.margin
    BY <1>3, ValidOrderTakesLeastMargin
  <2> QED BY <1>1, <2>1
<1> QED BY <1>1, <1>2, <1>3

\* An order or a cancel that a client asks for.
LEMMA ClientsFit ==
  ASSUME WalletInv, FlowInv, AskForOrder \/ AskForCancel
  PROVE  WalletInv' /\ FlowInv'
<1>1. CASE AskForOrder
  <2>1. PICK r \in OrderRequests :
          /\ ValidOrder(r.form)
          /\ Ask([type |-> "PlaceOrderIntent", user |-> r.user, key |-> r.key, asset |-> MarginAsset,
                  amount |-> OrderMargin(r.form), market |-> BookMarket], r.form)
    BY <1>1 DEF AskForOrder
  <2>2. r.user \in User /\ r.key \in Key /\ r.form \in Form
    BY FlowAssumption
  <2>3. OrderMargin(r.form) \in Nat \ {0}
    BY <2>1, <2>2, OrderMarginPositive
  <2>4. PICK cmd : cmd = [type |-> "PlaceOrderIntent", user |-> r.user, key |-> r.key,
                          asset |-> MarginAsset, amount |-> OrderMargin(r.form), market |-> BookMarket]
    OBVIOUS
  <2>5. cmd \in ClientCommand
    BY <2>2, <2>3, <2>4, FlowAssumption DEF ClientCommand, Amount
  <2>6. BodyFits(cmd, r.form) /\ r.form \in Body
    BY <2>1, <2>2, <2>4 DEF BodyFits, Body, ClientCommandType
  <2> QED BY <2>1, <2>4, <2>5, <2>6, AskFits
<1>2. CASE AskForCancel
  <2>1. PICK k \in CancelKeys, x \in engineReplies :
          Ask([type |-> "CancelOrderIntent", user |-> k[1], key |-> k[2], market |-> BookMarket],
              [order |-> x.order])
    BY <1>2 DEF AskForCancel
  <2>2. k[1] \in User /\ k[2] \in Key /\ x.order \in Request
    BY FlowAssumption DEF FlowInv, EngineFits
  <2>3. PICK cmd : cmd = [type |-> "CancelOrderIntent", user |-> k[1], key |-> k[2], market |-> BookMarket]
    OBVIOUS
  <2>4. PICK body : body = [order |-> x.order]
    OBVIOUS
  <2>5. cmd \in ClientCommand
    BY <2>2, <2>3, FlowAssumption DEF ClientCommand
  <2>6. BodyFits(cmd, body) /\ body \in Body
    BY <2>2, <2>3, <2>4 DEF BodyFits, Body, ClientCommandType
  <2> QED BY <2>1, <2>3, <2>4, <2>5, <2>6, AskFits
<1> QED BY <1>1, <1>2

(***************************************************************************)
(* The engine.                                                              *)
(***************************************************************************)
LEMMA EventPublished ==
  ASSUME WalletInv, FlowInv, NEW record \in Seq(Command), Len(record) <= 1,
         \A k \in DOMAIN record : ReleaseFits(record[k]), PublishEvent(record), PeerOnly
  PROVE  /\ WalletInv' /\ NothingTakenBack /\ UNCHANGED <<outbox, bodies, input, reservation>>
         /\ CommandsFit' /\ RowsFit' /\ EventsFit' /\ ReservationsFit' /\ ReadersFit' /\ RelayFits'
         /\ \A r : ReleaseLogged(r)' <=> ReleaseLogged(r) \/ \E k \in DOMAIN record : record[k].res = r
<1> USE DEF FlowInv
<1>1. PICK p \in EventPartition : p = MarketPartition[BookMarket]
  BY PartitionAssumption, FlowAssumption DEF EventPartition
<1>2. p \in Partition /\ p \notin CommandPartition
  BY PartitionAssumption DEF Partition
<1>3. /\ Write(p, record) /\ UNCHANGED <<tables, saved, fault, task, taken, crashes>>
      /\ UNCHANGED <<bodies, relayVars>>
  BY <1>1 DEF PublishEvent, Write, PeerOnly
<1>4. /\ WalletInv' /\ LogStays /\ RowsStay /\ ReservationsKept
      /\ log'[p] = Append(log[p], record)
      /\ \A q \in Partition : q # p => log'[q] = log[q]
      /\ UNCHANGED <<outbox, reservation>>
  BY <1>2, <1>3, LogLonger
<1>5. CommandLogSame
  BY <1>2, <1>4 DEF CommandLogSame, Partition
<1>6. UNCHANGED <<status, input, batch, sending, relayPhase>>
  BY <1>3 DEF relayVars
<1>7. BodiesStay /\ InputStays
  BY <1>3, <1>6 DEF BodiesStay, InputStays
<1>8. /\ \A n \in DOMAIN log[p] : n \in DOMAIN log'[p] /\ log'[p][n] = log[p][n]
      /\ log'[p][Len(log[p]) + 1] = record /\ Len(log[p]) + 1 \in DOMAIN log'[p]
      /\ \A n \in DOMAIN log'[p] : n \in DOMAIN log[p] \/ n = Len(log[p]) + 1
  <2>1. log[p] \in Seq(Seq(Command))
    BY <1>2 DEF WalletInv, LogsOK
  <2> QED BY <1>4, <2>1, AppendStays
<1>9. \A n \in DOMAIN log'[p] : log'[p][n] = record \/ (n \in DOMAIN log[p] /\ log'[p][n] = log[p][n])
  BY <1>8
<1>10. \A q \in EventPartition : q # p => log'[q] = log[q]
  BY <1>4 DEF Partition
<1>11. EventsFit'
  <2> SUFFICES ASSUME NEW q \in EventPartition, NEW n \in DOMAIN log'[q]
               PROVE  Len(log'[q][n]) <= 1 /\ \A k \in DOMAIN log'[q][n] : ReleaseFits(log[q][n][k])'
    BY DEF EventsFit
  <2>1. Len(log'[q][n]) <= 1 /\ \A k \in DOMAIN log'[q][n] : ReleaseFits(log'[q][n][k])
    <3>1. CASE log'[q][n] = record
      BY <3>1
    <3>2. CASE n \in DOMAIN log[q] /\ log'[q][n] = log[q][n]
      BY <3>2 DEF EventsFit
    <3> QED BY <1>9, <1>10, <3>1, <3>2
  <2> QED BY <1>4, <2>1 DEF ReleaseFits
<1>12. ASSUME NEW r PROVE ReleaseLogged(r)' <=> ReleaseLogged(r) \/ \E k \in DOMAIN record : record[k].res = r
  <2>1. ReleaseLogged(r) => ReleaseLogged(r)'
    BY <1>4, LoggedStays
  <2>2. (\E k \in DOMAIN record : record[k].res = r) => ReleaseLogged(r)'
    BY <1>8 DEF ReleaseLogged
  <2>3. ASSUME ReleaseLogged(r)', ~ReleaseLogged(r) PROVE \E k \in DOMAIN record : record[k].res = r
    <3>1. PICK q \in EventPartition : \E n \in DOMAIN log'[q] : \E k \in DOMAIN log'[q][n] :
            log'[q][n][k].res = r
      BY <2>3 DEF ReleaseLogged
    <3>2. PICK n \in DOMAIN log'[q] : \E k \in DOMAIN log'[q][n] : log'[q][n][k].res = r
      BY <3>1
    <3>3. log'[q][n] = record
      <4>1. ~(n \in DOMAIN log[q] /\ log'[q][n] = log[q][n])
        BY <2>3, <3>2 DEF ReleaseLogged
      <4> QED BY <1>9, <1>10, <4>1
    <3> QED BY <3>2, <3>3
  <2> QED BY <2>1, <2>2, <2>3
<1>13. CommandsFit'
  BY <1>3, <1>5, CommandsSame
<1>14. RowsFit' /\ ReservationsFit' /\ RelayFits'
  BY <1>4, <1>6, RowsSame, ReservationsSame, RelaySame
<1>15. ReadersFit'
  BY <1>2, <1>3, ReadersLog
<1> QED BY <1>3, <1>4, <1>6, <1>7, <1>11, <1>12, <1>13, <1>14, <1>15 DEF NothingTakenBack

\* The engine moves on to the reply, or to the next input, or ends.
LEMMA CancelsStay ==
  ASSUME WalletInv, CommandsFit, RowsFit, RelayFits, NothingTakenBack, OrdersFit,
         \A n \in DOMAIN input[InputPartition] : Reached(n) => Reached(n)',
         NEW r \in ReservationId, ReleaseLogged(r)
  PROVE  \E i \in PlaceRows(r)' : Cancelled(outbox[i].payload.req)'
<1>1. PICK i \in PlaceRows(r) : Cancelled(outbox[i].payload.req)
  BY DEF OrdersFit
<1>2. i \in PlaceRows(r)' /\ outbox'[i] = outbox[i]
  BY PlaceRowsStay DEF NothingTakenBack
<1>3. PICK o : o = outbox[i].payload.req
  OBVIOUS
<1>4. Cancelled(o)'
  BY <1>1, <1>3, CancelledStays
<1>5. Cancelled(outbox[i].payload.req)' = Cancelled(o)'
  BY <1>2, <1>3 DEF Cancelled
<1> QED BY <1>2, <1>4, <1>5

\* What the order of a cancel is.
LEMMA CancelsOrder ==
  ASSUME WalletInv, FlowInv, NEW n \in DOMAIN input[InputPartition], InputAt(n).type = "CancelOrder"
  PROVE  BodyOf(InputAt(n).req).order \in Request
<1> USE DEF FlowInv
<1>1. PICK req : req = InputAt(n).req /\ Sent(req) /\ CmdOf(req).type = "CancelOrderIntent"
  BY InputFits DEF CancelFits
<1>2. PICK p \in CommandPartition : p = req[1] /\ req[2] \in DOMAIN log[p]
  BY <1>1 DEF Sent, Request
<1>3. BodyFits(log[p][req[2]][1], bodies[p][req[2]])
  BY <1>2 DEF CommandsFit, BodiesFit
<1> QED BY <1>1, <1>2, <1>3 DEF BodyFits, BodyOf, CmdOf

\* What a place of engine.input asks the engine to open.
LEMMA PlaceAt ==
  ASSUME WalletInv, FlowInv, NEW n \in DOMAIN input[InputPartition], InputAt(n).type = "PlaceOrder"
  PROVE  /\ InputAt(n).req \in Request /\ InputAt(n).res \in ReservationId
         /\ InputAt(n).amount \in Nat \ {0}
         /\ InputAt(n).res = <<CmdOf(InputAt(n).req).user, CmdOf(InputAt(n).req).key>>
         /\ input[InputPartition][n] \in PlaceRows(InputAt(n).res)
<1> USE DEF FlowInv
<1>1. PICK x : x = InputAt(n) /\ PlaceFits(x)
  BY InputFits
<1>2. PICK req \in Request, res \in ReservationId : req = x.req /\ res = x.res /\ Sent(req)
  BY <1>1 DEF PlaceFits, Sent
<1>3. PICK p \in CommandPartition : p = req[1] /\ req[2] \in DOMAIN log[p]
  BY <1>2 DEF Sent, Request
<1>4. PICK k : k = req[2] /\ k \in DOMAIN log[p]
  BY <1>3
<1>5. log[p] \in Seq(Seq(Command)) /\ BodiesFit(p)
  BY DEF WalletInv, LogsOK, Partition, CommandsFit
<1>6. log[p][k] \in Seq(Command) /\ Len(log[p][k]) = 1
  BY <1>4, <1>5 DEF BodiesFit
<1>7. log[p][k][1] \in Command
  BY <1>6
<1>8. PICK cmd \in Command : cmd = CmdOf(req)
  BY <1>3, <1>4, <1>7 DEF CmdOf
<1>9. cmd.amount \in Nat \ {0}
  BY <1>1, <1>2, <1>8, CommandFields DEF PlaceFits, ClientCommandType
<1>10. input[InputPartition][n] \in PlaceRows(x.res)
  <2>1. PICK id : id = input[InputPartition][n] /\ InputId(id) /\ outbox[id].payload = x
    BY <1>1, InputFits DEF InputAt
  <2> QED BY <1>1, <2>1 DEF InputId, PlaceRows, IsPlace
<1> QED BY <1>1, <1>2, <1>8, <1>9, <1>10 DEF PlaceFits

\* An open order is the one of its reservation's only PlaceOrder.
LEMMA OpenFits ==
  ASSUME WalletInv, FlowInv, NEW o \in Open
  PROVE  /\ orders[o].res \in ReservationId /\ orders[o].amount \in Nat \ {0}
         /\ orders[o].res = <<CmdOf(o).user, CmdOf(o).key>>
         /\ Sent(o) /\ CmdOf(o).type = "PlaceOrderIntent" /\ CmdOf(o).amount = orders[o].amount
         /\ reservation[orders[o].res].status # "NONE"
         /\ reservation[orders[o].res].amount = orders[o].amount
         /\ \E i \in PlaceRows(orders[o].res) : outbox[i].payload.req = o
<1> USE DEF FlowInv
<1>1. o \in Request /\ OrderFits(o, orders[o])
  BY DEF Open, EngineFits
<1>2. PICK i \in DOMAIN outbox :
        /\ IsPlace(outbox[i]) /\ outbox[i].payload.req = o
        /\ orders[o] = [res |-> outbox[i].payload.res, amount |-> outbox[i].payload.amount]
  BY <1>1 DEF OrderFits
<1>3. PICK x : x = outbox[i].payload /\ PlaceFits(x)
  BY <1>2 DEF RowsFit, RowFits
<1>4. orders[o].res = x.res /\ orders[o].amount = x.amount /\ x.req = o
  BY <1>2, <1>3
<1>5. i \in PlaceRows(x.res)
  BY <1>2, <1>3 DEF PlaceRows
<1>6. PICK p \in CommandPartition : p = o[1] /\ o[2] \in DOMAIN log[p]
  BY <1>3, <1>4 DEF PlaceFits, Sent, Request
<1>7. PICK k : k = o[2] /\ k \in DOMAIN log[p]
  BY <1>6
<1>8. log[p] \in Seq(Seq(Command)) /\ BodiesFit(p)
  BY DEF WalletInv, LogsOK, Partition, CommandsFit
<1>9. log[p][k] \in Seq(Command) /\ Len(log[p][k]) = 1
  BY <1>7, <1>8 DEF BodiesFit
<1>10. log[p][k][1] \in Command
  BY <1>9
<1>11. PICK cmd \in Command : cmd = CmdOf(o)
  BY <1>6, <1>7, <1>10 DEF CmdOf
<1>12. cmd.amount \in Nat \ {0}
  BY <1>3, <1>4, <1>11, CommandFields DEF PlaceFits, ClientCommandType
<1> QED BY <1>2, <1>3, <1>4, <1>5, <1>11, <1>12 DEF PlaceFits

\* The engine opens an order: for the first time, or again after its cancel.
LEMMA OpenOrderFits ==
  ASSUME WalletInv, FlowInv, OpenOrder
  PROVE  WalletInv' /\ FlowInv'
<1> USE DEF FlowInv
<1>1. /\ peer = "input" /\ peer' = "reply" /\ peerAt' = peerAt /\ engineReplies' = engineReplies
      /\ HasInput /\ Input.type = "PlaceOrder" /\ PublishEvent(<<>>) /\ PeerOnly
  BY DEF OpenOrder
<1>2. <<>> \in Seq(Command) /\ Len(<<>>) <= 1 /\ DOMAIN <<>> = {}
  BY NoCommand
<1>3. /\ WalletInv' /\ NothingTakenBack /\ UNCHANGED <<outbox, bodies, input, reservation>>
      /\ CommandsFit' /\ RowsFit' /\ EventsFit' /\ ReservationsFit' /\ ReadersFit' /\ RelayFits'
      /\ \A r : ReleaseLogged(r)' <=> ReleaseLogged(r)
  BY <1>1, <1>2, EventPublished
<1>4. /\ peerAt \in Nat \ {0} /\ peerAt \in DOMAIN input[InputPartition]
      /\ peerAt <= Len(input[InputPartition]) + 1
      /\ DOMAIN input[InputPartition] = 1 .. Len(input[InputPartition])
  BY <1>1 DEF HasInput, EngineFits, RelayFits
<1>5. PICK x : x = InputAt(peerAt)
  OBVIOUS
<1>6. /\ x.req \in Request /\ x.res \in ReservationId /\ x.amount \in Nat \ {0}
      /\ input[InputPartition][peerAt] \in PlaceRows(x.res)
  BY <1>1, <1>4, <1>5, PlaceAt DEF Input
<1>7. PICK id \in PlaceRows(x.res) : id = input[InputPartition][peerAt] /\ outbox[id].payload = x
  BY <1>5, <1>6 DEF InputAt
<1>8. PICK row : row = [res |-> x.res, amount |-> x.amount]
  OBVIOUS
<1>9. row \in OrderRow /\ row # NoOrder /\ row.res = x.res
  BY <1>6, <1>8 DEF OrderRow, NoOrder
<1>10. orders' = [orders EXCEPT ![x.req] = row]
  BY <1>5, <1>8 DEF OpenOrder, Input
<1>11. orders'[x.req] = row /\ \A o \in Request : o # x.req => orders'[o] = orders[o]
  BY <1>6, <1>10 DEF EngineFits
<1>12. EngineFits'
  <2>1. orders' \in [Request -> OrderRow]
    BY <1>6, <1>9, <1>10 DEF EngineFits
  <2>2. OrderFits(x.req, row)'
    <3>1. IsPlace(outbox[id]) /\ id \in DOMAIN outbox
      BY DEF PlaceRows
    <3>2. OrderFits(x.req, row)
      BY <1>7, <1>8, <3>1 DEF OrderFits
    <3> QED BY <1>3, <3>2 DEF OrderFits, IsPlace, IsInput
  <2>3. ASSUME NEW o \in Request, orders'[o] # NoOrder PROVE OrderFits(o, orders[o])'
    <3>1. PICK w : w = orders'[o]
      OBVIOUS
    <3>2. OrderFits(o, w)'
      <4>1. CASE o = x.req
        BY <1>11, <2>2, <3>1, <4>1
      <4>2. CASE o # x.req
        <5>1. OrderFits(o, w)
          BY <1>11, <2>3, <3>1, <4>2 DEF EngineFits
        <5> QED BY <1>3, <5>1, OrderFitsStays DEF NothingTakenBack
      <4> QED BY <4>1, <4>2
    <3> QED BY <3>1, <3>2 DEF OrderFits
  <2>4. peerAt' \in Nat \ {0} /\ peerAt' <= Len(input'[InputPartition]) + 1
    BY <1>1, <1>3, <1>4
  <2>5. peer' = "reply" /\ peerAt' \in DOMAIN input'[InputPartition]
    BY <1>1, <1>3, <1>4
  <2> QED BY <1>1, <2>1, <2>3, <2>4, <2>5 DEF EngineFits
<1>13. \A n \in DOMAIN input[InputPartition] : Reached(n) => Reached(n)'
  BY <1>1 DEF Reached
<1>14. \A n \in DOMAIN input[InputPartition] : InputAt(n)' = InputAt(n)
  BY <1>3 DEF InputAt
<1>15. ASSUME NEW n \in DOMAIN input'[InputPartition], Handled(n)', InputAt(n)'.type = "PlaceOrder"
       PROVE  orders'[InputAt(n)'.req] # NoOrder \/ ReleaseLogged(InputAt(n).res)'
  <2>1. n \in DOMAIN input[InputPartition] /\ InputAt(n)' = InputAt(n)
    BY <1>3, <1>14
  <2>2. PICK y : y = InputAt(n) /\ y = InputAt(n)'
    BY <2>1
  <2>3. y.req \in Request /\ y.type = "PlaceOrder"
    BY <1>15, <2>1, <2>2, PlaceAt
  <2>4. CASE y.req = x.req
    BY <1>9, <1>11, <2>2, <2>4
  <2>5. CASE y.req # x.req
    <3>1. n # peerAt
      BY <1>5, <2>2, <2>5
    <3>2. Handled(n)
      BY <1>1, <1>15, <3>1 DEF Handled
    <3>3. orders[y.req] # NoOrder \/ ReleaseLogged(y.res)
      BY <2>1, <2>2, <2>3, <3>2 DEF OrdersFit
    <3>4. ReleaseLogged(y.res) => ReleaseLogged(y.res)'
      BY <1>3
    <3>5. ReleaseLogged(InputAt(n).res)' = ReleaseLogged(y.res)'
      BY <2>2 DEF ReleaseLogged
    <3> QED BY <1>11, <2>2, <2>3, <2>5, <3>3, <3>4, <3>5
  <2> QED BY <2>4, <2>5
<1>16. ASSUME NEW r \in ReservationId, ReleaseLogged(r)'
       PROVE  \E i \in PlaceRows(r)' : Cancelled(outbox[i].payload.req)'
  <2>1. ReleaseLogged(r)
    BY <1>3, <1>16
  <2> QED BY <1>3, <1>13, <2>1, CancelsStay
<1>17. ASSUME NEW o \in Open', ReleaseLogged(orders[o].res)' PROVE Reopened(o)'
  <2>1. PICK r : r = orders'[o].res
    OBVIOUS
  <2>2. ReleaseLogged(r) /\ o \in Request /\ orders'[o] # NoOrder
    <3>1. ReleaseLogged(r)'
      BY <1>17, <2>1 DEF ReleaseLogged
    <3> QED BY <1>3, <3>1 DEF Open
  <2>3. CASE o # x.req
    <3>1. o \in Open /\ orders[o].res = r
      BY <1>11, <2>1, <2>2, <2>3 DEF Open
    <3>2. Reopened(o)
      BY <2>2, <3>1 DEF OrdersFit
    <3> QED BY <1>3, <3>2, ReopenedStays
  <2>4. CASE o = x.req
    <3>1. r = x.res
      BY <1>9, <1>11, <2>1, <2>4
    <3>2. PICK i \in PlaceRows(r) : Cancelled(outbox[i].payload.req)
      BY <1>6, <2>2, <3>1 DEF OrdersFit
    <3>3. i = id
      BY <1>6, <3>1, <3>2 DEF RowsFit
    <3>4. Cancelled(o)
      BY <1>7, <2>4, <3>2, <3>3
    <3>5. PICK n \in DOMAIN input[InputPartition] :
            /\ Reached(n) /\ InputAt(n).type = "CancelOrder" /\ BodyOf(InputAt(n).req).order = o
      BY <3>4 DEF Cancelled
    <3>6. n < peerAt
      BY <1>1, <3>5 DEF Reached
    <3>7. InputAt(peerAt).type = "PlaceOrder" /\ InputAt(peerAt).req = o
      BY <1>1, <1>5, <2>4 DEF Input
    <3>8. Reopened(o)
      BY <1>4, <3>5, <3>6, <3>7 DEF Reopened
    <3> QED BY <1>3, <3>8, ReopenedStays
  <2> QED BY <2>3, <2>4
<1>18. OrdersFit'
  BY <1>15, <1>16, <1>17 DEF OrdersFit
<1> QED BY <1>3, <1>12, <1>18

\* The engine closes an order, whose release is the only one.
LEMMA CloseOrderFits ==
  ASSUME WalletInv, FlowInv, CloseOrder
  PROVE  WalletInv' /\ FlowInv'
<1> USE DEF FlowInv
<1>1. /\ peer = "input" /\ peer' = "reply" /\ peerAt' = peerAt /\ engineReplies' = engineReplies
      /\ HasInput /\ Input.type = "CancelOrder" /\ PeerOnly
  BY DEF CloseOrder
<1>2. /\ peerAt \in Nat \ {0} /\ peerAt \in DOMAIN input[InputPartition]
      /\ peerAt <= Len(input[InputPartition]) + 1
  BY <1>1 DEF HasInput, EngineFits, RelayFits
<1>3. PICK order \in Request : order = BodyOf(Input.req).order
  BY <1>1, <1>2, CancelsOrder DEF Input
<1>4. PICK row \in OrderRow : row = orders[order]
  BY DEF EngineFits
<1>5. PICK record : record = ReleaseOf(order, row)
  OBVIOUS
<1>6. orders' = [orders EXCEPT ![order] = NoOrder] /\ PublishEvent(record)
  BY <1>3, <1>4, <1>5 DEF CloseOrder
<1>7. /\ record \in Seq(Command) /\ Len(record) <= 1
      /\ \A k \in DOMAIN record : ReleaseFits(record[k]) /\ record[k].res = row.res
      /\ row # NoOrder <=> DOMAIN record # {}
  <2>1. CASE row = NoOrder
    <3>1. record = <<>>
      BY <1>5, <2>1 DEF ReleaseOf, NoOrder
    <3>2. <<>> \in Seq(Command) /\ Len(<<>>) <= 1 /\ DOMAIN <<>> = {}
      BY NoCommand
    <3> QED BY <2>1, <3>1, <3>2
  <2>2. CASE row # NoOrder
    <3>1. order \in Open
      BY <1>4, <2>2 DEF Open
    <3>2. /\ row.res \in ReservationId /\ row.amount \in Nat \ {0}
          /\ reservation[row.res].status # "NONE" /\ reservation[row.res].amount = row.amount
      BY <1>4, <3>1, OpenFits
    <3>3. PICK cmd : cmd = [type |-> "ReleaseReservation", res |-> row.res, amount |-> row.amount,
                            reason |-> order]
      OBVIOUS
    <3>4. record = <<cmd>>
      BY <1>5, <3>2, <3>3 DEF ReleaseOf
    <3>5. order \in Reason
      BY ReasonAssumption
    <3>6. cmd \in Command
      BY <3>2, <3>3, <3>5 DEF Command, EngineCommand, Amount
    <3>7. ReleaseFits(cmd) /\ cmd.res = row.res
      BY <3>2, <3>3 DEF ReleaseFits
    <3>8. record \in Seq(Command) /\ Len(record) = 1 /\ DOMAIN record = {1} /\ record[1] = cmd
      BY <3>4, <3>6
    <3> QED BY <2>2, <3>7, <3>8
  <2> QED BY <2>1, <2>2
<1>8. /\ WalletInv' /\ NothingTakenBack /\ UNCHANGED <<outbox, bodies, input, reservation>>
      /\ CommandsFit' /\ RowsFit' /\ EventsFit' /\ ReservationsFit' /\ ReadersFit' /\ RelayFits'
      /\ \A r : ReleaseLogged(r)' <=> ReleaseLogged(r) \/ \E k \in DOMAIN record : record[k].res = r
  BY <1>1, <1>6, <1>7, EventPublished
<1>9. \A r : ReleaseLogged(r)' <=> ReleaseLogged(r) \/ (row # NoOrder /\ row.res = r)
  BY <1>7, <1>8
<1>10. orders'[order] = NoOrder /\ \A o \in Request : o # order => orders'[o] = orders[o]
  BY <1>6 DEF EngineFits
<1>11. EngineFits'
  <2>1. orders' \in [Request -> OrderRow]
    BY <1>6 DEF EngineFits, OrderRow, NoOrder
  <2>2. ASSUME NEW o \in Request, orders'[o] # NoOrder PROVE OrderFits(o, orders[o])'
    <3>1. PICK w : w = orders'[o]
      OBVIOUS
    <3>2. OrderFits(o, w)
      BY <1>10, <2>2, <3>1 DEF EngineFits
    <3>3. OrderFits(o, w)'
      BY <1>8, <3>2, OrderFitsStays DEF NothingTakenBack
    <3> QED BY <3>1, <3>3 DEF OrderFits
  <2>3. peerAt' \in Nat \ {0} /\ peerAt' <= Len(input'[InputPartition]) + 1
    BY <1>1, <1>2, <1>8
  <2>4. peer' = "reply" /\ peerAt' \in DOMAIN input'[InputPartition]
    BY <1>1, <1>2, <1>8
  <2> QED BY <1>1, <2>1, <2>2, <2>3, <2>4 DEF EngineFits
<1>12. \A n \in DOMAIN input[InputPartition] : Reached(n) => Reached(n)'
  BY <1>1 DEF Reached
<1>13. \A n \in DOMAIN input[InputPartition] : InputAt(n)' = InputAt(n)
  BY <1>8 DEF InputAt
<1>14. ASSUME NEW n \in DOMAIN input'[InputPartition], Handled(n)', InputAt(n)'.type = "PlaceOrder"
       PROVE  orders'[InputAt(n)'.req] # NoOrder \/ ReleaseLogged(InputAt(n).res)'
  <2>1. n \in DOMAIN input[InputPartition] /\ InputAt(n)' = InputAt(n)
    BY <1>8, <1>13
  <2>2. PICK y : y = InputAt(n) /\ y = InputAt(n)'
    BY <2>1
  <2>3. y.req \in Request /\ y.type = "PlaceOrder" /\ y.res = <<CmdOf(y.req).user, CmdOf(y.req).key>>
    BY <1>14, <2>1, <2>2, PlaceAt
  <2>4. n # peerAt
    BY <1>1, <2>2, <2>3 DEF Input
  <2>5. Handled(n)
    BY <1>1, <1>14, <2>4 DEF Handled
  <2>6. orders[y.req] # NoOrder \/ ReleaseLogged(y.res)
    BY <2>1, <2>2, <2>3, <2>5 DEF OrdersFit
  <2>7. orders'[y.req] # NoOrder \/ ReleaseLogged(y.res)'
    <3>1. CASE ReleaseLogged(y.res)
      BY <1>8, <3>1
    <3>2. CASE y.req # order /\ orders[y.req] # NoOrder
      BY <1>10, <2>3, <3>2
    <3>3. CASE y.req = order /\ orders[y.req] # NoOrder
      <4>1. row # NoOrder /\ order \in Open
        BY <1>4, <3>3 DEF Open
      <4>2. row.res = y.res
        BY <1>4, <2>3, <3>3, <4>1, OpenFits
      <4> QED BY <1>9, <4>1, <4>2
    <3> QED BY <2>6, <3>1, <3>2, <3>3
  <2>8. ReleaseLogged(InputAt(n).res)' = ReleaseLogged(y.res)'
    BY <2>2 DEF ReleaseLogged
  <2> QED BY <2>2, <2>7, <2>8
<1>15. ASSUME NEW r \in ReservationId, ReleaseLogged(r)'
       PROVE  \E i \in PlaceRows(r)' : Cancelled(outbox[i].payload.req)'
  <2>1. CASE ReleaseLogged(r)
    BY <1>8, <1>12, <2>1, CancelsStay
  <2>2. CASE row # NoOrder /\ row.res = r
    <3>1. order \in Open
      BY <1>4, <2>2 DEF Open
    <3>2. PICK i \in PlaceRows(r) : outbox[i].payload.req = order
      BY <1>4, <2>2, <3>1, OpenFits
    <3>3. i \in PlaceRows(r)' /\ outbox'[i] = outbox[i]
      BY <1>8, PlaceRowsStay DEF NothingTakenBack
    <3>4. Cancelled(order)'
      <4>1. peerAt \in DOMAIN input'[InputPartition] /\ Reached(peerAt)'
        BY <1>1, <1>2, <1>8 DEF Reached
      <4>2. PICK y : y = InputAt(peerAt) /\ y.type = "CancelOrder" /\ BodyOf(y.req).order = order
        BY <1>1, <1>3 DEF Input
      <4>3. outbox'[input'[InputPartition][peerAt]].payload = y
        BY <1>8, <4>2 DEF InputAt
      <4>4. bodies'[y.req[1]][y.req[2]].order = order
        BY <1>8, <4>2 DEF BodyOf
      <4>5. \E n \in DOMAIN input'[InputPartition] :
              /\ Reached(n)' /\ outbox'[input'[InputPartition][n]].payload = y
        BY <1>1, <1>2, <1>8, <4>3 DEF Reached
      <4> QED BY <4>2, <4>4, <4>5 DEF Cancelled, InputAt, BodyOf
    <3>5. Cancelled(outbox[i].payload.req)' = Cancelled(order)'
      BY <3>2, <3>3 DEF Cancelled
    <3> QED BY <3>3, <3>4, <3>5
  <2> QED BY <1>9, <1>15, <2>1, <2>2
<1>16. ASSUME NEW o \in Open', ReleaseLogged(orders[o].res)' PROVE Reopened(o)'
  <2>1. o \in Request /\ o # order /\ orders'[o] = orders[o] /\ o \in Open
    BY <1>10, <1>16 DEF Open
  <2>2. PICK r \in ReservationId : r = orders[o].res
    BY <2>1, OpenFits
  <2>3. ReleaseLogged(r)'
    BY <1>16, <2>1, <2>2 DEF ReleaseLogged
  <2>4. CASE ReleaseLogged(r)
    <3>1. Reopened(o)
      BY <2>1, <2>2, <2>4 DEF OrdersFit
    <3> QED BY <1>8, <3>1, ReopenedStays
  <2>5. CASE row # NoOrder /\ row.res = r
    <3>1. order \in Open
      BY <1>4, <2>5 DEF Open
    <3>2. PICK i \in PlaceRows(r) : outbox[i].payload.req = order
      BY <1>4, <2>5, <3>1, OpenFits
    <3>3. PICK j \in PlaceRows(r) : outbox[j].payload.req = o
      BY <2>1, <2>2, OpenFits
    <3>4. i = j
      BY <2>2, <3>2, <3>3 DEF RowsFit
    <3> QED BY <2>1, <3>2, <3>3, <3>4
  <2> QED BY <1>9, <2>3, <2>4, <2>5
<1>17. OrdersFit'
  BY <1>14, <1>15, <1>16 DEF OrdersFit
<1> QED BY <1>8, <1>11, <1>17

\* The engine's reply, and its end.
LEMMA PeerMovesFits ==
  ASSUME WalletInv, FlowInv, PublishEngineReply \/ PeerFails
  PROVE  WalletInv' /\ FlowInv'
<1> USE DEF FlowInv
<1>1. log' = log /\ orders' = orders /\ PeerOnly
  BY DEF PublishEngineReply, PeerFails
<1>2. UNCHANGED <<tables, saved, fault, task, taken, crashes, bodies, relayVars>>
  BY <1>1 DEF PeerOnly
<1>3. UNCHANGED <<outbox, reservation, phase, next, pos, seen, saved, fault, status, input, batch,
                  sending, relayPhase>>
  BY <1>2 DEF tables, task, relayVars
<1>4. WalletInv'
  BY <1>1, <1>2, SameStore, SameLogs DEF WalletInv, TasksOK, task
<1>5. /\ LogStays /\ RowsStay /\ ReservationsKept /\ BodiesStay /\ InputStays
      /\ CommandLogSame /\ EventLogSame
  BY <1>1, <1>2, <1>3 DEF LogStays, RowsStay, ReservationsKept, BodiesStay, InputStays,
                          CommandLogSame, EventLogSame
<1>6. /\ CommandsFit' /\ RowsFit' /\ EventsFit' /\ ReservationsFit' /\ RelayFits'
  BY <1>2, <1>3, <1>5, CommandsSame, RowsSame, EventsSame, ReservationsSame, RelaySame
<1>7. ReadersFit'
  BY <1>1, <1>3 DEF ReadersFit, TaskFits, AppliedBefore, Applied, Running, Up, AtCommand, HasRecord,
                    Record, Cmd
<1>8. NothingTakenBack
  BY <1>5 DEF NothingTakenBack
<1>9. PICK l \in Nat : l = Len(input[InputPartition]) /\ DOMAIN input[InputPartition] = 1 .. l
  BY DEF RelayFits
<1>10. /\ peerAt \in Nat \ {0} /\ peerAt <= l + 1 /\ peerAt' \in {peerAt, peerAt + 1}
       /\ peer' \in {"input", "down"} /\ peerAt' <= l + 1
       /\ \/ peer = "reply" /\ peerAt' = peerAt + 1 /\ peer' = "input" /\ peerAt \in 1 .. l
          \/ peer' = "down" /\ peerAt' = peerAt
  BY <1>9 DEF PublishEngineReply, PeerFails, EngineFits
<1>11. /\ \A n \in DOMAIN input[InputPartition] : Reached(n) => Reached(n)'
       /\ \A n \in DOMAIN input[InputPartition] : Handled(n)' => Handled(n)
  BY <1>9, <1>10 DEF Reached, Handled
<1>12. \A x \in engineReplies' : x.order \in Request
  <2>1. CASE PeerFails
    BY <2>1 DEF PeerFails, EngineFits
  <2>2. CASE PublishEngineReply
    <3>1. peer = "reply" /\ engineReplies' = engineReplies \cup {ReplyTo(Input)}
      BY <2>2 DEF PublishEngineReply
    <3>2. peerAt \in DOMAIN input[InputPartition]
      BY <3>1 DEF EngineFits
    <3>3. ReplyTo(Input).order \in Request
      <4>1. CASE Input.type = "PlaceOrder"
        BY <3>2, <4>1, PlaceAt DEF Input, ReplyTo
      <4>2. CASE Input.type = "CancelOrder"
        BY <3>2, <4>2, CancelsOrder DEF Input, ReplyTo
      <4> QED BY <3>2, <4>1, <4>2, InputFits DEF Input
    <3> QED BY <3>1, <3>3 DEF EngineFits
  <2> QED BY <2>1, <2>2
<1>13. EngineFits'
  <2>1. \A o \in Request : orders'[o] # NoOrder => OrderFits(o, orders[o])'
    BY <1>1, <1>5, OrderFitsStays DEF EngineFits
  <2>2. peerAt' \in Nat \ {0} /\ peerAt' <= Len(input'[InputPartition]) + 1
    BY <1>3, <1>9, <1>10
  <2> QED BY <1>1, <1>10, <1>12, <2>1, <2>2 DEF EngineFits
<1>14. \A r : ReleaseLogged(r)' <=> ReleaseLogged(r)
  BY <1>5, LoggedSame
<1>15. ASSUME NEW n \in DOMAIN input'[InputPartition], Handled(n)', InputAt(n)'.type = "PlaceOrder"
       PROVE  orders'[InputAt(n)'.req] # NoOrder \/ ReleaseLogged(InputAt(n).res)'
  <2>1. n \in DOMAIN input[InputPartition] /\ Handled(n)
    BY <1>3, <1>11, <1>15
  <2>2. PICK y : y = InputAt(n) /\ y = InputAt(n)'
    BY <1>3 DEF InputAt
  <2>3. orders[y.req] # NoOrder \/ ReleaseLogged(y.res)
    BY <1>15, <2>1, <2>2 DEF OrdersFit
  <2>4. ReleaseLogged(y.res) => ReleaseLogged(y.res)'
    BY <1>14
  <2>5. ReleaseLogged(InputAt(n).res)' = ReleaseLogged(y.res)'
    BY <2>2 DEF ReleaseLogged
  <2> QED BY <1>1, <2>2, <2>3, <2>4, <2>5
<1>16. ASSUME NEW r \in ReservationId, ReleaseLogged(r)'
       PROVE  \E i \in PlaceRows(r)' : Cancelled(outbox[i].payload.req)'
  <2>1. ReleaseLogged(r)
    BY <1>14, <1>16
  <2> QED BY <1>8, <1>11, <2>1, CancelsStay
<1>17. ASSUME NEW o \in Open', ReleaseLogged(orders[o].res)' PROVE Reopened(o)'
  <2>1. o \in Open
    BY <1>1, <1>17 DEF Open
  <2>2. ReleaseLogged(orders[o].res)
    BY <1>1, <1>17 DEF ReleaseLogged
  <2> QED BY <1>8, <2>1, <2>2, ReopenedStays DEF OrdersFit
<1>18. OrdersFit'
  BY <1>15, <1>16, <1>17 DEF OrdersFit
<1> QED BY <1>4, <1>6, <1>7, <1>13, <1>18

(***************************************************************************)
(* A step of the wallet process: the engine stays as it is.                 *)
(***************************************************************************)
LEMMA WalletMovesFits ==
  ASSUME WalletInv, WalletInv', FlowInv, log' = log, bodies' = bodies, UNCHANGED peerVars,
         RowsFit', RowsStay, ReservationsKept, ReservationsFit', ReadersFit', RelayFits', InputStays
  PROVE  FlowInv'
<1> USE DEF FlowInv
<1>1. LogStays /\ BodiesStay /\ CommandLogSame /\ EventLogSame
  BY DEF LogStays, BodiesStay, CommandLogSame, EventLogSame
<1>2. NothingTakenBack
  BY <1>1 DEF NothingTakenBack
<1>3. CommandsFit' /\ EventsFit'
  BY <1>1, CommandsSame, EventsSame
<1>4. EngineFits'
  BY EngineSame
<1>5. OrdersFit'
  BY <1>1, <1>2, OrdersSame
<1> QED BY <1>3, <1>4, <1>5

\* The wallet process, its relay, and time.
LEMMA ProcessStepFits ==
  ASSUME WalletInv, FlowInv,
         \/ \E t \in Task : ConsumerStep(t) \/ WalletFails(t)
         \/ \E i \in Instance : WalletCrashes(i) \/ WalletStarts(i) \/ RelayWorks(i)
         \/ TimePasses
  PROVE  WalletInv' /\ FlowInv'
<1> USE DEF FlowInv
<1>1. ASSUME NEW t \in Task, ConsumerStep(t) PROVE WalletInv' /\ FlowInv'
  <2>1. /\ TaskStep(t) /\ Len(outbox') <= MaxRows
        /\ status' = [id \in Row |->
             IF id \in DOMAIN outbox' \ DOMAIN outbox /\ IsInput(outbox'[id]) THEN "PENDING"
             ELSE status[id]]
        /\ UNCHANGED <<bodies, input, relayPhase, batch, sending, peerVars>>
    BY <1>1 DEF ConsumerStep
  <2>2. WalletInv'
    BY <2>1, TaskStepInv
  <2>3. /\ log' = log /\ RowsFit' /\ RowsStay
        /\ ReservationsKept /\ ReservationsFit' /\ ReadersFit'
    BY <2>1, <2>2, TaskStepFits
  <2>4. RelayFits' /\ InputStays
    BY <2>1, <2>3, RowsRelayed DEF InputStays
  <2> QED BY <2>1, <2>2, <2>3, <2>4, WalletMovesFits
<1>2. ASSUME NEW t \in Task, WalletFails(t) PROVE WalletInv' /\ FlowInv'
  <2>1. TaskStep(t) /\ RelayEnds(t[1]) /\ UNCHANGED <<bodies, peerVars, outbox>> /\ t[1] \in Instance
    BY <1>2 DEF WalletFails, TaskStep, FailTransaction, tables, Task
  <2>2. WalletInv'
    BY <2>1, TaskStepInv
  <2>3. /\ log' = log /\ RowsFit' /\ RowsStay
        /\ ReservationsKept /\ ReservationsFit' /\ ReadersFit'
    BY <2>1, <2>2, TaskStepFits
  <2>4. RelayFits' /\ InputStays
    BY <2>1, RelayEndsFits DEF RelayEnds, InputStays
  <2> QED BY <2>1, <2>2, <2>3, <2>4, WalletMovesFits
<1>3. ASSUME UNCHANGED <<log, outbox, reservation>>
      PROVE  RowsFit' /\ RowsStay /\ ReservationsKept /\ ReservationsFit'
  <2>1. LogStays
    BY <1>3 DEF LogStays
  <2> QED BY <1>3, <2>1, RowsSame, ReservationsSame DEF RowsStay, ReservationsKept
<1>4. ASSUME NEW i \in Instance, WalletCrashes(i) PROVE WalletInv' /\ FlowInv'
  <2>1. /\ Crash(i) /\ RelayEnds(i) /\ UNCHANGED <<bodies, peerVars>>
        /\ UNCHANGED <<log, outbox, reservation, saved>>
    BY <1>4 DEF WalletCrashes, Crash, tables
  <2>2. WalletInv'
    BY <2>1, ProcessInv
  <2>3. ReadersFit'
    BY <2>1, <2>2, StoppedFits DEF Crash
  <2>4. RelayFits' /\ InputStays
    BY <2>1, RelayEndsFits DEF RelayEnds, InputStays
  <2> QED BY <1>3, <2>1, <2>2, <2>3, <2>4, WalletMovesFits
<1>5. ASSUME NEW i \in Instance, WalletStarts(i) PROVE WalletInv' /\ FlowInv'
  <2>1. /\ Restart(i) /\ Relay!RelayStep(i) /\ UNCHANGED <<bodies, peerVars>>
        /\ UNCHANGED <<log, outbox, reservation>>
    BY <1>5 DEF WalletStarts, Restart, tables, Relay!RelayStep
  <2>2. WalletInv'
    BY <2>1, ProcessInv
  <2>3. ReadersFit'
    BY <2>1, RestartFits
  <2>4. RelayFits' /\ InputStays
    BY <2>1, RelayStepFits
  <2> QED BY <1>3, <2>1, <2>2, <2>3, <2>4, WalletMovesFits
<1>6. ASSUME UNCHANGED vars
      PROVE  WalletInv' /\ ReadersFit' /\ UNCHANGED <<log, outbox, reservation>>
  <2>1. UNCHANGED <<log, outbox, reservation, saved, fault, phase, next, pos, seen>>
    BY <1>6 DEF vars, tables, task
  <2>2. WalletInv'
    BY <1>6, WalletNextInv
  <2>3. ReadersFit'
    BY <2>1 DEF ReadersFit, TaskFits, AppliedBefore, Applied, Running, Up, AtCommand, HasRecord,
                Record, Cmd
  <2> QED BY <2>1, <2>2, <2>3
<1>7. ASSUME NEW i \in Instance, RelayWorks(i) PROVE WalletInv' /\ FlowInv'
  <2>1. Relay!RelayStep(i) /\ UNCHANGED vars /\ UNCHANGED <<bodies, peerVars>>
    BY <1>7 DEF RelayWorks
  <2>2. RelayFits' /\ InputStays
    BY <1>6, <2>1, RelayStepFits
  <2> QED BY <1>3, <1>6, <2>1, <2>2, WalletMovesFits
<1>8. CASE TimePasses
  <2>1. UNCHANGED vars /\ UNCHANGED <<bodies, peerVars>>
    BY <1>8 DEF TimePasses
  <2>2. UNCHANGED <<status, input, batch, sending, relayPhase>>
    BY <1>8 DEF TimePasses, Relay!BecomeDue, Relay!BecomeStale, Relay!relay
  <2>3. RelayFits' /\ InputStays
    BY <1>6, <2>1, <2>2, RelaySame DEF InputStays
  <2> QED BY <1>3, <1>6, <2>1, <2>3, WalletMovesFits
<1> QED BY <1>1, <1>2, <1>4, <1>5, <1>7, <1>8

\* Every step of the flow keeps the invariant.
LEMMA FlowNextInv == WalletInv /\ FlowInv /\ [FlowNext]_flowVars => WalletInv' /\ FlowInv'
<1> SUFFICES ASSUME WalletInv, FlowInv, [FlowNext]_flowVars PROVE WalletInv' /\ FlowInv'
  OBVIOUS
<1>1. ASSUME UNCHANGED vars, UNCHANGED <<bodies, relayVars, peerVars>> PROVE WalletInv' /\ FlowInv'
  <2>1. UNCHANGED <<log, outbox, reservation, saved, fault, phase, next, pos, seen>>
    BY <1>1 DEF vars, tables, task
  <2>2. WalletInv'
    BY <1>1, WalletNextInv
  <2>3. ReadersFit'
    BY <2>1 DEF FlowInv, ReadersFit, TaskFits, AppliedBefore, Applied, Running, Up, AtCommand,
                HasRecord, Record, Cmd
  <2>4. UNCHANGED <<status, input, batch, sending, relayPhase>>
    BY <1>1 DEF relayVars
  <2>5. LogStays /\ RowsStay /\ ReservationsKept /\ InputStays
    BY <2>1, <2>4 DEF LogStays, RowsStay, ReservationsKept, InputStays
  <2>6. RowsFit' /\ ReservationsFit' /\ RelayFits'
    BY <2>1, <2>4, <2>5, RowsSame, ReservationsSame, RelaySame DEF FlowInv
  <2> QED BY <1>1, <2>1, <2>2, <2>3, <2>5, <2>6, WalletMovesFits
<1>2. CASE UNCHANGED flowVars
  BY <1>1, <1>2 DEF flowVars
<1>3. ASSUME NEW t \in Task, Poll(t), UNCHANGED <<bodies, relayVars, peerVars>> PROVE WalletInv' /\ FlowInv'
  BY <1>1, <1>3 DEF Poll
<1>4. CASE FlowNext
  BY <1>3, <1>4, ClientsFit, ProcessStepFits, OpenOrderFits, CloseOrderFits, PeerMovesFits
     DEF FlowNext, PeerStep
<1> QED BY <1>2, <1>4

(***************************************************************************)
(* The initial state: one deposit was processed.                            *)
(***************************************************************************)
LEMMA FundingFields ==
  /\ Funding \in Command /\ Funding.user \in User /\ Funding.asset \in Asset
  /\ Funding.amount \in Nat \ {0} /\ Funding.type = "Deposit"
  /\ UserPartition[Funding.user] \in CommandPartition
<1>1. Funding \in Command /\ Funding.type = "Deposit"
  BY FlowAssumption, CommandAssumption DEF Command
<1>2. Funding.user \in User /\ Funding.asset \in Asset /\ Funding.amount \in Nat \ {0}
  BY <1>1, CommandFields DEF ClientCommandType
<1> QED BY <1>1, <1>2, PartitionAssumption

\* A sequence of one element.
LEMMA OneBody ==
  ASSUME NEW S, NEW x \in S, NEW f, f = [n \in {1} |-> x]
  PROVE  f \in Seq(S) /\ Len(f) = 1 /\ f[1] = x
<1>1. f \in [1 .. 1 -> S]
  BY SMT
<1>2. f = <<x>>
  BY SMT
<1>3. <<x>> \in Seq(S) /\ Len(<<x>>) = 1 /\ <<x>>[1] = x
  BY SMT
<1> QED BY <1>2, <1>3, Zenon

\* The invariant holds at first.
LEMMA FlowInitInv == FlowInit => WalletInv /\ FlowInv
<1> SUFFICES ASSUME FlowInit PROVE WalletInv /\ FlowInv
  OBVIOUS
<1>1. PICK fp \in CommandPartition : fp = UserPartition[Funding.user]
  BY FundingFields
<1>2. fp \in Partition /\ fp \notin EventPartition
  BY PartitionAssumption DEF Partition
<1>3. log = [p \in Partition |-> IF p = fp THEN <<<<Funding>>>> ELSE <<>>]
  BY <1>1 DEF FlowInit
<1>4. <<<<Funding>>>> \in Seq(Seq(Command)) /\ <<>> \in Seq(Seq(Command))
  <2>1. <<Funding>> \in Seq(Command)
    BY FundingFields
  <2> QED BY <2>1
<1>5. log \in [Partition -> Seq(Seq(Command))]
  BY <1>3, <1>4
<1>6. /\ log[fp] = <<<<Funding>>>> /\ Len(log[fp]) = 1 /\ DOMAIN log[fp] = {1}
      /\ Len(log[fp][1]) = 1 /\ log[fp][1][1] = Funding
  BY <1>2, <1>3
<1>7. \A p \in Partition : p # fp => log[p] = <<>> /\ Len(log[p]) = 0 /\ DOMAIN log[p] = {}
  BY <1>3
<1>8. saved = [p \in Partition |-> Len(log[p]) + 1]
  BY DEF FlowInit
<1>9. \A p \in Partition : saved[p] = Len(log[p]) + 1 /\ saved[p] \in Nat \ {0}
  <2> SUFFICES ASSUME NEW p \in Partition PROVE saved[p] = Len(log[p]) + 1 /\ saved[p] \in Nat \ {0}
    OBVIOUS
  <2>1. PICK l \in Nat : l = Len(log[p])
    BY <1>5
  <2>2. saved[p] = l + 1
    BY <1>8, <2>1
  <2> QED BY <2>1, <2>2
<1>10. WalletInv
  <2>1. BalancesOK
    <3>1. /\ total = [a \in Account |-> IF a = FundedAccount THEN Funding.amount ELSE 0]
          /\ locked = [a \in Account |-> 0]
      BY DEF FlowInit
    <3> QED BY <3>1, FundingFields DEF BalancesOK, LockedWithinTotal
  <2>2. RowsOK
    <3>1. /\ reservation = [r \in ReservationId |-> NoReservation]
          /\ idempotency = [k \in ReplyKey |-> IF k = ReplyKeyOf(Funding) THEN FundingReply ELSE NoReply]
      BY DEF FlowInit
    <3>2. FundingReply \in Reply
      BY FundingFields DEF FundingReply, Reply
    <3> QED BY <3>1, <3>2, NoRows DEF RowsOK
  <2>3. \A t \in Task : saved[t[2]] \in Nat \ {0}
    BY <1>9 DEF Task
  <2>4. /\ phase = [t \in Task |-> "ready"] /\ next = [t \in Task |-> saved[t[2]]]
        /\ pos = [t \in Task |-> 1] /\ seen = [t \in Task |-> NoReservation]
        /\ answer = [t \in Task |-> NoReply]
    BY DEF FlowInit
  <2>5. TasksOK
    BY <2>3, <2>4, NoRows DEF TasksOK
  <2>6. LogsOK
    <3>1. saved \in [Partition -> Nat \ {0}]
      BY <1>8, <1>9
    <3>2. /\ fault = [i \in Instance |-> NoFault] /\ taken = [r \in ReservationId |-> 0] /\ crashes = 0
      BY DEF FlowInit
    <3> QED BY <1>5, <3>1, <3>2, NoRows DEF LogsOK
  <2> QED BY <2>1, <2>2, <2>5, <2>6 DEF WalletInv, StoreOK
<1>11. \A r \in ReservationId : reservation[r].status = "NONE"
  BY DEF FlowInit, NoReservation
<1>12. CommandsFit
  <2>1. bodies = [p \in CommandPartition |-> [n \in DOMAIN log[p] |-> NoBody]]
    BY DEF FlowInit
  <2>2. NoBody \in Body /\ BodyFits(Funding, NoBody)
    BY FundingFields DEF NoBody, Body, BodyFits, ClientCommandType
  <2>3. bodies[fp] = [n \in {1} |-> NoBody]
    BY <1>6, <2>1
  <2>4. bodies[fp] \in Seq(Body) /\ Len(bodies[fp]) = 1 /\ bodies[fp][1] = NoBody
    BY <2>2, <2>3, OneBody
  <2>5. MaxCommands \in Nat /\ 1 <= MaxCommands /\ 0 <= MaxCommands
    BY FlowAssumption, CommandAssumption
  <2>6. BodiesFit(fp)
    BY <1>6, <2>2, <2>4, <2>5 DEF BodiesFit
  <2>7. ASSUME NEW p \in CommandPartition, p # fp PROVE BodiesFit(p)
    <3>1. log[p] = <<>> /\ Len(log[p]) = 0 /\ DOMAIN log[p] = {}
      BY <1>7, <2>7 DEF Partition
    <3>2. bodies[p] = <<>>
      BY <2>1, <3>1
    <3>3. bodies[p] \in Seq(Body) /\ Len(bodies[p]) = 0
      BY <3>2
    <3> QED BY <2>5, <3>1, <3>3 DEF BodiesFit
  <2> QED BY <2>1, <2>6, <2>7 DEF CommandsFit
<1>13. PICK row : /\ outbox = <<row>> /\ row.topic = "wallet.events"
                  /\ \A u, k : row.dedupe # <<"place-order", u, k>>
  <2>1. PICK event : outbox = << WalletEventRow(
               <<"deposit-applied", Funding.user, Funding.key>>, Funding.user, event) >>
    BY DEF FlowInit
  <2>2. PICK row : row = WalletEventRow(<<"deposit-applied", Funding.user, Funding.key>>, Funding.user, event)
    OBVIOUS
  <2>3. row.topic = "wallet.events" /\ row.dedupe = <<"deposit-applied", Funding.user, Funding.key>>
    BY <2>2 DEF WalletEventRow
  <2> QED BY <2>1, <2>2, <2>3
<1>14. outbox \in Seq({row}) /\ Len(outbox) = 1 /\ DOMAIN outbox = {1} /\ outbox[1] = row
  BY <1>13
<1>15. ~IsInput(row) /\ RowFits(row)
  BY <1>13 DEF IsInput, RowFits, IsPlace, IsCancel
<1>16. RowsFit
  <2>1. \A r : PlaceRows(r) = {}
    BY <1>14, <1>15 DEF PlaceRows, IsPlace
  <2>2. OutboxIsSeq
    BY <1>14 DEF OutboxIsSeq
  <2>3. \A i \in DOMAIN outbox : RowFits(outbox[i])
    BY <1>14, <1>15
  <2> QED BY <1>11, <2>1, <2>2, <2>3 DEF RowsFit
<1>17. \A p \in EventPartition : log[p] = <<>> /\ Len(log[p]) = 0 /\ DOMAIN log[p] = {} /\ saved[p] = 1
  BY <1>2, <1>7, <1>9 DEF Partition
<1>18. EventsFit /\ \A r : ~ReleaseLogged(r)
  BY <1>17 DEF EventsFit, ReleaseLogged
<1>19. ReservationsFit
  BY <1>11 DEF ReservationsFit
<1>20. ReadersFit
  <2>1. \A p \in EventPartition : AppliedBefore(p, 1)
    BY <1>17 DEF AppliedBefore
  <2>2. ASSUME NEW t \in Task PROVE TaskFits(t)
    <3>1. phase[t] = "ready" /\ next[t] = saved[t[2]] /\ pos[t] = 1 /\ seen[t].status = "NONE"
      BY DEF FlowInit, NoReservation
    <3> QED BY <1>17, <2>1, <3>1 DEF TaskFits
  <2> QED BY <1>17, <2>1, <2>2 DEF ReadersFit
<1>21. /\ status = [id \in Row |-> "NONE"] /\ input = [p \in {InputPartition} |-> <<>>]
       /\ relayPhase = [r \in Instance |-> "requeue"] /\ batch = [r \in Instance |-> {}]
       /\ sending = [r \in Instance |-> Relay!NoRow]
  BY DEF FlowInit, Relay!RelayInit
<1>22. input[InputPartition] = <<>> /\ Len(input[InputPartition]) = 0 /\ DOMAIN input[InputPartition] = {}
  BY <1>21
<1>23. RelayFits
  <2>1. Relay!NoRow \in Row
    <3>1. 1 \in Row
      BY FlowAssumption DEF Row
    <3> QED BY <3>1 DEF Relay!NoRow
  <2>2. \A id : ~InputId(id) /\ ~OnInput(id)
    BY <1>14, <1>15, <1>22 DEF InputId, OnInput
  <2>3. /\ status \in [Row -> Relay!Status] /\ batch \in [Instance -> SUBSET Row]
        /\ sending \in [Instance -> Row] /\ relayPhase \in [Instance -> Relay!Phase]
    BY <1>21, <2>1 DEF Relay!Status, Relay!Phase
  <2>4. input \in [{InputPartition} -> Seq(Row)]
    BY <1>21
  <2>5. Len(outbox) <= MaxRows
    BY <1>14, FlowAssumption
  <2>6. \A i \in Instance : batch[i] = {} /\ relayPhase[i] = "requeue"
    BY <1>21
  <2>7. \A id \in Row : status[id] = "NONE"
    BY <1>21
  <2> QED BY <2>2, <2>3, <2>4, <2>5, <2>6, <2>7 DEF RelayFits
<1>24. orders = [o \in Request |-> NoOrder] /\ peer = "input" /\ peerAt = 1 /\ engineReplies = {}
  BY DEF FlowInit
<1>25. EngineFits
  BY <1>22, <1>24 DEF EngineFits, OrderRow, NoOrder
<1>26. OrdersFit
  BY <1>18, <1>22, <1>24 DEF OrdersFit, Open
<1> QED BY <1>10, <1>12, <1>16, <1>18, <1>19, <1>20, <1>23, <1>25, <1>26 DEF FlowInv

\* The invariant holds always.
LEMMA FlowInvariant == FlowSpec => [](WalletInv /\ FlowInv)
  BY FlowInitInv, FlowNextInv, PTL DEF FlowSpec

\* The margin of an open order is the one of its form.
LEMMA FlowMargins ==
  ASSUME WalletInv, FlowInv
  PROVE  MarginCoversOrder
<1> SUFFICES ASSUME NEW o \in Open
             PROVE  /\ orders[o].amount = reservation[orders[o].res].amount
                    /\ orders[o].amount <= BodyOf(o).margin
                    /\ BodyOf(o).price > 0 => IsLeastMargin(BodyOf(o), orders[o].amount)
  BY DEF MarginCoversOrder
<1>1. /\ reservation[orders[o].res].amount = orders[o].amount
      /\ Sent(o) /\ CmdOf(o).type = "PlaceOrderIntent" /\ CmdOf(o).amount = orders[o].amount
  BY OpenFits
<1>2. PICK p \in CommandPartition : p = o[1] /\ o[2] \in DOMAIN log[p]
  BY <1>1 DEF Sent, Request
<1>3. BodyFits(log[p][o[2]][1], bodies[p][o[2]])
  BY <1>2 DEF FlowInv, CommandsFit, BodiesFit
<1>4. PICK form : form = BodyOf(o)
  OBVIOUS
<1>5. form \in Form /\ ValidOrder(form) /\ CmdOf(o).amount = OrderMargin(form)
  BY <1>1, <1>2, <1>3, <1>4 DEF BodyFits, BodyOf, CmdOf
<1>6. OrderMargin(form) <= form.margin
  BY <1>5, OrderMarginPositive
<1>7. form.price > 0 => IsLeastMargin(form, OrderMargin(form))
  BY <1>5, ValidOrderTakesLeastMargin
<1> QED BY <1>1, <1>4, <1>5, <1>6, <1>7

\* When nothing is on its way, the releases of the log are applied.
LEMMA QuietApplied ==
  ASSUME WalletInv, FlowInv, Quiet, NEW r, ReleaseLogged(r)
  PROVE  reservation[r].status = "RELEASED"
<1>1. PICK p \in EventPartition : \E n \in DOMAIN log[p] : \E k \in DOMAIN log[p][n] :
        log[p][n][k].res = r
  BY DEF ReleaseLogged
<1>2. PICK n \in DOMAIN log[p] : \E k \in DOMAIN log[p][n] : log[p][n][k].res = r
  BY <1>1
<1>3. PICK i \in Instance : TRUE
  BY FlowAssumption
<1>4. PICK t \in Task : t[2] = p
  <2>1. <<i, p>> \in Task
    BY DEF Task, Partition
  <2> QED BY <2>1
<1>5. PICK l \in Nat, m \in Nat \ {0} : l = Len(log[p]) /\ DOMAIN log[p] = 1 .. l /\ m = next[t]
  BY DEF WalletInv, LogsOK, TasksOK, Partition
<1>6. ~(m <= l)
  BY <1>4, <1>5 DEF Quiet, HasRecord
<1>7. AppliedBefore(p, m)
  BY <1>4, <1>5 DEF FlowInv, ReadersFit, TaskFits
<1>8. n \in 1 .. (m - 1)
  BY <1>5, <1>6
<1>9. Applied(p, n)
  BY <1>7, <1>8 DEF AppliedBefore
<1> QED BY <1>2, <1>9 DEF Applied

\* When nothing is on its way, open orders and active reservations are the same.
LEMMA FlowFunds ==
  ASSUME WalletInv, FlowInv
  PROVE  FundsFollowOrders
<1> SUFFICES ASSUME Quiet, \A o \in Request : ~Reopened(o)
             PROVE  {<<orders[o].res, orders[o].amount>> : o \in Open} =
                    {<<r, reservation[r].remaining>> :
                       r \in {q \in ReservationId : reservation[q].status = "ACTIVE"}}
  BY DEF FundsFollowOrders
<1>1. ASSUME NEW o \in Open
      PROVE  \E r \in ReservationId :
               /\ reservation[r].status = "ACTIVE"
               /\ <<orders[o].res, orders[o].amount>> = <<r, reservation[r].remaining>>
  <2>1. PICK r \in ReservationId :
          /\ r = orders[o].res /\ reservation[r].status # "NONE"
          /\ reservation[r].amount = orders[o].amount
    BY OpenFits
  <2>2. ~ReleaseLogged(r)
    BY <2>1 DEF FlowInv, OrdersFit, Open
  <2>3. reservation[r].status = "ACTIVE" /\ reservation[r].remaining = reservation[r].amount
    BY <2>1, <2>2 DEF FlowInv, ReservationsFit
  <2> QED BY <2>1, <2>3
<1>2. ASSUME NEW r \in ReservationId, reservation[r].status = "ACTIVE"
      PROVE  \E o \in Open : <<orders[o].res, orders[o].amount>> = <<r, reservation[r].remaining>>
  <2>1. reservation[r].remaining = reservation[r].amount
    BY <1>2 DEF FlowInv, ReservationsFit
  <2>2. ~ReleaseLogged(r)
    BY <1>2, QuietApplied
  <2>3. PICK i \in PlaceRows(r) : TRUE
    BY <1>2 DEF FlowInv, RowsFit
  <2>4. IsPlace(outbox[i]) /\ outbox[i].payload.res = r /\ i \in DOMAIN outbox
    BY DEF PlaceRows
  <2>5. PlaceFits(outbox[i].payload)
    BY <2>4 DEF FlowInv, RowsFit, RowFits
  <2>6. i \in Row
    <3>1. PICK S : outbox \in Seq(S)
      BY DEF FlowInv, RowsFit, OutboxIsSeq
    <3>2. PICK l \in Nat : l = Len(outbox) /\ DOMAIN outbox = 1 .. l
      BY <3>1
    <3>3. l <= MaxRows
      BY <3>2 DEF FlowInv, RelayFits
    <3> QED BY <2>4, <3>2, <3>3, FlowAssumption DEF Row
  <2>7. InputId(i)
    BY <2>4, <2>6 DEF InputId, IsPlace
  <2>8. status[i] # "NONE"
    BY <2>6, <2>7 DEF FlowInv, RelayFits
  <2>9. status[i] = "PUBLISHED"
    BY <2>6, <2>8 DEF Quiet
  <2>10. PICK n \in DOMAIN input[InputPartition] : input[InputPartition][n] = i
    BY <2>6, <2>9 DEF FlowInv, RelayFits, OnInput
  <2>11. Handled(n)
    <3>1. PICK l \in Nat : l = Len(input[InputPartition]) /\ DOMAIN input[InputPartition] = 1 .. l
      BY DEF FlowInv, RelayFits
    <3>2. ~(peerAt <= l) /\ peerAt \in Nat
      BY <3>1 DEF Quiet, HasInput, FlowInv, EngineFits
    <3> QED BY <3>1, <3>2 DEF Handled
  <2>12. PICK x : x = InputAt(n) /\ x = outbox[i].payload /\ x.type = "PlaceOrder" /\ x.res = r
    BY <2>4, <2>10 DEF InputAt, IsPlace
  <2>13. x.req \in Request /\ x.res = <<CmdOf(x.req).user, CmdOf(x.req).key>>
    BY <2>12, PlaceAt
  <2>14. orders[x.req] # NoOrder
    BY <2>2, <2>11, <2>12 DEF FlowInv, OrdersFit
  <2>15. PICK o \in Open : o = x.req
    BY <2>13, <2>14 DEF Open
  <2>16. orders[o].res = r /\ reservation[r].amount = orders[o].amount
    BY <2>12, <2>13, <2>15, OpenFits
  <2> QED BY <2>1, <2>16
<1> QED BY <1>1, <1>2

(***************************************************************************)
(* The margin of an open order is the least that covers its price at its    *)
(* leverage, is what was reserved for it and no more than the client offered, *)
(* for any forms, retries with other bodies, crashes and repeated inputs.   *)
(***************************************************************************)
THEOREM FlowMarginCoversOrder == FlowSpec => []MarginCoversOrder
<1>1. WalletInv /\ FlowInv => MarginCoversOrder
  BY FlowMargins
<1> QED BY <1>1, FlowInvariant, PTL

(***************************************************************************)
(* When nothing is on its way and no PlaceOrder was delivered again after its *)
(* cancel, the open orders of the engine and the active reservations of the *)
(* wallet are the same, amount for amount, with any number of wallet        *)
(* processes, whatever was overtaken, repeated, retried or cut short.       *)
(***************************************************************************)
THEOREM FlowFundsFollowOrders == FlowSpec => []FundsFollowOrders
<1>1. WalletInv /\ FlowInv => FundsFollowOrders
  BY FlowFunds
<1> QED BY <1>1, FlowInvariant, PTL

-----------------------------------------------------------------------------
(***************************************************************************)
(* What engine.events holds for the wallet.  A place is a partition, an     *)
(* offset and a command of the record there; it is pending until its        *)
(* command is committed.                                                    *)
(***************************************************************************)
EventPlace == EventPartition \X Nat \X Nat

IsAt(x) == x[2] \in DOMAIN log[x[1]] /\ x[3] \in DOMAIN log[x[1]][x[2]]

Takings == {x \in EventPlace : IsAt(x) /\ Takes(CmdIn(x))}

DoneTaken == done \subseteq Takings

Pending(r) == {x \in Takings : CmdIn(x).res = r /\ x \notin done}

Amounts == [x \in EventPlace |-> TakenBy(CmdIn(x))]

\* What the engine has taken of a reservation is what the wallet has consumed
\* and what it is still to consume, unless a command of it was applied twice.
Due(r) ==
  /\ IsFiniteSet(Pending(r))
  /\ reservation[r].amount + SumOver(Amounts, Pending(r)) = reservation[r].remaining + taken[r]
  /\ taken[r] <= reservation[r].amount

RowSound(r) ==
  /\ reservation[r].status = "NONE" => reservation[r].amount = 0 /\ reservation[r].remaining = 0
  /\ reservation[r].status # "NONE" /\ reservation[r].remaining > 0 =>
       reservation[r].status = "ACTIVE"

FundsDue == \A r \in ReservationId : (r \notin twice => Due(r)) /\ RowSound(r)

\* A settlement debits the asset that was reserved; the settlements of a fill are
\* in one record and of different reservations.
Settles(x, fill) == x \in Takings /\ CmdIn(x).type = "SettleTrade" /\ CmdIn(x).fill = fill

SettlementsFit ==
  /\ \A x \in Takings :
       CmdIn(x).type = "SettleTrade" => CmdIn(x).debitAsset = reservation[CmdIn(x).res].asset
  /\ \A fill : \A x, y \in EventPlace :
       Settles(x, fill) /\ Settles(y, fill) =>
         x[1] = y[1] /\ x[2] = y[2] /\ (CmdIn(x).res = CmdIn(y).res => x = y)

\* What is in the tables of a settlement or a release was put there by one.  The
\* marks of a settlement are the keys of its rows, without the fill.
Marks(cmd) ==
  {<<"TRADE_DEBIT", cmd.res[1], cmd.debitAsset>>, <<"TRADE_CREDIT", cmd.res[1], cmd.creditAsset>>,
   <<"trade-settled", cmd.res>>}

Settled(fill, mark) == \E x \in done : Settles(x, fill) /\ mark \in Marks(CmdIn(x))

ReleasedRow(r, reason, amount, asset) ==
  WalletEventRow(
    <<"funds-released", r, reason, amount>>, r,
    [type |-> "FundsReleased", user |-> r[1], asset |-> asset,
     amount |-> amount, res |-> r, reason |-> reason])

Known(row) ==
  /\ \A fill, r : row.dedupe = <<"trade-settled", fill, r>> => Settled(fill, <<"trade-settled", r>>)
  /\ \A r, reason, amount : row.dedupe = <<"funds-released", r, reason, amount>> =>
       /\ r \in ReservationId /\ reservation[r].status # "NONE"
       /\ row = ReleasedRow(r, reason, amount, reservation[r].asset)

TablesKnown ==
  /\ \A row \in walletLedger :
       row.kind \in {"TRADE_DEBIT", "TRADE_CREDIT"} =>
         Settled(row.ref, <<row.kind, row.user, row.asset>>)
  /\ \A i \in DOMAIN outbox : Known(outbox[i])

TxSeen == \A t \in Task : phase[t] = "tx" /\ Takes(Cmd(t)) => seen[t].status # "NONE"

EngineInv == FundsDue /\ SettlementsFit /\ TablesKnown /\ DoneTaken /\ TxSeen

\* The command at hand is at a place of its own.
LEMMA CmdPlace ==
  ASSUME WalletInv, NEW t \in Task, AtCommand(t)
  PROVE  /\ next[t] \in DOMAIN log[t[2]] /\ pos[t] \in DOMAIN log[t[2]][next[t]]
         /\ Cmd(t) = log[t[2]][next[t]][pos[t]]
         /\ next[t] \in Nat /\ pos[t] \in Nat
<1>1. t[2] \in Partition /\ next[t] \in Nat \ {0} /\ pos[t] \in Nat \ {0}
  BY DEF WalletInv, TasksOK, Task
<1>2. log[t[2]] \in Seq(Seq(Command))
  BY <1>1 DEF WalletInv, LogsOK
<1>3. next[t] \in DOMAIN log[t[2]]
  BY <1>1, <1>2 DEF AtCommand, HasRecord
<1>4. log[t[2]][next[t]] \in Seq(Command)
  BY <1>2, <1>3
<1>5. pos[t] \in DOMAIN log[t[2]][next[t]]
  BY <1>1, <1>4 DEF AtCommand, Record
<1> QED BY <1>1, <1>3, <1>5 DEF Cmd, Record

LEMMA TakingFields ==
  ASSUME WalletInv, NEW x \in Takings
  PROVE  /\ x[1] \in EventPartition /\ x[1] \in Partition /\ x[2] \in Nat /\ x[3] \in Nat
         /\ x = <<x[1], x[2], x[3]>> /\ x \in EventPlace
         /\ CmdIn(x) \in Command /\ CmdIn(x).res \in ReservationId
         /\ TakenBy(CmdIn(x)) \in Nat \ {0}
         /\ x[2] <= Len(log[x[1]]) /\ x[3] <= Len(log[x[1]][x[2]])
<1>1. /\ x \in EventPartition \X Nat \X Nat /\ x[2] \in DOMAIN log[x[1]]
      /\ x[3] \in DOMAIN log[x[1]][x[2]] /\ Takes(CmdIn(x))
  BY DEF Takings, IsAt, EventPlace
<1>2. x[1] \in Partition /\ log[x[1]] \in Seq(Seq(Command))
  BY <1>1 DEF WalletInv, LogsOK, Partition
<1>3. log[x[1]][x[2]] \in Seq(Command)
  BY <1>1, <1>2
<1>4. CmdIn(x) \in Command
  BY <1>1, <1>3 DEF CmdIn
<1>5. CmdIn(x).res \in ReservationId /\ TakenBy(CmdIn(x)) \in Nat \ {0}
  BY <1>1, <1>4, CommandFields DEF ReservationId, Takes, TakenBy
<1>6. x[2] <= Len(log[x[1]])
  BY <1>1, <1>2
<1>7. x[3] <= Len(log[x[1]][x[2]])
  BY <1>1, <1>3
<1> QED BY <1>1, <1>2, <1>4, <1>5, <1>6, <1>7 DEF EventPlace

\* A step that writes no record and commits no release or settlement.
TakingsStay == UNCHANGED <<log, done, twice>>

LEMMA TakingsSame ==
  ASSUME log' = log
  PROVE  /\ Takings' = Takings /\ Amounts' = Amounts
         /\ \A x : CmdIn(x)' = CmdIn(x)
         /\ \A x, fill : Settles(x, fill)' <=> Settles(x, fill)
         /\ done \subseteq done' =>
              \A fill, mark : Settled(fill, mark) => Settled(fill, mark)'
<1>1. \A x : (CmdIn(x)' = CmdIn(x)) /\ (IsAt(x)' <=> IsAt(x))
  BY DEF CmdIn, IsAt
<1>2. Takings' = Takings /\ Amounts' = Amounts
  BY <1>1 DEF Takings, Amounts
<1>3. \A x, fill : Settles(x, fill)' <=> Settles(x, fill)
  BY <1>1, <1>2 DEF Settles
<1>4. ASSUME done \subseteq done', NEW fill, NEW mark, Settled(fill, mark) PROVE Settled(fill, mark)'
  <2>1. PICK x \in done : Settles(x, fill) /\ mark \in Marks(CmdIn(x))
    BY <1>4 DEF Settled
  <2>2. PICK cmd : cmd = CmdIn(x)
    OBVIOUS
  <2>3. mark \in Marks(CmdIn(x))'
    BY <1>1, <2>1, <2>2 DEF Marks
  <2> QED BY <1>3, <1>4, <2>1, <2>3 DEF Settled
<1> QED BY <1>1, <1>2, <1>3, <1>4

LEMMA QuietKeeps ==
  ASSUME FundsDue, SettlementsFit, TablesKnown, DoneTaken, TakingsStay,
         UNCHANGED <<reservation, walletLedger, outbox, taken>>
  PROVE  FundsDue' /\ SettlementsFit' /\ TablesKnown' /\ DoneTaken'
<1>0. log' = log /\ done' = done /\ twice' = twice
  BY DEF TakingsStay
<1>1. FundsDue'
  <2>1. ASSUME NEW r PROVE Pending(r)' = Pending(r)
    <3>1. \A x : x \in Pending(r)' <=> x \in Pending(r)
      BY <1>0, TakingsSame DEF Pending
    <3> QED BY <3>1 DEF Pending
  <2> QED BY <1>0, <2>1, TakingsSame DEF FundsDue, Due, RowSound
<1>2. SettlementsFit'
  BY <1>0, TakingsSame DEF SettlementsFit
<1>3. TablesKnown'
  <2>1. \A fill, mark : Settled(fill, mark) => Settled(fill, mark)'
    BY <1>0, TakingsSame
  <2>2. \A row : Known(row) => Known(row)'
    BY <2>1 DEF Known
  <2> QED BY <2>1, <2>2 DEF TablesKnown, Known
<1> QED BY <1>0, <1>1, <1>2, <1>3, TakingsSame DEF DoneTaken

\* A client command stands on no partition of engine.events.
LEMMA ClientElsewhere ==
  ASSUME WalletInv, RepliesInv, NEW t \in Task, AtCommand(t)
  PROVE  /\ Cmd(t).type \in ClientCommandType => t[2] \notin EventPartition
         /\ Cmd(t).type \notin ClientCommandType => t[2] \in EventPartition
<1>1. Routed(t[2], Cmd(t)) /\ t[2] \in Partition
  BY CmdRouted, CmdType DEF WalletInv, RepliesInv
<1> QED BY <1>1, PartitionAssumption DEF Routed, Partition

\* Which steps are in the history: those that move a task past a release or a
\* settlement it was in the transaction of.
LEMMA NothingCommitted ==
  ASSUME HistoryNext, Committing = {}
  PROVE  done' = done /\ twice' = twice
  BY DEF HistoryNext

LEMMA TakingCommitted ==
  ASSUME WalletInv, HistoryNext, NEW t \in Task, InTransaction(t), Takes(Cmd(t)), NextCommand(t)
  PROVE  /\ done' = done \cup {Place(t)}
         /\ twice \subseteq twice' /\ twice' \subseteq twice \cup {Cmd(t).res}
         /\ Place(t) \in done => Cmd(t).res \in twice'
<1>1. pos'[t] = pos[t] + 1 /\ pos[t] \in Nat /\ \A q \in Task : q # t => pos'[q] = pos[q]
  BY DEF NextCommand, WalletInv, TasksOK
<1>2. pos'[t] # pos[t]
  BY <1>1
<1>3. Committing = {t}
  BY <1>1, <1>2 DEF Committing
<1> QED BY <1>3 DEF HistoryNext

LEMMA OthersStay ==
  ASSUME WalletInv, NEW t \in Task, ~(InTransaction(t) /\ Takes(Cmd(t))),
         \A q \in Task : q # t => pos'[q] = pos[q]
  PROVE  Committing = {}
  BY DEF Committing

\* The steps of a task that change no funds.
LEMMA MovesTakeNothing ==
  ASSUME WalletInv, RepliesInv, HistoryNext, NEW t \in Task,
         \/ LookupReply(t) \/ ReadReservation(t) \/ SkipDelta(t) \/ RejectFunds(t)
         \/ RecordRejection(t) \/ PublishReply(t) \/ SaveOffset(t) \/ FailTransaction(t)
  PROVE  TakingsStay /\ UNCHANGED <<reservation, walletLedger, outbox, taken>>
<1>1. UNCHANGED <<reservation, walletLedger, outbox, taken, log>>
  BY DEF LookupReply, ReadReservation, SkipDelta, RejectFunds, RecordRejection, RecordReply,
         PublishReply, SaveOffset, FailTransaction, tables
<1>2. CASE LookupReply(t) \/ ReadReservation(t) \/ RejectFunds(t) \/ RecordRejection(t)
           \/ FailTransaction(t)
  <2>1. pos' = pos
    BY <1>2 DEF LookupReply, ReadReservation, RejectFunds, RecordRejection, FailTransaction, Stop
  <2>2. Committing = {}
    BY <2>1 DEF Committing
  <2> QED BY <1>1, <2>2, NothingCommitted DEF TakingsStay
<1>3. CASE SkipDelta(t)
  <2>1. PICK cmd \in Command : cmd = Cmd(t)
    BY <1>3, CmdType DEF WalletInv, SkipDelta, InTransaction
  <2>2. NextCommand(t) /\ Outcome(cmd, Req(t), seen[t]) = "nothing"
    BY <1>3, <2>1 DEF SkipDelta, InTransaction, Result
  <2>3. ~Takes(cmd)
    BY <2>2 DEF Takes, Outcome, ReleaseOutcome, SettleOutcome
  <2>4. \A q \in Task : q # t => pos'[q] = pos[q]
    BY <2>2 DEF NextCommand, WalletInv, TasksOK
  <2> QED BY <1>1, <2>1, <2>3, <2>4, OthersStay, NothingCommitted DEF TakingsStay
<1>4. CASE PublishReply(t)
  <2>1. ~InTransaction(t)
    BY <1>4 DEF PublishReply, InTransaction
  <2>2. \A q \in Task : q # t => pos'[q] = pos[q]
    BY <1>4 DEF PublishReply, NextCommand, WalletInv, TasksOK
  <2> QED BY <1>1, <2>1, <2>2, OthersStay, NothingCommitted DEF TakingsStay
<1>5. CASE SaveOffset(t)
  <2>1. ~InTransaction(t)
    BY <1>5 DEF SaveOffset, InTransaction
  <2>2. \A q \in Task : q # t => pos'[q] = pos[q]
    BY <1>5 DEF SaveOffset, WalletInv, TasksOK
  <2> QED BY <1>1, <2>1, <2>2, OthersStay, NothingCommitted DEF TakingsStay
<1> QED BY <1>1, <1>2, <1>3, <1>4, <1>5

\* A process that ends or starts again: its tasks are in no transaction then.
LEMMA ProcessTakesNothing ==
  ASSUME WalletInv, HistoryNext, NEW i \in Instance, Crash(i) \/ Restart(i)
  PROVE  TakingsStay /\ UNCHANGED <<reservation, walletLedger, outbox, taken>>
<1>1. UNCHANGED <<log, reservation, walletLedger, outbox, taken>>
  BY DEF Crash, Restart, tables
<1>2. ASSUME NEW q \in Task, InTransaction(q) PROVE pos'[q] = pos[q]
  <2>1. CASE Crash(i)
    BY <2>1 DEF Crash, Stop
  <2>2. CASE Restart(i)
    <3>1. q[1] # i
      BY <1>2, <2>2 DEF Restart, InTransaction, Running
    <3> QED BY <2>2, <3>1 DEF Restart
  <2> QED BY <2>1, <2>2
<1>3. Committing = {}
  BY <1>2 DEF Committing
<1> QED BY <1>1, <1>3, NothingCommitted DEF TakingsStay

\* An order that the engine knows has its reservation.
LEMMA OrderedExists ==
  ASSUME WalletInv, RepliesInv, CoverInv, NEW p \in Partition, NEW n \in DOMAIN log[p],
         NEW k \in DOMAIN log[p][n], Takes(log[p][n][k]), log[p][n][k].res \in ReservationId
  PROVE  reservation[log[p][n][k].res].status # "NONE"
<1>1. PICK r \in ReservationId : r = log[p][n][k].res
  OBVIOUS
<1>2. PICK m \in Market : OrderedAt(m, r)
  BY <1>1 DEF CoverInv, LogsOrdered, Ordered, Takes
<1>3. Enqueued(<<"place-order", r[1], r[2]>>)
  BY <1>2 DEF OrderedAt, Enqueued
<1>4. r[1] \in User /\ r[2] \in Key /\ r = <<r[1], r[2]>>
  BY DEF ReservationId
<1>5. EffectsOf(r[1], r[2])
  BY <1>4 DEF RepliesInv, EffectsMatch, RepliesMatchEffects, EffectsOf
<1> QED BY <1>1, <1>3, <1>4, <1>5 DEF EffectsOf

\* A transaction that takes funds has read a row.
LEMMA TxSeenNext ==
  ASSUME OneWallet, WalletInv, RepliesInv, RepliesInv', CoverInv, TxSeen, [Next]_vars
  PROVE  TxSeen'
<1>1. ASSUME NEW q \in Task, phase'[q] = "tx", phase[q] = "tx", seen'[q] = seen[q], Cmd(q)' = Cmd(q),
             Takes(Cmd(q)')
      PROVE  seen'[q].status # "NONE"
  BY <1>1 DEF TxSeen
<1>2. ASSUME NEW q \in Task, UNCHANGED log, next'[q] = next[q], pos'[q] = pos[q]
      PROVE  Cmd(q)' = Cmd(q)
  BY <1>2 DEF Cmd, Record
<1>3. ASSUME NEW t \in Task, TaskStep(t), NEW q \in Task, phase'[q] = "tx", Takes(Cmd(q)')
      PROVE  seen'[q].status # "NONE"
  <2>1. CASE FailTransaction(t)
    <3>1. UNCHANGED <<next, pos, log>> /\ (phase'[q] = "ready" \/ (phase'[q] = phase[q] /\ seen'[q] = seen[q]))
      BY <2>1 DEF FailTransaction, Stop
    <3> QED BY <1>1, <1>2, <1>3, <3>1
  <2>2. CASE ~FailTransaction(t) /\ q # t
    <3>1. UNCHANGED log /\ next'[q] = next[q] /\ pos'[q] = pos[q] /\ phase'[q] = phase[q] /\ seen'[q] = seen[q]
      BY <1>3, <2>2 DEF TaskStep, LookupReply, ReadReservation, CommitTransaction, SkipDelta, RejectFunds,
           RecordRejection, PublishReply, SaveOffset, NextCommand, Goto, WalletInv, TasksOK
    <3> QED BY <1>1, <1>2, <1>3, <3>1
  <2>3. CASE q = t /\ LookupReply(t)
    <3>1. Cmd(q)' = Cmd(q) /\ Cmd(q).type \in ClientCommandType
      BY <1>2, <2>3 DEF LookupReply
    <3> QED BY <1>3, <3>1 DEF Takes, ClientCommandType
  <2>4. CASE q = t /\ ReadReservation(t)
    <3>1. AtCommand(t) /\ Takes(Cmd(t)) /\ seen'[t] = reservation[Cmd(t).res]
      BY <2>4 DEF ReadReservation, Takes, Goto, WalletInv, TasksOK
    <3>2. t[2] \in Partition /\ Cmd(t).res \in ReservationId
      BY <3>1, CmdType, CommandFields DEF WalletInv, Takes, ReservationId
    <3> QED BY <2>4, <3>1, <3>2, CmdPlace, OrderedExists
  <2>5. CASE /\ q = t /\ ~FailTransaction(t) /\ ~LookupReply(t) /\ ~ReadReservation(t)
    <3>1. phase'[t] # "tx" \/ SaveOffset(t)
      BY <1>3, <2>5 DEF TaskStep, CommitTransaction, SkipDelta, RejectFunds,
           RecordRejection, PublishReply, NextCommand, Goto, WalletInv, TasksOK
    <3>2. SaveOffset(t) => phase'[t] = "ready"
      BY DEF SaveOffset
    <3> QED BY <1>3, <2>5, <3>1, <3>2
  <2> QED BY <2>1, <2>2, <2>3, <2>4, <2>5
<1>4. ASSUME NEW i \in Instance, Crash(i) \/ Restart(i), NEW q \in Task, phase'[q] = "tx", Takes(Cmd(q)')
      PROVE  seen'[q].status # "NONE"
  <2>1. CASE Crash(i)
    <3>1. UNCHANGED <<next, pos, log>> /\ (phase'[q] = "ready" \/ (phase'[q] = phase[q] /\ seen'[q] = seen[q]))
      BY <2>1 DEF Crash, Stop
    <3> QED BY <1>1, <1>2, <1>4, <3>1
  <2>2. CASE Restart(i)
    <3>1. phase[q] = "tx" /\ ~Up(i) /\ UNCHANGED <<seen, log>>
      BY <1>4, <2>2 DEF Restart
    <3>2. q[1] # i
      BY <3>1 DEF RepliesInv, TasksFollow, TaskFollows, Running
    <3>3. next'[q] = next[q] /\ pos'[q] = pos[q]
      BY <2>2, <3>2 DEF Restart
    <3> QED BY <1>1, <1>2, <1>4, <3>1, <3>3
  <2> QED BY <1>4, <2>1, <2>2
<1>5. ASSUME Environment, NEW q \in Task, phase'[q] = "tx", Takes(Cmd(q)')
      PROVE  seen'[q].status # "NONE"
  <2>1. UNCHANGED <<next, pos, phase, seen>>
    BY <1>5, EnvironmentWrites DEF task
  <2>2. PICK p \in Partition, record \in Seq(Command) : Write(p, record)
    BY <1>5, EnvironmentWrites
  <2>3. AtCommand(q)
    BY <1>5, <2>1 DEF RepliesInv, TasksFollow, TaskFollows
  <2>4. Cmd(q)' = Cmd(q)
    BY <2>1, <2>2, <2>3, LogGrows DEF WalletInv
  <2> QED BY <1>1, <1>5, <2>1, <2>4
<1>6. ASSUME UNCHANGED vars, NEW q \in Task, phase'[q] = "tx", Takes(Cmd(q)')
      PROVE  seen'[q].status # "NONE"
  <2>1. UNCHANGED <<next, pos, phase, seen, log>>
    BY <1>6 DEF vars, task
  <2> QED BY <1>1, <1>2, <1>6, <2>1
<1>7. \A t \in Task : Poll(t) => UNCHANGED vars
  BY DEF Poll
<1>8. ASSUME NEW q \in Task, phase'[q] = "tx", Takes(Cmd(q)')
      PROVE  seen'[q].status # "NONE"
  BY <1>3, <1>4, <1>5, <1>6, <1>7, <1>8 DEF Next
<1> QED BY <1>8 DEF TxSeen, Takes

\* The place of a command that takes funds.
LEMMA AtHand ==
  ASSUME WalletInv, RepliesInv, NEW t \in Task, AtCommand(t), Takes(Cmd(t)), NEW y, y = Place(t)
  PROVE  /\ y \in Takings /\ y \in EventPlace /\ CmdIn(y) = Cmd(t)
         /\ y[1] = t[2] /\ y[2] = next[t] /\ y[3] = pos[t]
         /\ Cmd(t) \in Command /\ Cmd(t).res \in ReservationId
         /\ TakenBy(Cmd(t)) \in Nat \ {0}
         /\ y \notin done => y \in Pending(Cmd(t).res)
<1>1. t[2] \in EventPartition
  BY ClientElsewhere DEF Takes, ClientCommandType
<1>2. y \in EventPlace /\ IsAt(y) /\ CmdIn(y) = Cmd(t) /\ y[1] = t[2] /\ y[2] = next[t] /\ y[3] = pos[t]
  BY <1>1, CmdPlace DEF Place, EventPlace, IsAt, CmdIn
<1>3. y \in Takings
  BY <1>2 DEF Takings
<1>4. Cmd(t) \in Command /\ Cmd(t).res \in ReservationId /\ TakenBy(Cmd(t)) \in Nat \ {0}
  BY <1>2, <1>3, TakingFields
<1> QED BY <1>2, <1>3, <1>4 DEF Pending

\* What is pending of a reservation is left of it.
LEMMA PendingFits ==
  ASSUME WalletInv, FundsDue, NEW r \in ReservationId, r \notin twice, NEW y \in Pending(r)
  PROVE  /\ TakenBy(CmdIn(y)) <= reservation[r].remaining
         /\ reservation[r].remaining \in Nat /\ reservation[r].remaining > 0
<1>1. \A x \in Pending(r) : x \in Takings /\ x \in EventPlace /\ Amounts[x] = TakenBy(CmdIn(x))
  BY DEF Pending, Takings, Amounts
<1>2. \A x \in Pending(r) : Amounts[x] \in Nat \ {0}
  BY <1>1, TakingFields
<1>3. PICK S : S = Pending(r)
  OBVIOUS
<1>4. IsFiniteSet(S) /\ y \in S /\ \A x \in S : Amounts[x] \in Nat
  BY <1>2, <1>3 DEF FundsDue, Due
<1>5. PICK f : f = Amounts
  OBVIOUS
<1>6. IsFiniteSet(S \ {y}) /\ SumOver(f, S) = f[y] + SumOver(f, S \ {y})
  <2>1. \A x \in S : f[x] \in Int
    BY <1>4, <1>5
  <2> QED BY <1>4, <2>1, SumWithout
<1>7. PICK T : T = S \ {y}
  OBVIOUS
<1>8. SumOver(f, T) \in Nat
  <2>1. IsFiniteSet(T) /\ \A x \in T : f[x] \in Nat
    BY <1>4, <1>5, <1>6, <1>7
  <2> QED BY <2>1, SumNat
<1>9. PICK a \in Nat, b \in Nat, c \in Nat, d \in Nat, e \in Nat :
        /\ a = reservation[r].amount /\ b = reservation[r].remaining /\ c = taken[r]
        /\ d = f[y] /\ e = SumOver(f, T)
  BY <1>4, <1>5, <1>8 DEF WalletInv, StoreOK, RowsOK, ReservationRow, LogsOK
<1>10. a + (d + e) = b + c /\ c <= a
  BY <1>3, <1>5, <1>6, <1>7, <1>9 DEF FundsDue, Due
<1>11. d <= b /\ d # 0
  BY <1>2, <1>5, <1>9, <1>10
<1> QED BY <1>1, <1>5, <1>9, <1>11

\* A settlement done before of the same fill, user and asset is one of the same
\* record: a self-trade.
LEMMA SettledMeansSelfTrade ==
  ASSUME WalletInv, RepliesInv, SettlementsFit, DoneTaken, NEW t \in Task, AtCommand(t), NEW cmd,
         cmd = Cmd(t), cmd.type = "SettleTrade", Place(t) \notin done, NEW mark, Settled(cmd.fill, mark)
  PROVE  /\ mark # <<"trade-settled", cmd.res>>
         /\ \/ mark = <<"TRADE_DEBIT", cmd.res[1], cmd.debitAsset>>
            \/ mark = <<"TRADE_CREDIT", cmd.res[1], cmd.creditAsset>>
            => SelfTrade(t)
<1>1. PICK y : y = Place(t)
  OBVIOUS
<1>2. /\ y \in Takings /\ y \in EventPlace /\ CmdIn(y) = cmd
      /\ y[1] = t[2] /\ y[2] = next[t] /\ y[3] = pos[t]
  BY <1>1, AtHand DEF Takes
<1>3. PICK x \in done : Settles(x, cmd.fill) /\ mark \in Marks(CmdIn(x))
  BY DEF Settled
<1>4. x \in Takings /\ x \in EventPlace /\ x = <<x[1], x[2], x[3]>> /\ y = <<y[1], y[2], y[3]>>
  BY <1>2, TakingFields DEF DoneTaken
<1>5. Settles(y, cmd.fill)
  BY <1>2 DEF Settles
<1>6. x[1] = y[1] /\ x[2] = y[2] /\ (CmdIn(x).res = cmd.res => x = y)
  BY <1>2, <1>3, <1>4, <1>5 DEF SettlementsFit
<1>7. x # y
  BY <1>1
<1>8. x[3] # y[3]
  BY <1>4, <1>6, <1>7
<1>9. PICK other, k : other = CmdIn(x) /\ k = x[3]
  OBVIOUS
<1>10. k \in DOMAIN Record(t) \ {pos[t]} /\ other = Record(t)[k] /\ other.type = "SettleTrade"
  BY <1>2, <1>3, <1>4, <1>6, <1>8, <1>9 DEF Takings, IsAt, CmdIn, Record, Settles
<1>11. mark \in Marks(other) /\ other.res # cmd.res
  BY <1>3, <1>6, <1>7, <1>9
<1>12. mark # <<"trade-settled", cmd.res>>
  BY <1>11 DEF Marks
<1>13. ASSUME \/ mark = <<"TRADE_DEBIT", cmd.res[1], cmd.debitAsset>>
              \/ mark = <<"TRADE_CREDIT", cmd.res[1], cmd.creditAsset>>
       PROVE  SelfTrade(t)
  <2>1. /\ cmd.res[1] = other.res[1]
        /\ cmd.debitAsset = other.debitAsset \/ cmd.creditAsset = other.creditAsset
    BY <1>11, <1>13 DEF Marks
  <2> QED BY <1>10, <2>1 DEF SelfTrade
<1> QED BY <1>12, <1>13

(***************************************************************************)
(* A release or a settlement that the wallet has come to is carried out,    *)
(* unless it was done before, another of its reservation was done twice, or *)
(* it is the second of a self-trade: the row it has read is active and      *)
(* holds enough, and nothing of it has been written before.                 *)
(***************************************************************************)
LEMMA TakingSucceeds ==
  ASSUME WalletInv, RepliesInv, CoverInv, EngineInv, NEW t \in Task, InTransaction(t), Takes(Cmd(t)),
         Place(t) \notin done, Cmd(t).res \notin twice, ~SelfTrade(t),
         ~(Cmd(t).type = "SettleTrade" /\ CreditOverflows(Cmd(t)))
  PROVE  Result(t) = "ok"
<1>0. FundsDue /\ SettlementsFit /\ TablesKnown /\ DoneTaken /\ TxSeen
  BY DEF EngineInv
<1>1. AtCommand(t) /\ phase[t] = "tx"
  BY DEF InTransaction, Takes
<1>2. PICK cmd, row, y : cmd = Cmd(t) /\ row = seen[t] /\ y = Place(t)
  OBVIOUS
<1>3. /\ y \in Takings /\ CmdIn(y) = cmd
      /\ cmd \in Command /\ cmd.res \in ReservationId /\ TakenBy(cmd) \in Nat \ {0}
      /\ y \in Pending(cmd.res)
  BY <1>1, <1>2, AtHand
<1>4. row = reservation[cmd.res] /\ row.status # "NONE"
  BY <1>0, <1>1, <1>2 DEF TxSeen, CoverInv, SeenFresh
<1>5. TakenBy(cmd) <= row.remaining /\ row.remaining \in Nat /\ row.remaining > 0
  BY <1>0, <1>2, <1>3, <1>4, PendingFits
<1>6. row.status = "ACTIVE"
  BY <1>0, <1>3, <1>4, <1>5 DEF FundsDue, RowSound
<1>7. CASE cmd.type = "ReleaseReservation"
  <2>1. ~(cmd.amount > row.remaining)
    BY <1>3, <1>5, <1>7 DEF TakenBy
  <2>2. FundsReleased(cmd, row) = ReleasedRow(cmd.res, cmd.reason, cmd.amount, reservation[cmd.res].asset)
    BY <1>4 DEF FundsReleased, ReleasedRow
  <2>3. FundsReleased(cmd, row).dedupe = <<"funds-released", cmd.res, cmd.reason, cmd.amount>>
    BY DEF FundsReleased, WalletEventRow
  <2>4. ~OutboxConflict(FundsReleased(cmd, row))
    BY <1>0, <2>2, <2>3 DEF OutboxConflict, TablesKnown, Known
  <2>5. Outcome(cmd, Req(t), row) = "ok"
    BY <1>4, <1>6, <1>7, <2>1, <2>4 DEF Outcome, ReleaseOutcome
  <2> QED BY <1>2, <2>5 DEF Result
<1>8. CASE cmd.type = "SettleTrade"
  <2>1. ~(cmd.debitAmount > row.remaining) /\ ~(cmd.debitAmount <= 0)
    BY <1>3, <1>5, <1>8 DEF TakenBy
  <2>2. row.asset = cmd.debitAsset
    BY <1>0, <1>3, <1>4, <1>8 DEF SettlementsFit
  <2>3. /\ ~Settled(cmd.fill, <<"TRADE_DEBIT", cmd.res[1], cmd.debitAsset>>)
        /\ ~Settled(cmd.fill, <<"TRADE_CREDIT", cmd.res[1], cmd.creditAsset>>)
        /\ ~Settled(cmd.fill, <<"trade-settled", cmd.res>>)
    BY <1>0, <1>1, <1>2, <1>8, SettledMeansSelfTrade
  <2>4. /\ ~InLedger(cmd.res[1], cmd.debitAsset, "TRADE_DEBIT", cmd.fill)
        /\ ~InLedger(cmd.res[1], cmd.creditAsset, "TRADE_CREDIT", cmd.fill)
    BY <1>0, <2>3 DEF InLedger, TablesKnown
  <2>5. TradeSettled(cmd).dedupe = <<"trade-settled", cmd.fill, cmd.res>>
    BY DEF TradeSettled, WalletEventRow
  <2>6. ~OutboxConflict(TradeSettled(cmd))
    BY <1>0, <2>3, <2>5 DEF OutboxConflict, TablesKnown, Known
  <2>7. Outcome(cmd, Req(t), row) = "ok"
    BY <1>2, <1>4, <1>6, <1>8, <2>1, <2>2, <2>4, <2>6 DEF Outcome, SettleOutcome
  <2> QED BY <1>2, <2>7 DEF Result
<1> QED BY <1>2, <1>7, <1>8 DEF Takes

\* A row that is about no settlement and no release.
NoClaim(row) ==
  /\ \A fill, r : row.dedupe # <<"trade-settled", fill, r>>
  /\ \A r, reason, amount : row.dedupe # <<"funds-released", r, reason, amount>>

\* What a reservation was made of stays.
RowsKept ==
  \A r \in ReservationId : reservation[r].status # "NONE" =>
    reservation'[r].status # "NONE" /\ reservation'[r].asset = reservation[r].asset

LEMMA KnownStays ==
  ASSUME RowsKept, \A fill, mark : Settled(fill, mark) => Settled(fill, mark)', NEW row, Known(row)
  PROVE  Known(row)'
<1>1. \A fill, r : row.dedupe = <<"trade-settled", fill, r>> => Settled(fill, <<"trade-settled", r>>)'
  BY DEF Known
<1>2. ASSUME NEW r, NEW reason, NEW amount, row.dedupe = <<"funds-released", r, reason, amount>>
      PROVE  /\ r \in ReservationId /\ reservation'[r].status # "NONE"
             /\ row = ReleasedRow(r, reason, amount, reservation'[r].asset)
  BY <1>2 DEF Known, RowsKept
<1> QED BY <1>1, <1>2 DEF Known

\* The rows that a transaction adds to the tables.
LEMMA TablesGrow ==
  ASSUME TablesKnown, RowsKept, \A fill, mark : Settled(fill, mark) => Settled(fill, mark)',
         \A row \in walletLedger' :
           \/ row \in walletLedger
           \/ row.kind \in {"TRADE_DEBIT", "TRADE_CREDIT"} =>
                Settled(row.ref, <<row.kind, row.user, row.asset>>)',
         RowsStay,
         \A i \in DOMAIN outbox' : i \in DOMAIN outbox \/ \E row : row = outbox'[i] /\ Known(row)'
  PROVE  TablesKnown'
<1>1. ASSUME NEW i \in DOMAIN outbox', NEW row, row = outbox'[i] PROVE Known(row)'
  <2>1. CASE i \in DOMAIN outbox
    <3>1. Known(row)
      BY <1>1, <2>1 DEF TablesKnown, RowsStay
    <3> QED BY <3>1, KnownStays
  <2>2. CASE i \notin DOMAIN outbox
    <3>1. PICK other : other = outbox'[i] /\ Known(other)'
      BY <2>2
    <3>2. other = row
      BY <1>1, <3>1
    <3> QED BY <3>1, <3>2
  <2> QED BY <2>1, <2>2
<1>2. ASSUME NEW i \in DOMAIN outbox' PROVE Known(outbox[i])'
  <2>1. PICK row : row = outbox'[i]
    OBVIOUS
  <2>2. Known(row)'
    BY <1>1, <2>1
  <2> QED BY <2>1, <2>2 DEF Known
<1>3. ASSUME NEW row \in walletLedger', row.kind \in {"TRADE_DEBIT", "TRADE_CREDIT"}
      PROVE  Settled(row.ref, <<row.kind, row.user, row.asset>>)'
  <2>1. CASE row \in walletLedger
    BY <1>3, <2>1 DEF TablesKnown
  <2>2. CASE row \notin walletLedger
    BY <1>3, <2>2
  <2> QED BY <2>1, <2>2
<1> QED BY <1>2, <1>3 DEF TablesKnown

\* The rows of a reservation.
LEMMA TwoRowsCome ==
  ASSUME OutboxIsSeq, NEW first, NEW second, ~Enqueued(first.dedupe), ~Enqueued(second.dedupe),
         outbox' = Enqueue(Enqueue(outbox, first), second)
  PROVE  \A i \in DOMAIN outbox' : i \in DOMAIN outbox \/ outbox'[i] = first \/ outbox'[i] = second
<1>1. PICK S : outbox \in Seq(S)
  BY DEF OutboxIsSeq
<1>2. PICK box, mid, new : box = outbox /\ mid = Append(box, first) /\ new = Append(mid, second)
  OBVIOUS
<1>3. outbox' = new
  BY <1>2 DEF Enqueue
<1>4. /\ mid \in Seq(S \cup {first})
      /\ mid[Len(box) + 1] = first
      /\ \A i \in DOMAIN mid : i \in DOMAIN box \/ i = Len(box) + 1
  BY <1>1, <1>2, AppendStays
<1>5. /\ new[Len(mid) + 1] = second
      /\ \A i \in DOMAIN mid : i \in DOMAIN new /\ new[i] = mid[i]
      /\ \A i \in DOMAIN new : i \in DOMAIN mid \/ i = Len(mid) + 1
  BY <1>2, <1>4, AppendStays
<1> QED BY <1>2, <1>3, <1>4, <1>5

\* A transaction that takes nothing writes of no settlement and of no release.
LEMMA OtherRowsCome ==
  ASSUME EffectsMatch, NEW cmd \in Command, NEW req, NEW row, ~Takes(cmd), Commit(cmd, req, row),
         cmd.type \in ClientCommandType => idempotency[ReplyKeyOf(cmd)] = NoReply
  PROVE  /\ \A i \in DOMAIN outbox' : i \in DOMAIN outbox \/ NoClaim(outbox'[i])
         /\ \A x \in walletLedger' :
              x \in walletLedger \/ x.kind \notin {"TRADE_DEBIT", "TRADE_CREDIT"}
<1>1. OutboxIsSeq
  BY DEF EffectsMatch
<1>2. ASSUME NEW new, outbox' = Enqueue(outbox, new), NoClaim(new)
      PROVE  \A i \in DOMAIN outbox' : i \in DOMAIN outbox \/ NoClaim(outbox'[i])
  BY <1>1, <1>2, EnqueueStays
<1>3. CASE cmd.type = "Deposit"
  <2>1. NoClaim(DepositApplied(cmd, req))
    BY DEF NoClaim, DepositApplied, WalletEventRow
  <2>2. outbox' = Enqueue(outbox, DepositApplied(cmd, req))
    BY <1>3 DEF Commit, ApplyDeposit
  <2>3. \A x \in walletLedger' : x \in walletLedger \/ x.kind = "DEPOSIT"
    BY <1>3 DEF Commit, ApplyDeposit, LedgerRow
  <2> QED BY <1>2, <2>1, <2>2, <2>3
<1>4. CASE cmd.type = "Withdraw"
  <2>1. NoClaim(WithdrawalApplied(cmd, req))
    BY DEF NoClaim, WithdrawalApplied, WalletEventRow
  <2>2. outbox' = Enqueue(outbox, WithdrawalApplied(cmd, req))
    BY <1>4 DEF Commit, ApplyWithdraw
  <2>3. \A x \in walletLedger' : x \in walletLedger \/ x.kind = "WITHDRAW"
    BY <1>4 DEF Commit, ApplyWithdraw, LedgerRow
  <2> QED BY <1>2, <2>1, <2>2, <2>3
<1>5. CASE cmd.type = "CancelOrderIntent"
  <2>1. NoClaim(CancelOrder(cmd, req))
    BY DEF NoClaim, CancelOrder, EngineInputRow
  <2>2. outbox' = Enqueue(outbox, CancelOrder(cmd, req)) /\ walletLedger' = walletLedger
    BY <1>5 DEF Commit, ForwardCancel
  <2> QED BY <1>2, <2>1, <2>2
<1>6. CASE cmd.type = "PlaceOrderIntent"
  <2>1. PICK u \in User, k \in Key : u = cmd.user /\ k = cmd.key
    BY <1>6, CommandFields DEF ClientCommandType
  <2>2. idempotency[<<u, "PlaceOrderIntent", k>>].type # "FundsReserved"
    BY <1>6, <2>1 DEF ClientCommandType, ReplyKeyOf, NoReply
  <2>3. ~Enqueued(<<"funds-reserved", <<u, k>> >>) /\ ~Enqueued(<<"place-order", u, k>>)
    BY <2>2 DEF EffectsMatch, RepliesMatchEffects
  <2>4. PICK first, second : first = FundsReserved(cmd, req) /\ second = PlaceOrder(cmd, req)
    OBVIOUS
  <2>5. first.dedupe = <<"funds-reserved", <<u, k>> >> /\ second.dedupe = <<"place-order", u, k>>
    BY <2>1, <2>4 DEF FundsReserved, PlaceOrder, WalletEventRow, EngineInputRow
  <2>6. outbox' = Enqueue(Enqueue(outbox, first), second) /\ walletLedger' = walletLedger
    BY <1>6, <2>4 DEF Commit, ReserveFunds
  <2>7. \A i \in DOMAIN outbox' : i \in DOMAIN outbox \/ outbox'[i] = first \/ outbox'[i] = second
    BY <1>1, <2>3, <2>5, <2>6, TwoRowsCome
  <2>8. NoClaim(first) /\ NoClaim(second)
    BY <2>5 DEF NoClaim
  <2> QED BY <2>6, <2>7, <2>8
<1>7. CASE cmd.type = "ApplyAccountDelta"
  <2>1. NoClaim(AccountDeltaApplied(cmd))
    BY DEF NoClaim, AccountDeltaApplied, WalletEventRow
  <2>2. outbox' = Enqueue(outbox, AccountDeltaApplied(cmd))
    BY <1>7 DEF Commit, ApplyAccountDelta
  <2>3. \A x \in walletLedger' : x \in walletLedger \/ x.kind = cmd.kind
    BY <1>7 DEF Commit, ApplyAccountDelta, LedgerRow
  <2>4. cmd.kind \in DeltaKind
    BY <1>7 DEF Command, ClientCommand, EngineCommand
  <2>5. cmd.kind \notin {"TRADE_DEBIT", "TRADE_CREDIT"}
    BY <2>4, CommandAssumption
  <2> QED BY <1>2, <2>1, <2>2, <2>3, <2>5
<1> QED BY <1>3, <1>4, <1>5, <1>6, <1>7, CommandFields DEF Takes, ClientCommandType

\* A transaction that takes nothing: at most a reservation comes.
LEMMA OtherCommitKeeps ==
  ASSUME WalletInv, RepliesInv, CoverInv, FundsDue, SettlementsFit, TablesKnown, DoneTaken,
         HistoryNext, NEW t \in Task, CommitTransaction(t), ~Takes(Cmd(t))
  PROVE  FundsDue' /\ SettlementsFit' /\ TablesKnown' /\ DoneTaken'
<1>1. /\ UNCHANGED <<log, taken>> /\ AtCommand(t)
      /\ phase[t] = "tx" \/ Cmd(t).type = "ApplyAccountDelta"
      /\ Outcome(Cmd(t), Req(t), seen[t]) = "ok" /\ Commit(Cmd(t), Req(t), seen[t])
  BY DEF CommitTransaction, InTransaction, Result
<1>2. PICK cmd \in Command, row \in ReservationRow, req \in {Req(t)} : cmd = Cmd(t) /\ row = seen[t]
  BY <1>1, CmdType DEF WalletInv, TasksOK
<1>3. cmd.type \in ClientCommandType => idempotency[ReplyKeyOf(cmd)] = NoReply
  <2>1. TaskFollows(t)
    BY DEF RepliesInv, TasksFollow
  <2> QED BY <1>1, <1>2, <2>1 DEF TaskFollows, KeyOf, ClientCommandType
<1>4. Outcome(cmd, req, row) = "ok" /\ Commit(cmd, req, row) /\ ~Takes(cmd)
  BY <1>1, <1>2
<1>5. TakingsStay /\ log' = log /\ done' = done /\ twice' = twice
  <2>1. \A q \in Task : q # t => pos'[q] = pos[q]
    BY DEF CommitTransaction, NextCommand, WalletInv, TasksOK
  <2> QED BY <1>1, <2>1, OthersStay, NothingCommitted DEF TakingsStay
<1>6. \A r \in ReservationId :
        \/ reservation'[r] = reservation[r]
        \/ /\ reservation[r].status = "NONE" /\ reservation'[r].status = "ACTIVE"
           /\ reservation'[r].amount = reservation'[r].remaining /\ reservation'[r].amount \in Nat
  <2>1. CASE cmd.type = "PlaceOrderIntent"
    <3>1. PICK n \in Nat, q \in ReservationId : n = cmd.amount /\ q = <<cmd.user, cmd.key>>
      BY <2>1, CommandFields DEF ReservationId, ClientCommandType
    <3>2. reservation[q].status = "NONE"
      BY <1>4, <2>1, <3>1 DEF Outcome, ReserveOutcome
    <3>3. reservation' = [reservation EXCEPT ![q] =
            [asset |-> cmd.asset, amount |-> n, remaining |-> n, status |-> "ACTIVE"]]
      BY <1>4, <2>1, <3>1 DEF Commit, ReserveFunds
    <3> QED BY <3>2, <3>3 DEF WalletInv, StoreOK, RowsOK
  <2>2. CASE cmd.type # "PlaceOrderIntent"
    <3>1. reservation' = reservation
      BY <1>4, <2>2 DEF Commit, ApplyDeposit, ApplyWithdraw, ForwardCancel, ApplyAccountDelta, Takes
    <3> QED BY <3>1
  <2> QED BY <2>1, <2>2
<1>7. RowsKept
  BY <1>6 DEF RowsKept
<1>8. FundsDue'
  <2> SUFFICES ASSUME NEW r \in ReservationId PROVE (r \notin twice => Due(r)') /\ RowSound(r)'
    BY <1>5 DEF FundsDue
  <2>1. (r \notin twice => Due(r)) /\ RowSound(r)
    BY DEF FundsDue
  <2>2. Pending(r)' = Pending(r) /\ Amounts' = Amounts
    <3>1. \A x : x \in Pending(r)' <=> x \in Pending(r)
      BY <1>5, TakingsSame DEF Pending
    <3> QED BY <1>5, <3>1, TakingsSame DEF Pending
  <2>3. CASE reservation'[r] = reservation[r]
    BY <1>1, <2>1, <2>2, <2>3 DEF Due, RowSound
  <2>4. CASE /\ reservation[r].status = "NONE" /\ reservation'[r].status = "ACTIVE"
             /\ reservation'[r].amount = reservation'[r].remaining /\ reservation'[r].amount \in Nat
    <3>0. RowSound(r)'
      BY <2>4 DEF RowSound
    <3> SUFFICES ASSUME Due(r) PROVE Due(r)'
      BY <2>1, <3>0
    <3>1. PICK a \in Nat, b \in Nat : /\ a = reservation'[r].amount /\ b = taken[r]
      BY <2>4 DEF WalletInv, LogsOK
    <3>2. PICK u : u = SumOver(Amounts, Pending(r))
      OBVIOUS
    <3>3. 0 + u = 0 + b /\ b <= 0
      BY <2>1, <2>4, <3>1, <3>2 DEF Due, RowSound
    <3>4. u \in Int
      <4>1. \A x \in Pending(r) : Amounts[x] \in Int
        <5>1. \A x \in Pending(r) : x \in Takings /\ x \in EventPlace /\ Amounts[x] = TakenBy(CmdIn(x))
          BY DEF Pending, Takings, Amounts
        <5> QED BY <5>1, TakingFields
      <4>2. PICK S, f : S = Pending(r) /\ f = Amounts
        OBVIOUS
      <4>3. IsFiniteSet(S) /\ \A x \in S : f[x] \in Int
        BY <4>1, <4>2 DEF Due
      <4>4. SumOver(f, S) \in Int
        BY <4>3, SumOverType
      <4> QED BY <3>2, <4>2, <4>4
    <3>5. a + u = a + b /\ b <= a
      BY <3>3, <3>4
    <3>6. Due(r)'
      BY <1>1, <2>2, <2>4, <3>1, <3>2, <3>5 DEF Due
    <3> QED BY <3>6
  <2> QED BY <1>6, <2>3, <2>4
<1>9. SettlementsFit'
  <2>1. ASSUME NEW x \in Takings, CmdIn(x).type = "SettleTrade"
        PROVE  CmdIn(x).debitAsset = reservation'[CmdIn(x).res].asset
    <3>1. CmdIn(x).res \in ReservationId /\ x[1] \in Partition
      BY TakingFields
    <3>2. reservation[CmdIn(x).res].status # "NONE"
      BY <3>1, OrderedExists DEF Takings, IsAt, CmdIn
    <3> QED BY <1>7, <2>1, <3>1, <3>2 DEF RowsKept, SettlementsFit
  <2>2. Takings' = Takings /\ \A x : CmdIn(x)' = CmdIn(x)
    BY <1>5, TakingsSame
  <2>3. \A x, fill : Settles(x, fill)' <=> Settles(x, fill)
    BY <1>5, TakingsSame
  <2> QED BY <2>1, <2>2, <2>3 DEF SettlementsFit
<1>10. TablesKnown'
  <2>1. \A fill, mark : Settled(fill, mark) => Settled(fill, mark)'
    BY <1>5, TakingsSame
  <2>2. /\ \A i \in DOMAIN outbox' : i \in DOMAIN outbox \/ NoClaim(outbox'[i])
        /\ \A x \in walletLedger' :
              x \in walletLedger \/ x.kind \notin {"TRADE_DEBIT", "TRADE_CREDIT"}
    BY <1>3, <1>4, OtherRowsCome DEF RepliesInv
  <2>3. RowsStay
    BY <1>3, <1>4, CommitKeepsRows DEF RepliesInv, CoverInv
  <2>4. \A new : NoClaim(new) => Known(new)'
    BY DEF NoClaim, Known
  <2>5. \A i \in DOMAIN outbox' : i \in DOMAIN outbox \/ \E new : new = outbox'[i] /\ Known(new)'
    BY <2>2, <2>4
  <2> QED BY <1>7, <2>1, <2>2, <2>3, <2>5, TablesGrow
<1> QED BY <1>5, <1>8, <1>9, <1>10, TakingsSame DEF DoneTaken

\* A release or a settlement consumes what it takes.
LEMMA TakingConsumes ==
  ASSUME WalletInv, NEW cmd \in Command, Takes(cmd), NEW req, NEW row, row = reservation[cmd.res],
         Commit(cmd, req, row), TakenBy(cmd) <= row.remaining
  PROVE  /\ \A r \in ReservationId : r # cmd.res => reservation'[r] = reservation[r]
         /\ reservation'[cmd.res].amount = row.amount /\ reservation'[cmd.res].asset = row.asset
         /\ reservation'[cmd.res].remaining = row.remaining - TakenBy(cmd)
         /\ reservation'[cmd.res].status # "NONE"
         /\ row.remaining # TakenBy(cmd) => reservation'[cmd.res].status = "ACTIVE"
<1>1. PICK r \in ReservationId, n \in Nat : r = cmd.res /\ n = TakenBy(cmd)
  BY CommandFields DEF Takes, TakenBy, ReservationId
<1>2. PICK closing \in {"RELEASED", "SETTLED"} : reservation' = Consume(cmd, row, n, closing)
  <2>1. CASE cmd.type = "ReleaseReservation"
    BY <1>1, <2>1 DEF Commit, ReleaseReservation, TakenBy
  <2>2. CASE cmd.type = "SettleTrade"
    BY <1>1, <2>2 DEF Commit, SettleTrade, TakenBy
  <2> QED BY <2>1, <2>2 DEF Takes
<1>3. reservation \in [ReservationId -> ReservationRow]
  BY DEF WalletInv, StoreOK, RowsOK
<1>4. PICK new : new = [reservation[r] EXCEPT !.remaining = row.remaining - n,
                          !.status = IF row.remaining = n THEN closing ELSE "ACTIVE"]
  OBVIOUS
<1>5. reservation' = [reservation EXCEPT ![r] = new]
  BY <1>1, <1>2, <1>4 DEF Consume
<1>6. /\ new.amount = row.amount /\ new.asset = row.asset /\ new.remaining = row.remaining - n
      /\ new.status = IF row.remaining = n THEN closing ELSE "ACTIVE"
  BY <1>1, <1>3, <1>4 DEF ReservationRow
<1> QED BY <1>1, <1>3, <1>5, <1>6

LEMMA TakingCommitKeeps ==
  ASSUME WalletInv, RepliesInv, CoverInv, EngineInv, HistoryNext,
         NEW t \in Task, CommitTransaction(t), Takes(Cmd(t))
  PROVE  FundsDue' /\ SettlementsFit' /\ TablesKnown' /\ DoneTaken'
<1>0. FundsDue /\ SettlementsFit /\ TablesKnown /\ DoneTaken /\ TxSeen
  BY DEF EngineInv
<1>1. /\ UNCHANGED <<log, taken>> /\ AtCommand(t) /\ NextCommand(t) /\ InTransaction(t)
      /\ Commit(Cmd(t), Req(t), seen[t]) /\ Outcome(Cmd(t), Req(t), seen[t]) = "ok"
  BY DEF CommitTransaction, InTransaction, Takes, ClientCommandType, Result
<1>2. PICK cmd, row, y, req : cmd = Cmd(t) /\ row = seen[t] /\ y = Place(t) /\ req = Req(t)
  OBVIOUS
<1>3. /\ y \in Takings /\ y \in EventPlace /\ CmdIn(y) = cmd
      /\ cmd \in Command /\ cmd.res \in ReservationId /\ TakenBy(cmd) \in Nat \ {0}
      /\ y \notin done => y \in Pending(cmd.res)
  BY <1>1, <1>2, AtHand
<1>4. row = reservation[cmd.res] /\ row.status # "NONE"
  <2>1. phase[t] = "tx"
    BY <1>1 DEF InTransaction, Takes
  <2> QED BY <1>0, <1>2, <2>1 DEF TxSeen, CoverInv, SeenFresh
<1>5. Takes(cmd) /\ Commit(cmd, req, row) /\ Outcome(cmd, req, row) = "ok"
  BY <1>1, <1>2
<1>6. TakenBy(cmd) <= row.remaining /\ row.remaining \in Nat
  <2>1. row.remaining \in Nat
    BY <1>3, <1>4 DEF WalletInv, StoreOK, RowsOK, ReservationRow
  <2>2. ~(TakenBy(cmd) > row.remaining)
    BY <1>5 DEF Takes, Outcome, ReleaseOutcome, SettleOutcome, TakenBy
  <2> QED BY <1>3, <2>1, <2>2
<1>70. /\ done' = done \cup {y} /\ twice \subseteq twice' /\ twice' \subseteq twice \cup {cmd.res}
       /\ y \in done => cmd.res \in twice'
  BY <1>1, <1>2, TakingCommitted
<1>7. /\ Takings' = Takings /\ Amounts' = Amounts /\ \A x : CmdIn(x)' = CmdIn(x)
      /\ \A x, fill : Settles(x, fill)' <=> Settles(x, fill)
      /\ \A fill, mark : Settled(fill, mark) => Settled(fill, mark)'
  BY <1>1, <1>70, TakingsSame
<1>71. ASSUME NEW r PROVE Pending(r)' = Pending(r) \ {y}
  <2>1. PICK new, old : new = Pending(r)' /\ old = Pending(r)
    OBVIOUS
  <2>2. \A x : x \in new <=> x \in old /\ x # y
    BY <1>7, <1>70, <2>1 DEF Pending
  <2> QED BY <2>1, <2>2
<1>8. /\ \A r \in ReservationId : r # cmd.res => reservation'[r] = reservation[r]
      /\ reservation'[cmd.res].amount = row.amount /\ reservation'[cmd.res].asset = row.asset
      /\ reservation'[cmd.res].remaining = row.remaining - TakenBy(cmd)
      /\ reservation'[cmd.res].status # "NONE"
      /\ row.remaining # TakenBy(cmd) => reservation'[cmd.res].status = "ACTIVE"
  BY <1>3, <1>4, <1>5, <1>6, TakingConsumes
<1>9. FundsDue'
  <2> SUFFICES ASSUME NEW r \in ReservationId PROVE (r \notin twice' => Due(r)') /\ RowSound(r)'
    BY DEF FundsDue
  <2>1. (r \notin twice' => Due(r)) /\ RowSound(r)
    BY <1>0, <1>70 DEF FundsDue
  <2>2. CASE r # cmd.res
    <3>1. y \notin Pending(r)
      BY <1>3, <2>2 DEF Pending
    <3>2. Pending(r)' = Pending(r)
      BY <1>71, <3>1
    <3>3. reservation'[r] = reservation[r]
      BY <1>8, <2>2
    <3> QED BY <1>1, <1>7, <2>1, <3>2, <3>3 DEF Due, RowSound
  <2>3. CASE r = cmd.res
    <3>0. RowSound(r)'
      <4>1. PICK b \in Nat, d \in Nat : b = row.remaining /\ d = TakenBy(cmd)
        BY <1>3, <1>6
      <4>2. /\ reservation'[r].remaining = b - d /\ reservation'[r].status # "NONE"
            /\ b # d => reservation'[r].status = "ACTIVE"
        BY <1>8, <2>3, <4>1
      <4>3. b - d > 0 => b # d
        OBVIOUS
      <4> QED BY <4>2, <4>3 DEF RowSound
    <3> SUFFICES ASSUME r \notin twice' PROVE Due(r)'
      BY <3>0
    <3>01. Due(r) /\ y \in Pending(r)
      BY <1>3, <1>70, <2>1, <2>3
    <3>1. PICK S, f, T : S = Pending(r) /\ f = Amounts /\ T = S \ {y}
      OBVIOUS
    <3>2. \A x \in S : f[x] \in Nat
      <4>1. \A x \in Pending(r) : x \in Takings /\ x \in EventPlace /\ Amounts[x] = TakenBy(CmdIn(x))
        BY DEF Pending, Takings, Amounts
      <4> QED BY <3>1, <4>1, TakingFields
    <3>3. IsFiniteSet(S) /\ y \in S /\ f[y] = TakenBy(cmd)
      BY <1>3, <3>01, <3>1 DEF Due, Amounts
    <3>4. IsFiniteSet(T) /\ SumOver(f, S) = f[y] + SumOver(f, T)
      <4>1. \A x \in S : f[x] \in Int
        BY <3>2
      <4>2. IsFiniteSet(S \ {y}) /\ SumOver(f, S) = f[y] + SumOver(f, S \ {y})
        BY <3>3, <4>1, SumWithout
      <4> QED BY <3>1, <4>2
    <3>5. SumOver(f, T) \in Nat
      <4>1. \A x \in T : f[x] \in Nat
        BY <3>1, <3>2
      <4> QED BY <3>4, <4>1, SumNat
    <3>6. PICK a \in Nat, b \in Nat, c \in Nat, d \in Nat, e \in Nat :
            /\ a = row.amount /\ b = row.remaining /\ c = taken[r]
            /\ d = TakenBy(cmd) /\ e = SumOver(f, T)
      BY <1>3, <1>4, <1>6, <3>5 DEF WalletInv, StoreOK, RowsOK, ReservationRow, LogsOK
    <3>7. a + (d + e) = b + c /\ c <= a
      BY <1>4, <2>3, <3>01, <3>1, <3>3, <3>4, <3>6 DEF Due
    <3>8. a + e = (b - d) + c /\ d <= b
      BY <1>6, <3>6, <3>7
    <3>9. Pending(r)' = T /\ Amounts' = f /\ taken'[r] = c
      BY <1>1, <1>7, <1>71, <3>1, <3>6
    <3>10. /\ reservation'[r].amount = a /\ reservation'[r].remaining = b - d
           /\ reservation'[r].status # "NONE" /\ (b # d => reservation'[r].status = "ACTIVE")
      BY <1>8, <2>3, <3>6
    <3>11. Due(r)'
      BY <3>4, <3>6, <3>7, <3>8, <3>9, <3>10 DEF Due
    <3> QED BY <3>11
  <2> QED BY <2>2, <2>3
<1>10. RowsKept /\ \A r \in ReservationId : reservation'[r].asset = reservation[r].asset
  BY <1>4, <1>8 DEF RowsKept
<1>11. SettlementsFit'
  <2>1. \A x \in Takings : CmdIn(x).res \in ReservationId
    BY TakingFields
  <2> QED BY <1>0, <1>7, <1>10, <2>1 DEF SettlementsFit
<1>12. ASSUME cmd.type = "SettleTrade", NEW mark \in Marks(cmd) PROVE Settled(cmd.fill, mark)'
  <2>1. Settles(y, cmd.fill)' /\ y \in done'
    BY <1>3, <1>7, <1>70, <1>12 DEF Settles
  <2>2. mark \in Marks(CmdIn(y))'
    BY <1>3, <1>7, <1>12 DEF Marks
  <2> QED BY <2>1, <2>2 DEF Settled
<1>13. TablesKnown'
  <2>1. RowsStay
    <3>1. cmd.type \notin ClientCommandType
      BY <1>5 DEF Takes, ClientCommandType
    <3> QED BY <1>3, <1>5, <3>1, CommitKeepsRows DEF RepliesInv, CoverInv
  <2>2. ASSUME NEW new, outbox' = Enqueue(outbox, new)
        PROVE  \A i \in DOMAIN outbox' : i \in DOMAIN outbox \/ outbox'[i] = new
    BY <2>2, EnqueueStays DEF RepliesInv, EffectsMatch
  <2>3. CASE cmd.type = "ReleaseReservation"
    <3>1. PICK new : new = FundsReleased(cmd, row)
      OBVIOUS
    <3>2. outbox' = Enqueue(outbox, new) /\ walletLedger' = walletLedger
      BY <1>5, <2>3, <3>1 DEF Commit, ReleaseReservation
    <3>3. PICK asset : asset = row.asset
      OBVIOUS
    <3>4. /\ new = ReleasedRow(cmd.res, cmd.reason, cmd.amount, asset)
          /\ new.dedupe = <<"funds-released", cmd.res, cmd.reason, cmd.amount>>
      BY <3>1, <3>3 DEF FundsReleased, ReleasedRow, WalletEventRow
    <3>5. reservation'[cmd.res].asset = asset /\ reservation'[cmd.res].status # "NONE"
      BY <1>8, <3>3
    <3>6. Known(new)'
      <4>1. ASSUME NEW r, NEW reason, NEW amount, new.dedupe = <<"funds-released", r, reason, amount>>
            PROVE  /\ r \in ReservationId /\ reservation'[r].status # "NONE"
                   /\ new = ReleasedRow(r, reason, amount, reservation'[r].asset)
        <5>1. r = cmd.res /\ reason = cmd.reason /\ amount = cmd.amount
          BY <3>4, <4>1
        <5> QED BY <1>3, <3>4, <3>5, <5>1
      <4>2. \A fill, r : new.dedupe # <<"trade-settled", fill, r>>
        BY <3>4
      <4> QED BY <4>1, <4>2 DEF Known
    <3>7. \A i \in DOMAIN outbox' : i \in DOMAIN outbox \/ outbox'[i] = new
      BY <2>2, <3>2
    <3> QED BY <1>0, <1>7, <1>10, <2>1, <3>2, <3>6, <3>7, TablesGrow
  <2>4. CASE cmd.type = "SettleTrade"
    <3>1. PICK new : new = TradeSettled(cmd)
      OBVIOUS
    <3>2. PICK debit, credit :
            /\ debit = LedgerRow(cmd.res[1], cmd.debitAsset, "TRADE_DEBIT", cmd.fill, -cmd.debitAmount)
            /\ credit = LedgerRow(cmd.res[1], cmd.creditAsset, "TRADE_CREDIT", cmd.fill, cmd.creditAmount)
      OBVIOUS
    <3>3. outbox' = Enqueue(outbox, new) /\ walletLedger' = walletLedger \cup {debit, credit}
      BY <1>5, <2>4, <3>1, <3>2 DEF Commit, SettleTrade
    <3>4. ASSUME NEW x \in {debit, credit} PROVE Settled(x.ref, <<x.kind, x.user, x.asset>>)'
      <4>1. x.ref = cmd.fill /\ <<x.kind, x.user, x.asset>> \in Marks(cmd)
        BY <3>2, <3>4 DEF LedgerRow, Marks
      <4> QED BY <1>12, <2>4, <4>1
    <3>5. \A x \in walletLedger' :
            x \in walletLedger \/ Settled(x.ref, <<x.kind, x.user, x.asset>>)'
      BY <3>3, <3>4
    <3>6. new.dedupe = <<"trade-settled", cmd.fill, cmd.res>>
      BY <3>1 DEF TradeSettled, WalletEventRow
    <3>7. Known(new)'
      <4>1. ASSUME NEW fill, NEW r, new.dedupe = <<"trade-settled", fill, r>>
            PROVE  Settled(fill, <<"trade-settled", r>>)'
        <5>1. fill = cmd.fill /\ <<"trade-settled", r>> \in Marks(cmd)
          BY <3>6, <4>1 DEF Marks
        <5> QED BY <1>12, <2>4, <5>1
      <4>2. \A r, reason, amount : new.dedupe # <<"funds-released", r, reason, amount>>
        BY <3>6
      <4> QED BY <4>1, <4>2 DEF Known
    <3>8. \A i \in DOMAIN outbox' : i \in DOMAIN outbox \/ outbox'[i] = new
      BY <2>2, <3>3
    <3> QED BY <1>0, <1>7, <1>10, <2>1, <3>5, <3>7, <3>8, TablesGrow
  <2> QED BY <1>5, <2>3, <2>4 DEF Takes
<1>14. DoneTaken'
  BY <1>0, <1>3, <1>7, <1>70 DEF DoneTaken
<1> QED BY <1>9, <1>11, <1>13, <1>14

\* What the environment writes fits: it takes funds on engine.events only.
WriteFits(p, record) ==
  RecordFits(record) /\ \A k \in DOMAIN record : Takes(record[k]) => p \in EventPartition

\* A record at the end of a partition: its places are new.
LEMMA WriteAdds ==
  ASSUME WalletInv, NEW p \in Partition, NEW record \in Seq(Command),
         Write(p, record), NEW n \in Nat, n = Len(log[p]) + 1
  PROVE  /\ \A x \in Takings : x \in Takings' /\ CmdIn(x)' = CmdIn(x)
         /\ \A x \in Takings' : x \in Takings \/ \E k \in DOMAIN record : x = <<p, n, k>>
         /\ \A k \in DOMAIN record :
              /\ <<p, n, k>> \notin Takings /\ CmdIn(<<p, n, k>>)' = record[k]
              /\ p \in EventPartition => <<p, n, k>> \in EventPlace
              /\ <<p, n, k>> \in Takings' <=> (p \in EventPartition /\ Takes(record[k]))
<1>1. \A q \in Partition : log[q] \in Seq(Seq(Command))
  BY DEF WalletInv, LogsOK
<1>2. log'[p] = Append(log[p], record) /\ \A q \in Partition : q # p => log'[q] = log[q]
  BY DEF Write, WalletInv, LogsOK
<1>3. /\ DOMAIN log[p] = 1 .. (n - 1) /\ DOMAIN log'[p] = 1 .. n /\ log'[p][n] = record
      /\ \A i \in DOMAIN log[p] : log'[p][i] = log[p][i]
  BY <1>1, <1>2
<1>4. \A k \in DOMAIN record : k \in Nat \ {0}
  OBVIOUS
<1>6. ASSUME NEW x \in Takings PROVE x \in Takings' /\ CmdIn(x)' = CmdIn(x)
  <2>1. x[1] \in Partition /\ IsAt(x) /\ x \in EventPlace /\ Takes(CmdIn(x))
    BY TakingFields DEF Takings
  <2>2. x[2] \in DOMAIN log'[x[1]] /\ log'[x[1]][x[2]] = log[x[1]][x[2]]
    BY <1>2, <1>3, <2>1 DEF IsAt
  <2>3. IsAt(x)' /\ CmdIn(x)' = CmdIn(x)
    BY <2>1, <2>2 DEF IsAt, CmdIn
  <2> QED BY <2>1, <2>3 DEF Takings
<1>7. ASSUME NEW x \in Takings', x \notin Takings PROVE \E k \in DOMAIN record : x = <<p, n, k>>
  <2>1. /\ x \in EventPlace /\ x[2] \in DOMAIN log'[x[1]] /\ x[3] \in DOMAIN log'[x[1]][x[2]]
        /\ Takes(log'[x[1]][x[2]][x[3]])
    BY <1>7 DEF Takings, IsAt, CmdIn, Takes
  <2>2. x[1] \in Partition /\ x = <<x[1], x[2], x[3]>>
    BY <2>1 DEF EventPlace, Partition
  <2>3. x[1] = p /\ x[2] \notin DOMAIN log[p]
    BY <1>2, <1>3, <1>7, <2>1, <2>2 DEF Takings, IsAt, CmdIn
  <2>4. x[2] = n
    BY <1>3, <2>1, <2>3
  <2> QED BY <1>3, <2>1, <2>2, <2>3, <2>4
<1>8. ASSUME NEW k \in DOMAIN record
      PROVE  /\ <<p, n, k>> \notin Takings /\ CmdIn(<<p, n, k>>)' = record[k]
             /\ p \in EventPartition => <<p, n, k>> \in EventPlace
             /\ <<p, n, k>> \in Takings' <=> (p \in EventPartition /\ Takes(record[k]))
  <2>1. PICK x : x = <<p, n, k>>
    OBVIOUS
  <2>2. x[1] = p /\ x[2] = n /\ x[3] = k
    BY <2>1
  <2>3. CmdIn(x)' = record[k] /\ IsAt(x)'
    BY <1>3, <2>2 DEF CmdIn, IsAt
  <2>4. x \notin Takings
    BY <1>3, <2>2 DEF Takings, IsAt
  <2>5. x \in EventPlace <=> p \in EventPartition
    BY <1>4, <2>1 DEF EventPlace
  <2>6. x \in Takings' <=> (p \in EventPartition /\ Takes(record[k]))
    BY <2>3, <2>5 DEF Takings
  <2>9. CmdIn(<<p, n, k>>)' = CmdIn(x)'
    BY <2>1 DEF CmdIn
  <2> QED BY <2>1, <2>3, <2>4, <2>5, <2>6, <2>9
<1> QED BY <1>6, <1>7, <1>8

\* A record that fits leaves the funds due, the settlements and the tables
\* right.
LEMMA WriteKeepsFunds ==
  ASSUME WalletInv, FundsDue, DoneTaken, NEW p \in Partition, NEW record \in Seq(Command),
         Write(p, record), UNCHANGED <<reservation, done, twice>>, WriteFits(p, record)
  PROVE  FundsDue'
<1>1. PICK n \in Nat : n = Len(log[p]) + 1
  <2>1. log[p] \in Seq(Seq(Command))
    BY DEF WalletInv, LogsOK
  <2> QED BY <2>1
<1>2. /\ \A x \in Takings : x \in Takings' /\ CmdIn(x)' = CmdIn(x)
      /\ \A x \in Takings' : x \in Takings \/ \E k \in DOMAIN record : x = <<p, n, k>>
      /\ \A k \in DOMAIN record :
           /\ <<p, n, k>> \notin Takings /\ CmdIn(<<p, n, k>>)' = record[k]
           /\ p \in EventPartition => <<p, n, k>> \in EventPlace
           /\ <<p, n, k>> \in Takings' <=> (p \in EventPartition /\ Takes(record[k]))
  BY <1>1, WriteAdds
<1> SUFFICES ASSUME NEW r \in ReservationId PROVE (r \notin twice => Due(r)') /\ RowSound(r)'
  BY DEF FundsDue
<1>30. (r \notin twice => Due(r)) /\ RowSound(r)
  BY DEF FundsDue
<1>4. RowSound(r)'
  BY <1>30 DEF RowSound
<1> SUFFICES ASSUME r \notin twice PROVE Due(r)'
  BY <1>4
<1>3. Due(r)
  BY <1>30
<1>5. PICK S, T, f, g : S = Pending(r) /\ T = Pending(r)' /\ f = Amounts /\ g = Amounts'
  OBVIOUS
<1>6. \A x \in S : x \in T /\ f[x] \in Nat /\ g[x] = f[x]
  <2>1. ASSUME NEW x \in Pending(r)
        PROVE  x \in Pending(r)' /\ Amounts[x] = TakenBy(CmdIn(x)) /\ Amounts'[x] = Amounts[x]
    <3>1. x \in Takings /\ x \in EventPlace /\ CmdIn(x).res = r /\ x \notin done
      BY <2>1 DEF Pending, Takings
    <3>2. x \in Takings' /\ CmdIn(x)' = CmdIn(x)
      BY <1>2, <3>1
    <3> QED BY <3>1, <3>2 DEF Pending, Amounts
  <2>2. \A x \in Pending(r) : TakenBy(CmdIn(x)) \in Nat
    BY TakingFields DEF Pending
  <2> QED BY <1>5, <2>1, <2>2
<1>7. ASSUME NEW x \in T, x \notin S
      PROVE  \E k \in DOMAIN record : x = <<p, n, k>> /\ Takes(record[k]) /\ record[k].res = r
  <2>1. x \in Takings' /\ CmdIn(x)'.res = r /\ x \notin done
    BY <1>5, <1>7 DEF Pending
  <2>2. x \notin Takings
    <3> SUFFICES ASSUME x \in Takings PROVE FALSE
      OBVIOUS
    <3>1. CmdIn(x)' = CmdIn(x)
      BY <1>2, <2>1
    <3> QED BY <1>5, <1>7, <2>1, <3>1 DEF Pending
  <2>3. PICK k \in DOMAIN record : x = <<p, n, k>>
    BY <1>2, <2>1, <2>2
  <2>4. CmdIn(x)' = record[k] /\ Takes(record[k])
    <3>1. CmdIn(<<p, n, k>>)' = CmdIn(x)'
      BY <2>3 DEF CmdIn
    <3> QED BY <1>2, <2>1, <2>3, <3>1
  <2> QED BY <2>1, <2>3, <2>4
<1>8. IsFiniteSet(S) /\ \A x \in S : f[x] \in Int /\ g[x] = f[x]
  BY <1>3, <1>5, <1>6 DEF Due
<1>9. SumOver(g, S) = SumOver(f, S) /\ SumOver(f, S) \in Nat
  BY <1>6, <1>8, SumOverSame, SumNat
<1>10. PICK a \in Nat, b \in Nat, c \in Nat, u \in Nat :
         a = reservation[r].amount /\ b = reservation[r].remaining /\ c = taken[r] /\ u = SumOver(f, S)
  BY <1>9 DEF WalletInv, StoreOK, RowsOK, ReservationRow, LogsOK
<1>11. a + u = b + c /\ c <= a
  BY <1>3, <1>5, <1>10 DEF Due
<1>12. CASE TakesNot(record, r)
  <2>1. T = S
    BY <1>6, <1>7, <1>12 DEF TakesNot
  <2>2. taken'[r] = c
    BY <1>10, <1>12 DEF TakesNot
  <2>3. Due(r)'
    BY <1>5, <1>8, <1>9, <1>10, <1>11, <2>1, <2>2 DEF Due
  <2> QED BY <2>3
<1>13. CASE TakesOnce(record, r)
  <2>1. PICK k \in DOMAIN record :
          /\ Takes(record[k]) /\ record[k].res = r
          /\ \A j \in DOMAIN record : Takes(record[j]) /\ record[j].res = r => j = k
          /\ taken'[r] = taken[r] + TakenBy(record[k])
          /\ taken'[r] <= reservation[r].amount
    BY <1>13 DEF TakesOnce
  <2>2. PICK z : z = <<p, n, k>>
    OBVIOUS
  <2>3. z \in EventPlace /\ z \notin Takings /\ z \in Takings' /\ z \notin done
    BY <1>2, <2>1, <2>2 DEF WriteFits, RecordFits, DoneTaken
  <2>4. CmdIn(z)' = record[k]
    <3>1. CmdIn(<<p, n, k>>)' = CmdIn(z)'
      BY <2>2 DEF CmdIn
    <3> QED BY <1>2, <3>1
  <2>5. z \in T /\ g[z] = TakenBy(record[k]) /\ z \notin S
    BY <1>5, <2>1, <2>3, <2>4 DEF Pending, Amounts
  <2>6. T = S \cup {z}
    BY <1>6, <1>7, <2>1, <2>2, <2>5
  <2>7. PICK d \in Nat : d = TakenBy(record[k])
    <3>1. record[k] \in Command
      OBVIOUS
    <3> QED BY <2>1, <3>1, CommandFields DEF Takes, TakenBy
  <2>8. IsFiniteSet(T) /\ SumOver(g, T) = d + u
    <3>1. \A x \in S \cup {z} : g[x] \in Int
      BY <1>8, <2>5, <2>7
    <3>2. IsFiniteSet(S \cup {z}) /\ SumOver(g, S \cup {z}) = g[z] + SumOver(g, S)
      BY <1>8, <2>5, <3>1, SumOverAdd
    <3> QED BY <1>9, <1>10, <2>5, <2>6, <2>7, <3>2
  <2>9. taken'[r] = c + d /\ c + d <= a /\ a + (d + u) = b + (c + d)
    <3>1. taken'[r] = c + d /\ c + d <= a
      BY <1>10, <2>1, <2>7
    <3>2. a + (d + u) = b + (c + d)
      BY <1>11
    <3> QED BY <3>1, <3>2
  <2>10. Due(r)'
    BY <1>5, <1>10, <2>8, <2>9 DEF Due
  <2> QED BY <2>10
<1> QED BY <1>12, <1>13 DEF WriteFits, RecordFits

LEMMA WriteKeepsSettlements ==
  ASSUME WalletInv, SettlementsFit, NEW p \in Partition, NEW record \in Seq(Command),
         Write(p, record), UNCHANGED <<reservation, done>>, WriteFits(p, record)
  PROVE  SettlementsFit' /\ \A fill, mark : Settled(fill, mark) => Settled(fill, mark)'
<1>1. PICK n \in Nat : n = Len(log[p]) + 1
  <2>1. log[p] \in Seq(Seq(Command))
    BY DEF WalletInv, LogsOK
  <2> QED BY <2>1
<1>2. /\ \A x \in Takings : x \in Takings' /\ CmdIn(x)' = CmdIn(x)
      /\ \A x \in Takings' : x \in Takings \/ \E k \in DOMAIN record : x = <<p, n, k>>
      /\ \A k \in DOMAIN record : <<p, n, k>> \notin Takings /\ CmdIn(<<p, n, k>>)' = record[k]
  BY <1>1, WriteAdds
<1>3. ASSUME NEW fill, NEW mark, Settled(fill, mark) PROVE Settled(fill, mark)'
  <2>1. PICK x \in done : Settles(x, fill) /\ mark \in Marks(CmdIn(x))
    BY <1>3 DEF Settled
  <2>2. x \in Takings' /\ CmdIn(x)' = CmdIn(x)
    BY <1>2, <2>1 DEF Settles
  <2>3. Settles(x, fill)' /\ mark \in Marks(CmdIn(x))'
    BY <2>1, <2>2 DEF Settles, Marks
  <2> QED BY <2>1, <2>3 DEF Settled
<1>4. ASSUME NEW x \in Takings', x \notin Takings
      PROVE  \E k \in DOMAIN record : x = <<p, n, k>> /\ CmdIn(x)' = record[k]
  <2>1. PICK k \in DOMAIN record : x = <<p, n, k>>
    BY <1>2, <1>4
  <2>2. CmdIn(<<p, n, k>>)' = CmdIn(x)'
    BY <2>1 DEF CmdIn
  <2> QED BY <1>2, <2>1, <2>2
<1>5. \A x \in Takings : CmdIn(x).type = "SettleTrade" => UsedFill(CmdIn(x).fill)
  BY DEF Takings, IsAt, CmdIn, EventPlace, UsedFill
<1>6. ASSUME NEW x \in Takings', CmdIn(x)'.type = "SettleTrade"
      PROVE  CmdIn(x)'.debitAsset = reservation[CmdIn(x)'.res].asset
  <2>1. CASE x \in Takings
    BY <1>2, <1>6, <2>1 DEF SettlementsFit
  <2>2. CASE x \notin Takings
    BY <1>4, <1>6, <2>2 DEF WriteFits, RecordFits
  <2> QED BY <2>1, <2>2
<1>7. ASSUME NEW fill, NEW x \in EventPlace, NEW y \in EventPlace, Settles(x, fill)', Settles(y, fill)'
      PROVE  x[1] = y[1] /\ x[2] = y[2] /\ (CmdIn(x)'.res = CmdIn(y)'.res => x = y)
  <2>0. /\ x \in Takings' /\ CmdIn(x)'.type = "SettleTrade" /\ CmdIn(x)'.fill = fill
        /\ y \in Takings' /\ CmdIn(y)'.type = "SettleTrade" /\ CmdIn(y)'.fill = fill
    BY <1>7 DEF Settles
  <2>1. ASSUME NEW z \in Takings, CmdIn(z)'.type = "SettleTrade", CmdIn(z)'.fill = fill PROVE UsedFill(fill)
    BY <1>2, <1>5, <2>1
  <2>2. ASSUME NEW z \in Takings', z \notin Takings, CmdIn(z)'.type = "SettleTrade", CmdIn(z)'.fill = fill
        PROVE  ~UsedFill(fill)
    BY <1>4, <2>2 DEF WriteFits, RecordFits
  <2>3. CASE x \in Takings /\ y \in Takings
    <3>1. Settles(x, fill) /\ Settles(y, fill)
      BY <1>2, <2>0, <2>3 DEF Settles
    <3>2. CmdIn(x)' = CmdIn(x) /\ CmdIn(y)' = CmdIn(y)
      BY <1>2, <2>3
    <3> QED BY <3>1, <3>2 DEF SettlementsFit
  <2>4. CASE x \notin Takings /\ y \notin Takings
    <3>1. PICK j \in DOMAIN record : x = <<p, n, j>> /\ CmdIn(x)' = record[j]
      BY <1>4, <2>0, <2>4
    <3>2. PICK k \in DOMAIN record : y = <<p, n, k>> /\ CmdIn(y)' = record[k]
      BY <1>4, <2>0, <2>4
    <3>3. ASSUME record[j].res = record[k].res PROVE j = k
      <4>1. Takes(record[j]) /\ Takes(record[k]) /\ record[j] \in Command
        BY <2>0, <3>1, <3>2 DEF Takes
      <4>2. PICK r \in ReservationId : r = record[j].res
        BY <4>1, CommandFields DEF Takes, ReservationId
      <4>3. TakesOnce(record, r)
        BY <4>1, <4>2 DEF WriteFits, RecordFits, TakesNot
      <4> QED BY <3>3, <4>1, <4>2, <4>3 DEF TakesOnce
    <3> QED BY <3>1, <3>2, <3>3
  <2> QED BY <2>0, <2>1, <2>2, <2>3, <2>4
<1>8. SettlementsFit'
  BY <1>6, <1>7 DEF SettlementsFit
<1> QED BY <1>3, <1>8

LEMMA EnvironmentFits ==
  ASSUME WalletInv, Environment
  PROVE  \E p \in Partition : \E record \in Seq(Command) : Write(p, record) /\ WriteFits(p, record)
<1>1. ASSUME NEW cmd \in ClientCommands, Submit(cmd)
      PROVE  \E p \in Partition : \E record \in Seq(Command) : Write(p, record) /\ WriteFits(p, record)
  <2>1. cmd \in ClientCommand /\ cmd \in Command /\ ~Takes(cmd) /\ cmd.user \in User
    BY CommandAssumption DEF Command, ClientCommand, Takes
  <2>2. PICK p \in Partition : p = UserPartition[cmd.user]
    BY <2>1, PartitionAssumption DEF Partition
  <2>3. PICK record \in Seq(Command) : record = <<cmd>>
    BY <2>1, OneCommand
  <2>4. \A k \in DOMAIN record : ~Takes(record[k])
    BY <2>1, <2>3
  <2>5. Write(p, record) /\ taken' = taken
    BY <1>1, <2>2, <2>3 DEF Submit
  <2>6. WriteFits(p, record)
    BY <2>4, <2>5, NothingTakenFits DEF WriteFits, RecordFits
  <2> QED BY <2>5, <2>6
<1>2. ASSUME NEW m \in Market,
             EngineRelease(m) \/ EngineTrade(m) \/ EngineDelta(m) \/ EngineOther(m)
      PROVE  \E p \in Partition : \E record \in Seq(Command) : Write(p, record) /\ WriteFits(p, record)
  <2>1. PICK record \in Seq(Command) : Emit(m, record) /\ RecordFits(record)
    BY <1>2, EngineWrites
  <2>2. PICK p \in Partition : p = MarketPartition[m] /\ p \in EventPartition
    BY PartitionAssumption DEF Partition
  <2> QED BY <2>1, <2>2 DEF Emit, WriteFits
<1> QED BY <1>1, <1>2 DEF Environment

LEMMA EnvironmentKeepsFunds ==
  ASSUME WalletInv, FundsDue, SettlementsFit, TablesKnown, DoneTaken, HistoryNext, Environment
  PROVE  FundsDue' /\ SettlementsFit' /\ TablesKnown' /\ DoneTaken'
<1>1. UNCHANGED <<reservation, walletLedger, outbox, pos>>
  BY EnvironmentWrites DEF tables, task
<1>2. PICK p \in Partition, record \in Seq(Command) : Write(p, record) /\ WriteFits(p, record)
  BY EnvironmentFits
<1>3. Committing = {}
  BY <1>1 DEF Committing
<1>4. done' = done /\ twice' = twice
  BY <1>3, NothingCommitted
<1>5. FundsDue'
  BY <1>1, <1>2, <1>4, WriteKeepsFunds
<1>6. SettlementsFit' /\ \A fill, mark : Settled(fill, mark) => Settled(fill, mark)'
  BY <1>1, <1>2, <1>4, WriteKeepsSettlements
<1>7. RowsKept /\ RowsStay
  BY <1>1 DEF RowsKept, RowsStay
<1>8. TablesKnown'
  BY <1>1, <1>6, <1>7, TablesGrow
<1>9. DoneTaken'
  <2>1. PICK n \in Nat : n = Len(log[p]) + 1
    <3>1. log[p] \in Seq(Seq(Command))
      BY DEF WalletInv, LogsOK
    <3> QED BY <3>1
  <2>2. \A x \in Takings : x \in Takings'
    BY <1>2, <2>1, WriteAdds
  <2> QED BY <1>4, <2>2 DEF DoneTaken
<1> QED BY <1>5, <1>6, <1>8, <1>9

LEMMA EngineNext ==
  OneWallet /\ AnswersInv /\ CoverInv /\ EngineInv /\ [HistoryNext]_history => EngineInv'
<1> SUFFICES ASSUME OneWallet, AnswersInv, CoverInv, EngineInv, [HistoryNext]_history PROVE EngineInv'
  OBVIOUS
<1>0. [Next]_vars
  BY DEF HistoryNext, history
<1>1. WalletInv /\ RepliesInv /\ RepliesInv'
  BY <1>0, AnswersNext DEF AnswersInv
<1>2. FundsDue /\ SettlementsFit /\ TablesKnown /\ DoneTaken /\ TxSeen
  BY DEF EngineInv
<1>3. TxSeen'
  BY <1>0, <1>1, <1>2, TxSeenNext
<1> DEFINE Goal == FundsDue' /\ SettlementsFit' /\ TablesKnown' /\ DoneTaken'
<1>40. ASSUME UNCHANGED <<vars, done, twice>> PROVE Goal
  <2>1. TakingsStay /\ UNCHANGED <<reservation, walletLedger, outbox, taken>>
    BY <1>40 DEF vars, tables, TakingsStay
  <2> QED BY <1>2, <2>1, QuietKeeps
<1>4. ASSUME HistoryNext, UNCHANGED vars PROVE Goal
  <2>1. Committing = {}
    BY <1>4 DEF vars, task, Committing
  <2>2. done' = done /\ twice' = twice
    BY <1>4, <2>1, NothingCommitted
  <2> QED BY <1>4, <1>40, <2>2
<1>5. ASSUME HistoryNext, NEW t \in Task, TaskStep(t) PROVE Goal
  <2>1. CASE CommitTransaction(t)
    BY <1>1, <1>2, <1>5, <2>1, TakingCommitKeeps, OtherCommitKeeps
  <2>2. CASE ~CommitTransaction(t)
    <3>1. TakingsStay /\ UNCHANGED <<reservation, walletLedger, outbox, taken>>
      BY <1>1, <1>5, <2>2, MovesTakeNothing DEF TaskStep
    <3> QED BY <1>2, <3>1, QuietKeeps
  <2> QED BY <2>1, <2>2
<1>6. ASSUME HistoryNext, NEW i \in Instance, Crash(i) \/ Restart(i) PROVE Goal
  BY <1>1, <1>2, <1>6, ProcessTakesNothing, QuietKeeps
<1>7. ASSUME HistoryNext, Environment PROVE Goal
  BY <1>1, <1>2, <1>7, EnvironmentKeepsFunds
<1>8. \A t \in Task : Poll(t) => UNCHANGED vars
  BY DEF Poll
<1> HIDE DEF Goal
<1>9. ASSUME HistoryNext PROVE Goal
  BY <1>4, <1>5, <1>6, <1>7, <1>8, <1>9 DEF HistoryNext, Next
<1>10. ASSUME UNCHANGED history PROVE Goal
  BY <1>10, <1>40 DEF history
<1> QED BY <1>3, <1>9, <1>10 DEF EngineInv, Goal

LEMMA EngineInit == HistoryInit => EngineInv
<1> SUFFICES ASSUME HistoryInit, Init PROVE EngineInv
  BY DEF HistoryInit
<1>1. \A p \in Partition : log[p] = <<>> /\ DOMAIN log[p] = {} /\ Len(log[p]) = 0
  BY DEF Init
<1>2. Takings = {}
  BY <1>1 DEF Takings, IsAt, EventPlace, Partition
<1>3. FundsDue
  <2> SUFFICES ASSUME NEW r \in ReservationId PROVE Due(r) /\ RowSound(r)
    BY DEF FundsDue
  <2>1. Pending(r) = {}
    BY <1>2 DEF Pending
  <2>2. /\ reservation[r].amount = 0 /\ reservation[r].remaining = 0 /\ reservation[r].status = "NONE"
        /\ taken[r] = 0
    BY DEF Init, EmptyTables, NoReservation
  <2>3. IsFiniteSet(Pending(r)) /\ SumOver(Amounts, Pending(r)) = 0
    <3>1. PICK f : f = Amounts
      OBVIOUS
    <3> QED BY <2>1, <3>1, SumOverEmpty, FS_EmptySet
  <2> QED BY <2>2, <2>3 DEF Due, RowSound
<1>4. SettlementsFit
  BY <1>2 DEF SettlementsFit, Settles
<1>5. TablesKnown
  BY DEF Init, EmptyTables, TablesKnown
<1>6. TxSeen
  BY DEF Init, TxSeen
<1> QED BY <1>3, <1>4, <1>5, <1>6 DEF EngineInv, DoneTaken, HistoryInit

LEMMA EngineExplains ==
  ASSUME AnswersInv, CoverInv, EngineInv
  PROVE  RefusalsExplained
<1>1. WalletInv /\ RepliesInv
  BY DEF AnswersInv
<1>2. ASSUME NEW t \in Task, Refused(t), Takes(Cmd(t))
      PROVE  \/ Place(t) \in done \/ Cmd(t).res \in twice \/ SelfTrade(t)
             \/ Cmd(t).type = "SettleTrade" /\ CreditOverflows(Cmd(t))
  <2>1. InTransaction(t) /\ Result(t) # "ok"
    BY <1>2 DEF Refused
  <2> QED BY <1>1, <1>2, <2>1, TakingSucceeds
<1> QED BY <1>2 DEF RefusalsExplained

(***************************************************************************)
(* With one wallet process and an engine that releases and settles no more  *)
(* than was reserved, every release and settlement that the wallet refuses, *)
(* and stops at, was applied before, or is of a reservation of which one    *)
(* was applied twice, or is one side of a self-trade, or credits more than  *)
(* a BIGINT holds: in whatever order the client commands, the events of the *)
(* markets, the crashes, the refusals and the restarts come.                *)
(***************************************************************************)
THEOREM WalletRefusalsExplained == OneWallet /\ HistorySpec => []RefusalsExplained
<1>1. AnswersInv /\ CoverInv /\ EngineInv => RefusalsExplained
  BY EngineExplains
<1>2. OneWallet => OneWallet'
  BY DEF OneWallet
<1>3. HistoryInit => AnswersInv /\ CoverInv /\ EngineInv
  BY AnswersInit, CoverInit, EngineInit DEF HistoryInit
<1>4. [HistoryNext]_history => [Next]_vars
  BY DEF HistoryNext, history
<1>5. /\ OneWallet /\ AnswersInv /\ CoverInv /\ EngineInv /\ [HistoryNext]_history
      => AnswersInv' /\ CoverInv' /\ EngineInv'
  BY <1>4, CoverNext, EngineNext
<1> QED BY <1>1, <1>2, <1>3, <1>5, PTL DEF HistorySpec

-----------------------------------------------------------------------------
(***************************************************************************)
(* The event of a release is in the outbox only when the release is done.   *)
(***************************************************************************)
ReleaseDone(r, reason, amount) ==
  \E x \in done : /\ CmdIn(x).type = "ReleaseReservation" /\ CmdIn(x).res = r
                  /\ CmdIn(x).reason = reason /\ CmdIn(x).amount = amount

ReleasesKnown ==
  \A r, reason, amount :
    Enqueued(<<"funds-released", r, reason, amount>>) => ReleaseDone(r, reason, amount)

\* What is done stays done, and the records of engine.events stay as they are.
LEMMA DoneStays ==
  ASSUME WalletInv, DoneTaken, [HistoryNext]_history
  PROVE  /\ done \subseteq done' /\ twice \subseteq twice'
         /\ \A x \in done : CmdIn(x)' = CmdIn(x)
<1>1. done \subseteq done' /\ twice \subseteq twice'
  BY DEF HistoryNext, history
<1>2. CASE log' = log
  BY <1>1, <1>2 DEF CmdIn
<1>3. CASE Environment
  <2>1. PICK p \in Partition, record \in Seq(Command) : Write(p, record)
    BY <1>3, EnvironmentWrites
  <2>2. PICK n \in Nat : n = Len(log[p]) + 1
    <3>1. log[p] \in Seq(Seq(Command))
      BY DEF WalletInv, LogsOK
    <3> QED BY <3>1
  <2>3. \A x \in Takings : CmdIn(x)' = CmdIn(x)
    BY <2>1, <2>2, WriteAdds
  <2> QED BY <1>1, <2>3 DEF DoneTaken
<1>4. log' = log \/ Environment
  BY DEF HistoryNext, history, vars, Next, TaskStep, LookupReply, ReadReservation, CommitTransaction,
         SkipDelta, RejectFunds, RecordRejection, PublishReply, SaveOffset, FailTransaction,
         Crash, Restart, Poll
<1> QED BY <1>2, <1>3, <1>4

LEMMA RepeatsStay ==
  ASSUME WalletInv, DoneTaken, [HistoryNext]_history, NoRepeats'
  PROVE  NoRepeats
<1>1. /\ done \subseteq done' /\ twice \subseteq twice'
      /\ \A x \in done : CmdIn(x)' = CmdIn(x)
  BY DoneStays
<1>2. twice = {}
  BY <1>1 DEF NoRepeats
<1>3. ASSUME NEW x \in done, NEW y \in done, SameRelease(x, y) PROVE x = y
  <2>1. SameRelease(x, y)'
    BY <1>1, <1>3 DEF SameRelease
  <2> QED BY <1>1, <2>1 DEF NoRepeats
<1> QED BY <1>2, <1>3 DEF NoRepeats

LEMMA ReleasesKnownNext ==
  ASSUME AnswersInv, CoverInv, EngineInv, ReleasesKnown, [HistoryNext]_history
  PROVE  ReleasesKnown'
<1>1. WalletInv /\ RepliesInv /\ DoneTaken /\ EffectsMatch /\ OutboxIsSeq
  BY DEF AnswersInv, EngineInv, RepliesInv, EffectsMatch
<1>2. /\ done \subseteq done'
      /\ \A x \in done : CmdIn(x)' = CmdIn(x)
  BY <1>1, DoneStays
<1>3. ASSUME NEW r, NEW reason, NEW amount, ReleaseDone(r, reason, amount)
      PROVE  ReleaseDone(r, reason, amount)'
  <2>1. PICK x \in done : /\ CmdIn(x).type = "ReleaseReservation" /\ CmdIn(x).res = r
                          /\ CmdIn(x).reason = reason /\ CmdIn(x).amount = amount
    BY <1>3 DEF ReleaseDone
  <2> QED BY <1>2, <2>1 DEF ReleaseDone
<1>4. ASSUME outbox' = outbox PROVE ReleasesKnown'
  BY <1>3, <1>4 DEF ReleasesKnown, Enqueued
<1>5. ASSUME HistoryNext, NEW t \in Task, CommitTransaction(t) PROVE ReleasesKnown'
  <2>1. /\ AtCommand(t) /\ InTransaction(t) /\ (Takes(Cmd(t)) => NextCommand(t))
        /\ phase[t] = "tx" \/ Cmd(t).type = "ApplyAccountDelta"
        /\ Commit(Cmd(t), Req(t), seen[t])
    BY <1>5 DEF CommitTransaction, InTransaction, Takes, ClientCommandType
  <2>2. PICK cmd \in Command, row \in {seen[t]}, req \in {Req(t)} : cmd = Cmd(t) /\ row = seen[t] /\ req = Req(t)
    BY <1>1, <2>1, CmdType DEF WalletInv, InTransaction
  <2>3. cmd.type \in ClientCommandType => idempotency[ReplyKeyOf(cmd)] = NoReply
    <3>1. TaskFollows(t)
      BY <1>1 DEF RepliesInv, TasksFollow
    <3> QED BY <2>1, <2>2, <3>1 DEF TaskFollows, KeyOf, ClientCommandType
  <2>4. RowsStay
    BY <1>1, <2>1, <2>2, <2>3, CommitKeepsRows DEF CoverInv
  <2> SUFFICES ASSUME NEW r, NEW reason, NEW amount, NEW i \in DOMAIN outbox',
                      outbox'[i].dedupe = <<"funds-released", r, reason, amount>>
               PROVE  ReleaseDone(r, reason, amount)'
    BY DEF ReleasesKnown, Enqueued
  <2>5. CASE i \in DOMAIN outbox
    BY <1>3, <2>4, <2>5 DEF RowsStay, ReleasesKnown, Enqueued
  <2>6. CASE i \notin DOMAIN outbox /\ ~Takes(cmd)
    <3>1. NoClaim(outbox'[i])
      BY <1>1, <2>1, <2>2, <2>3, <2>6, OtherRowsCome
    <3> QED BY <3>1 DEF NoClaim
  <2>7. CASE i \notin DOMAIN outbox /\ cmd.type = "SettleTrade"
    <3>1. outbox' = Enqueue(outbox, TradeSettled(cmd))
      BY <2>1, <2>2, <2>7 DEF Commit, SettleTrade
    <3>2. outbox'[i] = TradeSettled(cmd)
      BY <1>1, <2>7, <3>1, EnqueueStays
    <3> QED BY <3>2 DEF TradeSettled, WalletEventRow
  <2>8. CASE i \notin DOMAIN outbox /\ cmd.type = "ReleaseReservation"
    <3>1. outbox' = Enqueue(outbox, FundsReleased(cmd, row))
      BY <2>1, <2>2, <2>8 DEF Commit, ReleaseReservation
    <3>2. outbox'[i] = FundsReleased(cmd, row)
      BY <1>1, <2>8, <3>1, EnqueueStays
    <3>3. r = cmd.res /\ reason = cmd.reason /\ amount = cmd.amount
      BY <3>2 DEF FundsReleased, WalletEventRow
    <3>4. PICK y : y = Place(t)
      OBVIOUS
    <3>5. Takes(cmd) /\ CmdIn(y) = cmd
      BY <1>1, <2>1, <2>2, <2>8, <3>4, AtHand DEF Takes
    <3>6. y \in done' /\ CmdIn(y)' = CmdIn(y)
      BY <1>1, <1>5, <2>1, <2>2, <3>4, <3>5, TakingCommitted DEF CommitTransaction, CmdIn
    <3> QED BY <2>8, <3>3, <3>5, <3>6 DEF ReleaseDone
  <2> QED BY <2>5, <2>6, <2>7, <2>8 DEF Takes
<1>6. outbox' = outbox \/ (HistoryNext /\ \E t \in Task : CommitTransaction(t))
  <2>1. CASE Environment
    BY <1>1, <2>1, EnvironmentWrites DEF tables
  <2>2. CASE ~Environment
    BY <2>2 DEF HistoryNext, history, vars, tables, Next, TaskStep, LookupReply, ReadReservation,
         SkipDelta, RejectFunds, RecordRejection, RecordReply, PublishReply, SaveOffset,
         FailTransaction, Crash, Restart, Poll
  <2> QED BY <2>1, <2>2
<1> QED BY <1>4, <1>5, <1>6

\* A release that is the first of its kind finds no event of its own.
LEMMA FirstReleaseIsNew ==
  ASSUME AnswersInv, EngineInv, ReleasesKnown, [HistoryNext]_history, NoRepeats'
  PROVE  ReleasesAreNew
<1> SUFFICES ASSUME NEW t \in Task, CommitTransaction(t), Cmd(t).type = "ReleaseReservation",
                    Enqueued(FundsReleased(Cmd(t), seen[t]).dedupe)
             PROVE  FALSE
  BY DEF ReleasesAreNew
<1>1. WalletInv /\ RepliesInv /\ DoneTaken
  BY DEF AnswersInv, EngineInv
<1>2. /\ AtCommand(t) /\ InTransaction(t) /\ NextCommand(t) /\ Takes(Cmd(t)) /\ log' = log
  BY DEF CommitTransaction, InTransaction, Takes, ClientCommandType
<1>3. HistoryNext
  <2>1. pos'[t] = pos[t] + 1 /\ pos[t] \in Nat
    BY <1>1, <1>2 DEF NextCommand, WalletInv, TasksOK
  <2>2. pos' # pos
    BY <2>1
  <2> QED BY <2>2 DEF history, vars, task
<1>4. PICK y, cmd : y = Place(t) /\ cmd = Cmd(t)
  OBVIOUS
<1>5. CmdIn(y) = cmd /\ y \in done' /\ (y \in done => cmd.res \in twice')
  BY <1>1, <1>2, <1>3, <1>4, AtHand, TakingCommitted
<1>6. y \notin done
  BY <1>5 DEF NoRepeats
<1>7. Enqueued(<<"funds-released", cmd.res, cmd.reason, cmd.amount>>)
  BY <1>4 DEF FundsReleased, WalletEventRow
<1>8. PICK x \in done : /\ CmdIn(x).type = "ReleaseReservation" /\ CmdIn(x).res = cmd.res
                        /\ CmdIn(x).reason = cmd.reason /\ CmdIn(x).amount = cmd.amount
  BY <1>7 DEF ReleasesKnown, ReleaseDone
<1>9. SameRelease(x, y)' /\ x \in done'
  BY <1>1, <1>2, <1>4, <1>5, <1>8, DoneStays DEF SameRelease, CmdIn
<1> QED BY <1>5, <1>6, <1>8, <1>9 DEF NoRepeats

(***************************************************************************)
(* With one wallet process, as long as no release or settlement is applied  *)
(* twice and no two releases of a reservation are alike, the events of the  *)
(* outbox add up to every account's total and locked funds: the ledger      *)
(* service, which knows nothing else, can rebuild them.  No crash, retry or *)
(* replay of anything else changes a balance without enqueueing the event   *)
(* of it, or enqueues the event twice.                                      *)
(***************************************************************************)
THEOREM WalletEveryChangeIsEnqueued == OneWallet /\ HistorySpec => []EnqueuedUnlessRepeated
<1> DEFINE Inv == /\ AnswersInv /\ CoverInv /\ EngineInv /\ ReleasesKnown
                  /\ NoRepeats => EnqueuedInv
<1>1. OneWallet => OneWallet'
  BY DEF OneWallet
<1>2. HistoryInit => Inv
  <2> SUFFICES ASSUME HistoryInit PROVE Inv
    OBVIOUS
  <2>1. ReleasesKnown
    BY DEF HistoryInit, Init, EmptyTables, ReleasesKnown, Enqueued
  <2> QED BY <2>1, AnswersInit, CoverInit, EngineInit, EnqueuedInit DEF HistoryInit
<1>3. OneWallet /\ Inv /\ [HistoryNext]_history => Inv'
  <2> SUFFICES ASSUME OneWallet, Inv, [HistoryNext]_history PROVE Inv'
    OBVIOUS
  <2>1. [Next]_vars
    BY DEF HistoryNext, history
  <2>2. AnswersInv' /\ CoverInv' /\ EngineInv' /\ ReleasesKnown'
    BY <2>1, CoverNext, EngineNext, ReleasesKnownNext
  <2>3. ASSUME NoRepeats' PROVE EnqueuedInv'
    <3>1. NoRepeats
      BY <2>3, RepeatsStay DEF AnswersInv, EngineInv
    <3>2. ReleasesAreNew
      BY <2>3, FirstReleaseIsNew
    <3> QED BY <2>1, <3>1, <3>2, EnqueuedNext
  <2> QED BY <2>2, <2>3
<1>4. Inv => EnqueuedUnlessRepeated
  BY InvAddsUp DEF EnqueuedUnlessRepeated
<1> QED BY <1>1, <1>2, <1>3, <1>4, PTL DEF HistorySpec
=============================================================================
