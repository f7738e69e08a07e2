-------------------------- MODULE WalletProperties --------------------------
(***************************************************************************)
(* What the wallet service promises about its tables, its replies and its   *)
(* outbox, whatever the clients, the engine and the crashes do.             *)
(***************************************************************************)
EXTENDS WalletService, LedgerEntries, FiniteSetsExt

(***************************************************************************)
(* Every table, offset and task is of its type.                             *)
(***************************************************************************)
TypeOK ==
  /\ total \in [Account -> Nat]
  /\ locked \in [Account -> Nat]
  /\ reservation \in [ReservationId -> ReservationRow]
  /\ idempotency \in [ReplyKey -> Reply \cup {NoReply}]
  /\ log \in [Partition -> Seq(Seq(Command))]
  /\ saved \in [Partition -> Nat \ {0}]
  /\ fault \in [Instance -> [why: Fault, at: Partition]]
  /\ phase \in [Task -> {"ready", "tx", "record", "reply"}]
  /\ next \in [Task -> Nat \ {0}]
  /\ pos \in [Task -> Nat \ {0}]
  /\ seen \in [Task -> ReservationRow]
  /\ answer \in [Task -> Reply \cup {NoReply}]
  /\ taken \in [ReservationId -> Nat]
  /\ crashes \in Nat

(***************************************************************************)
(* No interleaving of deposits, withdrawals, reservations, releases,        *)
(* settlements and deltas makes an account lock more than it holds: the     *)
(* conditional updates of repository.rs never run into the CHECK            *)
(* constraints of user_collaterals.                                         *)
(***************************************************************************)
LockedWithinTotal == \A a \in Account : locked[a] <= total[a]

(***************************************************************************)
(* The units of account a that open reservations still hold, and their      *)
(* number.                                                                  *)
(***************************************************************************)
ReservedUnits(a) ==
  UNION { {r} \X (1 .. reservation[r].remaining) :
            r \in {q \in ReservationId : <<q[1], reservation[q].asset>> = a} }

Reserved(a) == Cardinality(ReservedUnits(a))

(***************************************************************************)
(* What is locked in an account covers all its open reservations.  This is  *)
(* what makes the unchecked UPDATE ... WHERE locked >= $3 of release and    *)
(* settlement sound: the condition never fails.                             *)
(***************************************************************************)
LockedCoversReservations == \A a \in Account : Reserved(a) <= locked[a]

(***************************************************************************)
(* wallet_ledger adds up: an account's total is the sum of its ledger rows, *)
(* so no command is applied twice or without its row, in spite of replays.  *)
(***************************************************************************)
RowAmount(row) == row.amount

LedgerAddsUp ==
  \A a \in Account :
    total[a] = MapThenSumSet(RowAmount,
                             {row \in walletLedger : <<row.user, row.asset>> = a})

(***************************************************************************)
(* All replies to one idempotent command say the same, whether they answer  *)
(* the first request, a client's retry or a record replayed after a crash.  *)
(***************************************************************************)
RepliesAgree ==
  \A x, y \in replies : x.command = y.command => x.reply = y.reply

(***************************************************************************)
(* The stored reply tells the truth about what was committed: funds are     *)
(* reserved, deposited or withdrawn, and the events of it enqueued, exactly *)
(* when the stored reply says so.                                           *)
(***************************************************************************)
RepliesMatchEffects ==
  \A u \in User, k \in Key :
    /\ LET stored == idempotency[<<u, "PlaceOrderIntent", k>>].type = "FundsReserved"
       IN /\ stored <=> reservation[<<u, k>>].status # "NONE"
          /\ stored <=> Enqueued(<<"funds-reserved", <<u, k>> >>)
          /\ stored <=> Enqueued(<<"place-order", u, k>>)
    /\ (idempotency[<<u, "Deposit", k>>] # NoReply) <=> Enqueued(<<"deposit-applied", u, k>>)
    /\ (idempotency[<<u, "Withdraw", k>>].type = "BalanceUpdated") <=>
         Enqueued(<<"withdrawal-applied", u, k>>)

(***************************************************************************)
(* A transaction that fails, and stops the wallet.                          *)
(***************************************************************************)
Refused(t) ==
  InTransaction(t) /\ Result(t) \notin {"ok", "nothing", "InsufficientFunds"}

(***************************************************************************)
(* A client command stops the wallet only when it is a deposit not yet      *)
(* answered that names a reference another deposit of the account has used, *)
(* or that makes the total too large for a BIGINT.  Retries and replays of  *)
(* client commands never run into a unique constraint or an outbox conflict.*)
(***************************************************************************)
ReusedReference(cmd) == InLedger(cmd.user, cmd.asset, "DEPOSIT", cmd.ref)

DepositOverflows(cmd) == TooLarge(total[<<cmd.user, cmd.asset>>] + cmd.amount)

ClientFaultsAreBadDeposits ==
  \A t \in Task :
    Refused(t) /\ Cmd(t).type \in ClientCommandType =>
      /\ Cmd(t).type = "Deposit"
      /\ idempotency[ReplyKeyOf(Cmd(t))] = NoReply
      /\ ReusedReference(Cmd(t)) \/ DepositOverflows(Cmd(t))

(***************************************************************************)
(* The event rows of the outbox, in the ledger's reading of them, add up to *)
(* the balances: every committed change of total or locked has enqueued its *)
(* event in the same transaction.                                           *)
(***************************************************************************)
Entries(i) ==
  IF outbox[i].topic = "wallet.events" THEN EntriesOf(outbox[i].payload) ELSE <<>>

EventEntries(a) ==
  UNION { {i} \X {k \in DOMAIN Entries(i) :
                    <<Entries(i)[k].user, Entries(i)[k].asset>> = a} : i \in DOMAIN outbox }

EntryTotal(x) == Entries(x[1])[x[2]].totalDelta
EntryLocked(x) == Entries(x[1])[x[2]].lockedDelta

EveryChangeIsEnqueued ==
  \A a \in Account :
    /\ total[a] = MapThenSumSet(EntryTotal, EventEntries(a))
    /\ locked[a] = MapThenSumSet(EntryLocked, EventEntries(a))

(***************************************************************************)
(* Every record of engine.events is dealt with in the end: the wallet       *)
(* applies the releases and settlements in it and saves the offset behind   *)
(* it.                                                                      *)
(***************************************************************************)
EngineEventsApplied ==
  \A p \in EventPartition, n \in 1 .. MaxEvents : n <= Len(log[p]) ~> saved[p] > n
=============================================================================
