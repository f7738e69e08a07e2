---------------------------- MODULE WalletService ----------------------------
(***************************************************************************)
(* The wallet process: one consumer task per partition of wallet.commands   *)
(* and of engine.events (run_command_partition, run_engine_event_partition  *)
(* in apps/wallet/src/redpanda.rs) over the transactions of WalletStore.    *)
(*                                                                          *)
(* A partition is an append-only log.  A record is the sequence of wallet   *)
(* commands it stands for: one for a wallet command, any number for an      *)
(* engine event (engine_wallet_commands_from_engine_event), none for an     *)
(* engine event that moves no funds and for a record without a payload or   *)
(* with an undecodable one, which both loops skip by saving the offset.     *)
(*                                                                          *)
(* The tasks of an instance live and die together: the first task that      *)
(* returns an error ends the process (WalletQueue::run).  A restarted       *)
(* process starts every partition at its saved offset.                      *)
(*                                                                          *)
(* The API server that writes wallet.commands and the matching engine that  *)
(* writes engine.events are the environment.                                *)
(***************************************************************************)
EXTENDS WalletStore

CONSTANTS
  Instance,          \* wallet processes
  UserPartition,     \* user -> partition of wallet.commands
  MarketPartition,   \* market -> partition of engine.events
  ClientCommands,    \* the commands clients send in this model
  TotalDeltas, LockedDeltas, Fees, Credits,  \* amounts the engine uses
  DistinctReleases,  \* the engine never repeats a (reservation, reason, amount)
  MaxCommands, MaxEvents, MaxCrashes         \* bounds of the model

CommandPartition == {UserPartition[u] : u \in User}
EventPartition == {MarketPartition[m] : m \in Market}
Partition == CommandPartition \cup EventPartition

ASSUME PartitionAssumption ==
  /\ UserPartition \in [User -> CommandPartition]
  /\ MarketPartition \in [Market -> EventPartition]
  /\ CommandPartition \cap EventPartition = {}

ASSUME CommandAssumption ==
  /\ ClientCommands \subseteq ClientCommand
  /\ TotalDeltas \subseteq Int /\ LockedDeltas \subseteq Int
  /\ Fees \subseteq Nat /\ Credits \subseteq Nat
  /\ "TRADE_FEE" \in DeltaKind
  /\ DeltaKind \subseteq {"TRADE_FEE", "FUNDING_PAYMENT", "ACCOUNT_DELTA"}
  /\ DistinctReleases \in BOOLEAN
  /\ MaxCommands \in Nat /\ MaxEvents \in Nat /\ MaxCrashes \in Nat
  /\ Asset # {} /\ Market # {}

VARIABLES
  log,       \* partition -> its records
  saved,     \* wallet_queue_offsets: partition -> next offset to read
  fault,     \* instance -> why it stopped and at which partition, or NoFault
  phase,     \* <<instance, partition>> -> where the task is
  next,      \*   ... the offset it is at
  pos,       \*   ... the command of that record it is at
  seen,      \*   ... the reservation its transaction has read
  answer,    \*   ... the reply it is about to record or publish
  replies,   \* wallet.replies
  taken,     \* reservation -> what the engine has released or settled of it
  crashes

task == <<phase, next, pos, seen, answer>>
vars == <<tables, log, saved, fault, task, replies, taken, crashes>>

Task == Instance \X Partition

Fault == {"none", "crash", "ReservationNotFound", "InvalidReservationState",
          "UniqueViolation", "IdempotencyConflict", "InvalidAccountDelta",
          "NumericOverflow"}
NoFault == [why |-> "none", at |-> CHOOSE p \in Partition : TRUE]

Init ==
  /\ EmptyTables
  /\ log = [p \in Partition |-> <<>>]
  /\ saved = [p \in Partition |-> 1]
  /\ fault = [i \in Instance |-> NoFault]
  /\ phase = [t \in Task |-> "ready"]
  /\ next = [t \in Task |-> 1]
  /\ pos = [t \in Task |-> 1]
  /\ seen = [t \in Task |-> NoReservation]
  /\ answer = [t \in Task |-> NoReply]
  /\ replies = {}
  /\ taken = [r \in ReservationId |-> 0]
  /\ crashes = 0

-----------------------------------------------------------------------------
(***************************************************************************)
(* Consumer tasks.                                                          *)
(***************************************************************************)
Up(i) == fault[i].why = "none"
Running(t) == Up(t[1])
HasRecord(t) == next[t] <= Len(log[t[2]])
Record(t) == log[t[2]][next[t]]
AtCommand(t) == HasRecord(t) /\ pos[t] <= Len(Record(t))
Cmd(t) == Record(t)[pos[t]]
Req(t) == <<t[2], next[t]>>
Result(t) == Outcome(Cmd(t), Req(t), seen[t])

\* The task goes on to phase ph, having read row and holding reply.
Goto(t, ph, row, reply) ==
  /\ phase' = [phase EXCEPT ![t] = ph]
  /\ seen' = [seen EXCEPT ![t] = row]
  /\ answer' = [answer EXCEPT ![t] = reply]

NextCommand(t) ==
  /\ Goto(t, "ready", NoReservation, NoReply)
  /\ pos' = [pos EXCEPT ![t] = @ + 1]
  /\ UNCHANGED next

\* Mutants of LookupReply: stored replies are ignored; a repeated command is
\* skipped without an answer.
LookupNothingMutant(t) ==
  /\ Running(t) /\ phase[t] = "ready" /\ AtCommand(t)
  /\ Cmd(t).type \in ClientCommandType
  /\ Goto(t, "tx", NoReservation, NoReply)
  /\ UNCHANGED <<tables, log, saved, fault, next, pos, replies, taken, crashes>>

LookupSilentMutant(t) ==
  /\ Running(t) /\ phase[t] = "ready" /\ AtCommand(t)
  /\ Cmd(t).type \in ClientCommandType
  /\ IF idempotency[ReplyKeyOf(Cmd(t))] = NoReply
       THEN Goto(t, "tx", NoReservation, NoReply) /\ UNCHANGED <<next, pos>>
       ELSE NextCommand(t)
  /\ UNCHANGED <<tables, log, saved, fault, replies, taken, crashes>>

\* get_idempotent_reply, before any transaction is begun.
LookupReply(t) ==
  /\ Running(t) /\ phase[t] = "ready" /\ AtCommand(t)
  /\ Cmd(t).type \in ClientCommandType
  /\ LET existing == idempotency[ReplyKeyOf(Cmd(t))]
     IN IF existing = NoReply
          THEN Goto(t, "tx", NoReservation, NoReply)
          ELSE Goto(t, "reply", NoReservation, existing)
  /\ UNCHANGED <<tables, log, saved, fault, next, pos, replies, taken, crashes>>

\* reservation_in_tx: the transaction's first statement.
ReadReservation(t) ==
  /\ Running(t) /\ phase[t] = "ready" /\ AtCommand(t)
  /\ Cmd(t).type \in {"ReleaseReservation", "SettleTrade"}
  /\ Goto(t, "tx", reservation[Cmd(t).res], NoReply)
  /\ UNCHANGED <<tables, log, saved, fault, next, pos, replies, taken, crashes>>

InTransaction(t) ==
  /\ Running(t) /\ AtCommand(t)
  /\ \/ phase[t] = "tx"
     \/ phase[t] = "ready" /\ Cmd(t).type = "ApplyAccountDelta"

CommitTransaction(t) ==
  /\ InTransaction(t)
  /\ Result(t) = "ok"
  /\ Commit(Cmd(t), Req(t), seen[t])
  /\ IF Cmd(t).type \in ClientCommandType
       THEN /\ Goto(t, "reply", NoReservation, SuccessReply(Cmd(t)))
            /\ UNCHANGED <<next, pos>>
       ELSE NextCommand(t)
  /\ UNCHANGED <<log, saved, fault, replies, taken, crashes>>

\* An account delta of zero, or one that was applied before.
SkipDelta(t) ==
  /\ InTransaction(t)
  /\ Result(t) = "nothing"
  /\ NextCommand(t)
  /\ UNCHANGED <<tables, log, saved, fault, replies, taken, crashes>>

\* The transaction is rolled back; the answer is stored by the next one.
RejectFunds(t) ==
  /\ InTransaction(t)
  /\ Result(t) = "InsufficientFunds"
  /\ Goto(t, "record", NoReservation, InsufficientFunds)
  /\ UNCHANGED <<tables, log, saved, fault, next, pos, replies, taken, crashes>>

RecordRejection(t) ==
  /\ Running(t) /\ phase[t] = "record"
  /\ RecordReply(Cmd(t), answer[t])
  /\ Goto(t, "reply", NoReservation, answer[t])
  /\ UNCHANGED <<log, saved, fault, next, pos, replies, taken, crashes>>

\* publish_result: the reply carries the request id of the record at hand.
PublishReply(t) ==
  /\ Running(t) /\ phase[t] = "reply"
  /\ replies' = replies \cup
       {[req |-> Req(t), command |-> ReplyKeyOf(Cmd(t)), reply |-> answer[t]]}
  /\ NextCommand(t)
  /\ UNCHANGED <<tables, log, saved, fault, taken, crashes>>

\* SAVE_QUEUE_OFFSET_SQL only ever advances the stored offset.
SaveOffset(t) ==
  /\ Running(t) /\ phase[t] = "ready" /\ HasRecord(t) /\ ~AtCommand(t)
  /\ saved' = [saved EXCEPT ![t[2]] = IF @ < next[t] + 1 THEN next[t] + 1 ELSE @]
  /\ next' = [next EXCEPT ![t] = @ + 1]
  /\ pos' = [pos EXCEPT ![t] = 1]
  /\ UNCHANGED <<tables, log, fault, phase, seen, answer, replies, taken, crashes>>

\* fetch_records returns nothing: sleep and ask again.
Poll(t) ==
  /\ Running(t) /\ phase[t] = "ready" /\ ~HasRecord(t)
  /\ UNCHANGED vars

(***************************************************************************)
(* The end of a process and its restart.                                    *)
(***************************************************************************)
Stop(i, why, p) ==
  /\ fault' = [fault EXCEPT ![i] = [why |-> why, at |-> p]]
  /\ phase' = [t \in Task |-> IF t[1] = i THEN "ready" ELSE phase[t]]
  /\ seen' = [t \in Task |-> IF t[1] = i THEN NoReservation ELSE seen[t]]
  /\ answer' = [t \in Task |-> IF t[1] = i THEN NoReply ELSE answer[t]]
  /\ UNCHANGED <<next, pos>>

\* A repository error is returned through the task and ends the process.
FailTransaction(t) ==
  /\ InTransaction(t)
  /\ Result(t) \notin {"ok", "nothing", "InsufficientFunds"}
  /\ Stop(t[1], Result(t), t[2])
  /\ UNCHANGED <<tables, log, saved, replies, taken, crashes>>

\* A kill, a lost database connection, a reply that cannot be published.
Crash(i) ==
  /\ Up(i)
  /\ crashes < MaxCrashes
  /\ crashes' = crashes + 1
  /\ Stop(i, "crash", NoFault.at)
  /\ UNCHANGED <<tables, log, saved, replies, taken>>

Restart(i) ==
  /\ ~Up(i)
  /\ fault' = [fault EXCEPT ![i] = NoFault]
  /\ next' = [t \in Task |-> IF t[1] = i THEN saved[t[2]] ELSE next[t]]
  /\ pos' = [t \in Task |-> IF t[1] = i THEN 1 ELSE pos[t]]
  /\ UNCHANGED <<tables, log, saved, phase, seen, answer, replies, taken, crashes>>

-----------------------------------------------------------------------------
(***************************************************************************)
(* The environment.  Clients may repeat a command: the API server takes the *)
(* idempotency key from the client and makes a new request id.              *)
(***************************************************************************)
Write(p, record) == log' = [log EXCEPT ![p] = Append(@, record)]

Submit(cmd) ==
  LET p == UserPartition[cmd.user]
  IN /\ Len(log[p]) < MaxCommands
     /\ Write(p, <<cmd>>)
     /\ UNCHANGED <<tables, saved, fault, task, replies, taken, crashes>>

\* The engine knows a reservation once its PlaceOrder input is on its way, and
\* never releases or settles more of it than was reserved.
Unspent(m, r) ==
  IF \E i \in DOMAIN outbox :
       outbox[i].dedupe = <<"place-order", r[1], r[2]>> /\ outbox[i].key = m
    THEN 1 .. (reservation[r].amount - taken[r])
    ELSE {}

Emitted(cmd) ==
  \E p \in EventPartition : \E n \in DOMAIN log[p] : \E k \in DOMAIN log[p][n] :
    log[p][n][k] = cmd

UsedFill(fill) ==
  \E p \in EventPartition : \E n \in DOMAIN log[p] : \E k \in DOMAIN log[p][n] :
    log[p][n][k].type = "SettleTrade" /\ log[p][n][k].fill = fill

Emit(m, record) ==
  /\ Len(log[MarketPartition[m]]) < MaxEvents
  /\ Write(MarketPartition[m], record)
  /\ UNCHANGED <<tables, saved, fault, task, replies, crashes>>

\* OrderCancelled, OrderExpired and ReservationReleased.
EngineRelease(m) ==
  \E r \in ReservationId : \E amount \in Unspent(m, r), reason \in Reason :
    LET cmd == [type |-> "ReleaseReservation", res |-> r, amount |-> amount,
                reason |-> reason]
    IN /\ DistinctReleases => ~Emitted(cmd)
       /\ Emit(m, <<cmd>>)
       /\ taken' = [taken EXCEPT ![r] = @ + amount]

SettlementOf(fill, r, amount, asset, credit) ==
  [type |-> "SettleTrade", fill |-> fill, res |-> r,
   debitAsset |-> reservation[r].asset, debitAmount |-> amount,
   creditAsset |-> asset, creditAmount |-> credit]

\* The reference of a fee is made of the fill and the place of the fee in it.
FeeOf(fill, index, r, fee) ==
  [type |-> "ApplyAccountDelta", user |-> r[1], asset |-> reservation[r].asset,
   totalDelta |-> -fee, lockedDelta |-> 0, kind |-> "TRADE_FEE", ref |-> <<fill, index>>]

\* TradeExecuted with the settlement of one side or of both, which may be of one
\* user (a self-trade), and then the fee deltas.
EngineTrade(m) ==
  \E fill \in Fill, r \in ReservationId, fee, otherFee \in Fees :
  \E amount \in Unspent(m, r), asset \in Asset, credit \in Credits :
    /\ ~UsedFill(fill)
    /\ \/ /\ Emit(m, <<SettlementOf(fill, r, amount, asset, credit), FeeOf(fill, 1, r, fee)>>)
          /\ taken' = [taken EXCEPT ![r] = @ + amount]
       \/ \E other \in ReservationId \ {r} : \E filled \in Unspent(m, other) :
            /\ Emit(m, <<SettlementOf(fill, r, amount, asset, credit),
                         SettlementOf(fill, other, filled, reservation[other].asset, filled),
                         FeeOf(fill, 1, r, fee), FeeOf(fill, 2, other, otherFee)>>)
            /\ taken' = [taken EXCEPT ![r] = @ + amount, ![other] = @ + filled]

\* FundingPaymentApplied and AccountDelta.
EngineDelta(m) ==
  \E u \in User, a \in Asset, td \in TotalDeltas, ld \in LockedDeltas, ref \in Ref,
     kind \in DeltaKind \ {"TRADE_FEE"} :
    /\ Emit(m, <<[type |-> "ApplyAccountDelta", user |-> u, asset |-> a,
                  totalDelta |-> td, lockedDelta |-> ld, kind |-> kind, ref |-> ref]>>)
    /\ UNCHANGED taken

\* An event that moves no funds, or a record the loop cannot decode.
EngineOther(m) == Emit(m, <<>>) /\ UNCHANGED taken

-----------------------------------------------------------------------------
TaskStep(t) ==
  \/ LookupReply(t) \/ ReadReservation(t)
  \/ CommitTransaction(t) \/ SkipDelta(t) \/ RejectFunds(t) \/ FailTransaction(t)
  \/ RecordRejection(t) \/ PublishReply(t) \/ SaveOffset(t)

Environment ==
  \/ \E cmd \in ClientCommands : Submit(cmd)
  \/ \E m \in Market :
       EngineRelease(m) \/ EngineTrade(m) \/ EngineDelta(m) \/ EngineOther(m)

Next ==
  \/ \E t \in Task : TaskStep(t) \/ Poll(t)
  \/ \E i \in Instance : Crash(i) \/ Restart(i)
  \/ Environment

Spec == Init /\ [][Next]_vars

(***************************************************************************)
(* The tasks of a running process keep going and a process that ended is    *)
(* started again.  Nothing is assumed of clients, engine and crashes.       *)
(***************************************************************************)
FairSpec ==
  /\ Spec
  /\ \A t \in Task : WF_vars(TaskStep(t))
  /\ \A i \in Instance : WF_vars(Restart(i))
=============================================================================
