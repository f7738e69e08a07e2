---------------------------- MODULE WalletHistory ----------------------------
(***************************************************************************)
(* What the replay of engine.events does to the wallet.  Nothing records    *)
(* which commands were applied: a wallet that ends between the commit and   *)
(* the save of the offset applies the whole record again.  Two history      *)
(* variables tell the repeated commands from the first ones; they are a     *)
(* function of the wallet's steps and constrain none of them.               *)
(***************************************************************************)
EXTENDS WalletProperties

VARIABLES
  done,    \* the places of engine.events whose release or settlement committed
  twice    \* the reservations of which one was committed again

history == <<vars, done, twice>>

Takes(cmd) == cmd.type \in {"ReleaseReservation", "SettleTrade"}

\* Where the command at hand is: partition, offset and place in the record.
Place(t) == <<t[2], next[t], pos[t]>>

\* The tasks whose transaction commits in this step.
Committing == {t \in Task : InTransaction(t) /\ Takes(Cmd(t)) /\ pos'[t] # pos[t]}

HistoryInit == Init /\ done = {} /\ twice = {}

HistoryNext ==
  /\ Next
  /\ done' = done \cup {Place(t) : t \in Committing}
  /\ twice' = twice \cup {Cmd(t).res : t \in {q \in Committing : Place(q) \in done}}

HistorySpec == HistoryInit /\ [][HistoryNext]_history

(***************************************************************************)
(* The record also settles for the same user, in the same asset: the two    *)
(* settlements have the same key in wallet_ledger.                          *)
(***************************************************************************)
SelfTrade(t) ==
  \E k \in DOMAIN Record(t) \ {pos[t]} :
    LET cmd == Cmd(t)
        other == Record(t)[k]
    IN /\ cmd.type = "SettleTrade" /\ other.type = "SettleTrade"
       /\ cmd.res[1] = other.res[1]
       /\ cmd.debitAsset = other.debitAsset \/ cmd.creditAsset = other.creditAsset

(***************************************************************************)
(* The engine stays within what was reserved, so the wallet refuses its     *)
(* releases and settlements, and stops, for four reasons only: the command  *)
(* was applied before the wallet ended and is read again; one of the same   *)
(* reservation was applied a second time and took its funds; a self-trade;  *)
(* a credit too large for a BIGINT.  Whatever else clients and markets do,  *)
(* every other one is carried out when the wallet comes to it.              *)
(***************************************************************************)
RefusalsExplained ==
  \A t \in Task :
    Refused(t) /\ Takes(Cmd(t)) =>
      \/ Place(t) \in done
      \/ Cmd(t).res \in twice
      \/ SelfTrade(t)
      \/ Cmd(t).type = "SettleTrade" /\ CreditOverflows(Cmd(t))

(***************************************************************************)
(* The events in the outbox add up to the balances as long as no release or *)
(* settlement was applied twice and the engine gave no two releases of a    *)
(* reservation for the same reason and amount, which share a dedupe key.    *)
(* Every other retry, crash and replay changes a balance together with its  *)
(* event or not at all.                                                     *)
(***************************************************************************)
CmdIn(x) == log[x[1]][x[2]][x[3]]

SameRelease(x, y) ==
  /\ CmdIn(x).type = "ReleaseReservation" /\ CmdIn(y).type = "ReleaseReservation"
  /\ CmdIn(x).res = CmdIn(y).res /\ CmdIn(x).reason = CmdIn(y).reason
  /\ CmdIn(x).amount = CmdIn(y).amount

NoRepeats == twice = {} /\ \A x, y \in done : SameRelease(x, y) => x = y

EnqueuedUnlessRepeated == NoRepeats => EveryChangeIsEnqueued
=============================================================================
