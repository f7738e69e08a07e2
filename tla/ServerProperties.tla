--------------------------- MODULE ServerProperties ---------------------------
(***************************************************************************)
(* What the API server promises about the requests it queues.               *)
(***************************************************************************)
EXTENDS ServerReplies

(***************************************************************************)
(* Records, channels and topics are of their types.                         *)
(***************************************************************************)
ServerTypeOK ==
  /\ endpoint \in Workload
  /\ handler \in [Request -> Phase \cup Response]
  /\ records \in [Request -> PendingRequest]
  /\ channel \in [Request -> ReplyResult \cup {"none"}]
  /\ walletSays \in [Request -> WalletReply \cup {"none"}]
  /\ engineSays \in [Request -> EngineReply \cup {"none"}]
  /\ commands \subseteq Request /\ replied \subseteq Request
  /\ replyTopic \in [Topic -> Seq([req: Request, result: ReplyResult])]
  /\ consuming \subseteq Topic
  /\ views \subseteq [user: User, req: Request, result: ReplyResult]
  /\ repeats \in Nat /\ errors \in Nat /\ restarts \in Nat

\* What wallet and engine together have decided about a request.
Verdict(r) == IF Forwarded(r) THEN engineSays[r] ELSE walletSays[r]

(***************************************************************************)
(* "request completed" is the last word: what a handler answers with 200,   *)
(* and what a poll shows as complete, is what wallet and engine decided in  *)
(* the end, never the reservation on the way to it, and it is shown to the  *)
(* request's owner only.                                                    *)
(***************************************************************************)
AnswersAreVerdicts ==
  /\ \A r \in Request : handler[r] = "200 completed" => channel[r] = Verdict(r)
  /\ \A v \in views : v.user = Owner[v.req] /\ v.result = Verdict(v.req)

(***************************************************************************)
(* No wakeup is lost: the waiter is registered before the command is        *)
(* published, so whenever a handler waits and a final reply has been stored *)
(* for its request, the reply has been sent to it.                          *)
(***************************************************************************)
NoLostWakeup ==
  \A r \in Request :
    handler[r] = "waiting" =>
      /\ records[r].owned
      /\ records[r].result \in FinalResults(KindOf(r)) => channel[r] # "none"
      /\ channel[r] = "none" => records[r].waiter

(***************************************************************************)
(* A request that was answered with 500 stays unknown to polls, although    *)
(* its command may be processed and its replies come in later.              *)
(***************************************************************************)
FailedStaysUnknown ==
  \A r \in Request : handler[r] = "500 failed" => ~records[r].owned

(***************************************************************************)
(* Once the call that publishes a command has returned, with the offset or  *)
(* with an error, its handler answers in the end, whatever becomes of the   *)
(* reply consumers, the wallet and the engine: the wait for the reply has a *)
(* deadline.  The publish itself has none, and no claim is made of it.      *)
(***************************************************************************)
PublishedRequestsAnswered ==
  \A r \in Request : handler[r] \in {"removing", "waiting"} ~> handler[r] \in Response

(***************************************************************************)
(* A request answered with 202 shows up as complete to a client that keeps  *)
(* polling for it, unless the server restarts or a reply consumer fails.    *)
(***************************************************************************)
Completes(r) ==
  handler[r] = "202 queued" ~>
    (\E v \in views : v.req = r) \/ errors > 0 \/ restarts > 0

QueuedRequestsComplete == \A r \in Request : Completes(r)

(***************************************************************************)
(* The same of deposits and withdrawals, which only the wallet answers.     *)
(***************************************************************************)
QueuedTransfersComplete ==
  \A r \in Request : endpoint[r] \in {"add_balance", "withdraw_balance"} => Completes(r)
=============================================================================
