--------------------------- MODULE WhatsAppInbound ---------------------------
(***************************************************************************)
(* One inbound message in the queue and in the pipeline: process_webhook_-  *)
(* event, which runs jobs.process_webhook_message between two marks of the  *)
(* receipt.                                                                 *)
(*                                                                          *)
(* WhatsAppQueue does not say what a run does, ReplyPipeline not why one    *)
(* starts.  Here a run starts when a worker takes a job out of Redis, and   *)
(* the receipt is marked, in a transaction of its own, by what became of    *)
(* the run.  A worker may also run the job of an operator who replays a     *)
(* failed reply, which has no receipt.                                      *)
(***************************************************************************)
EXTENDS ReplyPipeline, WhatsAppQueue

InboundInit == Init /\ QueueInit

\* The job is taken and marked, and the message's business begins.
TakeJob(w, j) == StartJob(w, j) /\ StartRun(w)

\* One transaction of a run; raising is one of its ends.
Proceed(w) ==
    /\ \/ pc[w] # "idle" /\ (Receive(w) \/ Reason(w) \/ Dispatch(w) \/ Crash(w))
       \/ work[w] = "idle" /\ ReplayIntent(w)
    /\ UNCHANGED queueVars

\* The run has returned or raised: the receipt is marked.
Conclude(w) ==
    /\ pc[w] = "idle"
    /\ IF returned[w] = "no" THEN FailRetryable(w) \/ FailPermanently(w) ELSE Succeed(w)
    /\ UNCHANGED vars

\* The process dies, in the run or before it has marked the receipt.
Die(w) ==
    /\ WorkerCrash(w)
    /\ IF pc[w] = "idle" THEN UNCHANGED vars ELSE Crash(w)

\* A job that does not come to its business.
PassOver(w, j) ==
    /\ pc[w] = "idle"
    /\ Postpone(w, j) \/ FailUnmarked(w, j)
    /\ UNCHANGED vars

\* Meta's deliveries, the operators' replays, Redis, the consumption control.
AroundQueue ==
    /\ \/ \E d \in Delivery : ReadReceipt(d) \/ Ingress(d) \/ WebCrash(d)
       \/ \E r \in Request : Operate(r) \/ OperatorCrash(r)
       \/ \E n \in Attempts : Expire(n)
       \/ SetConsumption
    /\ UNCHANGED vars

\* The lead's other messages, the conversation's operators, the tenant.
AroundConversation ==
    /\ (\E enabled \in BOOLEAN : ChangeOwner(enabled)) \/ RewriteOwner \/ OptOut \/ SetAutoReply
    /\ UNCHANGED queueVars

InboundNext ==
    \/ \E w \in Worker : Proceed(w) \/ Conclude(w) \/ Die(w)
    \/ \E w \in Worker, j \in Job : TakeJob(w, j) \/ PassOver(w, j)
    \/ AroundQueue \/ AroundConversation

InboundSpec == InboundInit /\ [][InboundNext]_<<vars, queueVars>>

-----------------------------------------------------------------------------
(* Properties.                                                              *)

\* A customer's STOP whose event is marked processed is in force, whatever runs
\* died before, unless the run that was marked has dropped the message: the
\* receipt is never ahead of the opt-out (process_webhook_message,
\* process_webhook_event).
StopIsInForce ==
    text = "stop" /\ receipt = "processed" =>
        optedOut \/ \E w \in Worker : returned[w] = "dropped"

\* A processed event whose reply was closed by an escalation, and on which nobody
\* works or will work any more, has been given to an operator
\* (WhatsAppTakeoverTask: "Durable operator work item for takeover/escalation
\* handling").
EscalationHasTask ==
    ( /\ receipt = "processed" /\ \A j \in Job : entries[j] = 0
      /\ \A w \in Worker : pc[w] = "idle" /\ work[w] = "idle"
      /\ category = "ai_non_reply" /\ audit = "ESCALATE" )
    => \E v \in 1 .. MaxVersion : task[v] # "none"

=============================================================================
