--------------------------- MODULE WhatsAppOutbox ---------------------------
(***************************************************************************)
(* The WhatsApp outbox of one conversation: outbound intents, the two-phase *)
(* dispatch that claims an intent, checks policy under row locks, calls     *)
(* Meta and records the outcome, and everything that races with it: other   *)
(* workers, takeover, opt-out, the AI auto-reply control, operator replay,  *)
(* crashes and provider answers that never arrive.                          *)
(*                                                                          *)
(* dispatch_intent runs two transactions.  The first commits "sending"; the *)
(* second locks intent, client and lead rows and keeps them through the     *)
(* provider call.  pc follows a worker through them:                        *)
(*   idle -> generating -> dispatch -> claimed -> calling -> accepted -> idle *)
(*                                              \-> failing -> idle          *)
(* `accepted` and `uncertain` are ghosts: how often Meta took the message,  *)
(* and what the exception handler knows about it.                           *)
(***************************************************************************)
EXTENDS Takeover, FiniteSets

CONSTANTS
    AiReply,      \* intents with intent_kind "ai_reply"
    Manual,       \* intents with intent_kind "manual"
    Worker,       \* RQ workers and web threads that run dispatch_intent
    Nobody,       \* no worker: the row locks are free
    NoIntent,     \* the job of an idle worker
    MaxAttempts   \* bound on the dispatch attempts of an intent

Intent == AiReply \cup Manual

ASSUME OutboxAssumption ==
    /\ AiReply \cap Manual = {}
    /\ Nobody \notin Worker
    /\ NoIntent \notin Intent
    /\ MaxAttempts \in Nat

VARIABLES
    state,        \* whatsapp_outbound_intents.state ("none": no row yet)
    body,         \* the reply text is persisted
    bound,        \* intent.takeover_version: the version it was created under
    attempts,     \* intent.attempt_count
    message,      \* messages.status of the intent's timeline row ("none": no row)
    action,       \* whatsapp_operator_actions.outcome of a manual send
    optedOut,     \* leads.whatsapp_opted_out_at / whatsapp_opt_outs row
    autoReply,    \* the tenant's AI_AUTO_REPLY operational control
    pc, job,      \* what each worker is doing, and for which intent
    holder,       \* worker holding the intent, client and lead row locks
    uncertain,    \* the worker's exception leaves the provider outcome open
    accepted      \* ghost: times Meta accepted the intent's message

rowVars == <<state, body, bound, attempts, message, action>>
workerVars == <<pc, job, holder, uncertain>>
outboxVars == <<rowVars, optedOut, autoReply, workerVars, accepted>>
vars == <<takeoverVars, outboxVars>>

IntentState ==
    {"none", "pending", "generating", "sending", "sent", "failed", "unknown", "blocked"}
MessageStatus == {"none", "pending", "sent", "failed", "unknown", "blocked"}
Steps == {"idle", "generating", "dispatch", "claimed", "calling", "accepted", "failing"}

\* The steps of dispatch_intent after its first commit.
InFlightSteps == {"claimed", "calling", "accepted", "failing"}
InFlight(w) == pc[w] \in InFlightSteps
\* The second transaction is open.
Locking(w) == pc[w] \in {"calling", "accepted"}

RowTypeOK ==
    /\ state \in [Intent -> IntentState]
    /\ body \in [Intent -> BOOLEAN]
    /\ bound \in [Intent -> 0 .. MaxVersion]
    /\ attempts \in [Intent -> 0 .. MaxAttempts]
    /\ message \in [Intent -> MessageStatus]
    /\ action \in [Intent -> MessageStatus]

WorkerTypeOK ==
    /\ pc \in [Worker -> Steps]
    /\ job \in [Worker -> Intent \cup {NoIntent}]
    /\ holder \in Worker \cup {Nobody}
    /\ uncertain \in [Worker -> BOOLEAN]

\* The columns and the worker variables keep their types; above all an intent
\* is always tied to an ownership version that exists (never a NULL one).
TypeOK ==
    /\ TakeoverTypeOK /\ RowTypeOK /\ WorkerTypeOK
    /\ optedOut \in BOOLEAN
    /\ autoReply \in BOOLEAN
    /\ accepted \in [Intent -> Nat]

Init ==
    /\ TakeoverInit
    /\ state = [i \in Intent |-> "none"]
    /\ body = [i \in Intent |-> FALSE]
    /\ bound = [i \in Intent |-> 0]
    /\ attempts = [i \in Intent |-> 0]
    /\ message = [i \in Intent |-> "none"]
    /\ action = [i \in Intent |-> "none"]
    /\ optedOut = FALSE
    /\ autoReply = TRUE
    /\ pc = [w \in Worker |-> "idle"]
    /\ job = [w \in Worker |-> NoIntent]
    /\ holder = Nobody
    /\ uncertain = [w \in Worker |-> FALSE]
    /\ accepted = [i \in Intent |-> 0]

-----------------------------------------------------------------------------
(* Row locks and the joint writes of an intent, its timeline row and its    *)
(* operator action.                                                         *)

LeadFree == holder = Nobody
IntentFree(i) == \A w \in Worker : Locking(w) => job[w] # i

Go(w, step) == pc' = [pc EXCEPT ![w] = step] /\ UNCHANGED <<job, uncertain>>
Start(w, i, step) ==
    /\ pc' = [pc EXCEPT ![w] = step]
    /\ job' = [job EXCEPT ![w] = i]
    /\ UNCHANGED uncertain
Leave(w) ==
    /\ pc' = [pc EXCEPT ![w] = "idle"]
    /\ job' = [job EXCEPT ![w] = NoIntent]
    /\ uncertain' = [uncertain EXCEPT ![w] = FALSE]

\* The timeline row follows the intent when there is one; a send adds it.
Follow(i, status) ==
    IF message[i] = "none" /\ status # "sent" THEN message ELSE [message EXCEPT ![i] = status]
FollowAction(i, status) == IF i \in Manual THEN [action EXCEPT ![i] = status] ELSE action

\* Slip: the timeline row keeps its status.
FinishIntentOnly(i, outcome) ==
    /\ state' = [state EXCEPT ![i] = outcome]
    /\ action' = FollowAction(i, outcome)
    /\ UNCHANGED <<body, bound, attempts, message>>

\* state, message and action in one transaction (_mark_blocked_locked,
\* _record_send_failure and the accepted branch of dispatch_intent).
Finish(i, outcome) ==
    /\ state' = [state EXCEPT ![i] = outcome]
    /\ message' = Follow(i, outcome)
    /\ action' = FollowAction(i, outcome)
    /\ UNCHANGED <<body, bound, attempts>>

-----------------------------------------------------------------------------
(* Intents come into being.                                                 *)

\* Slip: the intent is not tied to the ownership version (a NULL column).
CreateIntentUnversioned(i) ==
    /\ i \in AiReply /\ state[i] = "none"
    /\ LeadFree
    /\ state' = [state EXCEPT ![i] = "pending"]
    /\ bound' = [bound EXCEPT ![i] = NoIntent]
    /\ UNCHANGED <<takeoverVars, body, attempts, message, action, optedOut,
                   autoReply, workerVars, accepted>>

\* create_or_get_intent: the one reply intent of an inbound event.
CreateIntent(i) ==
    /\ i \in AiReply /\ state[i] = "none"
    /\ LeadFree
    /\ state' = [state EXCEPT ![i] = "pending"]
    /\ bound' = [bound EXCEPT ![i] = version]
    /\ UNCHANGED <<takeoverVars, body, attempts, message, action, optedOut,
                   autoReply, workerVars, accepted>>

\* create_manual_intent: one manual message, its timeline row and its audit.
CreateManualIntent(i) ==
    /\ i \in Manual /\ state[i] = "none"
    /\ LeadFree /\ takeover
    /\ state' = [state EXCEPT ![i] = "generating"]
    /\ body' = [body EXCEPT ![i] = TRUE]
    /\ bound' = [bound EXCEPT ![i] = version]
    /\ message' = [message EXCEPT ![i] = "pending"]
    /\ action' = [action EXCEPT ![i] = "pending"]
    /\ UNCHANGED <<takeoverVars, attempts, optedOut, autoReply, workerVars, accepted>>

\* claim_for_generation in the worker of the inbound event: "dispatch" when the
\* text is there already, "generate" otherwise, "skip" leaves everything.
ClaimForGeneration(w, i) ==
    /\ pc[w] = "idle" /\ i \in AiReply
    /\ state[i] \in {"pending", "generating"}
    /\ IF state[i] = "generating" /\ body[i]
       THEN Start(w, i, "dispatch") /\ UNCHANGED state
       ELSE Start(w, i, "generating") /\ state' = [state EXCEPT ![i] = "generating"]
    /\ UNCHANGED <<takeoverVars, body, bound, attempts, message, action, optedOut,
                   autoReply, holder, accepted>>

\* queue_reply (or set_generated_body): the text and its timeline row.
QueueReply(w) ==
    LET i == job[w] IN
    /\ pc[w] = "generating"
    /\ state[i] = "generating"
    /\ body' = [body EXCEPT ![i] = TRUE]
    /\ message' = IF message[i] = "none" THEN [message EXCEPT ![i] = "pending"] ELSE message
    /\ Go(w, "dispatch")
    /\ UNCHANGED <<takeoverVars, state, bound, attempts, action, optedOut, autoReply,
                   holder, accepted>>

\* finalize_non_reply: the model decided not to answer.
FinalizeNonReply(w) ==
    LET i == job[w] IN
    /\ pc[w] = "generating"
    /\ state[i] = "generating" /\ ~body[i]
    /\ state' = [state EXCEPT ![i] = "blocked"]
    /\ Leave(w)
    /\ UNCHANGED <<takeoverVars, body, bound, attempts, message, action, optedOut,
                   autoReply, holder, accepted>>

\* process_outbound_intent: the send-message route and the replay job.
ProcessOutboundIntent(w, i) ==
    /\ pc[w] = "idle" /\ body[i]
    /\ IntentFree(i)
    /\ Start(w, i, "dispatch")
    /\ UNCHANGED <<takeoverVars, rowVars, optedOut, autoReply, holder, accepted>>

-----------------------------------------------------------------------------
(* dispatch_intent, first transaction: claim the send.                      *)

\* Slip: a claim left behind by another worker is taken over.
ReclaimSend(w) ==
    LET i == job[w] IN
    /\ pc[w] = "dispatch" /\ IntentFree(i)
    /\ state[i] \in {"generating", "sending"} /\ body[i]
    /\ attempts[i] < MaxAttempts
    /\ state' = [state EXCEPT ![i] = "sending"]
    /\ attempts' = [attempts EXCEPT ![i] = @ + 1]
    /\ Go(w, "claimed")
    /\ UNCHANGED <<takeoverVars, body, bound, message, action, optedOut, autoReply,
                   holder, accepted>>

ClaimSend(w) ==
    LET i == job[w] IN
    /\ pc[w] = "dispatch" /\ IntentFree(i)
    /\ state[i] = "generating" /\ body[i]
    /\ attempts[i] < MaxAttempts
    /\ state' = [state EXCEPT ![i] = "sending"]
    /\ attempts' = [attempts EXCEPT ![i] = @ + 1]
    /\ Go(w, "claimed")
    /\ UNCHANGED <<takeoverVars, body, bound, message, action, optedOut, autoReply,
                   holder, accepted>>

\* Any other state is only reported; a claim somebody else made becomes
\* "unknown", whether its worker died or is about to send.
ReportOnly(w) ==
    LET i == job[w] IN
    /\ pc[w] = "dispatch" /\ IntentFree(i)
    /\ ~(state[i] = "generating" /\ body[i])
    /\ state' = IF state[i] = "sending" THEN [state EXCEPT ![i] = "unknown"] ELSE state
    /\ Leave(w)
    /\ UNCHANGED <<takeoverVars, body, bound, attempts, message, action, optedOut,
                   autoReply, holder, accepted>>

-----------------------------------------------------------------------------
(* dispatch_intent, second transaction: policy, provider call, outcome.     *)

\* Slip: the version the intent was created under is not compared.
MustBlockUnversioned(i) ==
    \/ i \in AiReply /\ (~autoReply \/ takeover)
    \/ i \in Manual /\ ~takeover
    \/ optedOut

\* The conversation forbids this send: control, ownership, opt-out.
MustBlock(i) ==
    \/ i \in AiReply /\ (~autoReply \/ takeover)
    \/ i \in Manual /\ ~takeover
    \/ bound[i] # version
    \/ optedOut

\* Blocked there, or by a check outside this model: quiet hours, caps,
\* consent, session window, the pilot gate, the reply guard.
BlockSend(w) ==
    /\ pc[w] = "claimed" /\ LeadFree
    /\ Finish(job[w], "blocked")
    /\ Leave(w)
    /\ UNCHANGED <<takeoverVars, optedOut, autoReply, holder, accepted>>

\* Every check passed: the row locks stay held through the provider call.
StartCall(w) ==
    /\ pc[w] = "claimed" /\ LeadFree
    /\ ~MustBlock(job[w])
    /\ holder' = w
    /\ Go(w, "calling")
    /\ UNCHANGED <<takeoverVars, rowVars, optedOut, autoReply, accepted>>

\* Meta takes the message; the answer may still get lost on the way.
ProviderAccepts(w) ==
    /\ pc[w] = "calling"
    /\ accepted' = [accepted EXCEPT ![job[w]] = @ + 1]
    /\ Go(w, "accepted")
    /\ UNCHANGED <<takeoverVars, rowVars, optedOut, autoReply, holder>>

\* Slip: a provider timeout counts as a definite failure.
FailTimeoutAsDefinite(w, open) ==
    /\ pc' = [pc EXCEPT ![w] = "failing"]
    /\ uncertain' = [uncertain EXCEPT ![w] = FALSE]
    /\ holder' = IF holder = w THEN Nobody ELSE holder
    /\ UNCHANGED job

\* An exception leaves the transaction: rollback, locks released.
Fail(w, open) ==
    /\ pc' = [pc EXCEPT ![w] = "failing"]
    /\ uncertain' = [uncertain EXCEPT ![w] = open]
    /\ holder' = IF holder = w THEN Nobody ELSE holder
    /\ UNCHANGED job

\* Before the call (database error) or a call Meta certainly refused: 401, 403,
\* the process-level cap, no message id.
CallRefused(w) ==
    /\ pc[w] \in {"claimed", "calling"}
    /\ Fail(w, FALSE)
    /\ UNCHANGED <<takeoverVars, rowVars, optedOut, autoReply, accepted>>

\* MetaTransportError: a timeout or a broken answer says nothing about Meta.
CallUncertain(w) ==
    /\ Locking(w)
    /\ Fail(w, TRUE)
    /\ UNCHANGED <<takeoverVars, rowVars, optedOut, autoReply, accepted>>

CommitSent(w) ==
    /\ pc[w] = "accepted"
    /\ Finish(job[w], "sent")
    /\ holder' = Nobody
    /\ Leave(w)
    /\ UNCHANGED <<takeoverVars, optedOut, autoReply, accepted>>

\* The commit reached the database, its acknowledgement did not.
CommitUnacknowledged(w) ==
    /\ pc[w] = "accepted"
    /\ Finish(job[w], "sent")
    /\ Fail(w, TRUE)
    /\ UNCHANGED <<takeoverVars, optedOut, autoReply, accepted>>

\* _record_send_failure, in a transaction of its own.
RecordSendFailure(w) ==
    /\ pc[w] = "failing" /\ IntentFree(job[w])
    /\ Finish(job[w], IF uncertain[w] THEN "unknown" ELSE "failed")
    /\ Leave(w)
    /\ UNCHANGED <<takeoverVars, optedOut, autoReply, holder, accepted>>

\* The process dies, or an exception outside dispatch_intent ends its job.
Crash(w) ==
    /\ pc[w] # "idle"
    /\ holder' = IF holder = w THEN Nobody ELSE holder
    /\ Leave(w)
    /\ UNCHANGED <<takeoverVars, rowVars, optedOut, autoReply, accepted>>

-----------------------------------------------------------------------------
(* Everything a dispatch races with.                                        *)

\* transition_takeover: under the lead lock; taking over blocks the replies
\* that have not been claimed for sending.
ChangeOwner(enabled, worker) ==
    LET overtaken == {i \in AiReply : state[i] \in {"pending", "generating"}} IN
    /\ LeadFree
    /\ SwitchTakeover(enabled, worker)
    /\ IF enabled
       THEN /\ state' = [i \in Intent |-> IF i \in overtaken THEN "blocked" ELSE state[i]]
            /\ message' = [i \in Intent |->
                   IF i \in overtaken /\ message[i] # "none" THEN "blocked" ELSE message[i]]
       ELSE UNCHANGED <<state, message>>
    /\ UNCHANGED <<body, bound, attempts, action, optedOut, autoReply, workerVars, accepted>>

RewriteOwner ==
    /\ LeadFree
    /\ \/ \E worker \in BOOLEAN : RepeatTakeover(worker)
       \/ \E enabled \in BOOLEAN : MirrorTakeover(enabled)
    /\ UNCHANGED outboxVars

WorkOnTask ==
    /\ \E v \in 1 .. MaxVersion, resolve \in BOOLEAN : UpdateTask(v, resolve)
    /\ UNCHANGED outboxVars

\* Slip: the opt-out does not wait for the lead row.
OptOutUnlocked ==
    /\ ~optedOut
    /\ optedOut' = TRUE
    /\ UNCHANGED <<takeoverVars, rowVars, autoReply, workerVars, accepted>>

\* record_opt_out: durable, under the same client and lead locks as a send.
OptOut ==
    /\ LeadFree /\ ~optedOut
    /\ optedOut' = TRUE
    /\ UNCHANGED <<takeoverVars, rowVars, autoReply, workerVars, accepted>>

\* mutate of a tenant's control locks the client row, like every dispatch.
SetAutoReply ==
    /\ LeadFree
    /\ autoReply' = ~autoReply
    /\ UNCHANGED <<takeoverVars, rowVars, optedOut, workerVars, accepted>>

\* replay_outbound_intent: an operator reopens a definite failure.
ReplayIntent(i) ==
    /\ state[i] = "failed" /\ body[i]
    /\ attempts[i] < MaxAttempts
    /\ state' = [state EXCEPT ![i] = "generating"]
    /\ UNCHANGED <<takeoverVars, body, bound, attempts, message, action, optedOut,
                   autoReply, workerVars, accepted>>

-----------------------------------------------------------------------------
Generation(w) ==
    \/ \E i \in Intent : ClaimForGeneration(w, i) \/ ProcessOutboundIntent(w, i)
    \/ QueueReply(w) \/ FinalizeNonReply(w)

Dispatch(w) ==
    \/ ClaimSend(w) \/ ReportOnly(w)
    \/ BlockSend(w) \/ StartCall(w)
    \/ ProviderAccepts(w) \/ CallRefused(w) \/ CallUncertain(w)
    \/ CommitSent(w) \/ CommitUnacknowledged(w) \/ RecordSendFailure(w)

Next ==
    \/ \E i \in Intent : CreateIntent(i) \/ CreateManualIntent(i) \/ ReplayIntent(i)
    \/ \E w \in Worker : Generation(w) \/ Dispatch(w) \/ Crash(w)
    \/ \E enabled, worker \in BOOLEAN : ChangeOwner(enabled, worker)
    \/ RewriteOwner \/ WorkOnTask \/ OptOut \/ SetAutoReply

Spec == Init /\ [][Next]_vars

-----------------------------------------------------------------------------
(* The promise this outbox implements.  "sent" and "unknown" intents keep   *)
(* their claim; a definite failure is open for an operator's replay.        *)

Abstraction(s) ==
    IF s = "blocked" THEN "closed"
    ELSE IF s \in {"sending", "unknown", "sent"} THEN "claimed" ELSE "open"

AtMostOnce == INSTANCE AtMostOnceSend
    WITH Msg <- Intent,
         status <- [i \in Intent |-> Abstraction(state[i])],
         deliveries <- accepted

-----------------------------------------------------------------------------
(* Properties.                                                              *)

\* The two-transaction dispatch implements the at-most-once promise: every
\* delivery is under a claim, and no claim is given back (failed and replayable,
\* or blocked) once Meta may have the message.
ImplementsAtMostOnce == AtMostOnce!Spec

\* Whatever crashes, timeouts, retries, concurrent workers and replays do,
\* Meta accepts an intent's message at most once (dispatch_intent: "send, and
\* persist once without unsafe retries").
AtMostOneAcceptance == \A i \in Intent : accepted[i] <= 1

\* At the moment Meta accepts a message the conversation still allows it: no
\* opt-out, the ownership version the intent was created under, an AI reply
\* only without takeover and with the control on, a manual one only under
\* takeover.
SendRespectsConversation ==
    [][\A i \in Intent : accepted'[i] # accepted[i] =>
           /\ ~optedOut
           /\ bound[i] = version
           /\ i \in AiReply => ~takeover /\ autoReply
           /\ i \in Manual => takeover]_vars

\* The three records an operator reads never disagree on a settled intent:
\* its state, its timeline row and, for a manual send, the audited action.
TimelineAgrees ==
    \A i \in Intent : state[i] \in {"blocked", "failed", "sent"} =>
        /\ message[i] \in {"none", state[i]}
        /\ i \in Manual => action[i] = state[i]

\* With a single store, at most one takeover task waits for an operator, and it
\* is the one of the current ownership version.
OneWaitingTask ==
    ~DualStore => \A v \in 1 .. MaxVersion : task[v] \in Unresolved => v = version

=============================================================================
