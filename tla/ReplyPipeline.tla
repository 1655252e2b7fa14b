---------------------------- MODULE ReplyPipeline ----------------------------
(***************************************************************************)
(* From one inbound WhatsApp message to its answer: the job                 *)
(* jobs.process_webhook_message with the decision audit of ai_decision and  *)
(* the intent it drives, for one event of one lead.                         *)
(*                                                                          *)
(* A run of the job can start at any time while another one is under way:   *)
(* RQ retries, postponed copies, replays and ambiguous enqueues all lead    *)
(* there (module WhatsAppQueue), and every run can die or raise after any   *)
(* of its transactions.  pc is the transaction a worker's run comes to next: *)
(*   idle -> received -> create -> claim -> bind -> asking -> answered      *)
(*     -> decided -> handover                            (no reply)         *)
(*                \-> dispatch -> sending -> record      (a reply)          *)
(* Sending is one step, since it holds the rows of intent, lead and audit   *)
(* from its checks to its commit; WhatsAppOutbox has its details.           *)
(***************************************************************************)
EXTENDS Takeover, Workers

VARIABLES
    text,         \* what the inbound message says
    returned,     \* how a worker's latest run has returned ("no": it has not)
    optedOut,     \* the lead's opt-out
    autoReply,    \* the tenant's AI_AUTO_REPLY control
    intent,       \* whatsapp_outbound_intents.state ("none": no row)
    category,     \* intent.failure_category, of a decision not to reply
    body,         \* the reply text is persisted
    bound,        \* intent.takeover_version
    audit,        \* the bound audit's decision ("none": no row)
    pc, seen,     \* a worker's next step; the takeover flag it has loaded
    result,       \* the decision a worker has in hand
    asked,        \* ghost: calls of the model
    delivered     \* ghost: times Meta accepted the reply

rowVars == <<intent, category, body, bound, audit>>
settingVars == <<text, optedOut, autoReply>>
workerVars == <<pc, seen, result>>
vars == <<takeoverVars, returned, settingVars, rowVars, workerVars,
          asked, delivered>>

IntentState ==
    {"none", "pending", "generating", "sending", "sent", "failed", "unknown", "blocked"}
\* WAIT stands for WAIT, STOP and NO_ACTION.
NonReply == {"ESCALATE", "WAIT"}
Decision == NonReply \cup {"REPLY"}
Steps == {"idle", "received", "create", "claim", "bind", "resume", "asking", "answered",
          "decided", "handover", "dispatch", "sending", "refused", "unsure", "record"}

RowTypeOK ==
    /\ intent \in IntentState
    /\ category \in {"none", "ai_non_reply"}
    /\ body \in BOOLEAN
    /\ bound \in 0 .. MaxVersion
    /\ audit \in Decision \cup {"none", "started"}

WorkerTypeOK ==
    /\ pc \in [Worker -> Steps]
    /\ seen \in [Worker -> BOOLEAN]
    /\ result \in [Worker -> Decision \cup {"none"}]
    /\ returned \in [Worker -> {"no", "done", "dropped"}]

\* Every variable keeps its type; an intent is always created under an
\* ownership version that exists.
TypeOK ==
    /\ TakeoverTypeOK /\ RowTypeOK /\ WorkerTypeOK
    /\ text \in {"question", "injection", "stop"}
    /\ optedOut \in BOOLEAN /\ autoReply \in BOOLEAN
    /\ asked \in Nat /\ delivered \in Nat

Init ==
    /\ TakeoverInit
    /\ text \in {"question", "injection", "stop"}
    /\ returned = [w \in Worker |-> "no"]
    /\ optedOut = FALSE
    /\ autoReply = TRUE
    /\ intent = "none" /\ category = "none" /\ body = FALSE /\ bound = 0
    /\ audit = "none"
    /\ pc = [w \in Worker |-> "idle"]
    /\ seen = [w \in Worker |-> FALSE]
    /\ result = [w \in Worker |-> "none"]
    /\ asked = 0 /\ delivered = 0

-----------------------------------------------------------------------------
Go(w, step) == pc' = [pc EXCEPT ![w] = step] /\ UNCHANGED <<seen, returned>>

EndRun(w) ==
    /\ pc' = [pc EXCEPT ![w] = "idle"]
    /\ seen' = [seen EXCEPT ![w] = FALSE]
    /\ result' = [result EXCEPT ![w] = "none"]
Return(w) == EndRun(w) /\ returned' = [returned EXCEPT ![w] = "done"]
Raise(w) == EndRun(w) /\ UNCHANGED returned

\* An ownership change: taking over blocks a reply not yet claimed for sending.
Take(enabled, worker) ==
    /\ SwitchTakeover(enabled, worker)
    /\ intent' = IF enabled /\ intent \in {"pending", "generating"} THEN "blocked" ELSE intent

\* The worker's own transition, which may find the flag set already.
HandToOperator == Take(TRUE, TRUE) \/ (RepeatTakeover(TRUE) /\ UNCHANGED intent)

-----------------------------------------------------------------------------
(* process_webhook_message up to the intent.                                *)

StartRun(w) ==
    /\ pc[w] = "idle"
    /\ pc' = [pc EXCEPT ![w] = "received"]
    /\ seen' = [seen EXCEPT ![w] = takeover]
    /\ returned' = [returned EXCEPT ![w] = "no"]
    /\ UNCHANGED <<takeoverVars, settingVars, rowVars, result, asked, delivered>>

\* The database fails while the tenant or the lead is looked up, and not found is
\* what the job takes it for: the message is dropped.
DropMessage(w) ==
    /\ pc[w] = "received"
    /\ EndRun(w)
    /\ returned' = [returned EXCEPT ![w] = "dropped"]
    /\ UNCHANGED <<takeoverVars, settingVars, rowVars, asked, delivered>>

\* The message is stored (again, on a retry) and says stop.
RecordOptOut(w) ==
    /\ pc[w] = "received" /\ text = "stop"
    /\ optedOut' = TRUE
    /\ Return(w)
    /\ UNCHANGED <<takeoverVars, text, autoReply, rowVars, asked, delivered>>

\* The control is off, or the usage limit is reached: a human has to answer.
HandOverUnanswered(w) ==
    /\ pc[w] = "received" /\ text # "stop"
    /\ HandToOperator
    /\ Return(w)
    /\ UNCHANGED <<settingVars, category, body, bound, audit, asked, delivered>>

\* The preflight policy refuses (opt-out, or a rule outside this model), or the
\* flag the run has loaded says takeover.
Suppress(w) ==
    /\ pc[w] = "received" /\ text # "stop"
    /\ Return(w)
    /\ UNCHANGED <<takeoverVars, settingVars, rowVars, asked, delivered>>

PassGates(w) ==
    /\ pc[w] = "received" /\ text # "stop"
    /\ autoReply /\ ~optedOut /\ ~seen[w]
    /\ Go(w, "create")
    /\ UNCHANGED <<takeoverVars, settingVars, rowVars, result, asked, delivered>>

\* Slip: the intent is not tied to the ownership version (a NULL column, here -1).
CreateIntentUnversioned(w) ==
    /\ pc[w] = "create"
    /\ intent' = IF intent = "none" THEN "pending" ELSE intent
    /\ bound' = IF intent = "none" THEN -1 ELSE bound
    /\ Go(w, "claim")
    /\ UNCHANGED <<takeoverVars, settingVars, category, body, audit, result,
                   asked, delivered>>

\* create_or_get_intent: one intent, however many runs ask for it.
CreateIntent(w) ==
    /\ pc[w] = "create"
    /\ intent' = IF intent = "none" THEN "pending" ELSE intent
    /\ bound' = IF intent = "none" THEN version ELSE bound
    /\ Go(w, "claim")
    /\ UNCHANGED <<takeoverVars, settingVars, category, body, audit, result,
                   asked, delivered>>

\* claim_for_generation: "generate", "dispatch" or "skip".
ClaimToGenerate(w) ==
    /\ pc[w] = "claim"
    /\ intent = "pending" \/ (intent = "generating" /\ ~body)
    /\ intent' = "generating"
    /\ Go(w, "bind")
    /\ UNCHANGED <<takeoverVars, settingVars, category, body, bound, audit,
                   result, asked, delivered>>

ClaimToDispatch(w) ==
    /\ pc[w] = "claim"
    /\ intent = "generating" /\ body
    /\ Go(w, "dispatch")
    /\ UNCHANGED <<takeoverVars, settingVars, rowVars, result, asked, delivered>>

ClaimSkips(w) ==
    /\ pc[w] = "claim"
    /\ intent \notin {"pending", "generating"}
    /\ Return(w)
    /\ UNCHANGED <<takeoverVars, settingVars, rowVars, asked, delivered>>

-----------------------------------------------------------------------------
(* ai_decision: one audit per intent, bound before the model is asked.      *)

Evaluable == intent = "generating" /\ ~body

\* Slip: a run that finds an audit starts a new one.
BindAnew(w) ==
    /\ pc[w] = "bind" /\ Evaluable
    /\ audit' = "started"
    /\ Go(w, "asking")
    /\ UNCHANGED <<takeoverVars, settingVars, intent, category, body, bound,
                   result, asked, delivered>>

\* _bind_or_resume_audit, under the intent's row lock.
BindAudit(w) ==
    /\ pc[w] = "bind" /\ Evaluable
    /\ IF audit = "none"
       THEN audit' = "started" /\ Go(w, "asking")
       ELSE UNCHANGED audit /\ Go(w, "resume")
    /\ UNCHANGED <<takeoverVars, settingVars, intent, category, body, bound,
                   result, asked, delivered>>

\* An injection is rejected without the model (reject_input); a missing prompt
\* or context, a broken or an unapproved answer escalate; else it is the
\* model's decision.
Decide(w) ==
    /\ pc[w] = "asking"
    /\ \/ /\ result' = [result EXCEPT ![w] = "ESCALATE"]
          /\ UNCHANGED asked
       \/ /\ text = "question"
          /\ \E d \in Decision : result' = [result EXCEPT ![w] = d]
          /\ asked' = asked + 1
    /\ Go(w, "answered")
    /\ UNCHANGED <<takeoverVars, settingVars, rowVars, delivered>>

\* _resume_existing_attempt: a recorded non-reply stands; anything else counts
\* as an interrupted attempt and is escalated.
ResumeAudit(w) ==
    /\ pc[w] = "resume"
    /\ IF audit \in NonReply
       THEN result' = [result EXCEPT ![w] = audit] /\ Go(w, "decided")
       ELSE result' = [result EXCEPT ![w] = "ESCALATE"] /\ Go(w, "answered")
    /\ UNCHANGED <<takeoverVars, settingVars, rowVars, asked, delivered>>

\* _update_audit.
RecordDecision(w) ==
    /\ pc[w] = "answered"
    /\ audit' = result[w]
    /\ Go(w, "decided")
    /\ UNCHANGED <<takeoverVars, settingVars, intent, category, body, bound,
                   result, asked, delivered>>

-----------------------------------------------------------------------------
(* The decision takes effect.                                               *)

CloseWithoutReply(w) ==
    /\ intent' = "blocked"
    /\ category' = "ai_non_reply"
    /\ IF result[w] = "ESCALATE" THEN Go(w, "handover") /\ UNCHANGED result ELSE Return(w)
    /\ UNCHANGED <<takeoverVars, settingVars, body, bound, audit, asked, delivered>>

\* Slip: the intent is closed whatever has become of it.
FinalizeUnchecked(w) ==
    /\ pc[w] = "decided" /\ result[w] \in NonReply
    /\ audit = result[w]
    /\ CloseWithoutReply(w)

\* finalize_non_reply raises unless the intent waits and the audit agrees.
FinalizeNonReply(w) ==
    /\ pc[w] = "decided" /\ result[w] \in NonReply
    /\ Evaluable /\ audit = result[w]
    /\ CloseWithoutReply(w)

Escalate(w) ==
    /\ pc[w] = "handover"
    /\ HandToOperator
    /\ Return(w)
    /\ UNCHANGED <<settingVars, category, body, bound, audit, asked, delivered>>

\* Slip: the text is stored on an intent another run has closed.
QueueReplyUnchecked(w) ==
    /\ pc[w] = "decided" /\ result[w] = "REPLY"
    /\ body' = TRUE
    /\ Go(w, "dispatch")
    /\ UNCHANGED <<takeoverVars, settingVars, intent, category, bound, audit,
                   result, asked, delivered>>

QueueReply(w) ==
    /\ pc[w] = "decided" /\ result[w] = "REPLY"
    /\ intent = "generating"
    /\ body' = TRUE
    /\ Go(w, "dispatch")
    /\ UNCHANGED <<takeoverVars, settingVars, intent, category, bound, audit,
                   result, asked, delivered>>

\* queue_reply raises; the handler records the outcome, and with it the
\* worker's own decision, over whatever the audit says by now.
QueueRefused(w) ==
    /\ pc[w] = "decided" /\ result[w] = "REPLY"
    /\ intent # "generating"
    /\ audit' = "REPLY"
    /\ Raise(w)
    /\ UNCHANGED <<takeoverVars, settingVars, intent, category, body, bound,
                   asked, delivered>>

-----------------------------------------------------------------------------
(* The send (dispatch_intent), with durable_reply_guard.                    *)

\* record_outcome follows where the run has a decision of its own; the run of a
\* text that was there already (process_outbound_intent) has none.
Settle(w) ==
    IF result[w] = "none" THEN Return(w) ELSE Go(w, "record") /\ UNCHANGED result

ClaimSend(w) ==
    /\ pc[w] = "dispatch"
    /\ intent = "generating" /\ body
    /\ intent' = "sending"
    /\ Go(w, "sending")
    /\ UNCHANGED <<takeoverVars, settingVars, category, body, bound, audit,
                   result, asked, delivered>>

\* Another state is only reported; somebody else's claim becomes "unknown".
ReportOnly(w) ==
    /\ pc[w] = "dispatch"
    /\ ~(intent = "generating" /\ body)
    /\ intent' = IF intent = "sending" THEN "unknown" ELSE intent
    /\ Settle(w)
    /\ UNCHANGED <<takeoverVars, settingVars, category, body, bound, audit,
                   asked, delivered>>

\* The conversation, the policy, the pilot gate or the reply guard forbids it.
BlockSend(w) ==
    /\ pc[w] = "sending"
    /\ intent' = "blocked"
    /\ Settle(w)
    /\ UNCHANGED <<takeoverVars, settingVars, category, body, bound, audit,
                   asked, delivered>>

MaySend ==
    /\ autoReply /\ ~takeover /\ ~optedOut
    /\ bound = version
    /\ audit = "REPLY"

SendReply(w) ==
    /\ pc[w] = "sending" /\ MaySend
    /\ delivered' = delivered + 1
    /\ intent' = "sent"
    /\ Settle(w)
    /\ UNCHANGED <<takeoverVars, settingVars, category, body, bound, audit, asked>>

\* The call or the commit fails: Meta may have the message, and the commit may
\* have happened.
LoseAnswer(w) ==
    /\ pc[w] = "sending" /\ MaySend
    /\ \/ UNCHANGED <<delivered, intent>>
       \/ delivered' = delivered + 1 /\ intent' \in {intent, "sent"}
    /\ Go(w, "unsure")
    /\ UNCHANGED <<takeoverVars, settingVars, category, body, bound, audit,
                   result, asked>>

\* Meta certainly refused, or was not called.
FailSend(w) ==
    /\ pc[w] = "sending"
    /\ Go(w, "refused")
    /\ UNCHANGED <<takeoverVars, settingVars, rowVars, result, asked, delivered>>

\* _record_send_failure; a run with a decision of its own also records the
\* outcome (record_outcome), before the exception ends it.
RecordFailure(w) ==
    /\ pc[w] \in {"refused", "unsure"}
    /\ intent' = IF pc[w] = "unsure" THEN "unknown" ELSE "failed"
    /\ audit' = IF result[w] = "none" THEN audit ELSE result[w]
    /\ Raise(w)
    /\ UNCHANGED <<takeoverVars, settingVars, category, body, bound, asked,
                   delivered>>

RecordOutcome(w) ==
    /\ pc[w] = "record"
    /\ audit' = result[w]
    /\ Return(w)
    /\ UNCHANGED <<takeoverVars, settingVars, intent, category, body, bound,
                   asked, delivered>>

\* The process dies, or a transaction raises: also finalize_non_reply and
\* _bind_or_resume_audit where the rows are not as they expect.
Crash(w) ==
    /\ pc[w] # "idle"
    /\ Raise(w)
    /\ UNCHANGED <<takeoverVars, settingVars, rowVars, asked, delivered>>

\* replay_outbound_intent and its job.
ReplayIntent(w) ==
    /\ pc[w] = "idle"
    /\ intent = "failed" /\ body
    /\ intent' = "generating"
    /\ Go(w, "dispatch")
    /\ UNCHANGED <<takeoverVars, settingVars, category, body, bound, audit, result,
                   asked, delivered>>

-----------------------------------------------------------------------------
(* What else happens to the conversation: operators, the lead's other       *)
(* messages, the tenant's control.                                          *)

ChangeOwner(enabled) ==
    /\ Take(enabled, FALSE)
    /\ UNCHANGED <<returned, settingVars, category, body, bound, audit,
                   workerVars, asked, delivered>>

RewriteOwner ==
    /\ \/ RepeatTakeover(FALSE)
       \/ \E enabled \in BOOLEAN : MirrorTakeover(enabled)
       \/ \E v \in 1 .. MaxVersion, resolve \in BOOLEAN : UpdateTask(v, resolve)
    /\ UNCHANGED <<returned, settingVars, rowVars, workerVars, asked, delivered>>

OptOut ==
    /\ optedOut' = TRUE
    /\ UNCHANGED <<takeoverVars, returned, text, autoReply, rowVars, workerVars,
                   asked, delivered>>

SetAutoReply ==
    /\ autoReply' = ~autoReply
    /\ UNCHANGED <<takeoverVars, returned, text, optedOut, rowVars, workerVars,
                   asked, delivered>>

-----------------------------------------------------------------------------
Receive(w) ==
    \/ StartRun(w) \/ DropMessage(w) \/ RecordOptOut(w) \/ HandOverUnanswered(w)
    \/ Suppress(w) \/ PassGates(w)
    \/ CreateIntent(w) \/ ClaimToGenerate(w) \/ ClaimToDispatch(w) \/ ClaimSkips(w)

Reason(w) ==
    \/ BindAudit(w) \/ Decide(w) \/ ResumeAudit(w) \/ RecordDecision(w)
    \/ FinalizeNonReply(w) \/ Escalate(w) \/ QueueReply(w) \/ QueueRefused(w)

Dispatch(w) ==
    \/ ClaimSend(w) \/ ReportOnly(w) \/ BlockSend(w) \/ SendReply(w) \/ LoseAnswer(w)
    \/ FailSend(w) \/ RecordFailure(w) \/ RecordOutcome(w) \/ ReplayIntent(w)

Next ==
    \/ \E w \in Worker : Receive(w) \/ Reason(w) \/ Dispatch(w) \/ Crash(w)
    \/ \E enabled \in BOOLEAN : ChangeOwner(enabled)
    \/ RewriteOwner \/ OptOut \/ SetAutoReply

Spec == Init /\ [][Next]_vars

-----------------------------------------------------------------------------
Abstraction ==
    IF intent = "blocked" THEN "closed"
    ELSE IF intent \in {"sending", "unknown", "sent"} THEN "claimed" ELSE "open"

AtMostOnce == INSTANCE AtMostOnceSend
    WITH Msg <- {"reply"},
         status <- [m \in {"reply"} |-> Abstraction],
         deliveries <- [m \in {"reply"} |-> delivered]

-----------------------------------------------------------------------------
(* Properties.                                                              *)

\* However many runs the event's job has, each able to die or to find another
\* one's work, the pipeline delivers its reply under a claim and at most once,
\* and never closes (as a decision not to reply) what has been delivered.
ImplementsAtMostOnce == AtMostOnce!Spec

\* The model is asked at most once for an inbound message: a later run resumes
\* the bound audit ("Bind one audit to the intent before any model call").
ModelAskedOnce == asked <= 1

\* A run that resumes an interrupted attempt races with the run that is still
\* waiting for the model; the intent goes one way: closed without reply, no text
\* is ever stored for it and nothing delivered.
ConcludedOneWay ==
    category = "ai_non_reply" => intent = "blocked" /\ ~body /\ delivered = 0

=============================================================================
