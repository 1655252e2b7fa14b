# Verification of the WhatsApp lead-generation backend

TLA+ models, TLC model-checking runs and TLAPS proofs for the parts of this
backend where concurrency, crashes and a provider that may not answer meet
durable state. Paths below are relative to the repository (`app/...` is
`src/app/...` in `PROJECT.json`).

## The system

A FastAPI web process and an RQ worker share PostgreSQL, Redis and the APIs of
Meta (WhatsApp), Resend (email), Razorpay and Airtable.

| Component | State it keeps | Operations | Hard behaviour |
|---|---|---|---|
| Outbox `app/services/whatsapp_outbox.py` | intents, timeline messages | create, claim for generation, dispatch in two transactions, record failure, replay, provider status | crash or timeout around the provider call, two workers on one intent |
| Ownership `app/services/whatsapp_inbox.py`, `app/store/db_client.py` | takeover flag and version, tasks, operator actions | takeover, release, tasks, manual message | races with a dispatch; the flag's second, unversioned write |
| Webhook queue `app/services/whatsapp_queue.py` | receipts, RQ jobs | enqueue, process, retry, pause | an event delivered twice, Redis failing half way, late marks |
| Dead letters `app/services/whatsapp_dead_letters.py` | replay audit | list, replay | replays that race or die |
| Sequences `app/services/whatsapp_sequences.py` | sequences, enrollments, executions | activate, pause, enroll, cancel, tick | overlapping ticks, operators during a send, claims left behind |
| AI decisions `app/services/ai_decision.py`, `app/services/jobs.py` | decision audits, messages | evaluate, queue reply, escalate, guard | a resumed audit, a retried job |
| Contact policy `app/services/whatsapp_policy.py` | consent, opt-outs, decisions, templates | evaluate, record opt-out, immediate send | opt-out during a send, caps |
| Controls and pilot `app/services/whatsapp_operations.py`, `whatsapp_pilot.py` | versioned switches, audits, stages | mutate, batch, stage gate | stale versions, rows that do not exist yet |
| Email `app/email/*` | campaigns, enrollments, attempts, suppression | tick, send, inbound, webhooks | advance after the send, duplicate inbound events |
| Store, dual write `app/store/*` | the CRM copy | mirrored writes | one of two stores failing |
| Dashboard events, usage, billing, ingestion, alerts, analytics | queues, counters, documents | | display, quotas, text processing |

How they interact: Meta posts a webhook, the router saves a receipt and enqueues
an RQ job; the worker's job stores the message, asks policy and controls,
creates an intent, has the reply generated and dispatches it. Operators take a
conversation over, write manually (through the same dispatch), replay dead
letters and steer sequences. A tick of the sequence scheduler is another RQ job
that sends templates through the policy's immediate send. All senders meet at
the row locks of the client and the lead.

What makes each part correct:

* outbox: a message reaches Meta at most once; only when the conversation still
  allows it; the three records an operator reads agree;
* ownership: a reply written under one ownership is not sent under another; one
  task waits at most;
* queue: an acknowledged event is executed or listed; its evidence and the audit
  of its replays stay true;
* sequences: each step at most once, in order, never against a stop, and every
  enrollment comes to an end;
* controls: a switch that has been turned off stops sends from then on, and every
  change is audited once;
* policy: what was decided holds during the call, caps count what was sent;
* campaigns: steps in turn, none sent again that is known to be sent, none left
  behind, the plan's limit;
* email: one reply, nobody barred is written to, no bounce is lost;
* stores: a message that was answered is kept, copies agree.

## Modules

| Module | Models |
|---|---|
| `AtMostOnceSend` | the promise: a claim before a delivery, one delivery, no claim given back after it |
| `Takeover` | ownership of a conversation: flag, version, tasks, pending second writes |
| `WhatsAppOutbox` | extends `Takeover`: intents and dispatch, implements `AtMostOnceSend` |
| `WhatsAppOutboxProofs` | the theorems about it |
| `WhatsAppQueue` | one event: receipt, RQ jobs, deliveries, workers, replays |
| `WhatsAppSequences` | drafts, enrollments, executions and ticks, implements `AtMostOnceSend` |
| `ReplyPipeline` | extends `Takeover`: the runs of one inbound message's job, its decision audit and its reply, implements `AtMostOnceSend` |
| `WhatsAppInbound` | composes `ReplyPipeline` and `WhatsAppQueue`: each run of the business is a job of the queue |
| `WhatsAppInboundProofs` | the theorems about the pipeline, the queue and the two together |
| `Workers` | the worker processes these two share |
| `ContactPolicy` | consents, opt-outs, template registry, caps and the immediate send of one tenant |
| `OperationalControls` | switches, their versions and audits, the pilot's stages, and senders that read them |
| `EmailCampaigns` | enrollments of email campaigns, overlapping ticks, operators and customers |
| `EmailChannel` | inbound mail, replies, a colleague's mail, delivery events, the do-not-email list |
| `LeadStore` | one contact in Airtable and Postgres, and the delivery status of a sent message |
| `ContactPolicyProofs`, `OperationalControlsProofs`, `WhatsAppSequencesProofs`, `EmailCampaignsProofs`, `EmailChannelProofs`, `LeadStoreProofs` | the theorems about the module of that name |
| `MC...` | symmetry for TLC, one for each module above that is checked |

### WhatsAppOutbox

One lead. A worker's `pc` follows `dispatch_intent`: `ClaimSend` and
`ReportOnly` are its first transaction; `BlockSend`, or `StartCall` to
`CommitSent`, its second, which holds the intent, client and lead rows
(`holder`) while Meta is called; `RecordSendFailure` the handler's own
transaction. `MustBlock` has the checks made on modelled state: AI control,
takeover, version, opt-out. Quiet hours, caps, consent, templates, the pilot gate
and the reply guard can block at any time, so `BlockSend` needs no reason.
`CommitUnacknowledged` commits the outcome and loses the acknowledgement.
`Crash` may strike at every step. Names beginning with a comment "Slip" are
mutated forms of the definition that follows them; they show that the properties
notice, and are not used by the specifications.

The takeover flag is written a second time outside the versioned transition
(`mirror`): by the inbound job in every storage mode, by the routes only when the
CRM is not Postgres-only (`DualStore`). Workers take over and never give back; only
an operator's request does both.

### WhatsAppQueue

One receipt. A delivery's handler (`web`) goes through the transactions of
`enqueue_event`; `loaded` and `sawLetter` are what its session has loaded,
because SQLAlchemy writes only columns that differ from it; building the envelope
loads the row again after the first commit (`Reload`). Of two deliveries that both
found no row, the second fails at its flush and is rejected (`RejectConcurrent`),
so Meta announces the event again. `entries`, `left` and
`known` are RQ's side: how often a job waits, the retries it has saved, and what
`fetch_job` finds. A worker's run is `StartJob` and one of `Succeed`,
`FailRetryable`, `FailPermanently`, `WorkerCrash`. An operator's request is the
three steps of `_replay_one`. RQ is not part of the repository: it is modelled
from how the code uses it. Two simplifications: `_mark_state` reads and writes
in one step (so two simultaneous runs cannot lose an update of `attempt_count`),
and reading the receipt for a replay and asking Redis for its job are one step.
A replay refused for its evidence, tenant or policy changes nothing and is left
out.

### WhatsAppSequences

One sequence of one tenant, with up to `Steps` steps while it is a draft
(`EditDraft`). `Claim` is `_claim_due_enrollment`;
`PostponeStep`, `DropStep`, `PrepareStep` the first transaction of
`_process_claim`; `PolicyBlocks`, `GuardBlocks`, `StartCall` to `CommitSend` the
immediate send with its final guard; the `Record...` actions the outcome
transaction. Time is `next`: never, later, due. The reasons that stop an
enrollment for the lead's sake (takeover, opt-out, reply, stage) are one flag,
`held`. Several workers are ticks that overlap once the scheduler's Redis lock
has expired. Left out: templates that disappear (the schema restricts it), the
tick's limit of 50, the scheduler lock and the chain of ticks.

### ReplyPipeline

One inbound text message. `StartRun` begins a run of `process_webhook_message`
whenever a worker is idle, any number of times: retries, postponed copies,
replays and ambiguous enqueues, which `WhatsAppQueue` models, all appear as one
more run, possibly beside another. `returned` is how a worker's last run ended:
done, with the message dropped, or by raising ("no"). One action per
transaction: the lookups (`DropMessage` when they fail), the gates (`RecordOptOut`, `HandOverUnanswered`, `Suppress`, `PassGates`), the intent
(`CreateIntent`, the three answers of `claim_for_generation`), the audit
(`BindAudit`, `ResumeAudit`, `Decide`, `RecordDecision`), the conclusion
(`FinalizeNonReply` and `Escalate`, or `QueueReply`) and the send. `audit` is the
audit's decision ("started" until one is recorded); its outcome column, digest
and registry are left out, since the digest is there exactly when the decision is
REPLY. The send is one step here (it holds the rows of intent, lead and audit
from its checks to its commit); `WhatsAppOutbox` takes it apart. The gates are
one step: what they read can change afterwards, which is what matters for the
send. WAIT, STOP and NO_ACTION do the same and are one decision. A run that
raises, or whose process dies, is `Crash`.

### WhatsAppInbound

`process_webhook_event` around `process_webhook_message`, for one message.
`TakeJob` takes a job out of Redis, marks the receipt and starts the run;
`Proceed` is a transaction of it; `Conclude` marks the receipt by what became of
it (`returned`), in a transaction of its own; `Die` is the process dying, in the
run or before the mark. `PassOver` is a job that is postponed or fails before it is
marked. Everything else belongs to one side (`AroundQueue`,
`AroundConversation`). A worker may also run the job of an operator who replays a
failed reply, which has no receipt. The two modules share the set `Worker` and no
variable, so the composition adds only which steps go together. It is where a
statement about a receipt and a conversation can be made: `StopIsInForce`,
`EscalationHasTask`.

### ContactPolicy

One tenant. `StartSend` is `_send_immediate` up to the call: tenant and
recipient locked (`TenantFree`, `LeadFree`), template verified with Meta
(`Verified`), decision made (`Allowed`). While a sender is "calling" it holds the
tenant's row; `Accept` commits its decision, `RollBack` loses it with the locks
and `PersistDecision` writes it again in a transaction of its own, as the
exception handler does. The verification of a template, and with it the first pin
of its identity, is part of the send's transaction. `meta` is the identity of the
template Meta has under the name; a paused or rejected one answers like a
verification that fails. `sentAs` has the identity of every template the provider
took, also when the transaction was rolled back or lost after it. `allowed` and `window` are the counts the two caps read
from the decisions' rows; a job remembers whether its decision is of today and
within the window. In dual mode the store's own copy of the takeover flag is read
as well; it may say anything, since another process writes it. `Clock` is quiet
hours and the customer's session window. Left out: several templates, the text of
a decision, and the preflight checks, which decide nothing that is kept.

### OperationalControls

A row per switch with its version, the audit, and two ways in: a request carries
the versions its operator saw (`Bodies`). A pilot request is checked in one
transaction (`CheckPilot`) and carried out in another (`Mutate`), which is how
`transition_stage` and `set_enabled` work; then the workers' switch is synced to
Redis. Requests may be sent again by operators who had no answer. A row that does
not exist cannot be locked: `LocksFree` lets the first change of the global
switch pass a sender's call. A sender is `final_send_gate_locked` with the
switches above it, then the provider call under the locks. The reply's failure is
recorded after them (`RecordFailure`), and `failures` counts those recorded since
the pilot was last started. `Readiness` (approval, consents, templates, sequence)
and the other stop thresholds may be anything at any time. Left out: the daily
cap, the environment's ceilings, other tenants, the switches of single sequences
and templates (modelled where they are read: `WhatsAppSequences`).

### EmailCampaigns

A worker is the tick of one web process (each runs its own scheduler). `Pick`
locks the row (`with_for_update(skip_locked=True)`), `ClaimDeliveryAttempt`
commits the attempt and the date that keeps others away, `LoadForCall` reads the
rows again, `ProviderAccepts`, `ProviderRemembers` or `ProviderRefuses` is
Resend, `LogUsage` the usage's own commit, `RecordSent` or `RecordFailure` the end. SQLAlchemy writes only the columns that differ from what
was loaded: `Flush`. That is what saves an enrollment paused during a send, as
`WorkersDoNotRevive` and its mutant show. A date is never, due, later or "the hour
of worker w", which outlasts the worker's send (Resend's timeout is far below
an hour). Draft and archived campaigns are "paused" too.

Resend is external. While it knows an idempotency key it answers as the first time,
or with an error, because a retry's unsubscribe token, and so the mail, differs
(`email_campaigns.py:756`, `email_templates.py:48`); it forgets keys, so it may take
a step again (`ProviderAccepts` has no such guard). `mail` says of an attempt
whether Resend ever took it, and whether somebody got to know.

`used` is the tenant's `email_sent` usage of the month, with all its writers: the
ticks; the threads that serve the route sending an email by hand, which ask for the
limit, send, commit and count one after the other (`RequestEmail`, `CommitEmail`,
`CountEmail`); and the AI's replies to inbound mail, which never ask
(`CountReply`). Each counts in a commit of its own, which may fail unnoticed.

Left out: texts, the analytics report, enrollments that resume after
a reply was dealt with, the daily counter of a process (a refusal), and what else
postpones a send: a suspended subscription or a mailbox that is not set up (such an
enrollment waits until they are put right), and `check_limit` taking a usage it
cannot read for zero.

### EmailChannel

`Server`s take the provider's notices: the webhook route is asynchronous and calls
blocking code on its event loop, so one process takes one at a time. `Thread`s run
the other requests. Each handler reads in one step (`Read`) and commits in a later
one, again through `Flush`. A notice stays outstanding until it is answered.
`StatusAfter`, `SuppressionAfter` and `StatusOf` are the three rules that decide
what a late or repeated event leaves; two handlers that both insert the row of an
address collide on its unique key (`Conflict`). The provider's behaviour is
external: which events may follow each other (`MayEmit`) and that unanswered
ones come again (`Redeliver`). Links do not expire in the model. Left out:
signatures, the body's parsing, drafts, tenants that share an address.

### LeadStore

`MIGRATION_MODE=dual`: every call of Airtable and every transaction of Postgres is
a step. `StartJob` to `GoOn` is the head of `process_webhook_message`, whose
reply is `ReplyPipeline`'s; `StartSwitch` the takeover flag after its transition;
`StartUpdate` the extracted name, for which the score stands as well;
`ReportArrives` to `ShowStatus` a delivery report from receipt to timeline. A
failed call is swallowed where the clients swallow it: the next step is taken as
if it had succeeded.

## Runs

| Run | Question | Bounds |
|---|---|---|
| `outbox` | at most one acceptance, sends respect the conversation, records agree, one task, refinement | 1 AI reply, 1 manual message, 2 workers, 2 attempts, 2 ownership changes; 0.7 million states |
| `queue` | evidence, truthful replay audit | 1 delivery, 2 replay requests, 2 workers, 2 retries, crashes |
| `queue_live` | an acknowledged event is executed or listed, whichever delivery was acknowledged | 2 deliveries, 1 worker, no crash |
| `sequences` | order, stops, refinement | 1 enrollment, up to 3 steps, 2 ticks, the real threshold of 3, crashes and waits |
| `sequences_live` | every active enrollment settles | 2 enrollments, 1 step, threshold 2, no crash, no temporary block |
| `reply` | model asked once, one conclusion, refinement | 1 message (question, injection or stop), any number of runs, 2 workers, 2 ownership changes; 0.2 million states |
| `email_campaigns` | no repeat unless an acceptance was lost, steps in turn, the limit, no revival, every enrollment gets on | 1 campaign of up to 3 steps, 1 lead, 2 workers, 1 thread, 2 runs, limit 1, 2 faults, emails by hand, replies or changes under way; 0.3 million states |
| `email` | one reply, nothing to barred addresses, list and status agree, events are not lost | 1 lead, 2 addresses, 2 servers, 1 request, 2 outbound and 1 inbound mail, 2 events, 1 fault; 1.4 million states |
| `policy` | a call is permitted, caps, one template identity | 2 phones (one the operator's), 2 senders, 2 Meta identities that replace each other at any time, cap 2, 1 fault; 0.7 million states |
| `controls` | audits, switches, caps, suspension, stages | 3 requests, 2 web requests at once, 2 senders, total cap 2, 2 failures stop, 2 faults |
| `store` | messages kept, copies agree, status shown | 2 handlers, 2 inbound and 1 sent message, 2 records, 2 writes, 1 fault; 1.5 million states |
| `reply_escalation` | a statement of the source that the code does not keep (below) | queue and pipeline: 1 delivery, 1 worker, 1 retry, 1 ownership change |

The type invariants of the five modules below `reply` are conjuncts of one of
their properties (`RepeatedOnlyWhenLost`, `OneReply`, `CallIsPermitted`,
`VersionsAudited`, `MessageKept`).

### What the newer properties say

* `RepeatedOnlyWhenLost`, `StepsInTurn`: overlapping ticks and stale rows alone send
  no step twice: the provider is asked again only while nobody has recorded, or
  may still record, that it took the step, and a step is left behind only when
  it was sent. A repeat that the code does allow needs an acceptance that was
  lost: a timeout, a crash, or an error before the last commit. The exception is an operator who resumes or restarts an enrollment
  during its send (`raced`): he gives it a date while a worker is on it.
* `LimitOverrun`: read before, counted after; each other process or thread may add
  one, also where a send is counted twice (its usage was committed, its record
  was not), because a repeated send asks for the limit again. Replies to inbound
  mail add as many as there are.
* `EnrollmentSettles`: no active enrollment is left on its step.
* `OneReply`, `AnsweredSuppresses`: an inbound mail announced twice is answered
  once unless two servers had it at once (`overlapped`); a bounce that was answered
  is on the list, even when it came before the mail's own row.
* `StatusAgrees`, `SuppressionSticks`: whatever the order of events, unless a
  status was written from a read that had become old (`crossed`).
* `NothingToBarred`: what is known when a send begins binds it, although
  nothing is read again, unless a takeover is given back meanwhile.
* `CallIsPermitted`: consent, opt-out, takeover and policy cannot change between
  the decision and the provider's answer.
* `CapHolds`: the daily cap is passed only by messages whose decision was rolled
  back after the provider had taken them.
* `OneTemplateIdentity`: the pinned identity outlives approvals and retirements, and
  everything the provider took has it. Except what it took before a pin was ever
  committed: a send that makes the first pin and is rolled back, or dies, after the
  acceptance takes the pin along (the second component of `sentAs`).
* `NoCallWhenOff`: switching off waits for a call, except at the first change of a
  switch that has no row yet.
* `VersionsAudited`, `OneStageAtATime`, `PilotCap`, `SuspensionFollows`: the
  optimistic versions carry what the first transaction saw into the second; a
  failure recorded late lets the threshold be passed by the other senders only.
* `MessageKept`: what was answered or logged is in Postgres, once.
* `CopiesAgree`: between writes, unless one failed or two overlapped
  (`contested`) or the contact has two records.
* `StatusShown`: the timeline shows the intent's status, because only one report
  of a message gets through. Where the receipt could not be enqueued (`resent`) it
  need not.

The exceptions are named because they happen: without `raced`, `overlapped`,
`crossed`, `contested`, `resent`, `torn`, `overtaken` or `created` the properties
are violated by the code, in the ways their comments tell.

### Bounds

Two workers, senders or handlers are enough for every race on one row, because
the state between them is one row and one lock holder; two ownership changes are
a takeover and a release, the shortest way back to a flag of the same value;
two attempts cover a replay; runs of a message are not bounded, since nothing
counts them. One enrollment has all the races of overlapping
ticks, since ticks on different enrollments share only the lock of the send; the
live run has two of them. Two retries distinguish a first, a middle and a last
run. In the campaigns two runs are a restart, three steps let a resume during a
send take the enrollment back to a step that was sent (`AlreadySent`). Two addresses are a change of one. With three requests every pair of
changes races while a third happened before; that is too few for failures of an
earlier start of the pilot to be forgotten at a later one, or for a switch-off
under a call in stage 3, which need more and take TLC too long. What the bounds
cap is named: `MaxVersion`, `MaxAttempts`
(a claim or replay beyond it is not explored), `MaxExecutions` (the ghost `runs` stops counting), `MaxRuns` (no further restart of
a campaign's enrollment), `MaxRetries`, `Steps`, `MaxSteps`, `Threshold`, `MaxEvents`,
`MaxRecords`, `MaxWrites`, `MaxFaults` (crashes, failed calls, lost answers and
whatever else the module's comment lists; in the campaigns also what operators
and customers change once a campaign runs). `CHECK_DEADLOCK FALSE` stands
in the configurations whose deliveries, requests, mails, writes or days are
finite, and which therefore end.

Symmetry is over workers, senders, servers, addresses, phones or requests whose
names no definition tells apart; never in a run with a liveness property.

`DualStore` is FALSE in the `outbox` run. With a second store an old value of the
flag can be written after a later transition, and `OneWaitingTask` is stated for
a single store only; the other theorems hold for both values. `LeadStore` has that
second store.

### Fairness

`queue_live` assumes that a web process that has begun a request goes
on, and that a worker takes what waits in Redis (RQ polls, and
`worker.py` runs it with its scheduler). `sequences_live` assumes that ticks
follow each other (a tick that does not raise enqueues the next) and that time
passes. Crashes are excluded there, because nothing in the code recovers from
one. `email_campaigns` assumes that a tick of some process gets to each
due enrollment (`main.py` starts the tick every five minutes), that dates and
new months come, that a live worker goes on, and that the provider, asked again
every hour, takes the step some time (`SF` on `ProviderAccepts`: keys are not
remembered for ever, and refusals are among the faults); crashes, failures and refusals are included, as
many as `MaxFaults` allows, because the claim's date runs out by itself.

## What the code does not keep

Checked by a run:

* `reply_escalation`: an escalated message is closed before the conversation is
  taken over. A run that dies or fails in between is retried, finds the intent
  blocked and returns: its receipt says processed, nothing waits in Redis, and no
  operator has a task for it.

Met while modelling, present in the models, and not stated by a run:

* `PermanentWebhookError` is documented as never retried automatically
  (`app/services/whatsapp_queue.py:32`); RQ retries the job as for any exception.
* A run that dies on its last retry leaves the receipt "processing", a late mark
  (`whatsapp_queue.py:129`) leaves it "queued"; neither is listed for replay,
  which lines 48-49 promise of failed and exhausted work.
* A job whose tenant or lead cannot be looked up because the database fails takes
  it for not found (`app/services/tenant.py:197-201`, `app/store/db_client.py:209-211`),
  drops the message and returns (`app/services/jobs.py:50-66`, `:105-125`). Its
  receipt says processed, so it is neither retried nor listed, against lines 48-49;
  a STOP is lost with it (`DropMessage`, the exception in `StopIsInForce`).
* Of two concurrent first deliveries of an event the second is answered 503, not
  acknowledged: `session.flush()` (`whatsapp_queue.py:84`) raises the violation of
  the unique key before the `try` whose handler is there to "Reconcile it rather than
  rejecting a valid duplicate webhook" (`:94-95`), and the route rejects whatever is
  raised (`app/api/routers/whatsapp.py:271-275`). The test of that handler
  (`tests/unit/test_whatsapp_queue.py:98`) has the commit raise. Meta announces the
  event again, so nothing is lost (`RejectConcurrent`).
* `attempt_count` (`whatsapp_queue.py:373-375`) is not the number of executions: a
  postponed copy of a job and a replay start with all their retries. The replay
  key is built from it.
* A sequence claim that a temporary policy block leaves behind belongs to no worker
  (`app/services/whatsapp_sequences.py:417-419`). The step is never tried again
  and ends each tick before the enrollments due after it.
* The failures that stop the pilot are counted from its last start, and a start is
  refused while they are over the threshold: a pilot stopped by failed replies
  stays stopped (`app/services/whatsapp_pilot.py:410`, `:639`), unless enough of
  the failed intents are replayed, which takes them out of the count (in the model
  they stay in it).
  A failed sequence step has no intent and is not counted.
* A pilot that is resumed is checked for stage 1 in one transaction and enabled in
  the next (`whatsapp_pilot.py:628`); a stage change in between is not noticed, as
  the two have versions of their own.
* A batch of switches is taken for a repeat by its correlation id alone
  (`app/services/whatsapp_operations.py:448-459`): under an id used before, other
  contents are answered with the present state and change nothing, where a single
  switch is refused (`:270-277`). In the model an id has one content.
* The first pin of a template's identity is made by the send that needs it
  (`whatsapp_policy.py:1057`) and rolled back with it when the commit after the
  acceptance fails. A template made again at Meta is then pinned, and a second
  identity was sent under the registration (the exception in
  `OneTemplateIdentity`).
* A campaign email whose answer was lost is asked for again every hour under the
  same key with another unsubscribe token (`app/email/email_campaigns.py:756`). A
  provider that compares the two refuses until it forgets the key, and then takes
  the step a second time (`RepeatedOnlyWhenLost` says that nothing else repeats one).
* Usage is committed apart from the record of the send (`email_campaigns.py:852`,
  `:859`): a failure between the two counts the email, and its repeat counts it
  again. Replies to inbound mail count towards the limit and never ask for it
  (`app/email/email_inbound.py:571`).
* A finished email enrollment is restarted without the check for another active
  campaign (`app/email/email_campaigns.py:360`).
* An enrollment that was paused and resumed while a step was being sent has two
  senders. If it is also restarted before the second one ends, that one writes its
  own position and "no date" over the new run: the enrollment is active, and no tick
  ever picks it (`EnrollmentSettles` without `raced`).
* In dual mode: `get_lead` failing makes a second Airtable record of a contact;
  `add_lead` failing drops the message and leaves the Postgres row; a
  failed search in `append_message` is taken for a duplicate and the message is
  not answered; a failed write of the log is reported as done; concurrent
  appends lose an entry of a log that `docs/schema.md:39` calls append-only; a
  contact without its Postgres row makes `persist_inbound_message_required` raise
  for ever; `DatabaseClient` swallows what `dual_write_failures` should record.
* A second delivery report of a message is a duplicate of the first by its key, so
  "delivered" and "read" after "sent" are not taken, unless the first was not
  enqueued.
* An email delay handled after a bounce replaces the failure that is shown.

## Theorems

`WhatsAppOutboxProofs` proves, for all sets of intents and workers and all bounds:

* `TypeCorrect`: `Spec => []TypeOK`;
* `DeliveredOnce`: `Spec => []AtMostOneAcceptance`;
* `ConversationRespected`: `Spec => SendRespectsConversation`;
* `OutboxImplementsAtMostOnce`: `Spec => ImplementsAtMostOnce`;
* `RecordsAgree`: `Spec => []TimelineAgrees`;
* `OneTaskWaits`: `Spec => []OneWaitingTask`.

The assumptions are those of the modules: `TakeoverAssumption`,
`OutboxAssumption`. The argument is one inductive invariant, `OutboxInv`:

* `JobInv`: a worker that is not idle has an intent;
* `LockInv`: the worker whose second transaction is open is the lock holder, so
  there is at most one;
* `ClaimInv`: the claim of a worker past it is still in the row, as sending, or as
  unknown when another worker doubted it (sent after an unacknowledged commit);
* `OwnerInv`: at most one worker is past the claim of an intent. The state is
  not enough for this: another worker may have set it to unknown meanwhile;
* `FreshInv`, `DeliveredInv`: nothing was delivered before the call, and what was
  delivered is under a claim that is never given back as failed: the worker that
  could do so knows that the outcome is open;
* `GuardInv`: while the locks are held, what the guard saw still holds.

`AtMostOneAcceptance` alone is not inductive: nothing in it keeps a second worker
away from the call. The step of each action is proved for each conjunct it can
disturb.

The last two theorems need the types and `JobInv` only. `TimelineInv` adds to
`TimelineAgrees` that a timeline row exists only once the text does, and that who is
on the way to a send has the text: otherwise a failure could be recorded on the
intent and find no row to follow it. `TaskInv` says for a single store that a
mirror still to be written holds TRUE, and that a task waits only at the current
version, during a takeover. The first half is what makes the second inductive: a
late mirror of FALSE would end a takeover with its task still waiting. No worker
leaves one, because workers only take over; `OneTaskWaits` therefore holds for any
number of ownership changes, of which the run has two.

`WhatsAppInboundProofs` proves of `ReplyPipeline`, for any number of workers, runs
and ownership changes, from `TakeoverAssumption`:

* `PipelineTypeCorrect`: `Spec => []TypeOK`;
* `AskedOnce`: `Spec => []ModelAskedOnce`;
* `OneConclusion`: `Spec => []ConcludedOneWay`;
* `PipelineImplementsAtMostOnce`: `Spec => ImplementsAtMostOnce`.

A run that resumes an attempt cannot know whether the run before it is dead or
still waiting for the model, so none of these follows from what one run does. The
inductive invariant `PipelineInv` is about the order of three commits under the
intent's row lock:

* `AskInv`: the run that may ask has bound the audit, is the only such run, and
  nobody has asked yet. `ModelAskedOnce` alone is not inductive, since a second
  run waiting for the model would break it;
* `ResultInv`: a run about to record a decision has one, so a bound audit is
  never unbound;
* `TextInv`: every step of a send, and every state past the claim, belongs to an
  intent with a text, so an intent closed without reply, which has none, was not
  sent and cannot be claimed or replayed.

For the refinement `OwnerInv` adds that a claim has one owner, that the intent stays
claimed as long as it has, and that an owner still able to give it back has not
delivered. `MappedSteps` lifts what a step does to the one reply (`MappedStep`) to
the actions of `AtMostOnceSend`.

Of `WhatsAppQueue`, from `QueueAssumption`, for any number of deliveries, requests
and retries, with and without crashes:

* `QueueTyped`: `QueueSpec => []QueueTypeOK`;
* `ReplaysAreAudited`: `QueueSpec => []ReplaysAudited`;
* `EvidenceStays`: `QueueSpec => EvidenceRemains`.

`ReplayInv` follows a replay through its transactions: a request past the first has
its action row, one about to record success has a job that was handed over, and a
job that `fetch_job` finds was handed over by someone. Without the last, a request
that takes a job it finds as its own could record a success nobody had.

Of `WhatsAppInbound`, from both assumptions:

* `InboundRunsThePipeline`: `InboundSpec => Spec`;
* `InboundImplementsQueue`: `InboundSpec => QueueSpec`;
* `InboundKeepsPromises`: the three results above on the reply and the two on the
  evidence, of `InboundSpec`;
* `StopTakesEffect`: `InboundSpec => []StopIsInForce`.

Each step of the composition is a step of the one module and a step or a stutter of
the other (`InboundSteps`), so the pipeline, which assumes nothing of the queue but
that a worker that starts a run is free, is checked alone and holds inside it.
`StopTakesEffect` is the first that belongs to neither. A receipt is processed by a
worker that knows only that its run has returned, so `StopInv` says of a STOP that its
runs get no further than their first transaction and return from it only with the
opt-out recorded (`StopRun`), that no step takes the opt-out back
(`StopKeptByRuns`), and that a dropped message is remembered until the job is taken
again, which takes "processed" off the receipt (`DropsStay`). No run has room
for a property of the composition that holds; `ReplyEscalation.cfg` with
`StopIsInForce` as its invariant checks it, on 0.8 million states.

`ContactPolicyProofs` proves, from `PolicyAssumption`, for any number of senders
and any cap:

* `CallsArePermitted`: `Spec => []CallIsPermitted`;
* `DailyCapHolds`: `Spec => []CapHolds`;
* `TemplateKeepsIdentity`: `Spec => []OneTemplateIdentity`.

A sender decides and calls the provider in one transaction, under the policy locks;
only a decision that was rolled back is written again in another, without them. So
none of the three is inductive: each depends on what a sender in the call has in
memory. `PolicyInv` has `OneCaller` (the locks
admit one sender to the call), `DecisionStands` (the rows its decision was made
from say the same as then, because every writer takes one of those locks),
`CountInv` (messages delivered today are covered by decisions that were counted,
rolled back or lost, with the senders that have yet to count theirs), and
`IdentityInv` (a template is pinned before its first message, and what is pinned
when a sender calls is nothing or what it sends; so only a message that went out
before the first committed pin may differ from the pin). `CountInv` counts
senders, so `PolicyAssumption` says that `Sender` is finite: these are processes.

`OperationalControlsProofs` proves, from `ControlsAssumption` and
`NoBodyAssumption`:

* `AuditsVersions`: `Spec => []VersionsAudited`;
* `StagesInOrder`: `Spec => OneStageAtATime`;
* `CallsWhileOn`: `Spec => []NoCallWhenOff`;
* `CapsHold`: `Spec => []PilotCap`;
* `SuspensionAgrees`: `Spec => []SuspensionFollows`.

`ControlsInv` relates a request's body, checked in one transaction, to the rows
changed by another: the versions it has seen are of the past (`BodyInv`), so while
they hold, the stage it was checked in holds (`StageInv`, which also says that the
third stage is never on without the second). `AuditInv` says that the
audit rows of a control are one for each version and one for each request:
`VersionsAudited` counts rows, which is inductive only with the one to one
correspondence. `SyncInv` says what the sync under way brings. The assumptions:
requests and senders are finitely many, and `None`, a request not yet made, is not
a body, which a record cannot be in the code either.

`WhatsAppSequencesProofs` proves, from `SequencesAssumption`, for any number of
leads, steps and overlapping ticks:

* `SequencesTyped`: `Spec => []TypeOK`;
* `StepsArriveInOrder`: `Spec => []StepsInOrder`;
* `StopsAreRespected`: `Spec => SendRespectsStop`;
* `SequencesImplementAtMostOnce`: `Spec => ImplementsAtMostOnce`.

`SequencesInv` follows the claim: the worker past it is alone on its enrollment and
is at the enrollment's current execution, still sending (`BusyInv`); the rows read
by the final guard are locked until the answer is there (`HolderInv`); executions
behind the current one have failed, or belong to a step that was sent, and those
ahead are untouched (`ExecutionInv`); what was accepted of the current step is
under a claim that is sending or unknown (`AcceptedInv`). `StepsInOrder` alone
does not keep a second tick from sending the step again.

`EmailCampaignsProofs` proves, from `CampaignsAssumption`, for any number of
processes, campaigns, enrollments and steps:

* `RepeatsAreLosses`: `Spec => []RepeatedOnlyWhenLost`;
* `StepsTakeTurns`: `Spec => []StepsInTurn`;
* `LimitHolds`: `Spec => []LimitOverrun`;
* `NoRevival`: `Spec => WorkersDoNotRevive`.

A send takes several commits of one process, and only the first is under the row's
lock, so `CampaignsInv` says what a process carries from one to the next: a run that
is not ahead of the row's (`JobInv`), the row itself while it is locked
(`PickedInv`), an attempt committed before the call and an acceptance before its
record (`EmailInv`). `TurnInv` is why steps take turns: unless an operator made the
enrollment due under a send (`raced`), its sender is the one named in the row's
date, at the row's run and step, and another would find the date not due. `StepsSent`
uses it for the steps behind the current one. `KnownInv` is what makes
`RepeatedOnlyWhenLost` inductive: an acceptance somebody knows of is recorded or still
owed by a process (`Owes`), and by `TurnInv` the process that asks is the only one, so
there is none when it asks. A new run starts with no mail, because no run is emailed
before it starts. `UsageInv` counts the processes and threads under way, each of
which saw room for one more email; this is where the limit's overrun of one email
for each but one comes from, and why `CampaignsAssumption` says that `Worker` and
`Thread` are finite and `Worker` is not empty.

`EmailChannelProofs` proves, from `ChannelAssumption` and `NoJobAssumption`, for any
number of leads, addresses, servers, requests, mails and events:

* `RepliesOnce`: `Spec => []OneReply`;
* `BarredGetNothing`: `Spec => []NothingToBarred`;
* `StatusesAgree`: `Spec => []StatusAgrees`;
* `AnsweredAreSuppressed`: `Spec => []AnsweredSuppresses`;
* `SuppressionsStick`: `Spec => SuppressionSticks`.

Every handler works on what it read some commits ago, so `ChannelInv` is mostly
about what is still true of it:

* `HandlerInv`: a notice in hand is of something that happened to its mail, whose
  address is the one in hand; who was barred when his sender began, and has been
  ever since, still is, by the list or by a takeover; who calls the provider was not
  barred;
* `ProviderInv`: what the provider still announces has happened;
* `RoomInv`: there is an unused mail for every handler that may send one, so the
  bound on mails never stands in for a guard of the code;
* `SingleInv`: unless two servers had an inbound email at once, the server about to
  store it is alone with it;
* `ReplyInv`: the answers to an inbound email and the servers that may still answer
  it are no more than its rows. `OneReply` follows from this count, and nothing
  weaker is inductive: a server that has stored the email will answer later;
* the properties themselves. `StatusAgrees` and `AnsweredSuppresses` need each
  other's handlers: an event first lists the address, then marks the leads.

The assumptions: handlers and mails are finitely many (they are counted), servers and
requests, inbound and outbound mails have different names, and `None` is none of the
things it stands for the absence of.

`LeadStoreProofs` proves, from `StoreAssumption` and `KindsAssumption`, for any number
of handlers, messages, records, writes and faults:

* `MessagesKept`: `Spec => []MessageKept`;
* `CopiesStayEqual`: `Spec => []CopiesAgree`;
* `ShownIsApplied`: `Spec => []StatusShown`.

Neither store knows what the other has, so `StoreInv` follows the handlers between
them. `KeptInv`: a customer's message has its row before its entry in a record's
log, and before it is in the copy of a log that a handler is about to write back,
which is how an entry can come from a read made long ago. `ReportInv`: a message
that was not announced again has one report, in the queue or with one handler; the
intent has its status once it was applied, and the timeline's is still the intent's.
`CopyInv`: unless writes overlapped, one handler is between the two copies, and the
copy it wrote first says what it is about to write; and nothing was written before
there is a record. `KindsAssumption` says that messages, reports, pairs of them and
jobs are different things, and none of them is `None`.

Model-checked only: all liveness (`AcknowledgedIsHandled`, `EnrollmentSettles`), which
is out of the prover's reach, as are ENABLED and induction over data.

## Not modelled, and the plan

The models are built, and every safety property a passing run checks is proved. What
is worth adding next: the second store of `LeadStore` under the outbox's `mirror`,
and the outbox's two transactions under the pipeline's send.

Not modelled of the parts above: the scheduler lock and the chain of sequence
ticks; lock order and the database's deadlock victims (the models take all locks
of a step at once; a victim's failure is one of the failures they allow for);
what each module's section lists as left out.

Not planned: language-model calls, retrieval and ingestion, the dashboard's event
bus, billing, analytics, reconciliation reports, alerts and metrics, migrations,
scripts and deployment. They keep no
state the sending paths depend on, or are pure input and output.
