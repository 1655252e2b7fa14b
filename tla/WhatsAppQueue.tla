---------------------------- MODULE WhatsAppQueue ----------------------------
(***************************************************************************)
(* One WhatsApp webhook event on its way from Meta to a worker: the durable *)
(* receipt (whatsapp_webhook_events), the RQ jobs that carry it through     *)
(* Redis, and the operators' replay of dead letters.                        *)
(*                                                                          *)
(* Receipts are independent of each other, so one row is modelled.  Nobody  *)
(* locks it on the ingress and worker paths: every handler and every worker *)
(* reads and writes it in transactions of its own, and SQLAlchemy writes a  *)
(* column only when it differs from the value loaded before.  `loaded` and  *)
(* `sawLetter` keep what a web handler has loaded.                          *)
(*                                                                          *)
(* RQ is external: a job id may stand in the queue several times (enqueue   *)
(* does not look for duplicates), any exception or death of a run is        *)
(* retried while retries are left, and a finished job stays known to        *)
(* fetch_job until its result expires.                                      *)
(***************************************************************************)
EXTENDS Integers, Workers

CONSTANTS
    Delivery,     \* HTTP deliveries of the event by Meta
    Request,      \* replay requests by operators
    NoJob,        \* the job of an idle worker
    MaxRetries,   \* WHATSAPP_RQ_MAX_RETRIES
    MaxExecutions, \* where the ghost `runs` stops counting
    Crashes       \* TRUE: processes die and lose the database at any point

Attempts == 0 .. MaxRetries + 1
\* A delivery's own job, and the replay job named after the attempt count.
Job == Delivery \cup Attempts

ASSUME QueueAssumption ==
    /\ MaxRetries \in Nat /\ MaxExecutions \in Nat
    /\ Crashes \in BOOLEAN
    /\ NoJob \notin Job
    /\ Delivery \cap Attempts = {}

VARIABLES
    receipt,      \* the row's state, "absent" before it exists
    attemptCount, \* attempt_count
    letter,       \* last_error (and dead_lettered_at) tell of a failure
    web, loaded, sawLetter,   \* each delivery's handler and what it loaded
    entries,      \* how often each job waits in Redis, queued or scheduled
    left,         \* retries_left as saved in each waiting job
    known,        \* the replay jobs fetch_job finds
    work, running, budget,    \* each worker: step, job, retries_left it loaded
    consuming,    \* the WORKER_CONSUMPTION control
    replay,       \* whatsapp_operator_actions.outcome by attempt count
    operator, target,         \* each replay request: step, attempt count
    handed,       \* ghost: replay jobs that were handed to Redis
    runs          \* ghost: executions of the business handler, up to MaxExecutions

receiptVars == <<receipt, attemptCount, letter>>
webVars == <<web, loaded, sawLetter>>
rqVars == <<work, running, budget>>
operatorVars == <<replay, operator, target>>
redisVars == <<entries, left, known, handed>>
queueVars == <<receiptVars, webVars, redisVars, rqVars, consuming, operatorVars, runs>>

ReceiptState == {"absent", "received", "queued", "processing", "processed",
                 "dead_letter", "enqueue_failed", "replay_requested"}
\* Duplicates of these are acknowledged without further work.
Accepted == {"queued", "processing", "processed"}
\* list_dead_letters, and the states a replay starts from.
Listed == {"dead_letter", "enqueue_failed", "replay_requested"}

QueueTypeOK ==
    /\ receipt \in ReceiptState
    /\ attemptCount \in Attempts
    /\ letter \in BOOLEAN
    /\ web \in [Delivery -> {"idle", "read", "saved", "enqueued", "failing",
                          "acked", "rejected"}]
    /\ loaded \in [Delivery -> ReceiptState]
    /\ sawLetter \in [Delivery -> BOOLEAN]
    /\ entries \in [Job -> Nat]
    /\ left \in [Job -> 0 .. MaxRetries]
    /\ known \subseteq Attempts /\ handed \subseteq Attempts
    /\ work \in [Worker -> {"idle", "business"}]
    /\ running \in [Worker -> Job \cup {NoJob}]
    /\ budget \in [Worker -> 0 .. MaxRetries]
    /\ consuming \in BOOLEAN
    /\ replay \in [Attempts -> {"none", "requested", "queued", "failed"}]
    /\ operator \in [Request -> {"idle", "requested", "missing", "submitted", "failing", "done"}]
    /\ target \in [Request -> Attempts]
    /\ runs \in 0 .. MaxExecutions

QueueInit ==
    /\ receipt = "absent" /\ attemptCount = 0 /\ letter = FALSE
    /\ web = [d \in Delivery |-> "idle"]
    /\ loaded = [d \in Delivery |-> "absent"]
    /\ sawLetter = [d \in Delivery |-> FALSE]
    /\ entries = [j \in Job |-> 0]
    /\ left = [j \in Job |-> 0]
    /\ known = {} /\ handed = {}
    /\ work = [w \in Worker |-> "idle"]
    /\ running = [w \in Worker |-> NoJob]
    /\ budget = [w \in Worker |-> 0]
    /\ consuming = TRUE
    /\ replay = [n \in Attempts |-> "none"]
    /\ operator = [r \in Request |-> "idle"]
    /\ target = [r \in Request |-> 0]
    /\ runs = 0

-----------------------------------------------------------------------------
(* Redis and RQ.                                                            *)

\* enqueue(..., retry=Retry(max=WHATSAPP_RQ_MAX_RETRIES)) of job j.
Push(j) ==
    /\ entries' = [entries EXCEPT ![j] = @ + 1]
    /\ left' = [left EXCEPT ![j] = MaxRetries]
    /\ known' = known \cup ({j} \cap Attempts)
    /\ handed' = handed \cup ({j} \cap Attempts)

\* RQ after a run that raised or died with `retries` left.
Reschedule(j, retries) ==
    /\ entries' = [entries EXCEPT ![j] = IF retries > 0 THEN @ + 1 ELSE @]
    /\ left' = [left EXCEPT ![j] = IF retries > 0 THEN retries - 1 ELSE 0]
    /\ UNCHANGED <<known, handed>>

Release(w) ==
    /\ work' = [work EXCEPT ![w] = "idle"]
    /\ running' = [running EXCEPT ![w] = NoJob]
    /\ budget' = [budget EXCEPT ![w] = 0]

-----------------------------------------------------------------------------
(* enqueue_event in the web process, one step per transaction.              *)

Web(d, step) == web' = [web EXCEPT ![d] = step]
\* The session ends: what it had loaded is gone.
Close(d, step) ==
    /\ Web(d, step)
    /\ loaded' = [loaded EXCEPT ![d] = "absent"]
    /\ sawLetter' = [sawLetter EXCEPT ![d] = FALSE]

ReadReceipt(d) ==
    /\ web[d] = "idle"
    /\ IF receipt \in Accepted
       THEN Close(d, "acked")
       ELSE /\ Web(d, "read")
            /\ loaded' = [loaded EXCEPT ![d] = receipt]
            /\ sawLetter' = [sawLetter EXCEPT ![d] = letter]
    /\ UNCHANGED <<receiptVars, redisVars, rqVars, consuming, operatorVars, runs>>

\* Insert the row, or take a failed one over for the redelivery.
SaveReceipt(d) ==
    /\ web[d] = "read"
    /\ ~(loaded[d] = "absent" /\ receipt # "absent")
    /\ receipt' = IF loaded[d] = "received" THEN receipt ELSE "received"
    /\ letter' = (letter /\ ~sawLetter[d])
    /\ Web(d, "saved")
    /\ UNCHANGED <<attemptCount, loaded, sawLetter, redisVars, rqVars, consuming,
                   operatorVars, runs>>

\* A concurrent delivery inserted the row first: flush raises IntegrityError, and
\* raises it before the try whose handler would take the other row; 503 to Meta.
RejectConcurrent(d) ==
    /\ web[d] = "read"
    /\ loaded[d] = "absent" /\ receipt # "absent"
    /\ Close(d, "rejected")
    /\ UNCHANGED <<receiptVars, redisVars, rqVars, consuming,
                   operatorVars, runs>>

\* The commit expired the row: building the envelope loads it again.
Reload(d) ==
    /\ loaded' = [loaded EXCEPT ![d] = receipt]
    /\ sawLetter' = [sawLetter EXCEPT ![d] = letter]

Enqueue(d) ==
    /\ web[d] = "saved"
    /\ Push(d)
    /\ Web(d, "enqueued")
    /\ Reload(d)
    /\ UNCHANGED <<receiptVars, rqVars, consuming, operatorVars, runs>>

\* Redis answers with an error, having stored the job or not.
EnqueueFails(d) ==
    /\ web[d] = "saved"
    /\ \/ Push(d)
       \/ UNCHANGED redisVars
    /\ Web(d, "failing")
    /\ Reload(d)
    /\ UNCHANGED <<receiptVars, rqVars, consuming, operatorVars, runs>>

\* The failure is recorded, however far a stored job has come; 503 to Meta.  An
\* error loaded before may be in the same words, and is not written again.
Reject(d) ==
    /\ web[d] = "failing"
    /\ receipt' = IF loaded[d] = "enqueue_failed" THEN receipt ELSE "enqueue_failed"
    /\ \/ letter' = TRUE
       \/ sawLetter[d] /\ UNCHANGED letter
    /\ Close(d, "rejected")
    /\ UNCHANGED <<attemptCount, redisVars, rqVars, consuming, operatorVars, runs>>

\* The last transaction, however far the job has come by now.
MarkQueued(d) ==
    /\ web[d] = "enqueued"
    /\ receipt' = IF loaded[d] = "queued" THEN receipt ELSE "queued"
    /\ Close(d, "acked")
    /\ UNCHANGED <<attemptCount, letter, redisVars, rqVars, consuming,
                   operatorVars, runs>>

WebCrash(d) ==
    /\ Crashes
    /\ web[d] \in {"read", "saved", "enqueued", "failing"}
    /\ Close(d, "rejected")
    /\ UNCHANGED <<receiptVars, redisVars, rqVars, consuming,
                   operatorVars, runs>>

-----------------------------------------------------------------------------
(* process_webhook_event in a worker.                                       *)

\* Slip: the first run counts as the first retry.
RetryAttemptFromOne(retries) == MaxRetries - retries + 1

\* The run's ordinal, counted from the retries still left.
RetryAttempt(retries) == MaxRetries - retries

StartJob(w, j) ==
    /\ work[w] = "idle" /\ entries[j] > 0
    /\ consuming
    /\ entries' = [entries EXCEPT ![j] = @ - 1]
    /\ receipt' = "processing"
    /\ attemptCount' = IF attemptCount > RetryAttempt(left[j])
                       THEN attemptCount ELSE RetryAttempt(left[j]) + 1
    /\ work' = [work EXCEPT ![w] = "business"]
    /\ running' = [running EXCEPT ![w] = j]
    /\ budget' = [budget EXCEPT ![w] = left[j]]
    /\ left' = IF entries[j] = 1 THEN [left EXCEPT ![j] = 0] ELSE left
    /\ runs' = IF runs < MaxExecutions THEN runs + 1 ELSE runs
    /\ UNCHANGED <<letter, webVars, known, handed, consuming, operatorVars>>

\* Slip: a paused run ends its job without leaving a copy for later.
PostponeDropped(w, j) ==
    /\ work[w] = "idle" /\ entries[j] > 0
    /\ ~consuming
    /\ entries' = [entries EXCEPT ![j] = @ - 1]
    /\ UNCHANGED <<receiptVars, webVars, left, known, handed, rqVars, consuming, operatorVars,
                   runs>>

\* Consumption is paused: a copy of the job, under another id and with all its
\* retries, comes later; this one is done.
Postpone(w, j) ==
    /\ work[w] = "idle" /\ entries[j] > 0
    /\ ~consuming
    /\ left' = [left EXCEPT ![j] = MaxRetries]
    /\ known' \in {known, known \ {j}}
    /\ UNCHANGED <<receiptVars, webVars, entries, handed, rqVars, consuming, operatorVars,
                   runs>>

Succeed(w) ==
    /\ work[w] = "business"
    /\ receipt' = "processed"
    /\ Release(w)
    /\ UNCHANGED <<attemptCount, letter, webVars, redisVars, consuming, operatorVars, runs>>

\* A retryable error: _mark_retry_or_dead_letter, then RQ.
FailRetryable(w) ==
    /\ work[w] = "business"
    /\ receipt' = IF budget[w] = 0 THEN "dead_letter" ELSE "queued"
    /\ letter' = TRUE
    /\ Reschedule(running[w], budget[w])
    /\ Release(w)
    /\ UNCHANGED <<attemptCount, webVars, consuming, operatorVars, runs>>

\* Any other error is dead-lettered and raised as PermanentWebhookError, which
\* to RQ is an exception like every other.
FailPermanently(w) ==
    /\ work[w] = "business"
    /\ receipt' = "dead_letter"
    /\ letter' = TRUE
    /\ Reschedule(running[w], budget[w])
    /\ Release(w)
    /\ UNCHANGED <<attemptCount, webVars, consuming, operatorVars, runs>>

\* The run dies; RQ notices and applies the retry policy.
WorkerCrash(w) ==
    /\ Crashes
    /\ work[w] = "business"
    /\ Reschedule(running[w], budget[w])
    /\ Release(w)
    /\ UNCHANGED <<receiptVars, webVars, consuming, operatorVars, runs>>

\* A run that fails before it has marked the receipt (database error while the
\* correlation is restored or the control is read).
FailUnmarked(w, j) ==
    /\ Crashes
    /\ work[w] = "idle" /\ entries[j] > 0
    /\ entries' = [entries EXCEPT ![j] = IF left[j] > 0 THEN @ ELSE @ - 1]
    /\ left' = [left EXCEPT ![j] = IF @ > 0 THEN @ - 1 ELSE 0]
    /\ UNCHANGED <<receiptVars, webVars, known, handed, rqVars, consuming, operatorVars, runs>>

\* RQ drops a replay job some time after its last run.
Expire(n) ==
    /\ n \in known /\ entries[n] = 0
    /\ \A w \in Worker : running[w] # n
    /\ known' = known \ {n}
    /\ UNCHANGED <<receiptVars, webVars, entries, left, handed, rqVars, consuming,
                   operatorVars, runs>>

SetConsumption ==
    /\ consuming' = ~consuming
    /\ UNCHANGED <<receiptVars, webVars, redisVars, rqVars, operatorVars, runs>>

-----------------------------------------------------------------------------
(* _replay_one and enqueue_persisted_receipt.                               *)

Operator(r, step) == operator' = [operator EXCEPT ![r] = step]
Answer(r) == Operator(r, "done") /\ target' = [target EXCEPT ![r] = 0]

\* The action of this attempt count says it has been queued: nothing to do.
AlreadyQueued(r) ==
    /\ operator[r] = "idle" /\ receipt # "absent"
    /\ replay[attemptCount] = "queued"
    /\ Answer(r)
    /\ UNCHANGED <<receiptVars, webVars, redisVars, rqVars, consuming, replay, runs>>

\* Slip: the replay starts from a clean receipt.
RequestCleanReplay(r) ==
    /\ operator[r] = "idle" /\ receipt \in Listed
    /\ replay[attemptCount] # "queued"
    /\ consuming
    /\ replay' = [replay EXCEPT ![attemptCount] = "requested"]
    /\ receipt' = "replay_requested"
    /\ letter' = FALSE
    /\ target' = [target EXCEPT ![r] = attemptCount]
    /\ Operator(r, "requested")
    /\ UNCHANGED <<attemptCount, webVars, redisVars, rqVars, consuming, runs>>

\* First transaction: controls allow it, the audit row is there, the receipt
\* is prepared.
RequestReplay(r) ==
    /\ operator[r] = "idle" /\ receipt \in Listed
    /\ replay[attemptCount] # "queued"
    /\ consuming
    /\ replay' = [replay EXCEPT ![attemptCount] = "requested"]
    /\ receipt' = "replay_requested"
    /\ target' = [target EXCEPT ![r] = attemptCount]
    /\ Operator(r, "requested")
    /\ UNCHANGED <<attemptCount, letter, webVars, redisVars, rqVars, consuming, runs>>

\* The receipt must still be prepared; a job of that name is taken as it is.
FetchReplayJob(r) ==
    /\ operator[r] = "requested"
    /\ Operator(r, IF receipt \notin {"replay_requested", "enqueue_failed"} THEN "failing"
                   ELSE IF target[r] \in known THEN "submitted" ELSE "missing")
    /\ UNCHANGED <<receiptVars, webVars, redisVars, rqVars, consuming, replay, target, runs>>

SubmitReplay(r) ==
    /\ operator[r] = "missing"
    /\ Push(target[r])
    /\ Operator(r, "submitted")
    /\ UNCHANGED <<receiptVars, webVars, rqVars, consuming, replay, target, runs>>

SubmitFails(r) ==
    /\ operator[r] = "missing"
    /\ UNCHANGED redisVars
    /\ Operator(r, IF target[r] \in known THEN "submitted" ELSE "failing")
    /\ UNCHANGED <<receiptVars, webVars, rqVars, consuming, replay, target, runs>>

\* Slip: success is recorded although the job could not be enqueued.
AbandonReplayAsQueued(r) ==
    /\ operator[r] = "failing"
    /\ replay' = [replay EXCEPT ![target[r]] = "queued"]
    /\ receipt' = "enqueue_failed"
    /\ Answer(r)
    /\ UNCHANGED <<attemptCount, letter, webVars, redisVars, rqVars, consuming, runs>>

AbandonReplay(r) ==
    /\ operator[r] = "failing"
    /\ replay' = [replay EXCEPT ![target[r]] = "failed"]
    /\ receipt' = "enqueue_failed"
    /\ Answer(r)
    /\ UNCHANGED <<attemptCount, letter, webVars, redisVars, rqVars, consuming, runs>>

FinishReplay(r) ==
    /\ operator[r] = "submitted"
    /\ replay' = [replay EXCEPT ![target[r]] = "queued"]
    /\ receipt' = "queued"
    /\ Answer(r)
    /\ UNCHANGED <<attemptCount, letter, webVars, redisVars, rqVars, consuming, runs>>

OperatorCrash(r) ==
    /\ Crashes
    /\ operator[r] \in {"requested", "missing", "submitted", "failing"}
    /\ Answer(r)
    /\ UNCHANGED <<receiptVars, webVars, redisVars, rqVars, consuming, replay, runs>>

-----------------------------------------------------------------------------
Ingress(d) ==
    \/ SaveReceipt(d) \/ RejectConcurrent(d)
    \/ Enqueue(d) \/ EnqueueFails(d) \/ Reject(d) \/ MarkQueued(d)

Run(w) ==
    \/ \E j \in Job : StartJob(w, j)
    \/ Succeed(w) \/ FailRetryable(w) \/ FailPermanently(w)

Operate(r) ==
    \/ AlreadyQueued(r) \/ RequestReplay(r)
    \/ FetchReplayJob(r) \/ SubmitReplay(r) \/ SubmitFails(r)
    \/ AbandonReplay(r) \/ FinishReplay(r)

QueueNext ==
    \/ \E d \in Delivery : ReadReceipt(d) \/ Ingress(d) \/ WebCrash(d)
    \/ \E w \in Worker : Run(w) \/ WorkerCrash(w)
    \/ \E w \in Worker, j \in Job : Postpone(w, j) \/ FailUnmarked(w, j)
    \/ \E r \in Request : Operate(r) \/ OperatorCrash(r)
    \/ \E n \in Attempts : Expire(n)
    \/ SetConsumption

QueueSpec == QueueInit /\ [][QueueNext]_queueVars

\* A request that has begun is carried on by its web process, and an idle
\* worker takes whatever waits in Redis (RQ polls, its scheduler included).
QueueFairness ==
    /\ \A d \in Delivery : WF_queueVars(Ingress(d))
    /\ \A w \in Worker : WF_queueVars(Run(w))

FairQueueSpec == QueueSpec /\ QueueFairness

-----------------------------------------------------------------------------
(* Properties.                                                              *)

\* The dead-letter evidence (timestamp and error) survives every replay and
\* every run; only a redelivery by Meta, which starts the event over, clears it
\* (runbook: "original dead-letter timestamp/error remain").
EvidenceRemains ==
    [][letter /\ ~letter' => \E d \in Delivery : web[d] = "read" /\ web'[d] = "saved"]_queueVars

\* The audit tells the truth about replays: a replay job exists only under an
\* action row of its attempt count, and an action says "queued", which answers
\* every later request of that attempt with already_queued, only when its job
\* was handed to Redis.
ReplaysAudited ==
    \A n \in Attempts :
        /\ n \in handed => replay[n] # "none"
        /\ replay[n] = "queued" => n \in handed

\* As long as no process dies and consumption is not paused for good, an event
\* that was acknowledged to Meta is executed, or shows up in the operators'
\* list.  That holds for a delivery that was acknowledged because the receipt of
\* an overlapping one read queued or processing, whatever that one records later.
AcknowledgedIsHandled ==
    <>[]consuming =>
        \A d \in Delivery : web[d] = "acked" ~> runs > 0 \/ receipt \in Listed

=============================================================================
