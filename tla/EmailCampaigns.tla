---------------------------- MODULE EmailCampaigns ----------------------------
(***************************************************************************)
(* Email campaigns: enrollments of leads, the scheduler ticks that send the *)
(* due steps through the provider, and the operators and customers who act  *)
(* in between.                                                              *)
(*                                                                          *)
(* Every web process runs its own tick; pc follows one enrollment of one    *)
(* tick                                                                     *)
(*   idle -> picked -> claimed -> calling -> answered -> counted -> idle    *)
(* A picked enrollment's row is locked until the claim commits.  From then  *)
(* on nothing is locked, and the worker goes on with the row as it was when *)
(* it loaded it again; what it writes back is the columns it changed.       *)
(* An enrollment's date is "never", "due", "later" or the claim of a        *)
(* worker, which is the hour the claim keeps the other workers away.        *)
(*                                                                          *)
(* The plan's monthly limit counts every email of the tenant: besides the   *)
(* campaigns' also the ones sent by hand (one thread of a web process per   *)
(* request) and the AI's replies to inbound mail, which nobody limits.      *)
(***************************************************************************)
EXTENDS Integers, FiniteSets

CONSTANTS
    Campaign, Lead,
    Worker,      \* the web processes, each running one tick at a time
    Thread,      \* threads that serve requests to send an email by hand
    NoJob,       \* what an idle worker or thread works on
    MaxSteps,    \* most steps of a campaign
    MaxRuns,     \* most delivery runs of an enrollment
    MonthlyCap,  \* max_emails_per_month of the tenant's plan
    MaxFaults    \* crashes, errors, refusals, lost answers, emails by hand and
                 \* replies, and what operators and customers change once a
                 \* campaign runs

ASSUME CampaignsAssumption ==
    /\ MaxSteps \in Nat \ {0} /\ MaxRuns \in Nat \ {0}
    /\ MonthlyCap \in Nat /\ MaxFaults \in Nat
    /\ IsFiniteSet(Worker) /\ Worker # {} /\ IsFiniteSet(Thread)
    /\ Worker \cap {"never", "due", "later"} = {}

Enrollment == Campaign \X Lead
Position == 0 .. MaxSteps - 1
Attempt == Enrollment \X (1 .. MaxRuns) \X Position

VARIABLES
    campaign,    \* email_campaigns.status; draft and archived are "paused" too
    steps,       \* number of steps of a campaign
    row,         \* the enrollment's status, current_step, run and next_run_at
    attempt,     \* delivery attempt state ("none": no row)
    stage,       \* lead.status; "Booked" stands for the won and lost stages
    held,        \* takeover, a reply, a bounce, complaint or unsubscription
    used,        \* email_sent usage logged this month
    replies,     \* ghost: how much of it AI replies to inbound mail logged
    manual,      \* each thread's email by hand
    pc, job,     \* each worker's step, and what it has in memory
    answer,      \* what the provider said
    faults,      \* faults left
    mail,        \* ghost: what became of an attempt's emails
    raced        \* ghost: an operator restarted the enrollment under a send

leadVars == <<stage, held>>
usageVars == <<used, replies, manual>>
workerVars == <<pc, job, answer>>
vars == <<campaign, steps, row, attempt, leadVars, usageVars, workerVars, faults, mail,
          raced>>

CampaignStatus == {"active", "paused"}
Date == {"never", "due", "later"} \cup Worker
Row == [status : {"none", "active", "paused", "stopped", "completed"},
        step : Nat, run : 0 .. MaxRuns, next : Date]
\* The enrollment and step picked, the number of steps then, whether those
\* step rows are gone by now, and the rows loaded after the claim.
Job == [of : Enrollment, pos : Position, plan : 1 .. MaxSteps, gone : BOOLEAN,
        row : Row, new : BOOLEAN,
        attempt : {"none", "sending", "failed", "sent"}]
InFlight == {"claimed", "calling", "answered", "counted"}
\* An email by hand: whether the lead was new when it was loaded, and whether
\* the send is committed.
Manual == [lead : Lead, new : BOOLEAN, sent : BOOLEAN]

\* Rows and workers keep their types; only an enrolled lead has a run, and an
\* active enrollment has a date unless an operator restarted it under a send.
TypeOK ==
    /\ campaign \in [Campaign -> CampaignStatus]
    /\ steps \in [Campaign -> 0 .. MaxSteps]
    /\ row \in [Enrollment -> Row]
    /\ attempt \in [Attempt -> {"none", "sending", "failed", "sent"}]
    /\ stage \in [Lead -> {"New Lead", "Contacted", "Booked"}]
    /\ held \in [Lead -> BOOLEAN]
    /\ raced \in [Enrollment -> BOOLEAN]
    /\ used \in Nat /\ replies \in Nat
    /\ manual \in [Thread -> Manual \cup {NoJob}]
    /\ pc \in [Worker -> {"idle", "picked"} \cup InFlight]
    /\ job \in [Worker -> Job \cup {NoJob}]
    /\ answer \in [Worker -> {"none", "ok", "error"}]
    /\ faults \in 0 .. MaxFaults
    /\ mail \in [Attempt -> {"none", "accepted", "known"}]
    /\ \A e \in Enrollment : row[e].status = "none" <=> row[e].run = 0
    /\ \A e \in Enrollment :
           row[e].status = "active" /\ ~raced[e] => row[e].next # "never"

Init ==
    /\ campaign = [c \in Campaign |-> "paused"]
    /\ steps \in [Campaign -> 0 .. MaxSteps]
    /\ row = [e \in Enrollment |->
                 [status |-> "none", step |-> 0, run |-> 0, next |-> "never"]]
    /\ attempt = [a \in Attempt |-> "none"]
    /\ stage = [l \in Lead |-> "New Lead"]
    /\ held = [l \in Lead |-> FALSE]
    /\ used = 0 /\ replies = 0
    /\ manual = [t \in Thread |-> NoJob]
    /\ pc = [w \in Worker |-> "idle"]
    /\ job = [w \in Worker |-> NoJob]
    /\ answer = [w \in Worker |-> "none"]
    /\ faults = MaxFaults
    /\ mail = [a \in Attempt |-> "none"]
    /\ raced = [e \in Enrollment |-> FALSE]

-----------------------------------------------------------------------------
(* Rows and workers.                                                        *)

\* The worker is past its claim of the enrollment.
Sending(w, e) == pc[w] \in InFlight /\ job[w].of = e
Unlocked(e) == \A w \in Worker : pc[w] = "picked" => job[w].of # e
\* Slip: a flush writes the whole row.
FlushAll(db, loaded, new) == new

\* What a flush leaves in a row: the columns changed since it was loaded.
Flush(db, loaded, new) ==
    [f \in DOMAIN db |-> IF new[f] = loaded[f] THEN db[f] ELSE new[f]]

AttemptOf(e, pos) == <<e, row[e].run, pos>>
JobAttempt(w) == <<job[w].of, job[w].row.run, job[w].pos>>

Go(w, step) == pc' = [pc EXCEPT ![w] = step]
Leave(w) ==
    /\ Go(w, "idle")
    /\ job' = [job EXCEPT ![w] = NoJob]
    /\ answer' = [answer EXCEPT ![w] = "none"]

\* An attempt's email is "accepted" by the provider; it is "known" to be from the
\* answer until the process that got it fails to record it.
Lose(w) ==
    mail' = [mail EXCEPT ![JobAttempt(w)] = IF answer[w] = "ok" THEN "accepted" ELSE @]

\* One of the faults and changes the model allows for.
Fault == faults > 0 /\ faults' = faults - 1

-----------
(* Operators: campaigns, their steps and their enrollments.                 *)

\* update_campaign: activating needs a step.
UpdateCampaign(c, status) ==
    /\ campaign[c] # status
    /\ IF status = "active" THEN steps[c] > 0 /\ UNCHANGED faults ELSE Fault
    /\ campaign' = [campaign EXCEPT ![c] = status]
    /\ UNCHANGED <<steps, row, attempt, leadVars, usageVars, workerVars, mail, raced>>

\* set_campaign_steps replaces the rows a worker may still have loaded.
SetCampaignSteps(c, n) ==
    /\ campaign[c] # "active"
    /\ Fault
    /\ steps' = [steps EXCEPT ![c] = n]
    /\ job' = [w \in Worker |->
                  IF pc[w] # "idle" /\ job[w].of[1] = c
                  THEN [job[w] EXCEPT !.gone = TRUE] ELSE job[w]]
    /\ UNCHANGED <<campaign, row, attempt, leadVars, usageVars, pc, answer, mail, raced>>

\* A run starts: first step, a new delivery_run_id, enrolled_at now.
StartRun(e) ==
    /\ row' = [row EXCEPT ![e] =
                  [status |-> "active", step |-> 0, run |-> @.run + 1, next |-> "later"]]
    /\ raced' = [raced EXCEPT ![e] = \E w \in Worker : Sending(w, e)]
    /\ UNCHANGED <<campaign, steps, attempt, leadVars, usageVars, workerVars, mail>>

\* A first enrollment honours "one active primary campaign at a time".
EnrollLead(e) ==
    /\ campaign[e[1]] = "active"
    /\ row[e].status = "none"
    /\ \A other \in Enrollment : other[2] = e[2] => row[other].status # "active"
    /\ StartRun(e)
    /\ UNCHANGED faults

\* A finished enrollment is restarted without that check.
ReenrollLead(e) ==
    /\ campaign[e[1]] = "active"
    /\ Unlocked(e)
    /\ row[e].status \in {"completed", "stopped"}
    /\ row[e].run < MaxRuns
    /\ Fault
    /\ StartRun(e)

Pause(e) ==
    /\ Unlocked(e) /\ row[e].status = "active"
    /\ Fault
    /\ row' = [row EXCEPT ![e].status = "paused", ![e].next = "never"]
    /\ UNCHANGED <<campaign, steps, attempt, leadVars, usageVars, workerVars, mail, raced>>

\* Resuming makes the enrollment due at once, unless it still has a date.
Resume(e) ==
    /\ Unlocked(e) /\ row[e].status = "paused"
    /\ row' = [row EXCEPT ![e].status = "active",
                          ![e].next = IF @ = "never" THEN "due" ELSE @]
    /\ raced' = [raced EXCEPT ![e] = @ \/ \E w \in Worker : Sending(w, e)]
    /\ UNCHANGED <<campaign, steps, attempt, leadVars, usageVars, workerVars, mail, faults>>

-----------------------------------------------------------------------------
(* Leads.                                                                   *)

LeadUnchanged == UNCHANGED <<campaign, steps, row, attempt, usageVars, workerVars, mail, raced>>

\* A takeover, an inbound reply, a bounce, complaint, unsubscription or erased
\* address, and what ends it: a release, a new address, an enrollment after the
\* reply.
LeadChanges(l) ==
    /\ Fault
    /\ held' = [held EXCEPT ![l] = ~@]
    /\ UNCHANGED stage /\ LeadUnchanged

\* change_lead_stage from the dashboard, which waits for a worker that has the
\* lead locked since it made it "Contacted".
ChangeStage(l, s) ==
    /\ stage[l] # s
    /\ \A w \in Worker : pc[w] = "counted" /\ job[w].new => job[w].of[2] # l
    /\ Fault
    /\ stage' = [stage EXCEPT ![l] = s]
    /\ UNCHANGED held /\ LeadUnchanged

\* The date of an enrollment comes; a claim's hour outlasts its worker's send.
Elapse(e) ==
    /\ row[e].next \notin {"never", "due"}
    /\ \A w \in Worker : row[e].next = w => ~Sending(w, e)
    /\ row' = [row EXCEPT ![e].next = "due"]
    /\ UNCHANGED <<campaign, steps, attempt, leadVars, usageVars, workerVars, mail, raced, faults>>

\* The usage of a new month starts at nothing.  That a limit that cannot be
\* read counts as zero is left out.
NewMonth ==
    /\ used > 0 /\ used' = 0 /\ replies' = 0
    /\ UNCHANGED <<campaign, steps, row, attempt, leadVars, manual, workerVars, mail, raced,
                   faults>>

-----------------------------------------------------------------------------
(* process_due_enrollments and _process_one, up to the claim.                *)

Due(w, e) ==
    /\ pc[w] = "idle" /\ Unlocked(e)
    /\ row[e].status = "active" /\ row[e].next = "due"

\* check_stop_conditions.
Stopped(e) == held[e[2]] \/ stage[e[2]] = "Booked"

\* Slip: the limit is checked off by one.
UnderLimitOff == used <= MonthlyCap

\* check_limit for "email_sent".
UnderLimit == used < MonthlyCap

TickOnly(e, new) ==
    /\ row' = [row EXCEPT ![e] = new]
    /\ UNCHANGED <<campaign, steps, attempt, leadVars, usageVars, workerVars, mail, raced, faults>>

\* An enrollment of a campaign that is not active is paused; nothing resumes
\* it when the campaign is active again.
PauseWithCampaign(w, e) ==
    /\ Due(w, e) /\ campaign[e[1]] # "active"
    /\ TickOnly(e, [row[e] EXCEPT !.status = "paused", !.next = "never"])

StopEnrollment(w, e) ==
    /\ Due(w, e) /\ campaign[e[1]] = "active" /\ Stopped(e)
    /\ TickOnly(e, [row[e] EXCEPT !.status = "stopped", !.next = "never"])

\* Slip: an enrollment past the last step is looked at again later.
CompleteWithoutStepLater(w, e) ==
    /\ Due(w, e) /\ campaign[e[1]] = "active" /\ ~Stopped(e)
    /\ row[e].step >= steps[e[1]]
    /\ TickOnly(e, [row[e] EXCEPT !.next = "later"])

\* The steps were replaced by fewer ones.
CompleteWithoutStep(w, e) ==
    /\ Due(w, e) /\ campaign[e[1]] = "active" /\ ~Stopped(e)
    /\ row[e].step >= steps[e[1]]
    /\ TickOnly(e, [row[e] EXCEPT !.status = "completed", !.next = "never"])

Sendable(w, e) ==
    Due(w, e) /\ campaign[e[1]] = "active" /\ ~Stopped(e) /\ row[e].step < steps[e[1]]

\* Over the plan's limit (other reasons to wait are left out).
Postpone(w, e) ==
    /\ Sendable(w, e) /\ ~UnderLimit
    /\ TickOnly(e, [row[e] EXCEPT !.next = "later"])

Pick(w, e) ==
    /\ Sendable(w, e) /\ UnderLimit
    /\ Go(w, "picked")
    /\ job' = [job EXCEPT ![w] =
                  [of |-> e, pos |-> row[e].step, plan |-> steps[e[1]], gone |-> FALSE,
                   row |-> row[e], new |-> stage[e[2]] = "New Lead", attempt |-> "none"]]
    /\ UNCHANGED <<campaign, steps, row, attempt, leadVars, usageVars, answer, mail, raced, faults>>

-----------------------------------------------------------------------------
(* The tenant's other emails.                                               *)

Hand(t, email) == manual' = [manual EXCEPT ![t] = email]
HandOnly ==
    UNCHANGED <<campaign, steps, row, attempt, held, replies, workerVars, mail, raced>>

\* The request passes the limit and loads the lead.
RequestEmail(t, l) ==
    /\ manual[t] = NoJob
    /\ UnderLimit
    /\ Fault
    /\ Hand(t, [lead |-> l, new |-> stage[l] = "New Lead", sent |-> FALSE])
    /\ UNCHANGED <<stage, used>> /\ HandOnly

\* The provider took it; a lead loaded as new becomes "Contacted"; commit.
CommitEmail(t) ==
    /\ manual[t] # NoJob /\ ~manual[t].sent
    /\ stage' = [stage EXCEPT ![manual[t].lead] = IF manual[t].new THEN "Contacted" ELSE @]
    /\ Hand(t, [manual[t] EXCEPT !.sent = TRUE])
    /\ UNCHANGED <<used, faults>> /\ HandOnly

CountEmail(t) ==
    /\ manual[t] # NoJob /\ manual[t].sent
    /\ used' = used + 1
    /\ Hand(t, NoJob)
    /\ UNCHANGED <<stage, faults>> /\ HandOnly

\* The request is refused or fails, or its usage is not logged.
GiveUpEmail(t) ==
    /\ manual[t] # NoJob
    /\ Hand(t, NoJob)
    /\ UNCHANGED <<stage, used, faults>> /\ HandOnly

\* An AI reply to an inbound mail is counted; the limit is not asked.
CountReply ==
    /\ Fault
    /\ used' = used + 1 /\ replies' = replies + 1
    /\ UNCHANGED <<campaign, steps, row, attempt, leadVars, manual, workerVars, mail, raced>>

-----------------------------------------------------------------------------
(* The claim, the provider call and the record of a send.                   *)

\* _advance_enrollment_after_send on a row as loaded, with the step rows of
\* the pick.
Advance(loaded, plan) ==
    IF loaded.step + 1 < plan
    THEN [loaded EXCEPT !.step = @ + 1, !.next = "later"]
    ELSE [loaded EXCEPT !.step = @ + 1, !.status = "completed", !.next = "never"]

\* Slip: the claim leaves the enrollment due.
ClaimDeliveryAttemptDue(w) ==
    LET e == job[w].of IN
    /\ pc[w] = "picked"
    /\ attempt[AttemptOf(e, job[w].pos)] # "sent"
    /\ attempt' = [attempt EXCEPT ![AttemptOf(e, job[w].pos)] = "sending"]
    /\ Go(w, "claimed")
    /\ UNCHANGED <<campaign, steps, row, leadVars, usageVars, job, answer, mail, raced, faults>>

\* The send's identity and the hour that keeps other workers away, in one
\* commit, which frees the row.
ClaimDeliveryAttempt(w) ==
    LET e == job[w].of IN
    /\ pc[w] = "picked"
    /\ attempt[AttemptOf(e, job[w].pos)] # "sent"
    /\ attempt' = [attempt EXCEPT ![AttemptOf(e, job[w].pos)] = "sending"]
    /\ row' = [row EXCEPT ![e].next = w]
    /\ Go(w, "claimed")
    /\ UNCHANGED <<campaign, steps, leadVars, usageVars, job, answer, mail, raced, faults>>

\* A step recorded as sent is not sent again.
AlreadySent(w) ==
    LET e == job[w].of IN
    /\ pc[w] = "picked"
    /\ attempt[AttemptOf(e, job[w].pos)] = "sent"
    /\ row' = [row EXCEPT ![e] = Advance(@, job[w].plan)]
    /\ Leave(w)
    /\ UNCHANGED <<campaign, steps, attempt, leadVars, usageVars, mail, raced, faults>>

\* The committed rows are loaded again for the arguments of the call.
LoadForCall(w) ==
    LET e == job[w].of IN
    /\ pc[w] = "claimed" /\ ~job[w].gone
    /\ job' = [job EXCEPT ![w].row = [row[e] EXCEPT !.run = job[w].row.run],
                          ![w].new = stage[e[2]] = "New Lead",
                          ![w].attempt = attempt[JobAttempt(w)]]
    /\ Go(w, "calling")
    /\ UNCHANGED <<campaign, steps, row, attempt, leadVars, usageVars, answer, mail, raced, faults>>

\* The provider takes the email, which it may have taken before: it keeps an
\* idempotency key, which is the attempt's, only for a time.  Its answer may be
\* lost (a timeout is an EmailSendError too).
ProviderAccepts(w) ==
    LET a == JobAttempt(w) IN
    /\ pc[w] = "calling"
    /\ \/ /\ answer' = [answer EXCEPT ![w] = "ok"] /\ UNCHANGED faults
          /\ mail' = [mail EXCEPT ![a] = "known"]
       \/ /\ answer' = [answer EXCEPT ![w] = "error"] /\ Fault
          /\ mail' = [mail EXCEPT ![a] = IF @ = "none" THEN "accepted" ELSE @]
    /\ Go(w, "answered")
    /\ UNCHANGED <<campaign, steps, row, attempt, leadVars, usageVars, job, raced>>

\* It still knows the key.  It answers as before, or, because the unsubscribe
\* token and with it the mail differs from the one it knows, with an error.
ProviderRemembers(w) ==
    LET a == JobAttempt(w) IN
    /\ pc[w] = "calling" /\ mail[a] # "none"
    /\ \/ answer' = [answer EXCEPT ![w] = "ok"] /\ mail' = [mail EXCEPT ![a] = "known"]
       \/ answer' = [answer EXCEPT ![w] = "error"] /\ UNCHANGED mail
    /\ Go(w, "answered")
    /\ UNCHANGED <<campaign, steps, row, attempt, leadVars, usageVars, job, raced, faults>>

\* The provider refuses, or the daily cap of the process does.
ProviderRefuses(w) ==
    /\ pc[w] = "calling"
    /\ Fault
    /\ answer' = [answer EXCEPT ![w] = "error"]
    /\ Go(w, "answered")
    /\ UNCHANGED <<campaign, steps, row, attempt, leadVars, usageVars, job, mail, raced>>

FlushAttempt(w, state) ==
    attempt' = [attempt EXCEPT ![JobAttempt(w)] =
                   IF state = job[w].attempt THEN @ ELSE state]

RecordFailure(w) ==
    LET e == job[w].of IN
    /\ pc[w] = "answered" /\ answer[w] = "error" /\ Unlocked(e)
    /\ FlushAttempt(w, "failed")
    /\ row' = [row EXCEPT ![e] = Flush(@, job[w].row, [job[w].row EXCEPT !.next = w])]
    /\ Leave(w)
    /\ UNCHANGED <<campaign, steps, leadVars, usageVars, mail, raced, faults>>

\* log_usage, in a commit of its own; it reports no failure.
LogUsage(w) ==
    /\ pc[w] = "answered" /\ answer[w] = "ok"
    /\ \/ used' = used + 1 /\ UNCHANGED faults
       \/ used' = used /\ Fault
    /\ Go(w, "counted")
    /\ UNCHANGED <<campaign, steps, row, attempt, leadVars, replies, manual, job, answer,
                   mail, raced>>

\* The attempt is sent, a new lead becomes "Contacted" whatever its stage was
\* when it was locked, and the enrollment moves on from the row loaded before
\* the call.
RecordSent(w) ==
    LET e == job[w].of IN
    /\ pc[w] = "counted" /\ Unlocked(e)
    /\ job[w].gone => job[w].row.step + 1 >= job[w].plan
    /\ FlushAttempt(w, "sent")
    /\ stage' = [stage EXCEPT ![e[2]] =
                    IF job[w].new THEN "Contacted" ELSE @]
    /\ row' = [row EXCEPT ![e] = Flush(@, job[w].row, Advance(job[w].row, job[w].plan))]
    /\ Leave(w)
    /\ UNCHANGED <<campaign, steps, held, usageVars, mail, raced, faults>>

\* The tick's handler of any other exception: rollback, and an enrollment that
\* is still active is tried again in an hour.
HandleException(w) ==
    LET e == job[w].of IN
    /\ \A v \in Worker \ {w} : pc[v] = "picked" => job[v].of # e
    /\ row' = [row EXCEPT ![e].next = IF row[e].status = "active" THEN w ELSE @]
    /\ Lose(w) /\ Leave(w)
    /\ UNCHANGED <<campaign, steps, attempt, leadVars, usageVars, raced>>

WorkerFails(w) ==
    /\ pc[w] # "idle"
    /\ Fault
    /\ HandleException(w)

\* Step rows the worker has to load again were replaced meanwhile.
StepRowsGone(w) ==
    /\ pc[w] # "idle" /\ job[w].gone
    /\ \/ pc[w] = "claimed"
       \/ pc[w] = "counted" /\ job[w].row.step + 1 < job[w].plan
    /\ HandleException(w)
    /\ UNCHANGED faults

Crash(w) ==
    /\ pc[w] # "idle"
    /\ Fault
    /\ Lose(w) /\ Leave(w)
    /\ UNCHANGED <<campaign, steps, row, attempt, leadVars, usageVars, raced>>

-----------------------------------------------------------------------------

Tick(w, e) ==
    \/ PauseWithCampaign(w, e) \/ StopEnrollment(w, e) \/ CompleteWithoutStep(w, e)
    \/ Postpone(w, e) \/ Pick(w, e)

Work(w) ==
    \/ ClaimDeliveryAttempt(w) \/ AlreadySent(w) \/ LoadForCall(w)
    \/ ProviderAccepts(w) \/ ProviderRemembers(w)
    \/ RecordFailure(w) \/ LogUsage(w) \/ RecordSent(w) \/ StepRowsGone(w)

Next ==
    \/ \E c \in Campaign :
           \/ \E s \in CampaignStatus : UpdateCampaign(c, s)
           \/ \E n \in 1 .. MaxSteps : SetCampaignSteps(c, n)
    \/ \E e \in Enrollment :
           EnrollLead(e) \/ ReenrollLead(e) \/ Pause(e) \/ Resume(e) \/ Elapse(e)
    \/ \E l \in Lead :
           \/ LeadChanges(l)
           \/ ChangeStage(l, "Booked")
    \/ NewMonth \/ CountReply
    \/ \E t \in Thread :
           (\E l \in Lead : RequestEmail(t, l)) \/ CommitEmail(t) \/ CountEmail(t) \/ GiveUpEmail(t)
    \/ \E w \in Worker : \E e \in Enrollment : Tick(w, e)
    \/ \E w \in Worker :
           Work(w) \/ ProviderRefuses(w) \/ WorkerFails(w) \/ Crash(w)

Spec == Init /\ [][Next]_vars

\* The scheduler runs every five minutes, time passes, a process that lives goes
\* on with its enrollment, and the provider, asked every hour, does not remember
\* a key for ever.
Fairness ==
    /\ \A e \in Enrollment :
           WF_vars(Elapse(e)) /\ WF_vars(\E w \in Worker : Tick(w, e))
    /\ \A w \in Worker : WF_vars(Work(w))
    /\ SF_vars(\E w \in Worker : ProviderAccepts(w))
    /\ WF_vars(NewMonth)

FairSpec == Spec /\ Fairness

-----------------------------------------------------------------------------
(* Properties.                                                              *)

\* No email without a committed attempt, and none recorded as sent that was not
\* accepted.  Unless an operator resumed or restarted the enrollment under a
\* send, the provider is asked for a step, for the first time or again, only
\* while no process has recorded, or may still record, that it accepted it: a
\* step is sent twice only after an acceptance was lost (a timeout, a crash, an
\* error at the last commit).  All rows keep their types.
RepeatedOnlyWhenLost ==
    /\ TypeOK
    /\ \A a \in Attempt :
         /\ mail[a] # "none" => attempt[a] # "none"
         /\ attempt[a] = "sent" => mail[a] # "none"
    /\ \A w \in Worker :
         pc[w] = "calling" /\ ~raced[job[w].of] => mail[JobAttempt(w)] # "known"

\* Unless an operator resumed or restarted an enrollment under a send, one
\* process at a time sends for it, and every step before the current one was
\* sent in this run.
StepsInTurn ==
    \A e \in Enrollment : ~raced[e] =>
        /\ \A v, w \in Worker : Sending(v, e) /\ Sending(w, e) => v = w
        /\ row[e].status \in {"active", "paused"} =>
             \A p \in Position : p < row[e].step => attempt[AttemptOf(e, p)] = "sent"

\* Whoever asks for the limit does so before the email and counts it afterwards:
\* it is overrun by at most one email for each other process and thread, however
\* often a send is counted twice or not at all.  Replies to inbound mail come on
\* top, because nobody asks for them.
LimitOverrun ==
    used <= MonthlyCap + Cardinality(Worker) + Cardinality(Thread) - 1 + replies

\* A worker never makes an enrollment active again that an operator paused, or
\* a stop condition ended, while it was sending.
WorkersDoNotRevive ==
    [][\A e \in Enrollment :
          pc' # pc /\ row[e].status # "active" => row'[e].status # "active"]_vars

\* With finitely many faults an active enrollment is not left on its step for
\* ever, whatever it has to wait for: it is completed, stopped or paused.
EnrollmentSettles ==
    \A e \in Enrollment :
        row[e].status = "active" /\ ~raced[e] ~>
            row[e].status # "active" \/ raced[e]

=============================================================================
