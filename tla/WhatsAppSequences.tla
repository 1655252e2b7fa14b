-------------------------- MODULE WhatsAppSequences --------------------------
(***************************************************************************)
(* The enrollments of one WhatsApp follow-up sequence and the scheduler     *)
(* ticks that send its steps: the durable claim of a step, the checks       *)
(* before the send, the final guard under the row locks of the send, and    *)
(* the outcome transaction, with operators who pause, resume and cancel in  *)
(* between.                                                                 *)
(*                                                                          *)
(* A tick takes its enrollments one after the other; pc follows one of them *)
(*   idle -> claimed -> ready -> calling -> accepted -> recording -> idle    *)
(* Several workers stand for ticks that overlap after the scheduler lock    *)
(* has expired.  Two enrollments never belong to one lead (unique per       *)
(* sequence and lead), so an enrollment also names its lead.                *)
(***************************************************************************)
EXTENDS Integers, FiniteSets

CONSTANTS
    Enrollment,   \* the leads that can be enrolled
    Worker,       \* the ticks that may run at the same time
    Nobody,       \* no worker: the rows of the send are free
    NoExecution,  \* what an idle worker works on
    Steps,        \* most steps of the sequence
    Threshold,    \* FAILURE_THRESHOLD
    Crashes,      \* TRUE: processes die at any point
    Waits         \* TRUE: policy, pilot or wider controls block for a while

Position == 0 .. Steps - 1
Execution == Enrollment \X Position \X (1 .. Threshold)

ASSUME SequencesAssumption ==
    /\ Steps \in Nat \ {0} /\ Threshold \in Nat \ {0}
    /\ Crashes \in BOOLEAN /\ Waits \in BOOLEAN
    /\ Nobody \notin Worker
    /\ NoExecution \notin Execution

VARIABLES
    sequence,     \* whatsapp_sequences.status
    length,       \* number of its steps
    control,      \* the SEQUENCE operational control
    status,       \* enrollment.status ("none": not enrolled)
    current,      \* enrollment.current_step
    failures,     \* enrollment.failure_count
    next,         \* enrollment.next_run_at: "never", "later" or "due"
    held,         \* an automatic stop reason applies to the lead
    execution,    \* whatsapp_sequence_executions.state by step and attempt
    pc, job,      \* each worker's step and the execution it has claimed
    sending,      \* the step whose template the worker has loaded
    result,       \* what the send came to, until it is recorded
    holder,       \* worker holding the client, lead, enrollment, sequence rows
    accepted      \* ghost: times Meta accepted a step's template

operatorVars == <<sequence, length, control, held>>
rowVars == <<status, current, failures, next, execution>>
workerVars == <<pc, job, sending, result, holder>>
vars == <<operatorVars, rowVars, workerVars, accepted>>

SequenceStatus == {"draft", "active", "paused", "archived"}
EnrollmentStatus == {"none", "active", "paused", "completed", "stopped"}
ExecutionState == {"none", "sending", "paused", "blocked", "sent", "failed", "unknown"}
Result == {"none", "sent", "stop", "retry", "control", "failed", "uncertain"}
Message == Enrollment \X Position

\* Rows and workers keep their types, and an enrollment that may still be run
\* has a step to send and an attempt left below the failure threshold.
TypeOK ==
    /\ sequence \in SequenceStatus
    /\ length \in 1 .. Steps
    /\ control \in BOOLEAN
    /\ held \in [Enrollment -> BOOLEAN]
    /\ status \in [Enrollment -> EnrollmentStatus]
    /\ current \in [Enrollment -> 0 .. length]
    /\ failures \in [Enrollment -> 0 .. Threshold]
    /\ next \in [Enrollment -> {"never", "later", "due"}]
    /\ execution \in [Execution -> ExecutionState]
    /\ pc \in [Worker -> {"idle", "claimed", "ready", "calling", "accepted", "recording"}]
    /\ job \in [Worker -> Execution \cup {NoExecution}]
    /\ sending \in [Worker -> Position]
    /\ result \in [Worker -> Result]
    /\ holder \in Worker \cup {Nobody}
    /\ accepted \in [Message -> Nat]
    /\ \A e \in Enrollment : status[e] \in {"active", "paused"} =>
           current[e] < length /\ failures[e] < Threshold

Init ==
    /\ sequence = "draft" /\ length \in 1 .. Steps
    /\ control = TRUE
    /\ held = [e \in Enrollment |-> FALSE]
    /\ status = [e \in Enrollment |-> "none"]
    /\ current = [e \in Enrollment |-> 0]
    /\ failures = [e \in Enrollment |-> 0]
    /\ next = [e \in Enrollment |-> "never"]
    /\ execution = [x \in Execution |-> "none"]
    /\ pc = [w \in Worker |-> "idle"]
    /\ job = [w \in Worker |-> NoExecution]
    /\ sending = [w \in Worker |-> 0]
    /\ result = [w \in Worker |-> "none"]
    /\ holder = Nobody
    /\ accepted = [m \in Message |-> 0]

-----------------------------------------------------------------------------
(* Rows.                                                                    *)

Of(w) == job[w][1]
\* The client and sequence rows are locked by any send of the tenant, an
\* enrollment and its lead only by their own.
RowsFree == holder = Nobody
RowFree(e) == \A w \in Worker : holder = w => Of(w) # e

\* The execution the enrollment's current step and failure count point to.
CurrentExecution(e) == <<e, current[e], failures[e] + 1>>

\* _stop, whatever the enrollment's status is by now.
Stop(e) ==
    /\ status' = [status EXCEPT ![e] = "stopped"]
    /\ next' = [next EXCEPT ![e] = "never"]
Later(e) == next' = [next EXCEPT ![e] = "later"] /\ UNCHANGED status

Mark(w, state) == execution' = [execution EXCEPT ![job[w]] = state]

Go(w, step) == pc' = [pc EXCEPT ![w] = step] /\ UNCHANGED <<job, sending>>
Leave(w) ==
    /\ pc' = [pc EXCEPT ![w] = "idle"]
    /\ job' = [job EXCEPT ![w] = NoExecution]
    /\ sending' = [sending EXCEPT ![w] = 0]
    /\ result' = [result EXCEPT ![w] = "none"]
\* The transaction of the send ends with the given outcome.
Conclude(w, outcome) ==
    /\ Go(w, "recording")
    /\ result' = [result EXCEPT ![w] = outcome]
    /\ holder' = IF holder = w THEN Nobody ELSE holder

-----------------------------------------------------------------------------
(* Operators and leads.                                                     *)

\* The rows of the steps are replaced, never by none.
ReplaceSteps(n) == length' = n

EditDraft(n) ==
    /\ sequence = "draft"
    /\ ReplaceSteps(n)
    /\ UNCHANGED <<sequence, control, held, rowVars, workerVars, accepted>>

\* set_sequence_status.
SetSequenceStatus(target) ==
    /\ RowsFree
    /\ \/ target = "active" /\ sequence \in {"draft", "paused"}
       \/ target = "paused" /\ sequence = "active"
       \/ target = "archived" /\ sequence \in {"draft", "paused"}
    /\ sequence' = target
    /\ UNCHANGED <<length, control, held, rowVars, workerVars, accepted>>

\* mutate of the SEQUENCE control locks the client row first.
SetControl ==
    /\ RowsFree
    /\ control' = ~control
    /\ UNCHANGED <<sequence, length, held, rowVars, workerVars, accepted>>

\* A takeover, an opt-out, a reply, a booked or lost stage; some can be undone.
LeadChanges(e) ==
    /\ RowFree(e)
    /\ held' = [held EXCEPT ![e] = ~@]
    /\ UNCHANGED <<sequence, length, control, rowVars, workerVars, accepted>>

Enroll(e) ==
    /\ RowsFree
    /\ sequence = "active" /\ status[e] = "none"
    /\ status' = [status EXCEPT ![e] = "active"]
    /\ next' = [next EXCEPT ![e] = "later"]
    /\ UNCHANGED <<operatorVars, current, failures, execution, workerVars, accepted>>

\* set_enrollment_status, in the middle of a send too, before or after its
\* transaction.
SetEnrollmentStatus(e) ==
    /\ RowFree(e)
    /\ \/ /\ status[e] = "active"
          /\ status' = [status EXCEPT ![e] = "paused"]
          /\ next' = [next EXCEPT ![e] = "never"]
       \/ /\ status[e] = "paused"
          /\ status' = [status EXCEPT ![e] = "active"]
          /\ next' = [next EXCEPT ![e] = "due"]
       \/ status[e] \in {"active", "paused"} /\ Stop(e)
    /\ UNCHANGED <<operatorVars, current, failures, execution, workerVars, accepted>>

\* The time of the next run comes.
Elapse(e) ==
    /\ next[e] = "later"
    /\ next' = [next EXCEPT ![e] = "due"]
    /\ UNCHANGED <<operatorVars, status, current, failures, execution, workerVars, accepted>>

-----------------------------------------------------------------------------
(* _claim_due_enrollment and the first transaction of _process_claim.       *)

\* Slip: a claim that is still open is taken over.
ReusableClaimed == {"none", "paused", "sending"}

\* The states of an execution a tick may claim; any other one ends the tick.
Reusable == {"none", "paused"}

Claim(w, e) ==
    LET x == CurrentExecution(e) IN
    /\ pc[w] = "idle"
    /\ status[e] = "active" /\ next[e] = "due"
    /\ RowFree(e)
    /\ execution[x] \in Reusable
    /\ execution' = [execution EXCEPT ![x] = "sending"]
    /\ pc' = [pc EXCEPT ![w] = "claimed"]
    /\ job' = [job EXCEPT ![w] = x]
    /\ UNCHANGED <<operatorVars, status, current, failures, next, sending, result,
                   holder, accepted>>

\* Slip: the step blocked by the control is closed.
PostponeStepClosed(w) ==
    /\ pc[w] = "claimed" /\ RowsFree
    /\ ~control
    /\ Later(Of(w))
    /\ Mark(w, "blocked")
    /\ Leave(w)
    /\ UNCHANGED <<operatorVars, current, failures, holder, accepted>>

\* The operational control is off: the step comes back later.
PostponeStep(w) ==
    /\ pc[w] = "claimed" /\ RowsFree
    /\ ~control
    /\ Later(Of(w))
    /\ Mark(w, "paused")
    /\ Leave(w)
    /\ UNCHANGED <<operatorVars, current, failures, holder, accepted>>

\* A claim whose sequence, enrollment or lead no longer wants it.
DropStep(w) ==
    /\ pc[w] = "claimed" /\ RowsFree
    /\ control
    /\ sequence # "active" \/ status[Of(w)] # "active" \/ held[Of(w)]
    /\ Stop(Of(w))
    /\ Mark(w, "blocked")
    /\ Leave(w)
    /\ UNCHANGED <<operatorVars, current, failures, holder, accepted>>

\* The template of the enrollment's current step is loaded; commit.
PrepareStep(w) ==
    /\ pc[w] = "claimed" /\ RowsFree
    /\ control /\ sequence = "active" /\ status[Of(w)] = "active" /\ ~held[Of(w)]
    /\ sending' = [sending EXCEPT ![w] = current[Of(w)]]
    /\ pc' = [pc EXCEPT ![w] = "ready"]
    /\ UNCHANGED <<operatorVars, rowVars, job, result, holder, accepted>>

-----------------------------------------------------------------------------
(* send_immediate_template: policy, final guard and provider call in one     *)
(* transaction.                                                             *)

\* A policy or pilot reason: one that stops the enrollment, one that lets it
\* wait (quiet hours, caps, pilot), or a control above this sequence's own.
PolicyBlocks(w) ==
    /\ pc[w] = "ready" /\ RowsFree
    /\ \E outcome \in IF Waits THEN {"stop", "retry", "control"} ELSE {"stop"} :
           Conclude(w, outcome)
    /\ UNCHANGED <<operatorVars, rowVars, accepted>>

\* _final_sequence_guard refuses: by the control, by an enrollment that is not
\* active any more, or by stopping the enrollment itself.  The reason it
\* returns for a stopped enrollment may be one the outcome does not stop for.
GuardBlocks(w) ==
    LET e == Of(w) IN
    /\ pc[w] = "ready" /\ RowsFree
    /\ \/ ~control /\ Conclude(w, "control") /\ UNCHANGED <<status, next>>
       \/ /\ control /\ status[e] # "active"
          /\ \E outcome \in IF status[e] = "paused" THEN {"stop"} ELSE {"stop", "retry"} :
                 Conclude(w, outcome)
          /\ UNCHANGED <<status, next>>
       \/ /\ control /\ status[e] = "active"
          /\ sequence # "active" \/ held[e]
          /\ Stop(e)
          /\ \E outcome \in {"stop", "retry"} : Conclude(w, outcome)
    /\ UNCHANGED <<operatorVars, current, failures, execution, accepted>>

\* Slip: the final guard trusts the first transaction's look at the enrollment.
GuardPassesUnlocked(w) == control /\ sequence = "active" /\ ~held[Of(w)]

GuardPasses(w) ==
    control /\ sequence = "active" /\ status[Of(w)] = "active" /\ ~held[Of(w)]

StartCall(w) ==
    /\ pc[w] = "ready" /\ RowsFree
    /\ GuardPasses(w)
    /\ holder' = w
    /\ Go(w, "calling")
    /\ UNCHANGED <<operatorVars, rowVars, result, accepted>>

ProviderAccepts(w) ==
    /\ pc[w] = "calling"
    /\ accepted' = [accepted EXCEPT ![<<Of(w), sending[w]>>] = @ + 1]
    /\ Go(w, "accepted")
    /\ UNCHANGED <<operatorVars, rowVars, result, holder>>

\* Meta refuses, or the transaction fails before the call.
SendFails(w) ==
    /\ pc[w] \in {"ready", "calling"}
    /\ Conclude(w, "failed")
    /\ UNCHANGED <<operatorVars, rowVars, accepted>>

\* MetaTransportError without an answer, or ProviderOutcomeUncertain when the
\* commit after the acceptance fails.
OutcomeUncertain(w) ==
    /\ pc[w] \in {"calling", "accepted"}
    /\ Conclude(w, "uncertain")
    /\ UNCHANGED <<operatorVars, rowVars, accepted>>

CommitSend(w) ==
    /\ pc[w] = "accepted"
    /\ Conclude(w, "sent")
    /\ UNCHANGED <<operatorVars, rowVars, accepted>>

-----------------------------------------------------------------------------
(* The outcome transaction of _process_claim.  It locks the enrollment again *)
(* and writes over whatever an operator did in between.                     *)

Record(w, outcome) ==
    /\ pc[w] = "recording" /\ result[w] = outcome
    /\ RowFree(Of(w))
    /\ Leave(w)
    /\ UNCHANGED <<operatorVars, holder, accepted>>

\* Slip: a step whose outcome is open is left behind for the next one.
RecordUncertainAsSent(w) ==
    /\ Record(w, "uncertain")
    /\ Mark(w, "unknown")
    /\ IF current[Of(w)] + 1 < length
       THEN Later(Of(w)) /\ current' = [current EXCEPT ![Of(w)] = @ + 1]
       ELSE Stop(Of(w)) /\ UNCHANGED current
    /\ UNCHANGED failures

RecordUncertain(w) ==
    /\ Record(w, "uncertain")
    /\ Mark(w, "unknown")
    /\ Stop(Of(w))
    /\ UNCHANGED <<current, failures>>

\* Slip: the threshold is reached one failure late.
RecordFailureLate(w) ==
    /\ Record(w, "failed")
    /\ Mark(w, "failed")
    /\ failures' = [failures EXCEPT ![Of(w)] = @ + 1]
    /\ IF failures[Of(w)] + 1 > Threshold THEN Stop(Of(w)) ELSE Later(Of(w))
    /\ UNCHANGED current

RecordFailure(w) ==
    /\ Record(w, "failed")
    /\ Mark(w, "failed")
    /\ failures' = [failures EXCEPT ![Of(w)] = @ + 1]
    /\ IF failures[Of(w)] + 1 >= Threshold THEN Stop(Of(w)) ELSE Later(Of(w))
    /\ UNCHANGED current

RecordBlock(w) ==
    /\ \/ Record(w, "stop") /\ Mark(w, "blocked") /\ Stop(Of(w))
       \/ Record(w, "retry") /\ Mark(w, "blocked") /\ Later(Of(w))
       \/ Record(w, "control") /\ Mark(w, "paused") /\ Later(Of(w))
    /\ UNCHANGED <<current, failures>>

RecordSent(w) ==
    /\ Record(w, "sent")
    /\ Mark(w, "sent")
    /\ current' = [current EXCEPT ![Of(w)] = @ + 1]
    /\ IF current[Of(w)] + 1 = length
       THEN /\ status' = [status EXCEPT ![Of(w)] = "completed"]
            /\ next' = [next EXCEPT ![Of(w)] = "never"]
       ELSE Later(Of(w))
    /\ UNCHANGED failures

\* The process dies, or an exception leaves the tick.
Crash(w) ==
    /\ Crashes
    /\ pc[w] # "idle"
    /\ holder' = IF holder = w THEN Nobody ELSE holder
    /\ Leave(w)
    /\ UNCHANGED <<operatorVars, rowVars, accepted>>

-----------------------------------------------------------------------------
Tick(w) ==
    \/ \E e \in Enrollment : Claim(w, e)
    \/ PostponeStep(w) \/ DropStep(w) \/ PrepareStep(w)
    \/ PolicyBlocks(w) \/ GuardBlocks(w) \/ StartCall(w)
    \/ ProviderAccepts(w) \/ SendFails(w) \/ OutcomeUncertain(w) \/ CommitSend(w)
    \/ RecordUncertain(w) \/ RecordFailure(w) \/ RecordBlock(w) \/ RecordSent(w)

Next ==
    \/ \E target \in {"active", "paused", "archived"} : SetSequenceStatus(target)
    \/ \E n \in 1 .. Steps : EditDraft(n)
    \/ SetControl
    \/ \E e \in Enrollment :
           LeadChanges(e) \/ Enroll(e) \/ SetEnrollmentStatus(e) \/ Elapse(e)
    \/ \E w \in Worker : Tick(w) \/ Crash(w)

Spec == Init /\ [][Next]_vars

\* A tick that does not raise enqueues the next one, and time passes.
Fairness ==
    /\ \A w \in Worker : WF_vars(Tick(w))
    /\ \A e \in Enrollment : WF_vars(Elapse(e))

FairSpec == Spec /\ Fairness

-----------------------------------------------------------------------------
(* Each step of each enrollment is a message of the at-most-once promise.   *)

StepClaimed(m) ==
    \E n \in 1 .. Threshold : execution[<<m[1], m[2], n>>] \in {"sending", "unknown", "sent"}

AtMostOnce == INSTANCE AtMostOnceSend
    WITH Msg <- Message,
         status <- [m \in Message |-> IF StepClaimed(m) THEN "claimed" ELSE "open"],
         deliveries <- accepted

-----------------------------------------------------------------------------
(* Properties.                                                              *)

\* Sequence steps keep the promise of the outbox: overlapping ticks, retries
\* after failures, postponed steps and crashes never have a step sent twice,
\* and a step Meta may have taken is never opened again ("A duplicate
\* scheduler/worker can therefore never issue a second provider send").
ImplementsAtMostOnce == AtMostOnce!Spec

\* A lead gets the steps of the sequence in order and without gaps: whatever
\* lies before the enrollment's current step was accepted, nothing after it.
StepsInOrder ==
    \A e \in Enrollment, s \in Position :
        /\ s < current[e] => accepted[<<e, s>>] = 1
        /\ s > current[e] => accepted[<<e, s>>] = 0

\* At the moment Meta accepts a step its sequence and enrollment are active, the
\* control is on, and no reply, takeover, opt-out or closing stage stands
\* against it, however long ago the claim was made.
SendRespectsStop ==
    [][\A m \in Message : accepted'[m] # accepted[m] =>
           /\ sequence = "active" /\ control
           /\ status[m[1]] = "active"
           /\ ~held[m[1]]]_vars

\* Without crashes and temporary policy blocks, and with the control on for
\* good, an active enrollment is eventually completed, stopped or paused.
EnrollmentSettles ==
    <>[]control =>
        \A e \in Enrollment : status[e] = "active" ~> status[e] # "active"

=============================================================================
