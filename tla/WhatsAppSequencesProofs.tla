----------------------- MODULE WhatsAppSequencesProofs -----------------------
(***************************************************************************)
(* Proofs about the follow-up sequence for any number of enrollments and    *)
(* overlapping ticks, any length of the sequence and any failure threshold, *)
(* with processes that die at any point.                                    *)
(*                                                                          *)
(* A claim is kept by an execution row, not by the worker: an execution     *)
(* that is "sending" belongs to one worker or to none, and then to nobody   *)
(* for good.  That execution is the one the enrollment's current step and   *)
(* failure count point to, and all rows beyond it are untouched.            *)
(***************************************************************************)
EXTENDS WhatsAppSequences, TLAPS

Busy(w) == pc[w] # "idle"

\* The lead has the template, as far as the worker knows or may think.
Delivered(w) == pc[w] = "accepted" \/ (pc[w] = "recording" /\ result[w] = "sent")
MayBeDelivered(w) == Delivered(w) \/ (pc[w] = "recording" /\ result[w] = "uncertain")

\* Nobody is enrolled in a draft, and a lead not enrolled has no history.
RowInv ==
    /\ sequence = "draft" => \A e \in Enrollment : status[e] = "none"
    /\ \A e \in Enrollment : status[e] = "none" => current[e] = 0 /\ failures[e] = 0

\* A worker has claimed the current execution of its enrollment, alone.
BusyInv ==
    /\ \A w \in Worker : Busy(w) =>
         /\ job[w] \in Execution /\ job[w] = CurrentExecution(Of(w))
         /\ execution[job[w]] = "sending"
         /\ status[Of(w)] # "none" /\ current[Of(w)] < length
         /\ pc[w] # "claimed" => sending[w] = current[Of(w)]
    /\ \A v, w \in Worker : Busy(v) /\ Busy(w) /\ Of(v) = Of(w) => v = w

\* The rows a send looks at are locked until it has its answer.
HolderInv ==
    \A w \in Worker :
        /\ holder = w <=> pc[w] \in {"calling", "accepted"}
        /\ holder = w => /\ sequence = "active" /\ control
                         /\ status[Of(w)] = "active" /\ ~held[Of(w)]

\* Executions behind the current one have failed or belong to a step that was
\* sent; those ahead are untouched.
ExecutionInv ==
    /\ \A x \in Execution :
         /\ x[2] > current[x[1]] \/ x[3] > failures[x[1]] + 1 => execution[x] = "none"
         /\ x[2] = current[x[1]] /\ x[3] <= failures[x[1]] => execution[x] \in {"none", "failed"}
    /\ \A m \in Message : m[2] < current[m[1]] =>
         \E n \in 1 .. Threshold : execution[<<m[1], m[2], n>>] = "sent"

\* What was accepted of the current step is under a claim that is still open.
AcceptedInv ==
    /\ StepsInOrder
    /\ \A e \in Enrollment : current[e] \in Position =>
         /\ accepted[<<e, current[e]>>] \in {0, 1}
         /\ accepted[<<e, current[e]>>] = 1 =>
              failures[e] < Threshold /\ execution[CurrentExecution(e)] \in {"sending", "unknown"}
    /\ \A w \in Worker : Busy(w) =>
         /\ Delivered(w) => accepted[<<Of(w), current[Of(w)]>>] = 1
         /\ ~MayBeDelivered(w) => accepted[<<Of(w), current[Of(w)]>>] = 0

SequencesInv ==
    TypeOK /\ RowInv /\ BusyInv /\ HolderInv /\ ExecutionInv /\ AcceptedInv

-----------------------------------------------------------------------------
(* Executions and what a worker has claimed.                                *)

LEMMA ExecutionParts ==
  /\ \A x \in Execution : /\ x = <<x[1], x[2], x[3]>>
                          /\ x[1] \in Enrollment /\ x[2] \in Position /\ x[3] \in 1 .. Threshold
  /\ \A e \in Enrollment, s \in Position, n \in 1 .. Threshold : <<e, s, n>> \in Execution
  /\ \A m \in Message : m = <<m[1], m[2]>> /\ m[1] \in Enrollment /\ m[2] \in Position
  /\ \A e \in Enrollment, s \in Position : <<e, s>> \in Message
  BY DEF Execution, Message

LEMMA Bounds ==
  /\ Steps \in Nat /\ Steps > 0 /\ Threshold \in Nat /\ Threshold > 0
  /\ \A s : s \in Position <=> s \in Int /\ 0 <= s /\ s < Steps
  BY SequencesAssumption DEF Position

LEMMA RowBounds ==
  ASSUME TypeOK, NEW e \in Enrollment
  PROVE  /\ current[e] \in Nat /\ failures[e] \in Nat /\ length \in Nat
         /\ current[e] <= length /\ length <= Steps /\ failures[e] <= Threshold
  BY Bounds DEF TypeOK

\* The claim of a worker, spelled out.
LEMMA ClaimOf ==
  ASSUME TypeOK, BusyInv, NEW w \in Worker, Busy(w)
  PROVE  /\ Of(w) \in Enrollment
         /\ current[Of(w)] \in Position /\ failures[Of(w)] + 1 \in 1 .. Threshold
         /\ job[w] \in Execution
         /\ job[w] = <<Of(w), current[Of(w)], failures[Of(w)] + 1>>
         /\ execution[job[w]] = "sending"
         /\ status[Of(w)] # "none" /\ current[Of(w)] < length
  <1>1. job[w] \in Execution /\ job[w] = CurrentExecution(Of(w))
    BY DEF BusyInv
  <1>2. Of(w) \in Enrollment /\ job[w][2] \in Position /\ job[w][3] \in 1 .. Threshold
    BY <1>1, ExecutionParts DEF Of
  <1>3. job[w][2] = current[Of(w)] /\ job[w][3] = failures[Of(w)] + 1
    BY <1>1 DEF CurrentExecution
  <1> QED
    BY <1>1, <1>2, <1>3 DEF CurrentExecution, BusyInv

-----------------------------------------------------------------------------
(* What a step can be: an operator's, a claim, a worker's own progress, the  *)
(* end of a claim, or a crash.                                              *)

Operates ==
    /\ UNCHANGED <<current, failures, execution, workerVars, accepted>>
    /\ \A e \in Enrollment : status'[e] = "none" => status[e] = "none"
    /\ sequence = "draft" => UNCHANGED status
    /\ sequence' = "draft" => sequence = "draft"
    /\ sequence # "draft" => UNCHANGED length

Advances(w) ==
    /\ Busy(w)
    /\ UNCHANGED <<sequence, length, control, held, current, failures, execution, job>>
    /\ \A e \in Enrollment : status'[e] = "none" => status[e] = "none"
    /\ \E p \in {"ready", "calling", "accepted", "recording"} : pc' = [pc EXCEPT ![w] = p]
    /\ sending' = IF pc[w] = "claimed" THEN [sending EXCEPT ![w] = current[Of(w)]] ELSE sending
    /\ \A v \in Worker \ {w} : result'[v] = result[v]
    /\ MayBeDelivered(w) => MayBeDelivered(w)'
    /\ \/ /\ accepted' = [accepted EXCEPT ![<<Of(w), sending[w]>>] = @ + 1]
          /\ pc[w] = "calling" /\ MayBeDelivered(w)'
       \/ UNCHANGED accepted /\ (Delivered(w)' => Delivered(w))

Settles(w, state) ==
    /\ pc[w] \in {"claimed", "recording"} /\ Leave(w) /\ Mark(w, state)
    /\ UNCHANGED <<sequence, length, control, held, holder, accepted>>
    /\ \A e \in Enrollment : status'[e] = "none" => status[e] = "none"
    /\ \/ /\ state \in {"paused", "blocked"} /\ ~MayBeDelivered(w)
          /\ UNCHANGED <<current, failures>>
       \/ /\ state = "failed" /\ ~MayBeDelivered(w)
          /\ failures' = [failures EXCEPT ![Of(w)] = @ + 1] /\ UNCHANGED current
       \/ state = "unknown" /\ UNCHANGED <<current, failures>>
       \/ /\ state = "sent" /\ Delivered(w)
          /\ current' = [current EXCEPT ![Of(w)] = @ + 1] /\ UNCHANGED failures

Operators ==
    \/ \E target \in {"active", "paused", "archived"} : SetSequenceStatus(target)
    \/ \E n \in 1 .. Steps : EditDraft(n)
    \/ SetControl
    \/ \E e \in Enrollment :
           LeadChanges(e) \/ Enroll(e) \/ SetEnrollmentStatus(e) \/ Elapse(e)

LEMMA OperatorKind ==
  ASSUME TypeOK, RowInv, Operators
  PROVE  Operates
  <1>1. ASSUME NEW e \in Enrollment, Enroll(e) PROVE Operates
    BY <1>1 DEF Enroll, Operates, operatorVars, TypeOK
  <1>2. ASSUME NEW e \in Enrollment, SetEnrollmentStatus(e) PROVE Operates
    <2>1. status[e] \in {"active", "paused"}
      BY <1>2 DEF SetEnrollmentStatus
    <2>2. sequence # "draft"
      BY <2>1 DEF RowInv
    <2>3. status' = [status EXCEPT ![e] = status'[e]] /\ status'[e] # "none"
      BY <1>2 DEF SetEnrollmentStatus, Stop, TypeOK
    <2> QED
      BY <1>2, <2>2, <2>3 DEF SetEnrollmentStatus, Operates, operatorVars, TypeOK
  <1>3. ASSUME NEW e \in Enrollment, LeadChanges(e) \/ Elapse(e) PROVE Operates
    BY <1>3 DEF LeadChanges, Elapse, Operates, operatorVars, rowVars
  <1>4. ASSUME NEW n \in 1 .. Steps, EditDraft(n) PROVE Operates
    BY <1>4 DEF EditDraft, Operates, rowVars
  <1>5. ASSUME NEW target \in {"active", "paused", "archived"}, SetSequenceStatus(target)
        PROVE  Operates
    BY <1>5 DEF SetSequenceStatus, Operates, rowVars
  <1>6. CASE SetControl
    BY <1>6 DEF SetControl, Operates, rowVars
  <1> QED
    BY <1>1, <1>2, <1>3, <1>4, <1>5, <1>6 DEF Operators

LEMMA ProgressKind ==
  ASSUME TypeOK, BusyInv, NEW w \in Worker,
         \/ PrepareStep(w) \/ PolicyBlocks(w) \/ GuardBlocks(w) \/ StartCall(w)
         \/ ProviderAccepts(w) \/ SendFails(w) \/ OutcomeUncertain(w) \/ CommitSend(w)
  PROVE  Advances(w)
  <1> USE DEF Delivered, MayBeDelivered, Busy
  <1>1. CASE PrepareStep(w)
    BY <1>1 DEF PrepareStep, Advances, operatorVars, rowVars, TypeOK
  <1>2. CASE PolicyBlocks(w)
    BY <1>2 DEF PolicyBlocks, Conclude, Go, Advances, operatorVars, rowVars, TypeOK
  <1>3. CASE GuardBlocks(w)
    <2>1. \A e \in Enrollment : status'[e] = "none" => status[e] = "none"
      BY <1>3 DEF GuardBlocks, Stop, TypeOK
    <2>2. \E outcome \in {"control", "stop", "retry"} : Conclude(w, outcome)
      BY <1>3 DEF GuardBlocks
    <2>3. pc[w] = "ready" /\ UNCHANGED <<operatorVars, current, failures, execution, accepted>>
      BY <1>3 DEF GuardBlocks
    <2> QED
      BY <2>1, <2>2, <2>3 DEF Conclude, Go, Advances, operatorVars, TypeOK
  <1>4. CASE StartCall(w)
    BY <1>4 DEF StartCall, Go, Advances, operatorVars, rowVars, TypeOK
  <1>5. CASE ProviderAccepts(w)
    BY <1>5 DEF ProviderAccepts, Go, Advances, operatorVars, rowVars, TypeOK
  <1>6. CASE SendFails(w)
    BY <1>6 DEF SendFails, Conclude, Go, Advances, operatorVars, rowVars, TypeOK
  <1>7. CASE OutcomeUncertain(w)
    BY <1>7 DEF OutcomeUncertain, Conclude, Go, Advances, operatorVars, rowVars, TypeOK
  <1>8. CASE CommitSend(w)
    BY <1>8 DEF CommitSend, Conclude, Go, Advances, operatorVars, rowVars, TypeOK
  <1> QED
    BY <1>1, <1>2, <1>3, <1>4, <1>5, <1>6, <1>7, <1>8

LEMMA OutcomeKind ==
  ASSUME TypeOK, BusyInv, NEW w \in Worker,
         \/ PostponeStep(w) \/ DropStep(w)
         \/ RecordUncertain(w) \/ RecordFailure(w) \/ RecordBlock(w) \/ RecordSent(w)
  PROVE  \E state \in {"paused", "blocked", "failed", "unknown", "sent"} : Settles(w, state)
  <1> USE DEF Delivered, MayBeDelivered, Busy
  <1>1. CASE PostponeStep(w)
    BY <1>1 DEF PostponeStep, Settles, Later, operatorVars
  <1>2. CASE DropStep(w)
    <2>1. \A e \in Enrollment : status'[e] = "none" => status[e] = "none"
      BY <1>2 DEF DropStep, Stop, TypeOK
    <2>2. Settles(w, "blocked")
      BY <1>2, <2>1 DEF DropStep, Settles, operatorVars
    <2> QED
      BY <2>2
  <1>3. CASE RecordUncertain(w)
    <2>1. \A e \in Enrollment : status'[e] = "none" => status[e] = "none"
      BY <1>3 DEF RecordUncertain, Stop, TypeOK
    <2>2. Settles(w, "unknown")
      BY <1>3, <2>1 DEF RecordUncertain, Record, Settles, operatorVars
    <2> QED
      BY <2>2
  <1>4. CASE RecordFailure(w)
    <2>1. \A e \in Enrollment : status'[e] = "none" => status[e] = "none"
      BY <1>4 DEF RecordFailure, Stop, Later, TypeOK
    <2>2. Settles(w, "failed")
      BY <1>4, <2>1 DEF RecordFailure, Record, Settles, operatorVars
    <2> QED
      BY <2>2
  <1>5. CASE RecordBlock(w)
    <2>1. \A e \in Enrollment : status'[e] = "none" => status[e] = "none"
      BY <1>5 DEF RecordBlock, Stop, Later, TypeOK
    <2>2. Settles(w, "blocked") \/ Settles(w, "paused")
      BY <1>5, <2>1 DEF RecordBlock, Record, Settles, operatorVars
    <2> QED
      BY <2>2
  <1>6. CASE RecordSent(w)
    <2>1. \A e \in Enrollment : status'[e] = "none" => status[e] = "none"
      BY <1>6 DEF RecordSent, Later, TypeOK
    <2>2. Settles(w, "sent")
      BY <1>6, <2>1 DEF RecordSent, Record, Settles, operatorVars
    <2> QED
      BY <2>2
  <1> QED
    BY <1>1, <1>2, <1>3, <1>4, <1>5, <1>6

LEMMA Kinds ==
  ASSUME TypeOK, RowInv, BusyInv, [Next]_vars
  PROVE  \/ Operates
         \/ \E w \in Worker :
              \/ \E e \in Enrollment : Claim(w, e)
              \/ Advances(w)
              \/ \E state \in {"paused", "blocked", "failed", "unknown", "sent"} : Settles(w, state)
              \/ Crash(w)
  <1>1. CASE Operators
    BY <1>1, OperatorKind
  <1>2. ASSUME NEW w \in Worker, Tick(w)
        PROVE  \/ \E e \in Enrollment : Claim(w, e)
               \/ Advances(w)
               \/ \E state \in {"paused", "blocked", "failed", "unknown", "sent"} : 
                    Settles(w, state)
    BY <1>2, ProgressKind, OutcomeKind DEF Tick
  <1>3. CASE UNCHANGED vars
    BY <1>3 DEF vars, Operates, operatorVars, rowVars
  <1> QED
    BY <1>1, <1>2, <1>3 DEF Next, Operators

-----------------------------------------------------------------------------
(* The effect of each kind of step on the workers and on the rows.           *)

\* A claim takes an execution nobody works on.
LEMMA ClaimEffect ==
  ASSUME TypeOK, BusyInv, NEW w \in Worker, NEW e \in Enrollment, Claim(w, e)
  PROVE  LET x == CurrentExecution(e) IN
         /\ x \in Execution /\ x = <<e, current[e], failures[e] + 1>>
         /\ current[e] < length /\ status[e] # "none"
         /\ execution[x] \in {"none", "paused"}
         /\ \A y \in Execution : execution'[y] = IF y = x THEN "sending" ELSE execution[y]
         /\ ~Busy(w) /\ pc'[w] = "claimed" /\ job'[w] = x /\ Of(w)' = e
         /\ \A v \in Worker \ {w} : pc'[v] = pc[v] /\ job'[v] = job[v]
         /\ \A v \in Worker : Busy(v) => Of(v) # e
  <1>1. status[e] = "active" /\ current[e] < length /\ failures[e] < Threshold
    BY DEF Claim, TypeOK
  <1>2. current[e] \in Position /\ failures[e] + 1 \in 1 .. Threshold
    BY <1>1, Bounds, RowBounds
  <1>3. CurrentExecution(e) \in Execution
    BY <1>2, ExecutionParts DEF CurrentExecution
  <1>4. execution[CurrentExecution(e)] \in {"none", "paused"}
    BY DEF Claim, Reusable
  <1>5. \A v \in Worker : Busy(v) => Of(v) # e
    BY <1>4 DEF BusyInv
  <1>6. Of(w)' = e /\ job'[w] = CurrentExecution(e)
    BY DEF Claim, Of, CurrentExecution, TypeOK
  <1> QED
    BY <1>1, <1>3, <1>4, <1>5, <1>6 DEF Claim, CurrentExecution, Busy, TypeOK

\* The end of a claim concerns one execution and one enrollment.
LEMMA SettleEffect ==
  ASSUME TypeOK, BusyInv, NEW w \in Worker, NEW state, Settles(w, state)
  PROVE  LET e == Of(w) IN
         /\ Busy(w) /\ pc'[w] = "idle"
         /\ \A y \in Execution : execution'[y] = IF y = job[w] THEN state ELSE execution[y]
         /\ \A v \in Worker \ {w} : pc'[v] = pc[v] /\ job'[v] = job[v] /\ Of(v)' = Of(v)
                                    /\ sending'[v] = sending[v] /\ result'[v] = result[v]
         /\ \A v \in Worker \ {w} : Busy(v) => Of(v) # e
         /\ \A d \in Enrollment \ {e} : current'[d] = current[d] /\ failures'[d] = failures[d]
         /\ current'[e] = current[e] + (IF state = "sent" THEN 1 ELSE 0)
         /\ failures'[e] = failures[e] + (IF state = "failed" THEN 1 ELSE 0)
  <1>1. Busy(w)
    BY DEF Settles, Busy
  <1>2. /\ Of(w) \in Enrollment /\ job[w] \in Execution
        /\ current[Of(w)] \in Nat /\ failures[Of(w)] \in Nat
    BY <1>1, ClaimOf, RowBounds
  <1>3. \A v \in Worker \ {w} : Busy(v) => Of(v) # Of(w)
    BY <1>1 DEF BusyInv
  <1>4. /\ pc'[w] = "idle"
        /\ \A v \in Worker \ {w} : pc'[v] = pc[v] /\ job'[v] = job[v]
                                   /\ sending'[v] = sending[v] /\ result'[v] = result[v]
    BY DEF Settles, Leave, TypeOK
  <1>5. \A v \in Worker \ {w} : Of(v)' = Of(v)
    BY <1>4 DEF Of
  <1>6. \A y \in Execution : execution'[y] = IF y = job[w] THEN state ELSE execution[y]
    BY <1>2 DEF Settles, Mark, TypeOK
  <1>7. /\ \A d \in Enrollment \ {Of(w)} : current'[d] = current[d] /\ failures'[d] = failures[d]
        /\ current'[Of(w)] = current[Of(w)] + (IF state = "sent" THEN 1 ELSE 0)
        /\ failures'[Of(w)] = failures[Of(w)] + (IF state = "failed" THEN 1 ELSE 0)
    BY <1>2 DEF Settles, TypeOK
  <1> QED
    BY <1>1, <1>3, <1>4, <1>5, <1>6, <1>7

\* A crash leaves the rows and the other workers alone.
LEMMA CrashEffect ==
  ASSUME TypeOK, NEW w \in Worker, Crash(w)
  PROVE  /\ UNCHANGED <<operatorVars, rowVars, accepted>> /\ pc'[w] = "idle"
         /\ \A v \in Worker \ {w} : pc'[v] = pc[v] /\ job'[v] = job[v] /\ Of(v)' = Of(v)
                                    /\ sending'[v] = sending[v] /\ result'[v] = result[v]
  BY DEF Crash, Leave, Of, TypeOK

LEMMA AdvanceEffect ==
  ASSUME TypeOK, NEW w \in Worker, Advances(w)
  PROVE  /\ Busy(w) /\ Busy(w)' /\ pc'[w] # "claimed"
         /\ \A v \in Worker : Of(v)' = Of(v)
         /\ \A v \in Worker \ {w} : pc'[v] = pc[v] /\ sending'[v] = sending[v]
                                    /\ result'[v] = result[v]
  BY DEF Advances, Busy, Of, TypeOK

-----------------------------------------------------------------------------
(* Enrollments and claims.                                                  *)

LEMMA RowNext ==
  ASSUME TypeOK, RowInv, BusyInv, [Next]_vars
  PROVE  RowInv'
  <1>1. CASE Operates
    BY <1>1 DEF Operates, RowInv
  <1>2. ASSUME NEW w \in Worker, NEW e \in Enrollment, Claim(w, e)
        PROVE  RowInv'
    BY <1>2 DEF Claim, RowInv, operatorVars
  <1>3. ASSUME NEW w \in Worker, Advances(w)
        PROVE  RowInv'
    <2>1. sequence # "draft"
      BY <1>3, ClaimOf DEF Advances, RowInv
    <2> QED
      BY <1>3, <2>1 DEF Advances, RowInv
  <1>4. ASSUME NEW w \in Worker, NEW state, Settles(w, state)
        PROVE  RowInv'
    <2>1. Of(w) \in Enrollment /\ status[Of(w)] # "none"
      BY <1>4, SettleEffect, ClaimOf
    <2>2. sequence' # "draft"
      BY <1>4, <2>1 DEF Settles, RowInv
    <2>3. \A e \in Enrollment : status'[e] = "none" => status[e] = "none" /\ e # Of(w)
      BY <1>4, <2>1 DEF Settles
    <2>4. \A e \in Enrollment \ {Of(w)} : current'[e] = current[e] /\ failures'[e] = failures[e]
      BY <1>4, SettleEffect
    <2> QED
      BY <2>2, <2>3, <2>4 DEF RowInv
  <1>5. ASSUME NEW w \in Worker, Crash(w)
        PROVE  RowInv'
    BY <1>5 DEF Crash, RowInv, operatorVars, rowVars
  <1> QED
    BY <1>1, <1>2, <1>3, <1>4, <1>5, Kinds

LEMMA BusyNext ==
  ASSUME TypeOK, RowInv, BusyInv, [Next]_vars
  PROVE  BusyInv'
  <1> DEFINE Claimed(v) ==
        /\ job[v] \in Execution /\ job[v] = CurrentExecution(Of(v))
        /\ execution[job[v]] = "sending"
        /\ status[Of(v)] # "none" /\ current[Of(v)] < length
        /\ pc[v] # "claimed" => sending[v] = current[Of(v)]
  <1>a. \A v \in Worker : Busy(v) => Claimed(v) /\ Of(v) \in Enrollment
    BY ClaimOf DEF BusyInv
  <1>b. \A u, v \in Worker : Busy(u) /\ Busy(v) /\ Of(u) = Of(v) => u = v
    BY DEF BusyInv
  <1>1. CASE Operates
    <2>1. \A v \in Worker : (Busy(v)' <=> Busy(v)) /\ Of(v)' = Of(v)
      BY <1>1 DEF Operates, workerVars, Busy, Of
    <2>2. ASSUME NEW v \in Worker, Busy(v)
          PROVE  Claimed(v)'
      <3>1. sequence # "draft"
        BY <1>a, <2>2 DEF RowInv
      <3> QED
        BY <1>1, <1>a, <2>1, <2>2, <3>1 DEF Operates, workerVars, CurrentExecution
    <2>3. \A u, v \in Worker : Busy(u)' /\ Busy(v)' /\ Of(u)' = Of(v)' => u = v
      BY <1>b, <2>1
    <2> QED
      BY <2>1, <2>2, <2>3 DEF BusyInv
  <1>2. ASSUME NEW w \in Worker, NEW e \in Enrollment, Claim(w, e)
        PROVE  BusyInv'
    <2>1. UNCHANGED <<sequence, length, status, current, failures, sending>>
      BY <1>2 DEF Claim, operatorVars
    <2>2. /\ CurrentExecution(e) \in Execution
          /\ \A y \in Execution : execution'[y] =
               IF y = CurrentExecution(e) THEN "sending" ELSE execution[y]
          /\ pc'[w] = "claimed" /\ job'[w] = CurrentExecution(e) /\ Of(w)' = e
          /\ \A v \in Worker \ {w} : pc'[v] = pc[v] /\ job'[v] = job[v]
          /\ \A v \in Worker : Busy(v) => Of(v) # e
          /\ current[e] < length /\ status[e] # "none"
      BY <1>2, ClaimEffect
    <2>3. \A v \in Worker \ {w} : Of(v)' = Of(v) /\ (Busy(v)' <=> Busy(v))
      BY <2>2 DEF Of, Busy
    <2>4. CurrentExecution(e)' = CurrentExecution(e)
      BY <2>1 DEF CurrentExecution
    <2>5. Claimed(w)'
      BY <2>1, <2>2, <2>4
    <2>6. ASSUME NEW v \in Worker \ {w}, Busy(v)
          PROVE  Claimed(v)'
      <3>1. execution'[job[v]] = "sending"
        BY <1>a, <2>2, <2>6
      <3>2. CurrentExecution(Of(v))' = CurrentExecution(Of(v))
        BY <2>1, <2>3 DEF CurrentExecution
      <3> QED
        BY <1>a, <2>1, <2>2, <2>3, <2>6, <3>1, <3>2
    <2>7. \A u, v \in Worker : Busy(u)' /\ Busy(v)' /\ Of(u)' = Of(v)' => u = v
      BY <1>b, <2>2, <2>3
    <2> QED
      BY <2>3, <2>5, <2>6, <2>7 DEF BusyInv
  <1>3. ASSUME NEW w \in Worker, Advances(w)
        PROVE  BusyInv'
    <2>1. UNCHANGED <<length, current, failures, execution, job>>
      BY <1>3 DEF Advances
    <2>2. /\ Busy(w) /\ Busy(w)' /\ pc'[w] # "claimed"
          /\ \A v \in Worker : Of(v)' = Of(v)
          /\ \A v \in Worker \ {w} : pc'[v] = pc[v] /\ sending'[v] = sending[v]
      BY <1>3, AdvanceEffect
    <2>3. \A v \in Worker : Busy(v)' <=> Busy(v)
      BY <2>2 DEF Busy
    <2>4. \A v \in Worker : CurrentExecution(Of(v))' = CurrentExecution(Of(v))
      BY <2>1, <2>2 DEF CurrentExecution
    <2>5. \A v \in Worker : Busy(v) => status'[Of(v)] # "none"
      BY <1>3, <1>a DEF Advances
    <2>6. sending'[w] = current[Of(w)]
      BY <1>3, <1>a, <2>2 DEF Advances, TypeOK
    <2>7. \A v \in Worker : Busy(v) => Claimed(v)'
      BY <1>a, <2>1, <2>2, <2>4, <2>5, <2>6
    <2>8. \A u, v \in Worker : Busy(u)' /\ Busy(v)' /\ Of(u)' = Of(v)' => u = v
      BY <1>b, <2>2, <2>3
    <2> QED
      BY <2>3, <2>7, <2>8 DEF BusyInv
  <1>4. ASSUME NEW w \in Worker, UNCHANGED length, ~Busy(w)',
               \A v \in Worker \ {w} : /\ pc'[v] = pc[v] /\ job'[v] = job[v]
                                       /\ Of(v)' = Of(v) /\ sending'[v] = sending[v],
               \A v \in Worker \ {w} : Busy(v) =>
                 /\ execution'[job[v]] = execution[job[v]] /\ status'[Of(v)] # "none"
                 /\ current'[Of(v)] = current[Of(v)] /\ failures'[Of(v)] = failures[Of(v)]
        PROVE  BusyInv'
    <2>1. \A v \in Worker \ {w} : Busy(v)' <=> Busy(v)
      BY <1>4 DEF Busy
    <2>2. \A v \in Worker \ {w} : Busy(v) => Claimed(v)'
      BY <1>4, <1>a DEF CurrentExecution
    <2>3. \A u, v \in Worker : Busy(u)' /\ Busy(v)' /\ Of(u)' = Of(v)' => u = v
      BY <1>4, <1>b, <2>1
    <2> QED
      BY <1>4, <2>1, <2>2, <2>3 DEF BusyInv
  <1>5. ASSUME NEW w \in Worker, NEW state, Settles(w, state)
        PROVE  BusyInv'
    <2>1. /\ Busy(w) /\ ~Busy(w)'
          /\ \A v \in Worker \ {w} : /\ pc'[v] = pc[v] /\ job'[v] = job[v]
                                     /\ Of(v)' = Of(v) /\ sending'[v] = sending[v]
          /\ \A y \in Execution : execution'[y] = IF y = job[w] THEN state ELSE execution[y]
          /\ \A v \in Worker \ {w} : Busy(v) => Of(v) # Of(w)
          /\ \A d \in Enrollment \ {Of(w)} :
               current'[d] = current[d] /\ failures'[d] = failures[d]
      BY <1>5, SettleEffect DEF Busy
    <2>2. UNCHANGED length /\ \A e \in Enrollment : status'[e] = "none" => status[e] = "none"
      BY <1>5 DEF Settles
    <2>3. \A v \in Worker \ {w} : Busy(v) => job[v] # job[w]
      BY <2>1 DEF Of
    <2>4. \A v \in Worker \ {w} : Busy(v) =>
            /\ execution'[job[v]] = execution[job[v]] /\ status'[Of(v)] # "none"
            /\ current'[Of(v)] = current[Of(v)] /\ failures'[Of(v)] = failures[Of(v)]
      BY <1>a, <2>1, <2>2, <2>3
    <2> QED
      BY <1>4, <2>1, <2>2, <2>4
  <1>6. ASSUME NEW w \in Worker, Crash(w)
        PROVE  BusyInv'
    <2>1. UNCHANGED <<length, execution, status, current, failures>>
      BY <1>6 DEF Crash, operatorVars, rowVars
    <2>2. /\ ~Busy(w)'
          /\ \A v \in Worker \ {w} : /\ pc'[v] = pc[v] /\ job'[v] = job[v]
                                     /\ Of(v)' = Of(v) /\ sending'[v] = sending[v]
      BY <1>6, CrashEffect DEF Busy
    <2> QED
      BY <1>4, <1>a, <2>1, <2>2
  <1> QED
    BY <1>1, <1>2, <1>3, <1>5, <1>6, Kinds

-----------------------------------------------------------------------------
(* The executions.                                                          *)

LEMMA ExecutionNext ==
  ASSUME TypeOK, RowInv, BusyInv, ExecutionInv, [Next]_vars
  PROVE  ExecutionInv'
  <1>a. \A e \in Enrollment : current[e] \in Nat /\ failures[e] \in Nat
    BY RowBounds
  <1>b. \A x \in Execution :
          /\ x[1] \in Enrollment /\ x[2] \in Nat /\ x[3] \in Nat
          /\ x[2] > current[x[1]] \/ x[3] > failures[x[1]] + 1 => execution[x] = "none"
          /\ x[2] = current[x[1]] /\ x[3] <= failures[x[1]] => execution[x] \in {"none", "failed"}
    BY ExecutionParts, Bounds DEF ExecutionInv
  <1>c. ASSUME NEW x \in Execution, UNCHANGED <<current, failures>>,
               x[2] = current[x[1]], x[3] = failures[x[1]] + 1, execution[x] # "sent",
               \A y \in Execution : y # x => execution'[y] = execution[y]
        PROVE  ExecutionInv'
    <2>1. \A y \in Execution : y[2] > current[y[1]] \/ y[3] > failures[y[1]] + 1
                               \/ y[3] <= failures[y[1]] => y # x
      BY <1>a, <1>b, <1>c
    <2>2. \A m \in Message : m[2] < current[m[1]] =>
            \E n \in 1 .. Threshold : execution'[<<m[1], m[2], n>>] = "sent"
      <3> SUFFICES ASSUME NEW m \in Message, m[2] < current[m[1]]
                   PROVE  \E n \in 1 .. Threshold : execution'[<<m[1], m[2], n>>] = "sent"
        OBVIOUS
      <3>1. PICK n \in 1 .. Threshold : execution[<<m[1], m[2], n>>] = "sent"
        BY DEF ExecutionInv
      <3>2. <<m[1], m[2], n>> \in Execution
        BY ExecutionParts
      <3> QED
        BY <1>c, <3>1, <3>2
    <2> QED
      BY <1>b, <1>c, <2>1, <2>2 DEF ExecutionInv
  <1>1. CASE UNCHANGED <<current, failures, execution>>
    BY <1>1 DEF ExecutionInv
  <1>2. ASSUME NEW w \in Worker, NEW e \in Enrollment, Claim(w, e)
        PROVE  ExecutionInv'
    <2> DEFINE x == CurrentExecution(e)
    <2>1. /\ x \in Execution /\ x = <<e, current[e], failures[e] + 1>>
          /\ execution[x] \in {"none", "paused"}
          /\ \A y \in Execution : execution'[y] = IF y = x THEN "sending" ELSE execution[y]
      BY <1>2, ClaimEffect
    <2>2. UNCHANGED <<current, failures>>
      BY <1>2 DEF Claim
    <2>3. x[1] = e /\ x[2] = current[e] /\ x[3] = failures[e] + 1
      BY <2>1
    <2> HIDE DEF x
    <2> QED
      BY <1>c, <2>1, <2>2, <2>3
  <1>3. ASSUME NEW w \in Worker, NEW state, Settles(w, state)
        PROVE  ExecutionInv'
    <2> DEFINE e == Of(w)
               x == job[w]
    <2>1. /\ Busy(w)
          /\ \A y \in Execution : execution'[y] = IF y = x THEN state ELSE execution[y]
          /\ \A d \in Enrollment \ {e} : current'[d] = current[d] /\ failures'[d] = failures[d]
          /\ current'[e] = current[e] + (IF state = "sent" THEN 1 ELSE 0)
          /\ failures'[e] = failures[e] + (IF state = "failed" THEN 1 ELSE 0)
      BY <1>3, SettleEffect
    <2>2. /\ e \in Enrollment /\ x \in Execution /\ x = <<e, current[e], failures[e] + 1>>
          /\ execution[x] = "sending"
      BY <2>1, ClaimOf
    <2>3. x[1] = e /\ x[2] = current[e] /\ x[3] = failures[e] + 1
      BY <2>2
    <2>p. \A y \in Execution : y = <<y[1], y[2], y[3]>>
      BY ExecutionParts
    <2>4. CASE state # "sent" /\ state # "failed"
      <3>1. UNCHANGED <<current, failures>>
        BY <1>3, <2>4 DEF Settles
      <3> HIDE DEF x, e
      <3> QED
        BY <1>c, <2>1, <2>2, <2>3, <3>1
    <2>5. CASE state = "failed" \/ state = "sent"
      <3> HIDE DEF x, e
      <3>1. \A y \in Execution :
              y[2] > current'[y[1]] \/ y[3] > failures'[y[1]] + 1 => execution'[y] = "none"
        <4> SUFFICES ASSUME NEW y \in Execution,
                            y[2] > current'[y[1]] \/ y[3] > failures'[y[1]] + 1
                     PROVE  execution'[y] = "none"
          OBVIOUS
        <4>1. current'[y[1]] >= current[y[1]] /\ failures'[y[1]] >= failures[y[1]]
              /\ current'[y[1]] \in Nat /\ failures'[y[1]] \in Nat
          BY <1>a, <1>b, <2>1, <2>2
        <4>2. y[2] > current[y[1]] \/ y[3] > failures[y[1]] + 1
          BY <1>a, <1>b, <4>1
        <4>3. y # x
          BY <1>a, <2>2, <2>3, <4>2
        <4> QED
          BY <1>b, <2>1, <4>2, <4>3
      <3>2. \A y \in Execution : y[2] = current'[y[1]] /\ y[3] <= failures'[y[1]]
              => execution'[y] \in {"none", "failed"}
        <4> SUFFICES ASSUME NEW y \in Execution,
                            y[2] = current'[y[1]] /\ y[3] <= failures'[y[1]]
                     PROVE  execution'[y] \in {"none", "failed"}
          OBVIOUS
        <4>1. CASE y[1] # e
          <5>1. y # x
            BY <2>3, <4>1
          <5> QED
            BY <1>b, <2>1, <4>1, <5>1
        <4>2. CASE y[1] = e /\ state = "sent"
          <5>1. y[2] > current[e]
            BY <1>a, <2>1, <2>2, <4>2
          <5>2. y # x
            BY <1>a, <2>2, <2>3, <5>1
          <5> QED
            BY <1>b, <2>1, <4>2, <5>1, <5>2
        <4>3. CASE y[1] = e /\ state = "failed" /\ y = x
          BY <2>1, <4>3
        <4>4. CASE y[1] = e /\ state = "failed" /\ y # x
          <5>1. y[2] = current[e] /\ y[3] <= failures[e] + 1
            BY <1>a, <2>1, <2>2, <4>4
          <5>2. y[3] # failures[e] + 1
            BY <2>2, <2>p, <4>4, <5>1
          <5>3. y[3] <= failures[e]
            BY <1>a, <1>b, <2>2, <5>1, <5>2
          <5> QED
            BY <1>b, <2>1, <4>4, <5>1, <5>3
        <4> QED
          BY <2>5, <4>1, <4>2, <4>3, <4>4
      <3>3. \A m \in Message : m[2] < current'[m[1]] =>
              \E n \in 1 .. Threshold : execution'[<<m[1], m[2], n>>] = "sent"
        <4> SUFFICES ASSUME NEW m \in Message, m[2] < current'[m[1]]
                     PROVE  \E n \in 1 .. Threshold : execution'[<<m[1], m[2], n>>] = "sent"
          OBVIOUS
        <4>1. CASE m[2] < current[m[1]]
          <5>1. PICK n \in 1 .. Threshold : execution[<<m[1], m[2], n>>] = "sent"
            BY <4>1 DEF ExecutionInv
          <5>2. <<m[1], m[2], n>> \in Execution
            BY ExecutionParts
          <5>3. execution'[<<m[1], m[2], n>>] = "sent"
            BY <2>1, <2>2, <5>1, <5>2
          <5> QED
            BY <5>3
        <4>2. CASE ~(m[2] < current[m[1]])
          <5>1. m[1] \in Enrollment /\ m[2] \in Nat
            BY ExecutionParts, Bounds
          <5>2. m[1] = e /\ state = "sent" /\ m[2] = current[e]
            BY <1>a, <2>1, <2>2, <4>2, <5>1
          <5>3. failures[e] + 1 \in 1 .. Threshold
            BY <2>2, <2>3, ExecutionParts
          <5>4. execution'[<<m[1], m[2], failures[e] + 1>>] = "sent"
            BY <2>1, <2>2, <5>2
          <5> QED
            BY <5>3, <5>4
        <4> QED
          BY <4>1, <4>2
      <3> QED
        BY <3>1, <3>2, <3>3 DEF ExecutionInv
    <2> QED
      BY <2>4, <2>5
  <1> QED
    BY <1>1, <1>2, <1>3, Kinds DEF Operates, Advances, Crash, rowVars

-----------------------------------------------------------------------------
(* What was accepted.                                                       *)

\* The current step of an enrollment is accepted only under an open claim.
Covered(e) ==
    current[e] \in Position =>
        /\ accepted[<<e, current[e]>>] \in {0, 1}
        /\ accepted[<<e, current[e]>>] = 1 =>
             failures[e] < Threshold /\ execution[CurrentExecution(e)] \in {"sending", "unknown"}

InOrder(e) ==
    \A s \in Position :
        /\ s < current[e] => accepted[<<e, s>>] = 1
        /\ s > current[e] => accepted[<<e, s>>] = 0

Known(w) ==
    /\ Delivered(w) => accepted[<<Of(w), current[Of(w)]>>] = 1
    /\ ~MayBeDelivered(w) => accepted[<<Of(w), current[Of(w)]>>] = 0

LEMMA AcceptedParts ==
  AcceptedInv <=> /\ \A e \in Enrollment : Covered(e) /\ InOrder(e)
                  /\ \A w \in Worker : Busy(w) => Known(w)
  BY DEF AcceptedInv, Covered, InOrder, Known, StepsInOrder

LEMMA AcceptedNext ==
  ASSUME TypeOK, RowInv, BusyInv, AcceptedInv, [Next]_vars
  PROVE  AcceptedInv'
  <1>a. /\ \A e \in Enrollment : Covered(e) /\ InOrder(e)
        /\ \A w \in Worker : Busy(w) => Known(w)
    BY AcceptedParts
  <1>b. ASSUME \A e \in Enrollment : Covered(e)' /\ InOrder(e)',
               \A w \in Worker : Busy(w)' => Known(w)'
        PROVE  AcceptedInv'
    BY <1>b DEF AcceptedInv, Covered, InOrder, Known, StepsInOrder
  \* Rows and acceptances of an enrollment stay, and its current execution.
  <1>c. ASSUME NEW e \in Enrollment, UNCHANGED accepted,
               current'[e] = current[e], failures'[e] = failures[e],
               current[e] \in Position /\ failures[e] < Threshold
                 => execution'[CurrentExecution(e)] = execution[CurrentExecution(e)]
        PROVE  Covered(e)' /\ InOrder(e)'
    <2>1. CurrentExecution(e)' = CurrentExecution(e)
      BY <1>c DEF CurrentExecution
    <2> QED
      BY <1>a, <1>c, <2>1 DEF Covered, InOrder
  <1>d. ASSUME NEW w \in Worker, Busy(w), UNCHANGED accepted, Of(w)' = Of(w),
               current'[Of(w)] = current[Of(w)], pc'[w] = pc[w], result'[w] = result[w]
        PROVE  Known(w)'
    BY <1>a, <1>d DEF Known, Delivered, MayBeDelivered
  <1>1. CASE Operates
    <2>1. \A e \in Enrollment : Covered(e)' /\ InOrder(e)'
      BY <1>1, <1>c DEF Operates
    <2>2. \A w \in Worker : Busy(w)' => Known(w)'
      BY <1>1, <1>d DEF Operates, workerVars, Busy, Of
    <2> QED
      BY <1>b, <2>1, <2>2
  <1>2. ASSUME NEW w \in Worker, NEW e \in Enrollment, Claim(w, e)
        PROVE  AcceptedInv'
    <2>1. UNCHANGED <<current, failures, result, accepted>>
      BY <1>2 DEF Claim
    <2>2. LET x == CurrentExecution(e) IN
          /\ x \in Execution /\ x = <<e, current[e], failures[e] + 1>>
          /\ execution[x] \in {"none", "paused"}
          /\ \A y \in Execution : execution'[y] = IF y = x THEN "sending" ELSE execution[y]
          /\ pc'[w] = "claimed" /\ Of(w)' = e
          /\ \A v \in Worker \ {w} : pc'[v] = pc[v] /\ job'[v] = job[v]
      BY <1>2, ClaimEffect
    <2>3. current[e] \in Position
      BY <2>2, ExecutionParts
    <2>4. accepted[<<e, current[e]>>] = 0
      BY <1>a, <2>2, <2>3 DEF Covered
    <2>5. ASSUME NEW d \in Enrollment
          PROVE  Covered(d)' /\ InOrder(d)'
      <3>1. CASE d = e
        BY <1>a, <2>1, <2>4, <3>1 DEF Covered, InOrder
      <3>2. CASE d # e
        <4>1. CurrentExecution(d) # CurrentExecution(e)
          BY <3>2 DEF CurrentExecution
        <4>2. current[d] \in Position /\ failures[d] < Threshold =>
                CurrentExecution(d) \in Execution
          <5>1. failures[d] \in Nat /\ Threshold \in Nat
            BY Bounds, RowBounds
          <5> QED
            BY <5>1, ExecutionParts DEF CurrentExecution
        <4> QED
          BY <1>c, <2>1, <2>2, <4>1, <4>2
      <3> QED
        BY <3>1, <3>2
    <2>6. Known(w)'
      BY <2>1, <2>2, <2>4 DEF Known, Delivered, MayBeDelivered
    <2>7. \A v \in Worker \ {w} : Busy(v)' => Known(v)'
      BY <1>d, <2>1, <2>2 DEF Busy, Of
    <2> QED
      BY <1>b, <2>5, <2>6, <2>7
  <1>3. ASSUME NEW w \in Worker, Advances(w)
        PROVE  AcceptedInv'
    <2>1. UNCHANGED <<current, failures, execution, job>>
      BY <1>3 DEF Advances
    <2>2. /\ Busy(w) /\ Busy(w)'
          /\ \A v \in Worker : Of(v)' = Of(v)
          /\ \A v \in Worker \ {w} : pc'[v] = pc[v] /\ result'[v] = result[v]
      BY <1>3, AdvanceEffect
    <2>3. CASE UNCHANGED accepted /\ (Delivered(w)' => Delivered(w))
      <3>1. \A e \in Enrollment : Covered(e)' /\ InOrder(e)'
        BY <1>c, <2>1, <2>3
      <3>2. Known(w)'
        <4>1. MayBeDelivered(w) => MayBeDelivered(w)'
          BY <1>3 DEF Advances
        <4> QED
          BY <1>a, <2>1, <2>2, <2>3, <4>1 DEF Known
      <3>3. \A v \in Worker \ {w} : Busy(v)' => Known(v)'
        BY <1>d, <2>1, <2>2, <2>3 DEF Busy
      <3> QED
        BY <1>b, <3>1, <3>2, <3>3
    <2>4. CASE /\ accepted' = [accepted EXCEPT ![<<Of(w), sending[w]>>] = @ + 1]
               /\ pc[w] = "calling" /\ MayBeDelivered(w)'
      <3> DEFINE e == Of(w)
      <3>1. /\ e \in Enrollment /\ current[e] \in Position /\ <<e, current[e]>> \in Message
            /\ failures[e] < Threshold /\ execution[CurrentExecution(e)] = "sending"
        <4>1. /\ e \in Enrollment /\ current[e] \in Position
              /\ failures[e] + 1 \in 1 .. Threshold
              /\ execution[CurrentExecution(e)] = "sending"
          BY <2>2, ClaimOf DEF CurrentExecution
        <4>2. failures[e] \in Nat /\ Threshold \in Nat
          BY <4>1, RowBounds, Bounds
        <4> QED
          BY <4>1, <4>2, ExecutionParts
      <3>2. sending[w] = current[e]
        BY <2>2, <2>4 DEF BusyInv
      <3>3. accepted[<<e, current[e]>>] = 0
        BY <1>a, <2>2, <2>4 DEF Known, MayBeDelivered, Delivered
      <3>4. /\ accepted'[<<e, current[e]>>] = 1
            /\ \A m \in Message : m # <<e, current[e]>> => accepted'[m] = accepted[m]
        BY <2>4, <3>1, <3>2, <3>3 DEF TypeOK
      <3> HIDE DEF e
      <3>5. \A d \in Enrollment, s \in Position : d # e \/ s # current[e] =>
              accepted'[<<d, s>>] = accepted[<<d, s>>]
        BY <3>4, ExecutionParts
      <3>6. ASSUME NEW d \in Enrollment
            PROVE  Covered(d)' /\ InOrder(d)'
        <4>1. CurrentExecution(d)' = CurrentExecution(d)
          BY <2>1 DEF CurrentExecution
        <4>2. CASE d = e
          <5>1. Covered(d)'
            BY <2>1, <3>1, <3>4, <4>1, <4>2 DEF Covered
          <5>2. \A s \in Position : s < current[e] \/ s > current[e] => s # current[e]
            BY <3>1, Bounds
          <5>3. InOrder(d)'
            BY <1>a, <2>1, <3>5, <4>2, <5>2 DEF InOrder
          <5> QED
            BY <5>1, <5>3
        <4>3. CASE d # e
          BY <1>a, <2>1, <3>5, <4>1, <4>3 DEF Covered, InOrder
        <4> QED
          BY <4>2, <4>3
      <3>7. Known(w)'
        BY <2>1, <2>2, <2>4, <3>4 DEF Known, e
      <3>8. ASSUME NEW v \in Worker \ {w}, Busy(v)'
            PROVE  Known(v)'
        <4>1. Busy(v)
          BY <2>2, <3>8 DEF Busy
        <4>2. Of(v) \in Enrollment /\ current[Of(v)] \in Position
          BY <4>1, ClaimOf
        <4>3. Of(v) # e
          BY <2>2, <4>1 DEF BusyInv, e
        <4>4. accepted'[<<Of(v), current[Of(v)]>>] = accepted[<<Of(v), current[Of(v)]>>]
          BY <3>5, <4>2, <4>3
        <4>5. Known(v) /\ Of(v)' = Of(v) /\ pc'[v] = pc[v] /\ result'[v] = result[v]
          BY <1>a, <2>2, <4>1
        <4> QED
          BY <2>1, <4>4, <4>5 DEF Known, Delivered, MayBeDelivered
      <3> QED
        BY <1>b, <3>6, <3>7, <3>8
    <2> QED
      BY <1>3, <2>3, <2>4 DEF Advances
  <1>4. ASSUME NEW w \in Worker, NEW state, Settles(w, state)
        PROVE  AcceptedInv'
    <2>0. PICK e \in Enrollment : e = Of(w)
      BY <1>4, SettleEffect, ClaimOf
    <2>1. /\ Busy(w) /\ pc'[w] = "idle"
          /\ \A y \in Execution : execution'[y] = IF y = job[w] THEN state ELSE execution[y]
          /\ \A v \in Worker \ {w} : pc'[v] = pc[v] /\ Of(v)' = Of(v) /\ result'[v] = result[v]
          /\ \A v \in Worker \ {w} : Busy(v) => Of(v) # e
          /\ \A d \in Enrollment \ {e} : current'[d] = current[d] /\ failures'[d] = failures[d]
          /\ current'[e] = current[e] + (IF state = "sent" THEN 1 ELSE 0)
          /\ failures'[e] = failures[e] + (IF state = "failed" THEN 1 ELSE 0)
      BY <1>4, <2>0, SettleEffect
    <2>2. /\ e \in Enrollment /\ current[e] \in Position /\ failures[e] + 1 \in 1 .. Threshold
          /\ job[w] \in Execution /\ job[w] = <<e, current[e], failures[e] + 1>>
      BY <2>0, <2>1, ClaimOf
    <2>3. /\ current[e] \in Nat /\ failures[e] \in Nat /\ Threshold \in Nat
          /\ \A s \in Position : s \in Nat
      BY <2>2, RowBounds, Bounds
    <2>4. accepted' = accepted
      BY <1>4 DEF Settles
    <2>k. Known(w) /\ Covered(e) /\ InOrder(e)
      BY <1>a, <2>1
    <2>5. Covered(e)' /\ InOrder(e)'
      <3>1. CASE state = "sent" /\ Delivered(w)
        <4>1. accepted[<<e, current[e]>>] = 1
          BY <2>0, <2>k, <3>1 DEF Known
        <4>2. current'[e] = current[e] + 1
          BY <2>1, <3>1
        <4>3. \A s \in Position : (s < current[e] + 1 => s < current[e] \/ s = current[e])
                                  /\ (s > current[e] + 1 => s > current[e])
          BY <2>3
        <4>4. InOrder(e)'
          BY <2>k, <2>4, <4>1, <4>2, <4>3 DEF InOrder
        <4>5. current[e] + 1 \in Position => accepted[<<e, current[e] + 1>>] = 0
          <5>1. current[e] + 1 > current[e]
            BY <2>3
          <5> QED
            BY <2>k, <5>1 DEF InOrder
        <4>6. Covered(e)'
          BY <2>4, <4>2, <4>5 DEF Covered
        <4> QED
          BY <4>4, <4>6
      <3>2. CASE state # "sent" /\ ~MayBeDelivered(w)
        <4>1. accepted[<<e, current[e]>>] = 0
          BY <2>0, <2>k, <3>2 DEF Known
        <4>2. current'[e] = current[e]
          BY <2>1, <2>3, <3>2
        <4> QED
          BY <2>k, <2>4, <4>1, <4>2 DEF Covered, InOrder
      <3>3. CASE state = "unknown"
        <4>1. current'[e] = current[e] /\ failures'[e] = failures[e]
          BY <2>1, <2>3, <3>3
        <4>2. failures[e] < Threshold /\ CurrentExecution(e)' = job[w]
          BY <2>2, <2>3, <4>1 DEF CurrentExecution
        <4>3. execution'[CurrentExecution(e)'] = "unknown"
          BY <2>1, <2>2, <3>3, <4>2
        <4> QED
          BY <2>k, <2>4, <4>1, <4>2, <4>3 DEF Covered, InOrder
      <3> QED
        BY <1>4, <3>1, <3>2, <3>3 DEF Settles
    <2>6. ASSUME NEW d \in Enrollment, d # e
          PROVE  Covered(d)' /\ InOrder(d)'
      <3>1. CurrentExecution(d) # job[w]
        BY <2>2, <2>6 DEF CurrentExecution
      <3>2. current[d] \in Position /\ failures[d] < Threshold =>
              CurrentExecution(d) \in Execution
        <4>1. failures[d] \in Nat /\ Threshold \in Nat
          BY Bounds, RowBounds
        <4> QED
          BY <4>1, ExecutionParts DEF CurrentExecution
      <3>3. current'[d] = current[d] /\ failures'[d] = failures[d]
        BY <2>1, <2>6
      <3> QED
        BY <1>c, <2>1, <2>4, <3>1, <3>2, <3>3
    <2>7. ASSUME NEW v \in Worker, Busy(v)'
          PROVE  Known(v)'
      <3>1. v # w
        BY <2>1, <2>7 DEF Busy
      <3>2. Busy(v)
        BY <2>1, <2>7, <3>1 DEF Busy
      <3>3. Of(v) \in Enrollment /\ Of(v) # e
        BY <2>1, <3>1, <3>2, ClaimOf
      <3> QED
        BY <1>d, <2>1, <2>4, <3>1, <3>2, <3>3
    <2> QED
      BY <1>b, <2>5, <2>6, <2>7
  <1>5. ASSUME NEW w \in Worker, Crash(w)
        PROVE  AcceptedInv'
    <2>1. UNCHANGED <<current, failures, execution, accepted>>
      BY <1>5 DEF Crash, rowVars
    <2>2. /\ pc'[w] = "idle"
          /\ \A v \in Worker \ {w} : pc'[v] = pc[v] /\ Of(v)' = Of(v) /\ result'[v] = result[v]
      BY <1>5, CrashEffect
    <2>3. \A e \in Enrollment : Covered(e)' /\ InOrder(e)'
      BY <1>c, <2>1
    <2>4. \A v \in Worker : Busy(v)' => Known(v)'
      BY <1>d, <2>1, <2>2 DEF Busy
    <2> QED
      BY <1>b, <2>3, <2>4
  <1> QED
    BY <1>1, <1>2, <1>3, <1>4, <1>5, Kinds

-----------------------------------------------------------------------------
(* Locks.                                                                   *)

LEMMA HolderNext ==
  ASSUME TypeOK, RowInv, BusyInv, HolderInv, [Next]_vars
  PROVE  HolderInv'
  <1> DEFINE Unstopped(v) == /\ sequence = "active" /\ control
                             /\ status[Of(v)] = "active" /\ ~held[Of(v)]
             Locked(v) == /\ holder = v <=> pc[v] \in {"calling", "accepted"}
                          /\ holder = v => Unstopped(v)
  <1>a. (\A v \in Worker : Locked(v)) /\ Nobody \notin Worker
    BY SequencesAssumption DEF HolderInv
  <1>b. (\A v \in Worker : Locked(v)') => HolderInv'
    BY DEF HolderInv
  <1>c. \A v \in Worker : holder = v => Busy(v) /\ Of(v) \in Enrollment
    BY <1>a, ClaimOf DEF Busy
  \* Steps with all rows free, and steps that leave what a send looks at.
  <1>d. ASSUME RowsFree, UNCHANGED <<pc, holder>>
        PROVE  HolderInv'
    BY <1>a, <1>b, <1>d DEF RowsFree
  <1>e. ASSUME UNCHANGED <<pc, holder, job, sequence, control>>,
               \A v \in Worker : holder = v =>
                 status'[Of(v)] = status[Of(v)] /\ held'[Of(v)] = held[Of(v)]
        PROVE  HolderInv'
    BY <1>a, <1>b, <1>e DEF Of
  \* Steps of one worker.
  <1>f. ASSUME NEW w \in Worker, UNCHANGED <<sequence, control, held>>,
               \A v \in Worker \ {w} : pc'[v] = pc[v] /\ job'[v] = job[v],
               \A v \in Worker \ {w} : holder' = v <=> holder = v,
               \A v \in Worker \ {w} : holder = v => status'[Of(v)] = status[Of(v)],
               Locked(w)'
        PROVE  HolderInv'
    <2>1. \A v \in Worker \ {w} : Of(v)' = Of(v)
      BY <1>f DEF Of
    <2>2. \A v \in Worker \ {w} : Locked(v)'
      BY <1>a, <1>f, <2>1
    <2> QED
      BY <1>b, <1>f, <2>2
  <1>1. CASE Operators
    <2>1. ASSUME NEW e \in Enrollment, LeadChanges(e)
          PROVE  HolderInv'
      <3>1. \A v \in Worker : holder = v => held'[Of(v)] = held[Of(v)]
        BY <1>c, <2>1 DEF LeadChanges, RowFree, TypeOK
      <3> QED
        BY <1>e, <2>1, <3>1 DEF LeadChanges, rowVars, workerVars
    <2>2. ASSUME NEW e \in Enrollment, SetEnrollmentStatus(e)
          PROVE  HolderInv'
      <3>1. \A v \in Worker : holder = v => status'[Of(v)] = status[Of(v)]
        BY <1>c, <2>2 DEF SetEnrollmentStatus, Stop, RowFree, TypeOK
      <3> QED
        BY <1>e, <2>2, <3>1 DEF SetEnrollmentStatus, operatorVars, workerVars
    <2>3. ASSUME NEW e \in Enrollment, Elapse(e)
          PROVE  HolderInv'
      BY <1>e, <2>3 DEF Elapse, operatorVars, workerVars
    <2>4. ASSUME NEW n \in 1 .. Steps, EditDraft(n)
          PROVE  HolderInv'
      BY <1>e, <2>4 DEF EditDraft, rowVars, workerVars
    <2>5. ASSUME \/ SetControl
                 \/ \E e \in Enrollment : Enroll(e)
                 \/ \E target \in {"active", "paused", "archived"} : SetSequenceStatus(target)
          PROVE  HolderInv'
      BY <1>d, <2>5 DEF SetControl, Enroll, SetSequenceStatus, workerVars
    <2> QED
      BY <1>1, <2>1, <2>2, <2>3, <2>4, <2>5 DEF Operators
  <1>2. ASSUME NEW w \in Worker, NEW e \in Enrollment, Claim(w, e)
        PROVE  HolderInv'
    <2>1. /\ pc[w] = "idle" /\ pc'[w] = "claimed"
          /\ \A v \in Worker \ {w} : pc'[v] = pc[v] /\ job'[v] = job[v]
          /\ UNCHANGED <<sequence, control, held, holder, status>>
      BY <1>2 DEF Claim, operatorVars, TypeOK
    <2>2. holder # w
      BY <1>a, <2>1
    <2> QED
      BY <1>f, <2>1, <2>2
  <1>3. ASSUME NEW w \in Worker, PrepareStep(w)
        PROVE  HolderInv'
    <2>1. /\ pc'[w] = "ready" /\ \A v \in Worker \ {w} : pc'[v] = pc[v] /\ job'[v] = job[v]
          /\ UNCHANGED <<sequence, control, held, holder, status>> /\ holder = Nobody
      BY <1>3 DEF PrepareStep, operatorVars, rowVars, RowsFree, TypeOK
    <2> QED
      BY <1>a, <1>f, <2>1
  <1>4. ASSUME NEW w \in Worker, GuardBlocks(w) \/ PolicyBlocks(w)
        PROVE  HolderInv'
    <2>1. holder = Nobody /\ UNCHANGED <<sequence, control, held, job>>
      BY <1>4 DEF GuardBlocks, PolicyBlocks, RowsFree, operatorVars, Conclude, Go
    <2>2. /\ holder' = Nobody /\ pc'[w] = "recording"
          /\ \A v \in Worker \ {w} : pc'[v] = pc[v]
      BY <1>4, <2>1 DEF GuardBlocks, PolicyBlocks, Conclude, Go, TypeOK
    <2> QED
      BY <1>a, <1>f, <2>1, <2>2
  <1>5. ASSUME NEW w \in Worker, StartCall(w)
        PROVE  HolderInv'
    <2>1. holder = Nobody /\ UNCHANGED <<sequence, control, held, job, status>>
      BY <1>5 DEF StartCall, RowsFree, operatorVars, rowVars, Go
    <2>2. /\ holder' = w /\ pc'[w] = "calling"
          /\ \A v \in Worker \ {w} : pc'[v] = pc[v]
      BY <1>5 DEF StartCall, Go, TypeOK
    <2>3. Unstopped(w)'
      BY <1>5, <2>1 DEF StartCall, GuardPasses, Of
    <2> QED
      BY <1>a, <1>f, <2>1, <2>2, <2>3
  <1>6. ASSUME NEW w \in Worker, ProviderAccepts(w)
        PROVE  HolderInv'
    <2>1. UNCHANGED <<sequence, control, held, job, status, holder>>
      BY <1>6 DEF ProviderAccepts, operatorVars, rowVars, Go
    <2>2. /\ holder = w /\ pc'[w] = "accepted"
          /\ \A v \in Worker \ {w} : pc'[v] = pc[v]
      BY <1>6, <1>a DEF ProviderAccepts, Go, TypeOK
    <2>3. Unstopped(w)'
      BY <1>a, <2>1, <2>2 DEF Of
    <2> QED
      BY <1>a, <1>f, <2>1, <2>2, <2>3
  <1>7. ASSUME NEW w \in Worker, NEW outcome, Conclude(w, outcome),
               UNCHANGED <<operatorVars, rowVars>>
        PROVE  HolderInv'
    <2>1. UNCHANGED <<sequence, control, held, job, status>>
      BY <1>7 DEF Conclude, operatorVars, rowVars, Go
    <2>2. /\ holder' = (IF holder = w THEN Nobody ELSE holder) /\ pc'[w] = "recording"
          /\ \A v \in Worker \ {w} : pc'[v] = pc[v]
      BY <1>7 DEF Conclude, Go, TypeOK
    <2> QED
      BY <1>a, <1>f, <2>1, <2>2
  <1>8. ASSUME NEW w \in Worker,
               PostponeStep(w) \/ DropStep(w) \/ RecordUncertain(w) \/ RecordFailure(w)
               \/ RecordBlock(w) \/ RecordSent(w)
        PROVE  HolderInv'
    <2>1. pc[w] \in {"claimed", "recording"} /\ Leave(w)
          /\ UNCHANGED <<sequence, control, held, holder>>
      BY <1>8 DEF PostponeStep, DropStep, RecordUncertain, RecordFailure, RecordBlock, RecordSent,
                  Record, operatorVars
    <2>2. \A e \in Enrollment \ {Of(w)} : status'[e] = status[e]
      BY <1>8 DEF PostponeStep, DropStep, RecordUncertain, RecordFailure, RecordBlock, RecordSent,
                  Stop, Later, TypeOK
    <2>3. holder # w
      BY <1>a, <2>1
    <2>4. \A v \in Worker \ {w} : holder = v => Of(v) \in Enrollment /\ Of(v) # Of(w)
      BY <1>c, <2>1 DEF BusyInv, Busy
    <2>5. pc'[w] = "idle" /\ \A v \in Worker \ {w} : pc'[v] = pc[v] /\ job'[v] = job[v]
      BY <2>1 DEF Leave, TypeOK
    <2> QED
      BY <1>f, <2>1, <2>2, <2>3, <2>4, <2>5
  <1>9. ASSUME NEW w \in Worker, Crash(w)
        PROVE  HolderInv'
    <2>1. UNCHANGED <<sequence, control, held, status>>
          /\ holder' = IF holder = w THEN Nobody ELSE holder
      BY <1>9 DEF Crash, operatorVars, rowVars
    <2>2. pc'[w] = "idle" /\ \A v \in Worker \ {w} : pc'[v] = pc[v] /\ job'[v] = job[v]
      BY <1>9, CrashEffect
    <2> QED
      BY <1>a, <1>f, <2>1, <2>2
  <1>10. CASE UNCHANGED vars
    BY <1>10, <1>e DEF vars, operatorVars, rowVars, workerVars
  <1>11. ASSUME NEW w \in Worker, Tick(w)
         PROVE  HolderInv'
    <2>1. CASE SendFails(w) \/ OutcomeUncertain(w) \/ CommitSend(w)
      BY <1>7, <2>1 DEF SendFails, OutcomeUncertain, CommitSend
    <2> QED
      BY <1>2, <1>3, <1>4, <1>5, <1>6, <1>8, <1>11, <2>1 DEF Tick
  <1> QED
    BY <1>1, <1>9, <1>10, <1>11 DEF Next, Operators

-----------------------------------------------------------------------------
(* Type correctness.                                                        *)

\* An enrollment that may still be run has a step and an attempt left.
Runnable(e) == status[e] \in {"active", "paused"} => current[e] < length /\ failures[e] < Threshold

OperatorType ==
    /\ sequence \in SequenceStatus /\ length \in 1 .. Steps /\ control \in BOOLEAN
    /\ held \in [Enrollment -> BOOLEAN]
RowType ==
    /\ status \in [Enrollment -> EnrollmentStatus]
    /\ current \in [Enrollment -> 0 .. length]
    /\ failures \in [Enrollment -> 0 .. Threshold]
    /\ next \in [Enrollment -> {"never", "later", "due"}]
    /\ execution \in [Execution -> ExecutionState]
WorkerType ==
    /\ pc \in [Worker -> {"idle", "claimed", "ready", "calling", "accepted", "recording"}]
    /\ job \in [Worker -> Execution \cup {NoExecution}]
    /\ sending \in [Worker -> Position]
    /\ result \in [Worker -> Result]
    /\ holder \in Worker \cup {Nobody}

LEMMA TypeParts ==
  TypeOK <=> /\ OperatorType /\ RowType /\ WorkerType
             /\ accepted \in [Message -> Nat]
             /\ \A e \in Enrollment : Runnable(e)
  BY DEF TypeOK, OperatorType, RowType, WorkerType, Runnable

LEMMA LeaveType ==
  ASSUME TypeOK, NEW w \in Worker, Leave(w), holder' \in {holder, Nobody}
  PROVE  WorkerType'
  <1>1. 0 \in Position
    BY Bounds
  <1> QED
    BY <1>1 DEF Leave, TypeOK, WorkerType, Result

LEMMA ConcludeType ==
  ASSUME TypeOK, NEW w \in Worker, NEW outcome \in Result, Conclude(w, outcome)
  PROVE  WorkerType'
  BY DEF Conclude, Go, TypeOK, WorkerType

\* Stopping, or only waiting, keeps what may be run runnable.
LEMMA StopType ==
  ASSUME TypeOK, NEW e \in Enrollment, Stop(e) \/ Later(e), UNCHANGED <<length, current, failures>>
  PROVE  /\ status' \in [Enrollment -> EnrollmentStatus]
         /\ next' \in [Enrollment -> {"never", "later", "due"}]
         /\ \A d \in Enrollment : Runnable(d)'
  BY DEF Stop, Later, TypeOK, EnrollmentStatus, Runnable

LEMMA OperatorsType ==
  ASSUME TypeOK, RowInv, Operators
  PROVE  TypeOK'
  <1> USE DEF TypeOK, SequenceStatus, EnrollmentStatus
  <1>1. ASSUME NEW e \in Enrollment, LeadChanges(e) PROVE TypeOK'
    BY <1>1 DEF LeadChanges, rowVars, workerVars
  <1>2. ASSUME NEW e \in Enrollment, Enroll(e) PROVE TypeOK'
    <2>1. current[e] = 0 /\ failures[e] = 0 /\ 0 < length /\ 0 < Threshold
      BY <1>2, Bounds DEF Enroll, RowInv
    <2> QED
      BY <1>2, <2>1 DEF Enroll, operatorVars, workerVars
  <1>3. ASSUME NEW e \in Enrollment, SetEnrollmentStatus(e) PROVE TypeOK'
    BY <1>3 DEF SetEnrollmentStatus, Stop, operatorVars, workerVars
  <1>4. ASSUME NEW e \in Enrollment, Elapse(e) PROVE TypeOK'
    BY <1>4 DEF Elapse, operatorVars, workerVars
  <1>5. ASSUME NEW n \in 1 .. Steps, EditDraft(n) PROVE TypeOK'
    <2>1. \A e \in Enrollment : status[e] = "none" /\ current[e] = 0
      BY <1>5 DEF EditDraft, RowInv
    <2>2. current' \in [Enrollment -> 0 .. length']
      BY <1>5, <2>1, Bounds DEF EditDraft, ReplaceSteps, rowVars
    <2>3. length' \in 1 .. Steps
      BY <1>5 DEF EditDraft, ReplaceSteps
    <2> QED
      BY <1>5, <2>1, <2>2, <2>3 DEF EditDraft, rowVars, workerVars
  <1>6. ASSUME NEW target \in {"active", "paused", "archived"}, SetSequenceStatus(target)
        PROVE  TypeOK'
    BY <1>6 DEF SetSequenceStatus, rowVars, workerVars
  <1>7. CASE SetControl
    BY <1>7 DEF SetControl, rowVars, workerVars
  <1> QED
    BY <1>1, <1>2, <1>3, <1>4, <1>5, <1>6, <1>7 DEF Operators

LEMMA OutcomeType ==
  ASSUME TypeOK, BusyInv, NEW w \in Worker,
         \/ PostponeStep(w) \/ DropStep(w)
         \/ RecordUncertain(w) \/ RecordFailure(w) \/ RecordBlock(w) \/ RecordSent(w)
  PROVE  TypeOK'
  <1>1. /\ Of(w) \in Enrollment /\ current[Of(w)] \in Nat /\ failures[Of(w)] \in Nat
        /\ current[Of(w)] < length /\ failures[Of(w)] < Threshold
        /\ length \in Nat /\ Threshold \in Nat
    <2>1. Busy(w)
      BY DEF PostponeStep, DropStep, RecordUncertain, RecordFailure, RecordBlock, RecordSent,
             Record, Busy
    <2>2. /\ Of(w) \in Enrollment /\ failures[Of(w)] + 1 \in 1 .. Threshold
          /\ current[Of(w)] < length
      BY <2>1, ClaimOf
    <2> QED
      BY <2>2, RowBounds, Bounds
  <1>2. Leave(w) /\ UNCHANGED <<operatorVars, holder, accepted>>
        /\ \E state \in ExecutionState : Mark(w, state)
    BY DEF PostponeStep, DropStep, RecordUncertain, RecordFailure, RecordBlock, RecordSent,
           Record, ExecutionState
  <1>3. WorkerType' /\ OperatorType' /\ accepted' \in [Message -> Nat]
        /\ execution' \in [Execution -> ExecutionState]
    <2>1. WorkerType'
      BY <1>2, LeaveType
    <2>2. OperatorType' /\ accepted' \in [Message -> Nat]
      BY <1>2 DEF operatorVars, OperatorType, TypeOK
    <2>3. execution' \in [Execution -> ExecutionState]
      BY <1>2 DEF Mark, TypeOK
    <2> QED
      BY <2>1, <2>2, <2>3
  <1>4. CASE UNCHANGED <<current, failures>>
    <2>1. Stop(Of(w)) \/ Later(Of(w))
      BY <1>1, <1>4 DEF PostponeStep, DropStep, RecordUncertain, RecordFailure, RecordBlock,
                        RecordSent, TypeOK
    <2>2. UNCHANGED length
      BY <1>2 DEF operatorVars
    <2>3. /\ status' \in [Enrollment -> EnrollmentStatus]
          /\ next' \in [Enrollment -> {"never", "later", "due"}]
          /\ \A d \in Enrollment : Runnable(d)'
      BY <1>1, <1>4, <2>1, <2>2, StopType
    <2>4. RowType'
      BY <1>3, <1>4, <2>2, <2>3 DEF RowType, TypeOK
    <2> QED
      BY <1>3, <2>3, <2>4 DEF TypeOK, OperatorType, RowType, WorkerType, Runnable
  <1>5. CASE RecordFailure(w)
    <2> DEFINE f == failures[Of(w)] + 1
    <2>1. /\ UNCHANGED <<length, current>> /\ failures' = [failures EXCEPT ![Of(w)] = f]
          /\ f \in 0 .. Threshold
      BY <1>1, <1>2, <1>5 DEF RecordFailure, operatorVars
    <2>2. failures' \in [Enrollment -> 0 .. Threshold]
      BY <2>1 DEF TypeOK
    <2>3. /\ status' \in [Enrollment -> EnrollmentStatus]
          /\ next' \in [Enrollment -> {"never", "later", "due"}]
      BY <1>5 DEF RecordFailure, Stop, Later, TypeOK, EnrollmentStatus
    <2>4. \A d \in Enrollment : Runnable(d)'
      <3>1. CASE f >= Threshold
        BY <1>1, <1>5, <2>1, <3>1 DEF RecordFailure, Stop, Runnable, TypeOK
      <3>2. CASE ~(f >= Threshold)
        BY <1>1, <1>5, <2>1, <3>2 DEF RecordFailure, Later, Runnable, TypeOK
      <3> QED
        BY <3>1, <3>2
    <2>5. RowType'
      BY <1>3, <2>1, <2>2, <2>3 DEF RowType, TypeOK
    <2> QED
      BY <1>3, <2>4, <2>5 DEF TypeOK, OperatorType, RowType, WorkerType, Runnable
  <1>6. CASE RecordSent(w)
    <2> DEFINE c == current[Of(w)] + 1
    <2>1. /\ UNCHANGED <<length, failures>> /\ current' = [current EXCEPT ![Of(w)] = c]
          /\ c \in 0 .. length
      BY <1>1, <1>2, <1>6 DEF RecordSent, operatorVars
    <2>2. current' \in [Enrollment -> 0 .. length']
      BY <2>1 DEF TypeOK
    <2>3. /\ status' \in [Enrollment -> EnrollmentStatus]
          /\ next' \in [Enrollment -> {"never", "later", "due"}]
      BY <1>6 DEF RecordSent, Later, TypeOK, EnrollmentStatus
    <2>4. \A d \in Enrollment : Runnable(d)'
      <3>1. CASE c = length
        BY <1>1, <1>6, <2>1, <3>1 DEF RecordSent, Runnable, TypeOK
      <3>2. CASE c # length
        BY <1>1, <1>6, <2>1, <3>2 DEF RecordSent, Later, Runnable, TypeOK
      <3> QED
        BY <3>1, <3>2
    <2>5. RowType'
      BY <1>3, <2>1, <2>2, <2>3 DEF RowType, TypeOK
    <2> QED
      BY <1>3, <2>4, <2>5 DEF TypeOK, OperatorType, RowType, WorkerType, Runnable
  <1> QED
    BY <1>4, <1>5, <1>6 DEF PostponeStep, DropStep, RecordUncertain, RecordBlock

LEMMA TypeNext ==
  ASSUME TypeOK, RowInv, BusyInv, [Next]_vars
  PROVE  TypeOK'
  <1>a. ASSUME WorkerType', UNCHANGED <<operatorVars, rowVars>>, accepted' \in [Message -> Nat]
        PROVE  TypeOK'
    BY <1>a DEF TypeOK, WorkerType, operatorVars, rowVars
  <1>1. ASSUME NEW w \in Worker, NEW e \in Enrollment, Claim(w, e)
        PROVE  TypeOK'
    <2>1. CurrentExecution(e) \in Execution
      BY <1>1, ClaimEffect
    <2> QED
      BY <1>1, <2>1 DEF Claim, TypeOK, ExecutionState, operatorVars
  <1>2. ASSUME NEW w \in Worker, PrepareStep(w)
        PROVE  TypeOK'
    <2>1. current[Of(w)] \in Position
      BY <1>2, ClaimOf DEF PrepareStep, Busy
    <2>2. WorkerType'
      BY <1>2, <2>1 DEF PrepareStep, TypeOK, WorkerType
    <2> QED
      BY <1>2, <1>a, <2>2 DEF PrepareStep, TypeOK
  <1>3. ASSUME NEW w \in Worker, GuardBlocks(w)
        PROVE  TypeOK'
    <2>1. \E outcome \in Result : Conclude(w, outcome)
      BY <1>3 DEF GuardBlocks, Result
    <2>2. WorkerType'
      BY <2>1, ConcludeType
    <2>3. UNCHANGED <<operatorVars, current, failures, execution, accepted>>
      BY <1>3 DEF GuardBlocks
    <2>4. Of(w) \in Enrollment
      BY <1>3, ClaimOf DEF GuardBlocks, Busy
    <2>5. /\ status' \in [Enrollment -> EnrollmentStatus]
          /\ next' \in [Enrollment -> {"never", "later", "due"}]
          /\ \A d \in Enrollment : Runnable(d)'
      <3>1. CASE UNCHANGED <<status, next>>
        BY <2>3, <3>1 DEF TypeOK, Runnable, operatorVars
      <3>2. CASE Stop(Of(w))
        BY <2>3, <2>4, <3>2, StopType DEF operatorVars
      <3> QED
        BY <1>3, <3>1, <3>2 DEF GuardBlocks
    <2> QED
      BY <2>2, <2>3, <2>5 DEF TypeOK, WorkerType, Runnable, operatorVars
  <1>4. ASSUME NEW w \in Worker, StartCall(w)
        PROVE  TypeOK'
    <2>1. WorkerType'
      BY <1>4 DEF StartCall, Go, TypeOK, WorkerType
    <2> QED
      BY <1>4, <1>a, <2>1 DEF StartCall, TypeOK
  <1>5. ASSUME NEW w \in Worker, ProviderAccepts(w)
        PROVE  TypeOK'
    <2>1. WorkerType'
      BY <1>5 DEF ProviderAccepts, Go, TypeOK, WorkerType
    <2>2. accepted' \in [Message -> Nat]
      <3>1. PICK m : accepted' = [accepted EXCEPT ![m] = accepted[m] + 1]
        BY <1>5 DEF ProviderAccepts
      <3>2. \A k \in Message : accepted[k] \in Nat /\ accepted[k] + 1 \in Nat
        BY DEF TypeOK
      <3> QED
        BY <3>1, <3>2 DEF TypeOK
    <2> QED
      BY <1>5, <1>a, <2>1, <2>2 DEF ProviderAccepts
  <1>6. ASSUME NEW w \in Worker,
               PolicyBlocks(w) \/ SendFails(w) \/ OutcomeUncertain(w) \/ CommitSend(w)
        PROVE  TypeOK'
    <2>1. \E outcome \in Result : Conclude(w, outcome)
      <3>1. CASE PolicyBlocks(w)
        <4>1. \E outcome \in {"stop", "retry", "control"} : Conclude(w, outcome)
          BY <3>1 DEF PolicyBlocks
        <4> QED
          BY <4>1 DEF Result
      <3>2. CASE SendFails(w) \/ OutcomeUncertain(w) \/ CommitSend(w)
        BY <3>2 DEF SendFails, OutcomeUncertain, CommitSend, Result
      <3> QED
        BY <1>6, <3>1, <3>2
    <2>2. WorkerType'
      BY <2>1, ConcludeType
    <2> QED
      BY <1>6, <1>a, <2>2 DEF PolicyBlocks, SendFails, OutcomeUncertain, CommitSend, TypeOK
  <1>7. ASSUME NEW w \in Worker, Crash(w)
        PROVE  TypeOK'
    <2>1. WorkerType'
      BY <1>7, LeaveType DEF Crash
    <2> QED
      BY <1>7, <1>a, <2>1 DEF Crash, TypeOK
  <1>8. CASE UNCHANGED vars
    BY <1>8 DEF vars, operatorVars, rowVars, workerVars, TypeOK
  <1>9. ASSUME NEW w \in Worker, Tick(w)
        PROVE  TypeOK'
    BY <1>1, <1>2, <1>3, <1>4, <1>5, <1>6, <1>9, OutcomeType DEF Tick
  <1> QED
    BY <1>7, <1>8, <1>9, OperatorsType DEF Next, Operators

-----------------------------------------------------------------------------
(* The invariant and what follows from it.                                  *)

LEMMA SequencesStart == Init => SequencesInv
  <1> SUFFICES ASSUME Init PROVE SequencesInv
    OBVIOUS
  <1>1. /\ \A e \in Enrollment : status[e] = "none" /\ current[e] = 0 /\ failures[e] = 0
        /\ \A w \in Worker : pc[w] = "idle"
        /\ \A x \in Execution : execution[x] = "none"
        /\ \A m \in Message : accepted[m] = 0
        /\ sequence = "draft" /\ holder = Nobody
    BY DEF Init
  <1>2. TypeOK
    <2>1. 0 \in Position /\ 0 \in 0 .. length /\ 0 \in 0 .. Threshold /\ length \in 1 .. Steps
      BY Bounds DEF Init
    <2>2. /\ sequence \in SequenceStatus /\ control \in BOOLEAN
          /\ held \in [Enrollment -> BOOLEAN]
      BY DEF Init, SequenceStatus
    <2>3. RowType
      BY <2>1 DEF Init, RowType, EnrollmentStatus, ExecutionState
    <2>4. WorkerType
      BY <2>1 DEF Init, WorkerType, Result
    <2>5. accepted \in [Message -> Nat]
      BY DEF Init
    <2>6. \A e \in Enrollment : Runnable(e)
      BY <1>1 DEF Runnable
    <2> QED
      BY <2>1, <2>2, <2>3, <2>4, <2>5, <2>6, TypeParts DEF OperatorType
  <1>3. RowInv /\ BusyInv
    BY <1>1 DEF RowInv, BusyInv, Busy
  <1>4. HolderInv
    BY <1>1, SequencesAssumption DEF HolderInv
  <1>5. ExecutionInv
    <2>1. \A m \in Message : ~(m[2] < current[m[1]])
      BY <1>1, ExecutionParts, Bounds
    <2> QED
      BY <1>1, <2>1 DEF ExecutionInv
  <1>6. AcceptedInv
    <2>1. \A e \in Enrollment, s \in Position : accepted[<<e, s>>] = 0 /\ ~(s < current[e])
      <3>1. \A e \in Enrollment, s \in Position : accepted[<<e, s>>] = 0
        BY <1>1, ExecutionParts
      <3>2. \A e \in Enrollment, s \in Position : ~(s < current[e])
        BY <1>1, Bounds
      <3> QED
        BY <3>1, <3>2
    <2>2. \A e \in Enrollment : Covered(e) /\ InOrder(e)
      BY <2>1 DEF Covered, InOrder
    <2> QED
      BY <1>1, <2>2, AcceptedParts DEF Busy
  <1> QED
    BY <1>2, <1>3, <1>4, <1>5, <1>6 DEF SequencesInv

LEMMA SequencesInductive == Spec => []SequencesInv
  <1>1. SequencesInv /\ [Next]_vars => SequencesInv'
    BY TypeNext, RowNext, BusyNext, HolderNext, ExecutionNext, AcceptedNext DEF SequencesInv
  <1> QED
    BY SequencesStart, <1>1, PTL DEF Spec

\* Rows and workers keep their types, and an enrollment that may still be run
\* has a step to send and an attempt left (_process_claim).
THEOREM SequencesTyped == Spec => []TypeOK
  <1>1. SequencesInv => TypeOK
    BY DEF SequencesInv
  <1> QED
    BY SequencesInductive, <1>1, PTL

\* Every lead gets the steps in order, each once and without gaps: for any
\* number of leads and of overlapping ticks that die anywhere, any number of
\* steps and any failure threshold (_claim_due_enrollment, _process_claim).
THEOREM StepsArriveInOrder == Spec => []StepsInOrder
  <1>1. SequencesInv => StepsInOrder
    BY DEF SequencesInv, AcceptedInv
  <1> QED
    BY SequencesInductive, <1>1, PTL

\* Whatever operators and leads have done since the claim, a step that Meta
\* accepts is wanted at that moment: the locks taken by the final guard hold
\* what it has read (_final_sequence_guard).
THEOREM StopsAreRespected == Spec => SendRespectsStop
  <1> DEFINE Wanted(m) == /\ sequence = "active" /\ control
                          /\ status[m[1]] = "active" /\ ~held[m[1]]
  <1>1. ASSUME SequencesInv, NEW w \in Worker, ProviderAccepts(w)
        PROVE  \A m \in Message : accepted'[m] # accepted[m] => Wanted(m)
    <2>1. TypeOK /\ Busy(w) /\ holder = w
      BY <1>1 DEF SequencesInv, HolderInv, ProviderAccepts, Busy
    <2>2. \A m \in Message : accepted'[m] # accepted[m] => m[1] = Of(w)
      BY <1>1, <2>1 DEF ProviderAccepts, TypeOK
    <2>3. sequence = "active" /\ control /\ status[Of(w)] = "active" /\ ~held[Of(w)]
      BY <1>1, <2>1 DEF SequencesInv, HolderInv
    <2> QED
      BY <2>2, <2>3
  <1>2. ASSUME [Next]_vars
        PROVE  (\E w \in Worker : ProviderAccepts(w)) \/ UNCHANGED accepted
    <2>1. ASSUME NEW w \in Worker, Tick(w)
          PROVE  ProviderAccepts(w) \/ UNCHANGED accepted
      BY <2>1 DEF Tick, Claim, PostponeStep, DropStep, PrepareStep, PolicyBlocks, GuardBlocks,
                  StartCall, SendFails, OutcomeUncertain, CommitSend, RecordUncertain,
                  RecordFailure, RecordBlock, RecordSent, Record
    <2> QED
      BY <1>2, <2>1 DEF Next, SetSequenceStatus, EditDraft, SetControl, LeadChanges, Enroll,
                        SetEnrollmentStatus, Elapse, Crash, vars
  <1>3. SequencesInv /\ [Next]_vars =>
          [\A m \in Message : accepted'[m] # accepted[m] =>
             /\ sequence = "active" /\ control
             /\ status[m[1]] = "active"
             /\ ~held[m[1]]]_vars
    BY <1>1, <1>2
  <1> QED
    BY SequencesInductive, <1>3, PTL DEF Spec, SendRespectsStop

-----------------------------------------------------------------------------
(* The refinement.                                                          *)

Status == [m \in Message |-> IF StepClaimed(m) THEN "claimed" ELSE "open"]

Open == {"sending", "unknown", "sent"}

\* Of the executions of a current step, only the current one can be open.
LEMMA OnlyCurrentOpen ==
  ASSUME TypeOK, ExecutionInv, NEW e \in Enrollment, current[e] \in Position,
         NEW n \in 1 .. Threshold, n # failures[e] + 1
  PROVE  execution[<<e, current[e], n>>] \notin Open
  <1> DEFINE x == <<e, current[e], n>>
  <1>1. x \in Execution /\ x[1] = e /\ x[2] = current[e] /\ x[3] = n
    BY ExecutionParts
  <1>2. n > failures[e] + 1 \/ n <= failures[e]
    BY RowBounds, Bounds
  <1> HIDE DEF x
  <1>3. execution[x] \in {"none", "failed"}
    BY <1>1, <1>2 DEF ExecutionInv
  <1> QED
    BY <1>3 DEF x, Open

\* What becomes of the abstract status when one execution changes.
LEMMA StatusOfOne ==
  ASSUME NEW m \in Message,
         \A x \in Execution : ~(x[1] = m[1] /\ x[2] = m[2]) => execution'[x] = execution[x]
  PROVE  Status' = [Status EXCEPT ![m] = IF StepClaimed(m)' THEN "claimed" ELSE "open"]
  <1>1. ASSUME NEW k \in Message, k # m
        PROVE  StepClaimed(k)' <=> StepClaimed(k)
    <2>1. ~(k[1] = m[1] /\ k[2] = m[2])
      BY <1>1, ExecutionParts
    <2>2. ASSUME NEW n \in 1 .. Threshold
          PROVE  execution'[<<k[1], k[2], n>>] = execution[<<k[1], k[2], n>>]
      <3> DEFINE x == <<k[1], k[2], n>>
      <3>1. x \in Execution /\ x[1] = k[1] /\ x[2] = k[2]
        BY ExecutionParts
      <3> HIDE DEF x
      <3>2. execution'[x] = execution[x]
        BY <2>1, <3>1
      <3> QED
        BY <3>2 DEF x
    <2> QED
      BY <2>2 DEF StepClaimed
  <1> QED
    BY <1>1 DEF Status

\* An execution under a claim makes its step claimed.
LEMMA WorkIsClaimed ==
  ASSUME TypeOK, BusyInv, NEW w \in Worker, Busy(w)
  PROVE  /\ <<Of(w), current[Of(w)]>> \in Message
         /\ StepClaimed(<<Of(w), current[Of(w)]>>)
  <1>1. /\ Of(w) \in Enrollment /\ current[Of(w)] \in Position
        /\ failures[Of(w)] + 1 \in 1 .. Threshold
        /\ execution[<<Of(w), current[Of(w)], failures[Of(w)] + 1>>] = "sending"
    BY ClaimOf
  <1> QED
    BY <1>1, ExecutionParts DEF StepClaimed

LEMMA RefinementStep ==
  ASSUME SequencesInv, [Next]_vars
  PROVE  AtMostOnce!Next \/ UNCHANGED <<Status, accepted>>
  <1> USE DEF SequencesInv
  <1>1. CASE UNCHANGED <<execution, accepted>>
    BY <1>1 DEF Status, StepClaimed
  <1>2. ASSUME NEW w \in Worker, NEW e \in Enrollment, Claim(w, e)
        PROVE  AtMostOnce!Next
    <2> DEFINE m == <<e, current[e]>>
               x == CurrentExecution(e)
    <2>1. /\ x \in Execution /\ x = <<e, current[e], failures[e] + 1>>
          /\ execution[x] \in {"none", "paused"}
          /\ \A y \in Execution : execution'[y] = IF y = x THEN "sending" ELSE execution[y]
      BY <1>2, ClaimEffect
    <2>2. /\ current[e] \in Position /\ failures[e] + 1 \in 1 .. Threshold
          /\ m \in Message /\ m[1] = e /\ m[2] = current[e]
      BY <2>1, ExecutionParts
    <2>3. ~StepClaimed(m)
      <3>1. \A n \in 1 .. Threshold : execution[<<e, current[e], n>>] \notin Open
        BY <2>1, <2>2, OnlyCurrentOpen DEF Open
      <3> QED
        BY <2>2, <3>1 DEF StepClaimed, Open
    <2>4. StepClaimed(m)'
      <3>1. execution'[<<e, current[e], failures[e] + 1>>] = "sending"
        BY <2>1
      <3>2. UNCHANGED current
        BY <1>2 DEF Claim
      <3> QED
        BY <2>2, <3>1, <3>2 DEF StepClaimed
    <2>5. m' = m
      BY <1>2 DEF Claim
    <2> HIDE DEF m, x
    <2>6. \A y \in Execution : ~(y[1] = m[1] /\ y[2] = m[2]) => execution'[y] = execution[y]
      <3>1. x[1] = e /\ x[2] = current[e]
        BY <2>1
      <3> QED
        BY <2>1, <2>2, <3>1
    <2>7. PICK k \in Message : k = m
      BY <2>2
    <2>8. Status[k] = "open" /\ Status' = [Status EXCEPT ![k] = "claimed"]
      BY <2>3, <2>4, <2>5, <2>6, <2>7, StatusOfOne DEF Status
    <2>9. AtMostOnce!Claim(k)
      BY <1>2, <2>8 DEF AtMostOnce!Claim, Status, Claim
    <2> QED
      BY <2>9 DEF AtMostOnce!Next
  <1>3. ASSUME NEW w \in Worker, Advances(w), accepted' # accepted
        PROVE  AtMostOnce!Next
    <2>1. /\ accepted' = [accepted EXCEPT ![<<Of(w), sending[w]>>] = @ + 1]
          /\ pc[w] = "calling" /\ Busy(w) /\ UNCHANGED execution
      BY <1>3 DEF Advances
    <2>2. PICK m \in Message : m = <<Of(w), current[Of(w)]>>
      BY <2>1, WorkIsClaimed
    <2>3. StepClaimed(m)
      BY <2>1, <2>2, WorkIsClaimed
    <2>4. accepted[m] = 0
      BY <2>1, <2>2 DEF AcceptedInv, MayBeDelivered, Delivered
    <2>5. accepted' = [accepted EXCEPT ![m] = 1]
      <3>1. sending[w] = current[Of(w)]
        BY <2>1 DEF BusyInv
      <3>2. accepted' = [accepted EXCEPT ![m] = accepted[m] + 1]
        BY <2>1, <2>2, <3>1
      <3>3. accepted[m] + 1 = 1
        BY <2>4
      <3> QED
        BY <3>2, <3>3
    <2>6. UNCHANGED Status /\ Status[m] = "claimed"
      BY <2>1, <2>3 DEF Status, StepClaimed
    <2>7. AtMostOnce!Deliver(m)
      BY <2>4, <2>5, <2>6 DEF AtMostOnce!Deliver, Status
    <2> QED
      BY <2>7 DEF AtMostOnce!Next
  <1>4. ASSUME NEW w \in Worker, NEW state, Settles(w, state)
        PROVE  AtMostOnce!Next \/ UNCHANGED <<Status, accepted>>
    <2>1. PICK e \in Enrollment, s \in Position, n \in 1 .. Threshold :
            /\ e = Of(w) /\ s = current[e] /\ n = failures[e] + 1
            /\ job[w] = <<e, s, n>> /\ job[w] \in Execution
      BY <1>4, SettleEffect, ClaimOf
    <2>2. PICK m \in Message : m = <<e, s>>
      BY <2>1, ExecutionParts
    <2>3. \A y \in Execution : execution'[y] = IF y = job[w] THEN state ELSE execution[y]
      BY <1>4, SettleEffect
    <2>4. StepClaimed(m)
      BY <1>4, <2>1, <2>2, SettleEffect, WorkIsClaimed
    <2>5. \A y \in Execution : ~(y[1] = m[1] /\ y[2] = m[2]) => execution'[y] = execution[y]
      BY <2>1, <2>2, <2>3
    <2>6. Status' = [Status EXCEPT ![m] = IF StepClaimed(m)' THEN "claimed" ELSE "open"]
      BY <2>5, StatusOfOne
    <2>7. accepted' = accepted
      BY <1>4 DEF Settles
    <2>8. CASE state \in {"unknown", "sent"}
      <3>1. execution'[<<e, s, n>>] \in {"unknown", "sent"}
        BY <2>1, <2>3, <2>8
      <3>2. StepClaimed(m)'
        BY <2>1, <2>2, <3>1 DEF StepClaimed
      <3>3. Status' = Status
        BY <2>4, <2>6, <3>2 DEF Status
      <3> QED
        BY <2>7, <3>3
    <2>9. CASE state \in {"paused", "blocked", "failed"} /\ ~MayBeDelivered(w)
      <3>1. accepted[m] = 0
        BY <1>4, <2>1, <2>2, <2>9, SettleEffect DEF AcceptedInv
      <3>2. \A k \in 1 .. Threshold : execution'[<<e, s, k>>] \notin Open
        <4> SUFFICES ASSUME NEW k \in 1 .. Threshold
                     PROVE  execution'[<<e, s, k>>] \notin Open
          OBVIOUS
        <4>1. CASE k = n
          BY <2>1, <2>3, <2>9, <4>1 DEF Open
        <4>2. CASE k # n
          <5>1. execution[<<e, s, k>>] \notin Open
            BY <2>1, <4>2, OnlyCurrentOpen
          <5>2. <<e, s, k>> \in Execution /\ <<e, s, k>> # job[w]
            BY <2>1, <4>2, ExecutionParts
          <5> QED
            BY <2>3, <5>1, <5>2
        <4> QED
          BY <4>1, <4>2
      <3>3. ~StepClaimed(m)'
        BY <2>2, <3>2 DEF StepClaimed, Open
      <3>4. Status[m] = "claimed" /\ Status' = [Status EXCEPT ![m] = "open"]
        BY <2>4, <2>6, <3>3 DEF Status
      <3>5. AtMostOnce!GiveBack(m, "open")
        BY <2>7, <3>1, <3>4 DEF AtMostOnce!GiveBack, Status
      <3> QED
        BY <3>5 DEF AtMostOnce!Next
    <2> QED
      BY <1>4, <2>8, <2>9 DEF Settles
  <1> QED
    BY <1>1, <1>2, <1>3, <1>4, Kinds DEF Operates, Advances, Crash, rowVars

\* Every behaviour of the sequences is one of AtMostOnceSend, step by step of
\* each lead: the claim of the execution row comes before the call, and only an
\* execution under which nothing was accepted is opened for another attempt.
THEOREM SequencesImplementAtMostOnce == Spec => ImplementsAtMostOnce
  <1>1. Init => AtMostOnce!Init
    <2> SUFFICES ASSUME Init PROVE AtMostOnce!Init
      OBVIOUS
    <2>1. \A m \in Message : ~StepClaimed(m)
      <3> SUFFICES ASSUME NEW m \in Message, NEW n \in 1 .. Threshold
                   PROVE  execution[<<m[1], m[2], n>>] = "none"
        BY DEF StepClaimed
      <3>1. <<m[1], m[2], n>> \in Execution
        BY ExecutionParts
      <3> QED
        BY <3>1 DEF Init
    <2> QED
      BY <2>1 DEF Init, AtMostOnce!Init
  <1>2. SequencesInv /\ [Next]_vars =>
          [AtMostOnce!Next]_<<[m \in Message |-> IF StepClaimed(m) THEN "claimed" ELSE "open"],
                              accepted>>
    BY RefinementStep DEF Status
  <1> QED
    BY SequencesInductive, <1>1, <1>2, PTL DEF Spec, ImplementsAtMostOnce, AtMostOnce!Spec

=============================================================================
