------------------------ MODULE EmailCampaignsProofs ------------------------
(***************************************************************************)
(* Proofs about the email campaigns for any number of campaigns, leads and  *)
(* web processes, any plan limit and any length and number of runs.         *)
(*                                                                          *)
(* Until its claim a worker has the enrollment's row locked; afterwards it   *)
(* works with a copy.  What keeps the copy good is the date: it is the      *)
(* worker's own until the worker is done, or it is gone and the enrollment   *)
(* paused, unless an operator makes the enrollment due again.  With one      *)
(* worker at a time an acceptance that is neither recorded nor with the     *)
(* worker that may record it is one that was lost.                          *)
(***************************************************************************)
EXTENDS EmailCampaigns, FiniteSetTheorems, TLAPS

\* The copy of a row a worker has, and the attempt it names.
JobInv ==
    \A w \in Worker : pc[w] # "idle" =>
        /\ job[w] \in Job
        /\ job[w].row.run \in 1 .. row[job[w].of].run

\* A picked row is locked and is what the worker has.
PickedInv ==
    /\ \A w \in Worker : pc[w] = "picked" =>
         /\ job[w].row = row[job[w].of] /\ job[w].pos = job[w].row.step
         /\ job[w].row.status = "active" /\ job[w].row.next = "due"
    /\ \A v, w \in Worker :
         pc[v] = "picked" /\ pc[w] = "picked" /\ job[v].of = job[w].of => v = w

\* Who is sending for an enrollment no operator has made due under it has the
\* run and the step of its row, and the date keeps the others away.
InStep(w, e) ==
    /\ job[w].row.run = row[e].run /\ job[w].pos = row[e].step
    /\ \/ row[e].status = "active" /\ row[e].next = w
       \/ row[e].status = "paused" /\ row[e].next = "never"
    /\ attempt[JobAttempt(w)] = "sending"
    /\ pc[w] # "claimed" =>
         /\ job[w].row.step = row[e].step /\ job[w].attempt = "sending"
         /\ \/ job[w].row.status = "active" /\ job[w].row.next = w
            \/ job[w].row.status = "paused" /\ job[w].row.next = "never"

TurnInv ==
    \A e \in Enrollment : ~raced[e] =>
        /\ \A w \in Worker : Sending(w, e) => InStep(w, e)
        /\ \A v, w \in Worker : Sending(v, e) /\ Sending(w, e) => v = w

StepsSent ==
    \A e \in Enrollment : ~raced[e] /\ row[e].status \in {"active", "paused"} =>
        \A p \in Position : p < row[e].step => attempt[AttemptOf(e, p)] = "sent"

\* The attempt is committed before the call, and an acceptance comes before its
\* record; a worker has an answer only from its call to its last step.
EmailInv ==
    /\ \A a \in Attempt :
         /\ mail[a] # "none" => attempt[a] # "none"
         /\ attempt[a] = "sent" => mail[a] # "none"
    /\ \A w \in Worker :
         /\ pc[w] \in InFlight => attempt[JobAttempt(w)] # "none"
         /\ answer[w] = "ok" => pc[w] \in {"answered", "counted"}
         /\ answer[w] = "ok" => mail[JobAttempt(w)] # "none"
         /\ pc[w] = "counted" => answer[w] = "ok"

\* The worker has the provider's word for the attempt and may still record it.
Owes(w, a) == answer[w] = "ok" /\ JobAttempt(w) = a

\* No run is emailed before it starts.  In the run an enrollment is in, an
\* acceptance somebody knows of is recorded or owed.
KnownInv ==
    \A a \in Attempt :
        /\ mail[a] # "none" => a[2] <= row[a[1]].run
        /\ ~raced[a[1]] /\ a[2] = row[a[1]].run /\ mail[a] = "known" =>
             attempt[a] = "sent" \/ \E w \in Worker : Owes(w, a)

\* An enrollment that never ran has no date.
NeverRan == \A e \in Enrollment : row[e].status = "none" => row[e].next = "never"

\* Workers and threads that have seen room for the email they have not counted.
Working == {w \in Worker : pc[w] \notin {"idle", "counted"}}
Asking == {t \in Thread : manual[t] # NoJob}

UsageInv ==
    /\ MonthlyCap = 0 => Working = {} /\ Asking = {}
    /\ used + Cardinality(Working) + Cardinality(Asking)
         <= MonthlyCap + Cardinality(Worker) + Cardinality(Thread) - 1 + replies

CampaignsInv ==
    /\ TypeOK /\ JobInv /\ PickedInv /\ TurnInv /\ StepsSent /\ NeverRan
    /\ EmailInv /\ KnownInv /\ UsageInv

-----------------------------------------------------------------------------
(* Types in two parts: what the proofs are about, and the rest.              *)

MainType ==
    /\ row \in [Enrollment -> Row]
    /\ attempt \in [Attempt -> {"none", "sending", "failed", "sent"}]
    /\ raced \in [Enrollment -> BOOLEAN]
    /\ pc \in [Worker -> {"idle", "picked"} \cup InFlight]
    /\ job \in [Worker -> Job \cup {NoJob}]
    /\ answer \in [Worker -> {"none", "ok", "error"}]
    /\ mail \in [Attempt -> {"none", "accepted", "known"}]
    /\ \A e \in Enrollment : row[e].status = "none" <=> row[e].run = 0
    /\ \A e \in Enrollment : row[e].status = "active" /\ ~raced[e] => row[e].next # "never"

SideType ==
    /\ campaign \in [Campaign -> CampaignStatus]
    /\ steps \in [Campaign -> 0 .. MaxSteps]
    /\ stage \in [Lead -> {"New Lead", "Contacted", "Booked"}]
    /\ held \in [Lead -> BOOLEAN]
    /\ used \in Nat /\ replies \in Nat
    /\ manual \in [Thread -> Manual \cup {NoJob}]
    /\ faults \in 0 .. MaxFaults

LEMMA TypeParts == TypeOK <=> MainType /\ SideType
  BY DEF TypeOK, MainType, SideType

LEMMA Bounds ==
  /\ MaxSteps \in Nat /\ MaxSteps > 0 /\ MaxRuns \in Nat /\ MaxRuns > 0
  /\ MonthlyCap \in Nat /\ MaxFaults \in Nat
  /\ Worker \cap {"never", "due", "later"} = {}
  /\ \A s : s \in Position <=> s \in Int /\ 0 <= s /\ s < MaxSteps
  BY CampaignsAssumption DEF Position

LEMMA FaultType ==
  ASSUME faults \in 0 .. MaxFaults, Fault
  PROVE  faults' \in 0 .. MaxFaults
  BY Bounds DEF Fault

LEMMA AttemptParts ==
  /\ \A a \in Attempt : /\ a = <<a[1], a[2], a[3]>>
                        /\ a[1] \in Enrollment /\ a[2] \in 1 .. MaxRuns /\ a[3] \in Position
  /\ \A e \in Enrollment, r \in 1 .. MaxRuns, p \in Position : <<e, r, p>> \in Attempt
  BY DEF Attempt

\* A row, field by field.
LEMMA RowFields ==
  ASSUME MainType, NEW e \in Enrollment
  PROVE  /\ row[e].status \in {"none", "active", "paused", "stopped", "completed"}
         /\ row[e].step \in Nat /\ row[e].run \in 0 .. MaxRuns /\ row[e].run \in Nat
         /\ row[e].next \in Date
         /\ row[e] = [status |-> row[e].status, step |-> row[e].step,
                      run |-> row[e].run, next |-> row[e].next]
  BY Bounds DEF MainType, Row

\* What a worker under way has in memory.
LEMMA JobFields ==
  ASSUME MainType, JobInv, NEW w \in Worker, pc[w] # "idle"
  PROVE  /\ job[w] \in Job /\ job[w].of \in Enrollment /\ job[w].pos \in Position
         /\ job[w].plan \in 1 .. MaxSteps /\ job[w].row \in Row
         /\ job[w].row.run \in 1 .. MaxRuns /\ row[job[w].of].run \in 1 .. MaxRuns
         /\ JobAttempt(w) \in Attempt /\ JobAttempt(w)[1] = job[w].of
         /\ row[job[w].of].status # "none"
  <1>1. job[w] \in Job /\ job[w].row.run \in 1 .. row[job[w].of].run
    BY DEF JobInv
  <1>2. /\ job[w].of \in Enrollment /\ job[w].pos \in Position
        /\ job[w].plan \in 1 .. MaxSteps /\ job[w].row \in Row
    BY <1>1 DEF Job
  <1>3. row[job[w].of].run \in 0 .. MaxRuns /\ MaxRuns \in Nat
    BY <1>2, RowFields, Bounds
  <1>4. job[w].row.run \in 1 .. MaxRuns /\ row[job[w].of].run \in 1 .. MaxRuns
    BY <1>1, <1>3
  <1>5. row[job[w].of].status # "none"
    BY <1>2, <1>4 DEF MainType
  <1> QED
    BY <1>1, <1>2, <1>4, <1>5, AttemptParts DEF JobAttempt

-----------------------------------------------------------------------------
(* Kinds of steps.                                                          *)

Runs(r) == r.status \in {"active", "paused"}

\* An operator, the time or a tick changes one row that no worker has locked.
RowStep(e) ==
    /\ UNCHANGED <<attempt, workerVars, mail, usageVars>>
    /\ row' = [row EXCEPT ![e] = row'[e]] /\ raced' = [raced EXCEPT ![e] = raced'[e]]
    /\ row'[e] \in Row /\ raced'[e] \in BOOLEAN
    /\ row'[e].status # "none" /\ row'[e].run \in 1 .. MaxRuns /\ row'[e].run >= row[e].run
    /\ row'[e].status = "active" /\ ~raced'[e] => row'[e].next # "never"
    /\ Unlocked(e)
    /\ ~raced'[e] => ~raced[e] \/ row'[e].run > row[e].run
    /\ ~raced'[e] =>
         \/ \A w \in Worker : ~Sending(w, e)
         \/ /\ row[e].status = "active" /\ ~raced[e]
            /\ row'[e] = [row[e] EXCEPT !.status = "paused", !.next = "never"]
    /\ ~raced'[e] /\ Runs(row'[e]) =>
         \/ row'[e].step = 0
         \/ /\ ~raced[e] /\ Runs(row[e])
            /\ row'[e].step = row[e].step /\ row'[e].run = row[e].run

\* A worker is done with its enrollment, for better or worse.
Ends(w) ==
    LET e == job[w].of IN
    /\ pc[w] # "idle" /\ Leave(w)
    /\ UNCHANGED <<raced, usageVars>>
    /\ row' = [row EXCEPT ![e] = row'[e]]
    /\ row'[e] \in Row /\ row'[e].status # "none" /\ row'[e].run = row[e].run
    /\ row'[e].status = "active" => row[e].status = "active"
    /\ row'[e].status = "active" /\ ~raced[e] => row'[e].next # "never"
    /\ \/ row'[e] = row[e]
       \/ \A v \in Worker \ {w} : pc[v] = "picked" => job[v].of # e
    /\ \/ UNCHANGED attempt /\ Lose(w)
       \/ pc[w] = "picked" /\ UNCHANGED <<attempt, mail>>
       \/ /\ pc[w] = "answered" /\ answer[w] = "error" /\ UNCHANGED mail
          /\ UNCHANGED attempt \/ attempt' = [attempt EXCEPT ![JobAttempt(w)] = "failed"]
       \/ /\ pc[w] = "counted" /\ UNCHANGED mail
          /\ \/ attempt' = [attempt EXCEPT ![JobAttempt(w)] = "sent"]
             \/ UNCHANGED attempt /\ job[w].attempt = "sent"
    /\ ~raced[e] /\ Runs(row'[e]) =>
         /\ Runs(row[e])
         /\ \/ row'[e].step = row[e].step
            \/ row'[e].step = row[e].step + 1
               /\ (row[e].step \in Position => attempt'[AttemptOf(e, row[e].step)] = "sent")

\* A worker goes on: the copy of the rows is taken, the provider answers.
Calls(w) ==
    /\ UNCHANGED <<row, attempt, raced, usageVars>>
    /\ pc[w] \in {"claimed", "calling"} /\ pc' = [pc EXCEPT ![w] = pc'[w]]
    /\ pc'[w] \in {"calling", "answered"}
    /\ job' = [job EXCEPT ![w] = job'[w]]
    /\ \/ /\ pc[w] = "claimed" /\ pc'[w] = "calling"
          /\ job'[w] = [job[w] EXCEPT !.row = [row[job[w].of] EXCEPT !.run = job[w].row.run],
                                      !.new = job'[w].new, !.attempt = attempt[JobAttempt(w)]]
          /\ job'[w].new \in BOOLEAN /\ UNCHANGED <<mail, answer>>
       \/ /\ pc[w] = "calling" /\ pc'[w] = "answered" /\ job'[w] = job[w]
          /\ \/ answer'[w] = "ok" /\ mail' = [mail EXCEPT ![JobAttempt(w)] = "known"]
             \/ answer'[w] = "error" /\ UNCHANGED mail
             \/ /\ answer'[w] = "error"
                /\ mail' = [mail EXCEPT ![JobAttempt(w)] = IF @ = "none" THEN "accepted" ELSE @]
    /\ answer' = [answer EXCEPT ![w] = answer'[w]]
    /\ answer'[w] \in {"none", "ok", "error"}

\* The steps of a campaign are replaced: who has its rows has them no more.
Replaces ==
    /\ UNCHANGED <<row, attempt, usageVars, pc, answer, mail, raced>>
    /\ job' \in [Worker -> Job \cup {NoJob}]
    /\ \A w \in Worker : pc[w] # "idle" =>
         job'[w] = [job[w] EXCEPT !.gone = job'[w].gone] /\ job'[w].gone \in BOOLEAN

\* A campaign, a lead, or the tenant's usage but for the workers'.
Outside ==
    /\ UNCHANGED <<row, attempt, workerVars, mail, raced>>
    /\ \/ UNCHANGED usageVars
       \/ NewMonth \/ CountReply
       \/ \E t \in Thread :
              \/ \E l \in Lead : RequestEmail(t, l)
              \/ CommitEmail(t) \/ CountEmail(t) \/ GiveUpEmail(t)

Kinds ==
    \/ Outside \/ Replaces
    \/ \E e \in Enrollment : RowStep(e)
    \/ \E w \in Worker, e \in Enrollment : Pick(w, e)
    \/ \E w \in Worker : ClaimDeliveryAttempt(w) \/ Calls(w) \/ LogUsage(w) \/ Ends(w)

\* Where no operator has made it due, a row that is due has no sender.
LEMMA DueIsFree ==
  ASSUME MainType, TurnInv, NEW e \in Enrollment, ~raced[e], NEW w \in Worker, Sending(w, e)
  PROVE  /\ row[e].next = w \/ row[e].next = "never"
         /\ row[e].next \notin {"due", "later"} /\ Runs(row[e])
         /\ row[e].status = "active" => row[e].next = w
  BY Bounds DEF TurnInv, InStep, Runs

LEMMA RowKind ==
  ASSUME MainType, JobInv, PickedInv, TurnInv, NeverRan, NEW e \in Enrollment,
         \/ EnrollLead(e) \/ ReenrollLead(e) \/ Pause(e) \/ Resume(e) \/ Elapse(e)
         \/ \E w \in Worker : \/ PauseWithCampaign(w, e) \/ StopEnrollment(w, e)
                              \/ CompleteWithoutStep(w, e) \/ Postpone(w, e)
  PROVE  RowStep(e)
  <1>a. /\ row[e].status \in {"none", "active", "paused", "stopped", "completed"}
        /\ row[e].step \in Nat /\ row[e].run \in Nat /\ row[e].run <= MaxRuns
        /\ row[e].next \in Date /\ MaxRuns \in Nat /\ MaxRuns > 0
        /\ row[e].status = "none" <=> row[e].run = 0
    BY RowFields, Bounds DEF MainType
  <1>b. \A w \in Worker : pc[w] # "idle" /\ job[w].of = e => row[e].status # "none"
    BY JobFields
  <1>1. CASE EnrollLead(e) \/ ReenrollLead(e)
    <2>1. /\ row' = [row EXCEPT ![e] = [status |-> "active", step |-> 0, run |-> row[e].run + 1,
                                        next |-> "later"]]
          /\ raced' = [raced EXCEPT ![e] = \E w \in Worker : Sending(w, e)]
          /\ UNCHANGED <<attempt, workerVars, mail, usageVars>>
      BY <1>1 DEF EnrollLead, ReenrollLead, StartRun
    <2>2. row'[e] = [status |-> "active", step |-> 0, run |-> row[e].run + 1, next |-> "later"]
          /\ raced'[e] = (\E w \in Worker : Sending(w, e))
      BY <2>1 DEF MainType
    <2>3. row[e].run + 1 \in 1 .. MaxRuns
      BY <1>1, <1>a DEF EnrollLead, ReenrollLead
    <2>4. Unlocked(e)
      BY <1>1, <1>b DEF EnrollLead, ReenrollLead, Unlocked
    <2>5. row'[e] \in Row
      BY <2>2, <2>3 DEF Row, Date
    <2>6. /\ raced'[e] \in BOOLEAN
          /\ ~raced'[e] => \A w \in Worker : ~Sending(w, e)
          /\ raced' = [raced EXCEPT ![e] = raced'[e]]
      BY <2>1, <2>2
    <2>7. /\ row' = [row EXCEPT ![e] = row'[e]]
          /\ row'[e].status = "active" /\ row'[e].next = "later" /\ row'[e].step = 0
          /\ row'[e].run = row[e].run + 1
      <3>1. row'[e] = [status |-> "active", step |-> 0, run |-> row[e].run + 1,
                       next |-> "later"]
        BY <2>2
      <3>2. row' = [row EXCEPT ![e] = row'[e]]
        BY <2>1, <3>1 DEF MainType
      <3> QED
        BY <3>1, <3>2
    <2>8. row'[e].run \in 1 .. MaxRuns /\ row'[e].run > row[e].run /\ row'[e].run >= row[e].run
      BY <1>a, <2>3, <2>7
    <2> QED
      BY <2>1, <2>4, <2>5, <2>6, <2>7, <2>8 DEF RowStep
  <1>2. CASE Pause(e)
    <2>1. row'[e] = [row[e] EXCEPT !.status = "paused", !.next = "never"] /\ raced' = raced
      BY <1>2 DEF Pause, MainType
    <2>2. row'[e] \in Row
      BY <1>a, <2>1, RowFields DEF Row, Date, MainType
    <2>3. row' = [row EXCEPT ![e] = row'[e]] /\ row[e].status = "active" /\ Unlocked(e)
          /\ UNCHANGED <<attempt, workerVars, mail, usageVars>>
      BY <1>2, <2>1 DEF Pause
    <2>4. /\ row'[e].status = "paused" /\ row'[e].run = row[e].run
          /\ row'[e].step = row[e].step
      BY <2>1, RowFields
    <2> QED
      BY <1>a, <2>1, <2>2, <2>3, <2>4 DEF RowStep, Runs, MainType
  <1>3. CASE Resume(e)
    <2> DEFINE next == IF row[e].next = "never" THEN "due" ELSE row[e].next
    <2>1. row'[e] = [row[e] EXCEPT !.status = "active", !.next = next]
      BY <1>3 DEF Resume, MainType
    <2>2. row'[e] \in Row
      BY <1>a, <2>1, RowFields DEF Row, Date, MainType
    <2>3. row' = [row EXCEPT ![e] = row'[e]] /\ row[e].status = "paused" /\ Unlocked(e)
          /\ UNCHANGED <<attempt, workerVars, mail, usageVars>>
      BY <1>3, <2>1 DEF Resume
    <2>4. /\ row'[e].status = "active" /\ row'[e].run = row[e].run
          /\ row'[e].step = row[e].step /\ row'[e].next # "never"
      BY <2>1, RowFields
    <2>5. /\ raced' = [raced EXCEPT ![e] = raced'[e]] /\ raced'[e] \in BOOLEAN
          /\ raced'[e] = (raced[e] \/ \E w \in Worker : Sending(w, e))
      BY <1>3 DEF Resume, MainType
    <2>6. ~raced'[e] => ~raced[e] /\ \A w \in Worker : ~Sending(w, e)
      BY <2>5
    <2> QED
      BY <1>a, <2>2, <2>3, <2>4, <2>5, <2>6 DEF RowStep, Runs
  <1>c. ASSUME NEW new, row' = [row EXCEPT ![e] = new], UNCHANGED raced,
               UNCHANGED <<attempt, workerVars, mail, usageVars>>,
               Unlocked(e), row[e].status # "none",
               new \in Row, new.run = row[e].run, new.step = row[e].step, new.status # "none",
               Runs(new) => Runs(row[e]),
               new.status = "active" => new.next # "never",
               ~raced[e] => \A w \in Worker : ~Sending(w, e)
        PROVE  RowStep(e)
    <2>1. row'[e] = new /\ raced' = [raced EXCEPT ![e] = raced'[e]] /\ raced'[e] = raced[e]
          /\ raced[e] \in BOOLEAN
      BY <1>c DEF MainType
    <2>2. row[e].run \in 1 .. MaxRuns /\ row'[e].run = row[e].run /\ row'[e].run >= row[e].run
      BY <1>a, <1>c, <2>1
    <2>3. row' = [row EXCEPT ![e] = row'[e]] /\ row'[e] \in Row
      BY <1>c, <2>1
    <2>4. ~raced'[e] => \A w \in Worker : ~Sending(w, e)
      BY <1>c, <2>1
    <2>5. ~raced'[e] /\ Runs(row'[e]) =>
            /\ ~raced[e] /\ Runs(row[e])
            /\ row'[e].step = row[e].step /\ row'[e].run = row[e].run
      BY <1>c, <2>1
    <2>6. row'[e].status # "none" /\ (row'[e].status = "active" => row'[e].next # "never")
      BY <1>c, <2>1
    <2> QED
      BY <1>c, <2>1, <2>2, <2>3, <2>4, <2>5, <2>6 DEF RowStep
  <1>4. CASE Elapse(e)
    <2> DEFINE new == [row[e] EXCEPT !.next = "due"]
    <2>1. /\ new \in Row /\ new.run = row[e].run /\ new.step = row[e].step
          /\ new.status = row[e].status /\ new.next = "due"
      BY <1>a, RowFields DEF Row, Date, MainType
    <2>2. row' = [row EXCEPT ![e] = new]
      BY <1>4 DEF Elapse
    <2>3. UNCHANGED <<attempt, workerVars, mail, usageVars, raced>>
      BY <1>4 DEF Elapse
    <2>4. ~raced[e] => \A w \in Worker : ~Sending(w, e)
      BY <1>4, DueIsFree DEF Elapse
    <2>5. Unlocked(e)
      BY <1>4 DEF Elapse, PickedInv, Unlocked
    <2>6. CASE row[e].status # "none"
      <3> HIDE DEF new
      <3> QED
        BY <1>c, <2>1, <2>2, <2>3, <2>4, <2>5, <2>6 DEF Runs
    <2>7. CASE row[e].status = "none"
      BY <1>4, <2>7 DEF Elapse, NeverRan
    <2> QED
      BY <2>6, <2>7
  <1>5. ASSUME NEW w \in Worker, Due(w, e), NEW new, TickOnly(e, new), new \in Row,
               new.run = row[e].run, new.step = row[e].step, new.status # "none",
               new.status = "active" => new.next # "never"
        PROVE  RowStep(e)
    <2>1. row[e].status = "active" /\ row[e].next = "due" /\ Unlocked(e)
      BY <1>5 DEF Due
    <2>2. ~raced[e] => \A v \in Worker : ~Sending(v, e)
      BY <2>1, DueIsFree
    <2>3. /\ row' = [row EXCEPT ![e] = new]
          /\ UNCHANGED <<attempt, workerVars, mail, usageVars, raced>>
      BY <1>5 DEF TickOnly
    <2> QED
      BY <1>5, <1>c, <2>1, <2>2, <2>3 DEF Runs
  <1>6. ASSUME NEW w \in Worker,
               \/ PauseWithCampaign(w, e) \/ StopEnrollment(w, e)
               \/ CompleteWithoutStep(w, e) \/ Postpone(w, e)
        PROVE  RowStep(e)
    <2>1. ASSUME NEW status \in {"paused", "stopped", "completed"}
          PROVE  LET new == [row[e] EXCEPT !.status = status, !.next = "never"] IN
                 /\ new \in Row /\ new.run = row[e].run /\ new.step = row[e].step
                 /\ new.status = status
      BY <1>a, RowFields DEF Row, Date, MainType
    <2>2. CASE Postpone(w, e)
      <3>1. LET new == [row[e] EXCEPT !.next = "later"] IN
            /\ new \in Row /\ new.run = row[e].run /\ new.step = row[e].step
            /\ new.status = row[e].status /\ new.next = "later"
        BY <1>a, RowFields DEF Row, Date, MainType
      <3>2. Due(w, e) /\ TickOnly(e, [row[e] EXCEPT !.next = "later"])
        BY <2>2 DEF Postpone, Sendable
      <3>3. row[e].status # "none"
        BY <3>2 DEF Due
      <3> QED
        BY <1>5, <3>1, <3>2, <3>3
    <2>3. CASE PauseWithCampaign(w, e)
      <3>1. /\ Due(w, e)
            /\ TickOnly(e, [row[e] EXCEPT !.status = "paused", !.next = "never"])
        BY <2>3 DEF PauseWithCampaign
      <3> QED
        BY <1>5, <2>1, <3>1
    <2>4. CASE StopEnrollment(w, e)
      <3>1. /\ Due(w, e)
            /\ TickOnly(e, [row[e] EXCEPT !.status = "stopped", !.next = "never"])
        BY <2>4 DEF StopEnrollment
      <3> QED
        BY <1>5, <2>1, <3>1
    <2>5. CASE CompleteWithoutStep(w, e)
      <3>1. /\ Due(w, e)
            /\ TickOnly(e, [row[e] EXCEPT !.status = "completed", !.next = "never"])
        BY <2>5 DEF CompleteWithoutStep
      <3> QED
        BY <1>5, <2>1, <3>1
    <2> QED
      BY <1>6, <2>2, <2>3, <2>4, <2>5
  <1> QED
    BY <1>1, <1>2, <1>3, <1>4, <1>6

-----------------------------------------------------------------------------
(* The last step of a worker, and the ones around its call.                  *)

\* A step that changes at most the row of the worker's enrollment, but neither
\* its step nor its status, and maybe records a failure.
LEMMA EndsInPlace ==
  ASSUME MainType, JobInv, NEW w \in Worker, pc[w] # "idle", Leave(w),
         NEW next \in Date, row' = [row EXCEPT ![job[w].of].next = next],
         UNCHANGED <<raced, usageVars>>,
         next = row[job[w].of].next \/ next = w,
         \/ row' = row
         \/ \A v \in Worker \ {w} : pc[v] = "picked" => job[v].of # job[w].of,
         \/ UNCHANGED attempt /\ Lose(w)
         \/ /\ pc[w] = "answered" /\ answer[w] = "error" /\ UNCHANGED mail
            /\ UNCHANGED attempt \/ attempt' = [attempt EXCEPT ![JobAttempt(w)] = "failed"]
  PROVE  Ends(w)
  <1>1. PICK e \in Enrollment : e = job[w].of
    BY JobFields
  <1>2. row'[e] = [row[e] EXCEPT !.next = next] /\ row' = [row EXCEPT ![e] = row'[e]]
    BY <1>1 DEF MainType
  <1>3. /\ row'[e].status = row[e].status /\ row'[e].run = row[e].run
        /\ row'[e].step = row[e].step /\ row'[e].next = next
    <2>1. /\ row[e] = [status |-> row[e].status, step |-> row[e].step,
                       run |-> row[e].run, next |-> row[e].next]
      BY RowFields
    <2>2. row'[e] = [row[e] EXCEPT !.next = next]
      BY <1>2
    <2> QED
      BY <2>1, <2>2
  <1>4. row'[e] \in Row
    BY <1>2, RowFields DEF Row, MainType
  <1>5. row[e].status # "none"
    BY <1>1, JobFields
  <1>6. row'[e].status = "active" /\ ~raced[e] => row'[e].next # "never"
    BY <1>1, <1>3, Bounds DEF MainType
  <1>7. row'[e] = row[e] \/ \A v \in Worker \ {w} : pc[v] = "picked" => job[v].of # e
    BY <1>1
  <1>8. Runs(row'[e]) => Runs(row[e]) /\ row'[e].step = row[e].step
    BY <1>3 DEF Runs
  <1>9. \/ UNCHANGED attempt /\ Lose(w)
        \/ /\ pc[w] = "answered" /\ answer[w] = "error" /\ UNCHANGED mail
           /\ UNCHANGED attempt \/ attempt' = [attempt EXCEPT ![JobAttempt(w)] = "failed"]
    OBVIOUS
  <1>10. /\ row'[e].status # "none"
         /\ row'[e].status = "active" => row[e].status = "active"
    BY <1>3, <1>5
  <1> HIDE DEF Runs
  <1> QED
    BY <1>1, <1>2, <1>3, <1>4, <1>6, <1>7, <1>8, <1>9, <1>10 DEF Ends

\* A row that is flushed after Advance.
LEMMA Advanced ==
  ASSUME NEW db \in Row, NEW loaded \in Row, NEW plan \in Nat,
         NEW new \in {Flush(db, loaded, Advance(loaded, plan))}
  PROVE  /\ new \in Row /\ new.run = db.run /\ new.step = loaded.step + 1
         /\ \/ new.status = db.status /\ new.next \in {"later", db.next}
            \/ new.status = "completed"
            \/ new.status = db.status /\ loaded.status = "completed"
         /\ new.status \in {db.status, "completed"}
  <1>1. /\ db = [status |-> db.status, step |-> db.step, run |-> db.run, next |-> db.next]
        /\ db.status \in {"none", "active", "paused", "stopped", "completed"}
        /\ db.step \in Nat /\ db.run \in 0 .. MaxRuns /\ db.next \in Date
        /\ DOMAIN db = {"status", "step", "run", "next"}
    BY DEF Row
  <1>2. /\ loaded = [status |-> loaded.status, step |-> loaded.step,
                     run |-> loaded.run, next |-> loaded.next]
        /\ loaded.status \in {"none", "active", "paused", "stopped", "completed"}
        /\ loaded.step \in Nat
    BY DEF Row
  <1>3. CASE loaded.step + 1 < plan
    <2> DEFINE to == [status |-> loaded.status, step |-> loaded.step + 1,
                      run |-> loaded.run, next |-> "later"]
    <2>1. Advance(loaded, plan) = to
      BY <1>2, <1>3 DEF Advance
    <2>2. /\ to.status = loaded.status /\ to.step = loaded.step + 1
          /\ to.run = loaded.run /\ to.next = "later"
      OBVIOUS
    <2> HIDE DEF to
    <2>3. new = [f \in {"status", "step", "run", "next"} |->
                    IF to[f] = loaded[f] THEN db[f] ELSE to[f]]
      BY <1>1, <2>1 DEF Flush
    <2>4. /\ new["status"] = db.status /\ new["step"] = loaded.step + 1
          /\ new["run"] = db.run /\ new["next"] \in {"later", db.next}
      BY <1>1, <1>2, <2>2, <2>3
    <2>5. new \in Row
      BY <1>1, <1>2, <2>3, <2>4 DEF Row, Date
    <2> QED
      BY <2>4, <2>5
  <1>4. CASE ~(loaded.step + 1 < plan)
    <2> DEFINE to == [status |-> "completed", step |-> loaded.step + 1,
                      run |-> loaded.run, next |-> "never"]
    <2>1. Advance(loaded, plan) = to
      BY <1>2, <1>4 DEF Advance
    <2>2. /\ to.status = "completed" /\ to.step = loaded.step + 1
          /\ to.run = loaded.run /\ to.next = "never"
      OBVIOUS
    <2> HIDE DEF to
    <2>3. new = [f \in {"status", "step", "run", "next"} |->
                    IF to[f] = loaded[f] THEN db[f] ELSE to[f]]
      BY <1>1, <2>1 DEF Flush
    <2>4. /\ new["status"] = IF loaded.status = "completed" THEN db.status ELSE "completed"
          /\ new["step"] = loaded.step + 1
          /\ new["run"] = db.run /\ new["next"] \in {"never", db.next}
      BY <1>1, <1>2, <2>2, <2>3
    <2>5. new \in Row
      BY <1>1, <1>2, <2>3, <2>4 DEF Row, Date
    <2> QED
      BY <2>4, <2>5
  <1> QED
    BY <1>3, <1>4

LEMMA FailureKind ==
  ASSUME MainType, JobInv, PickedInv, NEW w \in Worker,
         RecordFailure(w) \/ WorkerFails(w) \/ StepRowsGone(w) \/ Crash(w)
  PROVE  Ends(w)
  <1>1. PICK e \in Enrollment : e = job[w].of
    BY JobFields DEF RecordFailure, WorkerFails, StepRowsGone, Crash
  <1>2. row[e].next \in Date /\ w \in Date
    BY RowFields DEF Date
  <1>3. row[e] = [row[e] EXCEPT !.next = row[e].next]
    BY RowFields
  <1>4. CASE Crash(w)
    <2>1. row' = [row EXCEPT ![e] = [row[e] EXCEPT !.next = row[e].next]]
      BY <1>3, <1>4 DEF Crash, MainType
    <2>2. /\ pc[w] # "idle" /\ Leave(w) /\ UNCHANGED <<raced, usageVars, attempt, row>>
          /\ Lose(w)
      BY <1>4 DEF Crash
    <2> QED
      BY <1>1, <1>2, <2>1, <2>2, EndsInPlace
  <1>5. CASE WorkerFails(w) \/ StepRowsGone(w)
    <2> DEFINE next == IF row[e].status = "active" THEN w ELSE row[e].next
    <2>1. /\ row' = [row EXCEPT ![e] = [row[e] EXCEPT !.next = next]]
          /\ \A v \in Worker \ {w} : pc[v] = "picked" => job[v].of # e
          /\ pc[w] # "idle" /\ Leave(w) /\ UNCHANGED <<raced, usageVars, attempt>>
          /\ Lose(w)
      BY <1>1, <1>5 DEF WorkerFails, StepRowsGone, HandleException
    <2>2. next \in Date /\ (next = row[e].next \/ next = w)
      BY <1>2
    <2> HIDE DEF next
    <2> QED
      BY <1>1, <2>1, <2>2, EndsInPlace
  <1>6. CASE RecordFailure(w)
    <2> DEFINE next == IF w = job[w].row.next THEN row[e].next ELSE w
    <2>1. /\ row' = [row EXCEPT ![e] = Flush(row[e], job[w].row, [job[w].row EXCEPT !.next = w])]
          /\ Unlocked(e) /\ Leave(w) /\ UNCHANGED <<mail, raced, usageVars>>
          /\ pc[w] = "answered" /\ answer[w] = "error"
          /\ attempt' = [attempt EXCEPT ![JobAttempt(w)] =
                            IF "failed" = job[w].attempt THEN @ ELSE "failed"]
      BY <1>1, <1>6 DEF RecordFailure, FlushAttempt
    <2>2. next \in Date /\ (next = row[e].next \/ next = w)
      BY <1>2
    <2>3. Flush(row[e], job[w].row, [job[w].row EXCEPT !.next = w]) = [row[e] EXCEPT !.next = next]
      <3>1. job[w].row \in Row
        BY <1>6, JobFields DEF RecordFailure
      <3>2. /\ row[e] = [status |-> row[e].status, step |-> row[e].step,
                         run |-> row[e].run, next |-> row[e].next]
            /\ DOMAIN row[e] = {"status", "step", "run", "next"}
        BY RowFields
      <3>3. job[w].row = [status |-> job[w].row.status, step |-> job[w].row.step,
                          run |-> job[w].row.run, next |-> job[w].row.next]
        BY <3>1 DEF Row
      <3> QED
        BY <3>2, <3>3 DEF Flush
    <2>4. \A v \in Worker \ {w} : pc[v] = "picked" => job[v].of # e
      BY <2>1 DEF Unlocked
    <2>5. JobAttempt(w) \in Attempt
      BY <2>1, JobFields
    <2>6. \/ UNCHANGED attempt
          \/ pc[w] = "answered" /\ attempt' = [attempt EXCEPT ![JobAttempt(w)] = "failed"]
      BY <2>1, <2>5 DEF MainType
    <2> HIDE DEF next
    <2>7. row' = [row EXCEPT ![e] = [row[e] EXCEPT !.next = next]]
      BY <2>1, <2>3
    <2> QED
      BY <1>1, <2>1, <2>2, <2>4, <2>6, <2>7, EndsInPlace
  <1> QED
    BY <1>4, <1>5, <1>6

LEMMA AlreadySentKind ==
  ASSUME MainType, JobInv, PickedInv, NEW w \in Worker, AlreadySent(w)
  PROVE  Ends(w)
  <1>1. PICK e \in Enrollment : e = job[w].of
    BY JobFields DEF AlreadySent
  <1>2. /\ pc[w] = "picked" /\ Leave(w) /\ UNCHANGED <<attempt, usageVars, mail, raced>>
        /\ attempt[AttemptOf(e, job[w].pos)] = "sent"
        /\ row' = [row EXCEPT ![e] = Advance(row[e], job[w].plan)]
    BY <1>1 DEF AlreadySent
  <1>3. /\ job[w].pos = row[e].step /\ row[e].status = "active" /\ job[w].plan \in Nat
        /\ \A v \in Worker \ {w} : pc[v] = "picked" => job[v].of # e
    BY <1>1, <1>2, JobFields, Bounds DEF PickedInv
  <1>4. row[e] \in Row /\ row'[e] = Advance(row[e], job[w].plan)
        /\ row' = [row EXCEPT ![e] = row'[e]]
    BY <1>2 DEF MainType
  <1>5. /\ row'[e] \in Row /\ row'[e].run = row[e].run /\ row'[e].step = row[e].step + 1
        /\ \/ row'[e].status = "active" /\ row'[e].next = "later"
           \/ row'[e].status = "completed"
    <2>1. /\ row[e] = [status |-> row[e].status, step |-> row[e].step,
                       run |-> row[e].run, next |-> row[e].next]
          /\ row[e].step \in Nat /\ row[e].run \in 0 .. MaxRuns
      BY RowFields
    <2>2. row'[e] = IF row[e].step + 1 < job[w].plan
                    THEN [row[e] EXCEPT !.step = row[e].step + 1, !.next = "later"]
                    ELSE [row[e] EXCEPT !.step = row[e].step + 1, !.status = "completed",
                                        !.next = "never"]
      BY <1>4 DEF Advance
    <2>3. \/ row'[e] = [status |-> "active", step |-> row[e].step + 1,
                        run |-> row[e].run, next |-> "later"]
          \/ row'[e] = [status |-> "completed", step |-> row[e].step + 1,
                        run |-> row[e].run, next |-> "never"]
      BY <1>3, <2>1, <2>2
    <2>4. row[e].step + 1 \in Nat
      BY <2>1
    <2> QED
      BY <2>1, <2>3, <2>4 DEF Row, Date
  <1>6. attempt'[AttemptOf(e, row[e].step)] = "sent"
    BY <1>2, <1>3
  <1>7. Runs(row[e]) /\ pc[w] # "idle" /\ row'[e].status # "none"
        /\ row[e].status = "active" /\ (row'[e].status = "active" => row'[e].next # "never")
    BY <1>2, <1>3, <1>5 DEF Runs
  <1> HIDE DEF Runs
  <1> QED
    BY <1>1, <1>2, <1>3, <1>4, <1>5, <1>6, <1>7 DEF Ends

LEMMA RecordSentKind ==
  ASSUME MainType, JobInv, TurnInv, NEW w \in Worker, RecordSent(w)
  PROVE  Ends(w)
  <1>1. PICK e \in Enrollment : e = job[w].of
    BY JobFields DEF RecordSent
  <1> DEFINE loaded == job[w].row
  <1>2. /\ pc[w] = "counted" /\ Leave(w) /\ UNCHANGED <<mail, raced, usageVars>>
        /\ Unlocked(e)
        /\ attempt' = [attempt EXCEPT ![JobAttempt(w)] =
                          IF "sent" = job[w].attempt THEN @ ELSE "sent"]
        /\ row' = [row EXCEPT ![e] = Flush(row[e], loaded, Advance(loaded, job[w].plan))]
    BY <1>1 DEF RecordSent, FlushAttempt
  <1>3. /\ loaded \in Row /\ job[w].plan \in Nat /\ JobAttempt(w) \in Attempt
        /\ row[e] \in Row /\ row[e].status # "none" /\ raced[e] \in BOOLEAN
    BY <1>1, <1>2, JobFields, Bounds DEF MainType
  <1>4. /\ row'[e] = Flush(row[e], loaded, Advance(loaded, job[w].plan))
        /\ row' = [row EXCEPT ![e] = row'[e]]
    BY <1>2 DEF MainType
  <1> HIDE DEF loaded
  <1>5. /\ row'[e] \in Row /\ row'[e].run = row[e].run /\ row'[e].step = loaded.step + 1
        /\ \/ row'[e].status = row[e].status /\ row'[e].next \in {"later", row[e].next}
           \/ row'[e].status = "completed"
           \/ row'[e].status = row[e].status /\ loaded.status = "completed"
        /\ row'[e].status \in {row[e].status, "completed"}
    <2>1. PICK db \in Row, plan \in Nat : db = row[e] /\ plan = job[w].plan
      BY <1>3
    <2>2. PICK new \in {Flush(db, loaded, Advance(loaded, plan))} : new = row'[e]
      BY <1>4, <2>1
    <2>3. loaded \in Row
      BY <1>3
    <2>4. /\ new \in Row /\ new.run = db.run /\ new.step = loaded.step + 1
          /\ \/ new.status = db.status /\ new.next \in {"later", db.next}
             \/ new.status = "completed"
             \/ new.status = db.status /\ loaded.status = "completed"
          /\ new.status \in {db.status, "completed"}
      BY <2>3, Advanced
    <2> QED
      BY <2>1, <2>2, <2>4
  <1>6. ASSUME ~raced[e]
        PROVE  /\ loaded.step = row[e].step /\ loaded.run = row[e].run
               /\ job[w].pos = row[e].step /\ job[w].attempt = "sending"
               /\ loaded.status \in {"active", "paused"} /\ Runs(row[e])
               /\ row[e].status = "active" => row[e].next # "never"
    <2>1. Sending(w, e)
      BY <1>1, <1>2 DEF Sending, InFlight
    <2> QED
      BY <1>2, <1>6, <2>1 DEF TurnInv, InStep, Runs, MainType, loaded
  <1>7. \/ UNCHANGED attempt /\ job[w].attempt = "sent"
        \/ attempt' = [attempt EXCEPT ![JobAttempt(w)] = "sent"]
    BY <1>2, <1>3 DEF MainType
  <1>8. ASSUME ~raced[e], Runs(row'[e])
        PROVE  /\ Runs(row[e]) /\ row'[e].step = row[e].step + 1
               /\ attempt'[AttemptOf(e, row[e].step)] = "sent"
    <2>1. JobAttempt(w) = AttemptOf(e, row[e].step)
      BY <1>1, <1>6, <1>8 DEF JobAttempt, AttemptOf, loaded
    <2>2. attempt' = [attempt EXCEPT ![JobAttempt(w)] = "sent"]
      BY <1>2, <1>6, <1>8
    <2> QED
      BY <1>3, <1>5, <1>6, <1>8, <2>1, <2>2 DEF MainType
  <1>9. row'[e].status = "active" /\ ~raced[e] => row'[e].next # "never"
    BY <1>5, <1>6
  <1>10. /\ pc[w] = "counted" /\ UNCHANGED <<mail, raced, usageVars>>
         /\ \/ attempt' = [attempt EXCEPT ![JobAttempt(w)] = "sent"]
            \/ UNCHANGED attempt /\ job[w].attempt = "sent"
    BY <1>2, <1>7
  <1>11. /\ pc[w] # "idle" /\ row'[e].status # "none"
         /\ \A v \in Worker \ {w} : pc[v] = "picked" => job[v].of # e
         /\ row'[e].status = "active" => row[e].status = "active"
    BY <1>2, <1>3, <1>5 DEF Unlocked
  <1> HIDE DEF Runs
  <1> QED
    BY <1>1, <1>2, <1>4, <1>5, <1>8, <1>9, <1>10, <1>11 DEF Ends

LEMMA CallsKind ==
  ASSUME MainType, JobInv, NEW w \in Worker,
         \/ LoadForCall(w)
         \/ ProviderAccepts(w) \/ ProviderRemembers(w) \/ ProviderRefuses(w)
  PROVE  Calls(w)
  <1>1. CASE LoadForCall(w)
    <2>1. /\ pc[w] = "claimed" /\ pc' = [pc EXCEPT ![w] = "calling"]
          /\ UNCHANGED <<row, attempt, raced, usageVars, mail, answer>>
          /\ job' = [job EXCEPT ![w] =
                 [job[w] EXCEPT !.row = [row[job[w].of] EXCEPT !.run = job[w].row.run],
                                !.new = stage[job[w].of[2]] = "New Lead",
                                !.attempt = attempt[JobAttempt(w)]]]
      BY <1>1 DEF LoadForCall, Go
    <2>2. pc'[w] = "calling" /\ pc' = [pc EXCEPT ![w] = pc'[w]]
      BY <2>1 DEF MainType
    <2>3. job[w] \in Job
      BY <2>1 DEF JobInv
    <2>4. job'[w] = [job[w] EXCEPT !.row = [row[job[w].of] EXCEPT !.run = job[w].row.run],
                                   !.new = stage[job[w].of[2]] = "New Lead",
                                   !.attempt = attempt[JobAttempt(w)]]
          /\ job' = [job EXCEPT ![w] = job'[w]]
      BY <2>1 DEF MainType
    <2>5. job'[w].new \in BOOLEAN
          /\ job'[w] = [job[w] EXCEPT !.row = [row[job[w].of] EXCEPT !.run = job[w].row.run],
                                       !.new = job'[w].new, !.attempt = attempt[JobAttempt(w)]]
      BY <2>3, <2>4 DEF Job
    <2>6. answer' = [answer EXCEPT ![w] = answer'[w]] /\ answer'[w] \in {"none", "ok", "error"}
      BY <2>1 DEF MainType
    <2> QED
      BY <2>1, <2>2, <2>4, <2>5, <2>6 DEF Calls
  <1>2. CASE ProviderAccepts(w) \/ ProviderRemembers(w) \/ ProviderRefuses(w)
    <2>1. /\ pc[w] = "calling" /\ pc' = [pc EXCEPT ![w] = "answered"]
          /\ UNCHANGED <<row, attempt, raced, usageVars, job>>
          /\ \E a \in {"ok", "error"} : answer' = [answer EXCEPT ![w] = a]
      BY <1>2 DEF ProviderAccepts, ProviderRemembers, ProviderRefuses, Go
    <2>2. /\ pc'[w] = "answered" /\ pc' = [pc EXCEPT ![w] = pc'[w]]
          /\ job' = [job EXCEPT ![w] = job'[w]] /\ job'[w] = job[w]
      BY <2>1 DEF MainType
    <2>3. \/ answer'[w] = "ok" /\ mail' = [mail EXCEPT ![JobAttempt(w)] = "known"]
          \/ answer'[w] = "error" /\ UNCHANGED mail
          \/ /\ answer'[w] = "error"
             /\ mail' = [mail EXCEPT ![JobAttempt(w)] = IF @ = "none" THEN "accepted" ELSE @]
      BY <1>2 DEF ProviderAccepts, ProviderRemembers, ProviderRefuses, MainType
    <2>4. answer' = [answer EXCEPT ![w] = answer'[w]] /\ answer'[w] \in {"none", "ok", "error"}
      BY <2>1 DEF MainType
    <2>5. /\ pc[w] \in {"claimed", "calling"} /\ pc'[w] \in {"calling", "answered"}
          /\ pc[w] = "calling" /\ pc'[w] = "answered"
      BY <2>1, <2>2
    <2> QED
      BY <2>1, <2>2, <2>3, <2>4, <2>5 DEF Calls
  <1> QED
    BY <1>1, <1>2

LEMMA ReplacesKind ==
  ASSUME MainType, JobInv, NEW c, NEW n, SetCampaignSteps(c, n)
  PROVE  Replaces
  <1>1. /\ UNCHANGED <<row, attempt, usageVars, pc, answer, mail, raced>>
        /\ job' = [w \in Worker |->
                     IF pc[w] # "idle" /\ job[w].of[1] = c
                     THEN [job[w] EXCEPT !.gone = TRUE] ELSE job[w]]
    BY DEF SetCampaignSteps
  <1>2. ASSUME NEW w \in Worker
        PROVE  /\ job'[w] \in Job \cup {NoJob}
               /\ pc[w] # "idle" => /\ job'[w] = [job[w] EXCEPT !.gone = job'[w].gone]
                                    /\ job'[w].gone \in BOOLEAN
    <2>1. CASE pc[w] = "idle"
      BY <1>1, <2>1 DEF MainType
    <2>2. CASE pc[w] # "idle"
      <3>1. job[w] \in Job
        BY <2>2 DEF JobInv
      <3>2. PICK gone \in BOOLEAN : job'[w] = [job[w] EXCEPT !.gone = gone]
        BY <1>1, <3>1 DEF Job
      <3> QED
        BY <3>1, <3>2 DEF Job
    <2> QED
      BY <2>1, <2>2
  <1> QED
    BY <1>1, <1>2 DEF Replaces

LEMMA EveryStep ==
  ASSUME TypeOK, JobInv, PickedInv, TurnInv, NeverRan, [Next]_vars
  PROVE  Kinds
  <1>a. MainType /\ SideType
    BY TypeParts
  <1>1. CASE UNCHANGED vars
    BY <1>1 DEF vars, workerVars, Kinds, Outside
  <1>2. ASSUME NEW c \in Campaign,
               \/ \E s \in CampaignStatus : UpdateCampaign(c, s)
               \/ \E n \in 1 .. MaxSteps : SetCampaignSteps(c, n)
        PROVE  Kinds
    BY <1>a, <1>2, ReplacesKind DEF UpdateCampaign, Kinds, Outside
  <1>3. ASSUME NEW e \in Enrollment,
               \/ EnrollLead(e) \/ ReenrollLead(e) \/ Pause(e) \/ Resume(e) \/ Elapse(e)
        PROVE  Kinds
    BY <1>a, <1>3, RowKind DEF Kinds
  <1>4. ASSUME NEW l \in Lead, LeadChanges(l) \/ ChangeStage(l, "Booked")
        PROVE  Kinds
    BY <1>4 DEF LeadChanges, ChangeStage, LeadUnchanged, Kinds, Outside
  <1>5. CASE NewMonth \/ CountReply
    BY <1>5 DEF NewMonth, CountReply, Kinds, Outside
  <1>8. ASSUME NEW t \in Thread,
               \/ \E l \in Lead : RequestEmail(t, l)
               \/ CommitEmail(t) \/ CountEmail(t) \/ GiveUpEmail(t)
        PROVE  Kinds
    <2>1. UNCHANGED <<row, attempt, workerVars, mail, raced>>
      BY <1>8 DEF RequestEmail, CommitEmail, CountEmail, GiveUpEmail, HandOnly
    <2> QED
      BY <1>8, <2>1 DEF Kinds, Outside
  <1>6. ASSUME NEW w \in Worker, NEW e \in Enrollment, Tick(w, e)
        PROVE  Kinds
    <2>1. CASE Pick(w, e)
      BY <2>1 DEF Kinds
    <2>2. CASE ~Pick(w, e)
      <3>1. \E v \in Worker : \/ PauseWithCampaign(v, e) \/ StopEnrollment(v, e)
                              \/ CompleteWithoutStep(v, e) \/ Postpone(v, e)
        BY <1>6, <2>2 DEF Tick
      <3>2. RowStep(e)
        BY <1>a, <3>1, RowKind
      <3> QED
        BY <3>2 DEF Kinds
    <2> QED
      BY <2>1, <2>2
  <1>7. ASSUME NEW w \in Worker, Work(w) \/ ProviderRefuses(w) \/ WorkerFails(w) \/ Crash(w)
        PROVE  Kinds
    <2>1. CASE ClaimDeliveryAttempt(w)
      BY <2>1 DEF Kinds
    <2>2. CASE \/ LoadForCall(w)
               \/ ProviderAccepts(w) \/ ProviderRemembers(w) \/ ProviderRefuses(w)
      BY <1>a, <2>2, CallsKind DEF Kinds
    <2>3. CASE RecordFailure(w) \/ WorkerFails(w) \/ StepRowsGone(w) \/ Crash(w)
      BY <1>a, <2>3, FailureKind DEF Kinds
    <2>4. CASE AlreadySent(w)
      BY <1>a, <2>4, AlreadySentKind DEF Kinds
    <2>5. CASE RecordSent(w)
      BY <1>a, <2>5, RecordSentKind DEF Kinds
    <2>6. CASE LogUsage(w)
      BY <2>6 DEF Kinds
    <2> QED
      BY <1>7, <2>1, <2>2, <2>3, <2>4, <2>5, <2>6 DEF Work
  <1> QED
    BY <1>1, <1>2, <1>3, <1>4, <1>5, <1>6, <1>7, <1>8 DEF Next

LEMMA PickParts ==
  ASSUME MainType, SideType, NEW w \in Worker, NEW e \in Enrollment, Pick(w, e)
  PROVE  /\ pc[w] = "idle" /\ pc' = [pc EXCEPT ![w] = "picked"]
         /\ Unlocked(e) /\ row[e].status = "active" /\ row[e].next = "due"
         /\ used < MonthlyCap
         /\ job' = [job EXCEPT ![w] = job'[w]] /\ job'[w] \in Job
         /\ job'[w].of = e /\ job'[w].pos = row[e].step /\ job'[w].row = row[e]
         /\ UNCHANGED <<row, attempt, usageVars, answer, mail, raced>>
  <1> DEFINE new == [of |-> e, pos |-> row[e].step, plan |-> steps[e[1]], gone |-> FALSE,
                     row |-> row[e], new |-> stage[e[2]] = "New Lead", attempt |-> "none"]
  <1>1. /\ pc[w] = "idle" /\ pc' = [pc EXCEPT ![w] = "picked"]
        /\ Unlocked(e) /\ row[e].status = "active" /\ row[e].next = "due"
        /\ used < MonthlyCap /\ row[e].step < steps[e[1]]
        /\ UNCHANGED <<row, attempt, usageVars, answer, mail, raced>>
    BY DEF Pick, Sendable, Due, UnderLimit, Go
  <1>2. job' = [job EXCEPT ![w] = new]
    BY DEF Pick
  <1>3. e[1] \in Campaign /\ steps[e[1]] \in Nat /\ steps[e[1]] <= MaxSteps
    <2>1. PICK c \in Campaign : c = e[1]
      BY DEF Enrollment
    <2>2. steps[c] \in 0 .. MaxSteps
      BY DEF SideType
    <2> QED
      BY <2>1, <2>2, Bounds
  <1>4. row[e].step \in Position /\ steps[e[1]] \in 1 .. MaxSteps /\ row[e] \in Row
    BY <1>1, <1>3, RowFields, Bounds DEF MainType
  <1>5. new \in Job
    <2>1. PICK s \in BOOLEAN : s = (stage[e[2]] = "New Lead")
      OBVIOUS
    <2>2. [of |-> e, pos |-> row[e].step, plan |-> steps[e[1]], gone |-> FALSE,
           row |-> row[e], new |-> s, attempt |-> "none"] \in Job
      BY <1>4 DEF Job
    <2> QED
      BY <2>1, <2>2
  <1>6. job'[w] = new /\ job' = [job EXCEPT ![w] = job'[w]]
    BY <1>2 DEF MainType
  <1>7. new.of = e /\ new.pos = row[e].step /\ new.row = row[e]
    OBVIOUS
  <1> HIDE DEF new
  <1> QED
    BY <1>1, <1>5, <1>6, <1>7

LEMMA ClaimParts ==
  ASSUME MainType, JobInv, PickedInv, NEW w \in Worker, ClaimDeliveryAttempt(w),
         NEW e \in Enrollment, e = job[w].of
  PROVE  /\ pc[w] = "picked" /\ pc' = [pc EXCEPT ![w] = "claimed"]
         /\ row[e].status = "active" /\ row[e].next = "due"
         /\ job[w].row = row[e] /\ job[w].pos = row[e].step
         /\ row' = [row EXCEPT ![e] = row'[e]] /\ row'[e] \in Row
         /\ row'[e].status = "active" /\ row'[e].next = w
         /\ row'[e].step = row[e].step /\ row'[e].run = row[e].run
         /\ JobAttempt(w) = AttemptOf(e, row[e].step)
         /\ attempt[JobAttempt(w)] # "sent"
         /\ attempt' = [attempt EXCEPT ![JobAttempt(w)] = "sending"]
         /\ UNCHANGED <<usageVars, job, answer, mail, raced>>
         /\ \A v \in Worker \ {w} : pc[v] = "picked" => job[v].of # e
  <1>1. /\ pc[w] = "picked" /\ pc' = [pc EXCEPT ![w] = "claimed"]
        /\ attempt[AttemptOf(e, job[w].pos)] # "sent"
        /\ attempt' = [attempt EXCEPT ![AttemptOf(e, job[w].pos)] = "sending"]
        /\ row' = [row EXCEPT ![e] = [row[e] EXCEPT !.next = w]]
        /\ UNCHANGED <<usageVars, job, answer, mail, raced>>
    BY DEF ClaimDeliveryAttempt, Go
  <1>2. /\ row[e].status = "active" /\ row[e].next = "due"
        /\ job[w].row = row[e] /\ job[w].pos = row[e].step
        /\ \A v \in Worker \ {w} : pc[v] = "picked" => job[v].of # e
    BY <1>1 DEF PickedInv
  <1>3. row'[e] = [row[e] EXCEPT !.next = w] /\ row' = [row EXCEPT ![e] = row'[e]]
    BY <1>1 DEF MainType
  <1>4. /\ row[e] = [status |-> row[e].status, step |-> row[e].step,
                     run |-> row[e].run, next |-> row[e].next]
        /\ row[e].status \in {"none", "active", "paused", "stopped", "completed"}
        /\ row[e].step \in Nat /\ row[e].run \in 0 .. MaxRuns
    BY RowFields
  <1>5. row'[e] = [status |-> "active", step |-> row[e].step, run |-> row[e].run, next |-> w]
    BY <1>2, <1>3, <1>4
  <1>6. row'[e] \in Row
    BY <1>4, <1>5 DEF Row, Date
  <1>7. JobAttempt(w) = AttemptOf(e, row[e].step)
    BY <1>2 DEF JobAttempt, AttemptOf
  <1> QED
    BY <1>1, <1>2, <1>3, <1>5, <1>6, <1>7

LEMMA LogParts ==
  ASSUME MainType, NEW w \in Worker, LogUsage(w)
  PROVE  /\ pc[w] = "answered" /\ answer[w] = "ok" /\ pc' = [pc EXCEPT ![w] = "counted"]
         /\ UNCHANGED <<row, attempt, job, answer, mail, raced, replies, manual>>
         /\ used' = used \/ used' = used + 1
  BY DEF LogUsage, Go

LEMMA CallParts ==
  ASSUME MainType, JobInv, NEW w \in Worker, Calls(w), NEW e \in Enrollment, e = job[w].of
  PROVE  /\ job'[w] \in Job /\ job'[w].of = e /\ job'[w].pos = job[w].pos
         /\ job'[w].row.run = job[w].row.run
         /\ \/ /\ pc[w] = "claimed" /\ pc'[w] = "calling"
               /\ job'[w].row.step = row[e].step /\ job'[w].row.status = row[e].status
               /\ job'[w].row.next = row[e].next
               /\ job'[w].attempt = attempt[JobAttempt(w)]
            \/ pc[w] = "calling" /\ job'[w] = job[w]
  <1>1. /\ job[w] \in Job /\ job[w].row.run \in 0 .. MaxRuns /\ JobAttempt(w) \in Attempt
        /\ job[w].row.run \in 1 .. MaxRuns
    BY JobFields, Bounds DEF Calls
  <1>2. CASE pc[w] = "calling" /\ job'[w] = job[w]
    BY <1>1, <1>2
  <1>3. CASE /\ pc[w] = "claimed" /\ pc'[w] = "calling"
             /\ job'[w] = [job[w] EXCEPT !.row = [row[job[w].of] EXCEPT !.run = job[w].row.run],
                                         !.new = job'[w].new, !.attempt = attempt[JobAttempt(w)]]
             /\ job'[w].new \in BOOLEAN
    <2> DEFINE loaded == [row[e] EXCEPT !.run = job[w].row.run]
    <2>1. /\ loaded \in Row /\ loaded.run = job[w].row.run /\ loaded.step = row[e].step
          /\ loaded.status = row[e].status /\ loaded.next = row[e].next
      <3>1. row[e] = [status |-> row[e].status, step |-> row[e].step,
                      run |-> row[e].run, next |-> row[e].next]
            /\ row[e] \in Row
        BY RowFields DEF MainType
      <3> QED
        BY <1>1, <3>1 DEF Row
    <2>2. PICK new \in BOOLEAN : new = job'[w].new
      BY <1>3
    <2>3. attempt[JobAttempt(w)] \in {"none", "sending", "failed", "sent"}
      BY <1>1 DEF MainType
    <2> HIDE DEF loaded
    <2>4. job'[w] = [job[w] EXCEPT !.row = loaded, !.new = new, !.attempt = attempt[JobAttempt(w)]]
      BY <1>3, <2>2 DEF loaded
    <2>5. /\ job'[w] \in Job /\ job'[w].of = e /\ job'[w].pos = job[w].pos
          /\ job'[w].row = loaded /\ job'[w].attempt = attempt[JobAttempt(w)]
      BY <1>1, <2>1, <2>3, <2>4 DEF Job
    <2> QED
      BY <1>3, <2>1, <2>5
  <1> QED
    BY <1>2, <1>3 DEF Calls

LEMMA EndParts ==
  ASSUME MainType, JobInv, NEW w \in Worker, Ends(w), NEW e \in Enrollment, e = job[w].of
  PROVE  /\ pc[w] # "idle" /\ pc' = [pc EXCEPT ![w] = "idle"]
         /\ job' = [job EXCEPT ![w] = NoJob] /\ answer' = [answer EXCEPT ![w] = "none"]
         /\ UNCHANGED <<raced, usageVars>>
         /\ row' = [row EXCEPT ![e] = row'[e]] /\ row'[e] \in Row
         /\ row'[e].run = row[e].run /\ row'[e].status # "none" /\ row[e].status # "none"
         /\ row'[e].status = "active" /\ ~raced[e] => row'[e].next # "never"
         /\ row'[e].status = "active" => row[e].status = "active"
         /\ row'[e] = row[e] \/ \A v \in Worker \ {w} : pc[v] = "picked" => job[v].of # e
         /\ JobAttempt(w) \in Attempt /\ JobAttempt(w)[1] = e
         /\ \/ UNCHANGED attempt
            \/ pc[w] = "answered" /\ attempt' = [attempt EXCEPT ![JobAttempt(w)] = "failed"]
            \/ pc[w] = "counted" /\ attempt' = [attempt EXCEPT ![JobAttempt(w)] = "sent"]
         /\ ~raced[e] /\ Runs(row'[e]) =>
              /\ Runs(row[e])
              /\ \/ row'[e].step = row[e].step
                 \/ row'[e].step = row[e].step + 1
                    /\ (row[e].step \in Position => attempt'[AttemptOf(e, row[e].step)] = "sent")
  <1>1. JobAttempt(w) \in Attempt /\ JobAttempt(w)[1] = e /\ row[e].status # "none"
    BY JobFields DEF Ends
  <1>2. /\ pc' = [pc EXCEPT ![w] = "idle"]
        /\ job' = [job EXCEPT ![w] = NoJob] /\ answer' = [answer EXCEPT ![w] = "none"]
    BY DEF Ends, Leave, Go
  <1> HIDE DEF Runs
  <1> QED
    BY <1>1, <1>2 DEF Ends

-----------------------------------------------------------------------------
(* The invariant is inductive.                                               *)

LEMMA MainTypeNext ==
  ASSUME MainType, SideType, JobInv, PickedInv, Kinds
  PROVE  MainType'
  <1>1. CASE Outside
    BY <1>1 DEF Outside, workerVars, MainType
  <1>2. CASE Replaces
    BY <1>2 DEF Replaces, MainType
  <1>3. ASSUME NEW e \in Enrollment, RowStep(e)
        PROVE  MainType'
    <2>1. /\ row' \in [Enrollment -> Row] /\ raced' \in [Enrollment -> BOOLEAN]
      BY <1>3 DEF RowStep, MainType
    <2>2. UNCHANGED <<attempt, pc, job, answer, mail>>
      BY <1>3 DEF RowStep, workerVars
    <2>3. row'[e].status # "none" /\ row'[e].run # 0
      BY <1>3, Bounds DEF RowStep
    <2>4. \A d \in Enrollment \ {e} : row'[d] = row[d] /\ raced'[d] = raced[d]
      BY <1>3 DEF RowStep, MainType
    <2>5. row'[e].status = "active" /\ ~raced'[e] => row'[e].next # "never"
      BY <1>3 DEF RowStep
    <2> QED
      BY <2>1, <2>2, <2>3, <2>4, <2>5 DEF MainType
  <1>4. ASSUME NEW w \in Worker, NEW e \in Enrollment, Pick(w, e)
        PROVE  MainType'
    BY <1>4, PickParts DEF MainType
  <1>5. ASSUME NEW w \in Worker, ClaimDeliveryAttempt(w)
        PROVE  MainType'
    <2>1. PICK e \in Enrollment : e = job[w].of
      BY <1>5, JobFields DEF ClaimDeliveryAttempt
    <2>2. JobAttempt(w) \in Attempt
      BY <1>5, JobFields DEF ClaimDeliveryAttempt
    <2> QED
      BY <1>5, <2>1, <2>2, ClaimParts, Bounds DEF MainType, InFlight
  <1>6. ASSUME NEW w \in Worker, Calls(w)
        PROVE  MainType'
    <2>1. PICK e \in Enrollment : e = job[w].of
      BY <1>6, JobFields DEF Calls
    <2>2. JobAttempt(w) \in Attempt
      BY <1>6, JobFields DEF Calls
    <2>3. mail' \in [Attempt -> {"none", "accepted", "known"}]
      BY <1>6, <2>2 DEF Calls, MainType
    <2>4. /\ UNCHANGED <<row, attempt, raced>>
          /\ job' \in [Worker -> Job \cup {NoJob}]
      BY <1>6, <2>1, CallParts DEF Calls, MainType
    <2>5. /\ pc' \in [Worker -> {"idle", "picked"} \cup InFlight]
          /\ answer' \in [Worker -> {"none", "ok", "error"}]
      BY <1>6 DEF Calls, MainType, InFlight
    <2> QED
      BY <2>3, <2>4, <2>5 DEF MainType
  <1>7. ASSUME NEW w \in Worker, Ends(w)
        PROVE  MainType'
    <2>1. PICK e \in Enrollment : e = job[w].of
      BY <1>7, JobFields DEF Ends
    <2>2. /\ attempt' \in [Attempt -> {"none", "sending", "failed", "sent"}]
          /\ pc' \in [Worker -> {"idle", "picked"} \cup InFlight]
          /\ answer' \in [Worker -> {"none", "ok", "error"}]
          /\ job' \in [Worker -> Job \cup {NoJob}]
          /\ UNCHANGED raced
      BY <1>7, <2>1, EndParts DEF MainType
    <2>4. mail' \in [Attempt -> {"none", "accepted", "known"}]
      BY <1>7 DEF Ends, Lose, MainType
    <2>3. /\ row' \in [Enrollment -> Row]
          /\ \A d \in Enrollment \ {e} : row'[d] = row[d]
          /\ row'[e].run = row[e].run /\ row'[e].status # "none" /\ row[e].status # "none"
          /\ row'[e].status = "active" /\ ~raced[e] => row'[e].next # "never"
      BY <1>7, <2>1, EndParts DEF MainType
    <2> QED
      BY <2>2, <2>3, <2>4 DEF MainType
  <1>8. ASSUME NEW w \in Worker, LogUsage(w)
        PROVE  MainType'
    BY <1>8, LogParts DEF MainType, InFlight
  <1> QED
    BY <1>1, <1>2, <1>3, <1>4, <1>5, <1>6, <1>7, <1>8 DEF Kinds

LEMMA JobNext ==
  ASSUME MainType, SideType, JobInv, PickedInv, Kinds
  PROVE  JobInv'
  <1> SUFFICES ASSUME NEW v \in Worker, pc'[v] # "idle"
               PROVE  job'[v] \in Job /\ job'[v].row.run \in 1 .. row'[job'[v].of].run
    BY DEF JobInv
  <1>a. ASSUME pc[v] # "idle" PROVE job[v] \in Job /\ job[v].row.run \in 1 .. row[job[v].of].run
    BY <1>a DEF JobInv
  <1>1. CASE Outside
    BY <1>a, <1>1 DEF Outside, workerVars
  <1>2. CASE Replaces
    <2>1. PICK gone \in BOOLEAN : job'[v] = [job[v] EXCEPT !.gone = gone]
      BY <1>2 DEF Replaces
    <2>2. job[v] \in Job /\ row' = row /\ job[v].row.run \in 1 .. row[job[v].of].run
      BY <1>a, <1>2 DEF Replaces
    <2> QED
      BY <2>1, <2>2 DEF Job
  <1>3. ASSUME NEW e \in Enrollment, RowStep(e)
        PROVE  job'[v] \in Job /\ job'[v].row.run \in 1 .. row'[job'[v].of].run
    <2>1. job' = job /\ pc' = pc
      BY <1>3 DEF RowStep, workerVars
    <2>2. PICK d \in Enrollment : d = job[v].of
      BY <2>1, JobFields
    <2>3. row'[d].run >= row[d].run /\ row[d].run \in Nat /\ row'[d].run \in Int
      BY <1>3, RowFields, Bounds DEF RowStep, MainType
    <2>4. job[v] \in Job /\ job[v].row.run \in 1 .. row[d].run
      BY <1>a, <2>1, <2>2
    <2> QED
      BY <2>1, <2>2, <2>3, <2>4
  <1>4. ASSUME NEW w \in Worker, NEW e \in Enrollment, Pick(w, e)
        PROVE  job'[v] \in Job /\ job'[v].row.run \in 1 .. row'[job'[v].of].run
    <2>1. CASE v = w
      <3>1. /\ job'[v] \in Job /\ job'[v].of = e /\ job'[v].row = row[e] /\ row' = row
            /\ row[e].status = "active"
        BY <1>4, <2>1, PickParts
      <3>2. row[e].run \in Nat /\ row[e].run # 0
        BY <3>1, RowFields DEF MainType
      <3> QED
        BY <3>1, <3>2
    <2>2. CASE v # w
      <3>1. job'[v] = job[v] /\ pc'[v] = pc[v] /\ row' = row
        BY <1>4, <2>2, PickParts DEF MainType
      <3> QED
        BY <1>a, <3>1
    <2> QED
      BY <2>1, <2>2
  <1>5. ASSUME NEW w \in Worker, ClaimDeliveryAttempt(w)
        PROVE  job'[v] \in Job /\ job'[v].row.run \in 1 .. row'[job'[v].of].run
    <2>1. PICK e \in Enrollment : e = job[w].of
      BY <1>5, JobFields DEF ClaimDeliveryAttempt
    <2>2. /\ job' = job /\ pc[w] = "picked" /\ pc' = [pc EXCEPT ![w] = "claimed"]
          /\ row' = [row EXCEPT ![e] = row'[e]] /\ row'[e].run = row[e].run
      BY <1>5, <2>1, ClaimParts
    <2>3. pc[v] # "idle"
      BY <2>2 DEF MainType
    <2>4. PICK d \in Enrollment : d = job[v].of
      BY <2>3, JobFields
    <2>5. row'[d].run = row[d].run
      BY <2>2 DEF MainType
    <2> QED
      BY <1>a, <2>2, <2>3, <2>4, <2>5
  <1>6. ASSUME NEW w \in Worker, Calls(w)
        PROVE  job'[v] \in Job /\ job'[v].row.run \in 1 .. row'[job'[v].of].run
    <2>1. PICK e \in Enrollment : e = job[w].of
      BY <1>6, JobFields DEF Calls
    <2>2. row' = row
      BY <1>6 DEF Calls
    <2>3. CASE v = w
      <3>1. pc[w] # "idle"
        BY <1>6 DEF Calls
      <3> QED
        BY <1>6, <1>a, <2>1, <2>2, <2>3, <3>1, CallParts
    <2>4. CASE v # w
      <3>1. job'[v] = job[v] /\ pc'[v] = pc[v]
        BY <1>6, <2>4 DEF Calls, MainType
      <3> QED
        BY <1>a, <2>2, <3>1
    <2> QED
      BY <2>3, <2>4
  <1>7. ASSUME NEW w \in Worker, Ends(w)
        PROVE  job'[v] \in Job /\ job'[v].row.run \in 1 .. row'[job'[v].of].run
    <2>1. PICK e \in Enrollment : e = job[w].of
      BY <1>7, JobFields DEF Ends
    <2>2. /\ pc' = [pc EXCEPT ![w] = "idle"] /\ job' = [job EXCEPT ![w] = NoJob]
          /\ row' = [row EXCEPT ![e] = row'[e]] /\ row'[e].run = row[e].run
      BY <1>7, <2>1, EndParts
    <2>3. v # w /\ pc'[v] = pc[v] /\ job'[v] = job[v] /\ pc[v] # "idle"
      BY <2>2 DEF MainType
    <2>4. PICK d \in Enrollment : d = job[v].of
      BY <2>3, JobFields
    <2>5. row'[d].run = row[d].run
      BY <2>2 DEF MainType
    <2> QED
      BY <1>a, <2>3, <2>4, <2>5
  <1>8. ASSUME NEW w \in Worker, LogUsage(w)
        PROVE  job'[v] \in Job /\ job'[v].row.run \in 1 .. row'[job'[v].of].run
    <2>1. job' = job /\ row' = row /\ pc[v] # "idle"
      BY <1>8, LogParts DEF MainType
    <2> QED
      BY <1>a, <2>1
  <1> QED
    BY <1>1, <1>2, <1>3, <1>4, <1>5, <1>6, <1>7, <1>8 DEF Kinds

LEMMA PickedNext ==
  ASSUME MainType, SideType, JobInv, PickedInv, Kinds
  PROVE  PickedInv'
  <1>a. ASSUME \A v \in Worker : pc'[v] = "picked" =>
                 /\ pc[v] = "picked" /\ job'[v].of = job[v].of /\ job'[v].pos = job[v].pos
                 /\ job'[v].row = job[v].row /\ row'[job[v].of] = row[job[v].of]
        PROVE  PickedInv'
    BY <1>a DEF PickedInv
  <1>1. CASE Outside
    BY <1>1 DEF Outside, workerVars, PickedInv
  <1>2. CASE Replaces
    <2> SUFFICES ASSUME NEW v \in Worker, pc'[v] = "picked"
                 PROVE  /\ pc[v] = "picked" /\ job'[v].of = job[v].of /\ job'[v].pos = job[v].pos
                        /\ job'[v].row = job[v].row /\ row'[job[v].of] = row[job[v].of]
      BY <1>a
    <2>1. pc[v] = "picked" /\ job[v] \in Job /\ row' = row
      BY <1>2 DEF Replaces, JobInv
    <2>2. job'[v] = [job[v] EXCEPT !.gone = job'[v].gone]
      BY <1>2, <2>1 DEF Replaces
    <2> QED
      BY <2>1, <2>2 DEF Job
  <1>3. ASSUME NEW e \in Enrollment, RowStep(e)
        PROVE  PickedInv'
    <2>1. job' = job /\ pc' = pc /\ Unlocked(e) /\ row' = [row EXCEPT ![e] = row'[e]]
      BY <1>3 DEF RowStep, workerVars
    <2> SUFFICES ASSUME NEW v \in Worker, pc[v] = "picked"
                 PROVE  row'[job[v].of] = row[job[v].of]
      BY <1>a, <2>1
    <2>2. job[v].of # e /\ job[v].of \in Enrollment
      BY <2>1, JobFields DEF Unlocked
    <2> QED
      BY <2>1, <2>2 DEF MainType
  <1>4. ASSUME NEW w \in Worker, NEW e \in Enrollment, Pick(w, e)
        PROVE  PickedInv'
    <2>1. /\ pc'[w] = "picked" /\ job'[w].of = e /\ job'[w].pos = row[e].step
          /\ job'[w].row = row[e] /\ row' = row /\ Unlocked(e)
          /\ row[e].status = "active" /\ row[e].next = "due"
      BY <1>4, PickParts DEF MainType
    <2>2. \A v \in Worker \ {w} : pc'[v] = pc[v] /\ job'[v] = job[v]
      BY <1>4, PickParts DEF MainType
    <2>3. \A v \in Worker : pc'[v] = "picked" =>
            /\ job'[v].row = row[job'[v].of] /\ job'[v].pos = job'[v].row.step
            /\ job'[v].row.status = "active" /\ job'[v].row.next = "due"
      BY <2>1, <2>2 DEF PickedInv
    <2>4. \A u, v \in Worker :
            pc'[u] = "picked" /\ pc'[v] = "picked" /\ job'[u].of = job'[v].of => u = v
      BY <2>1, <2>2 DEF PickedInv, Unlocked
    <2> QED
      BY <2>1, <2>3, <2>4 DEF PickedInv
  <1>5. ASSUME NEW w \in Worker, ClaimDeliveryAttempt(w)
        PROVE  PickedInv'
    <2>1. PICK e \in Enrollment : e = job[w].of
      BY <1>5, JobFields DEF ClaimDeliveryAttempt
    <2>2. /\ job' = job /\ pc[w] = "picked" /\ pc' = [pc EXCEPT ![w] = "claimed"]
          /\ row' = [row EXCEPT ![e] = row'[e]]
          /\ \A v \in Worker \ {w} : pc[v] = "picked" => job[v].of # e
      BY <1>5, <2>1, ClaimParts
    <2> SUFFICES ASSUME NEW v \in Worker, pc'[v] = "picked"
                 PROVE  pc[v] = "picked" /\ row'[job[v].of] = row[job[v].of]
      BY <1>a, <2>2
    <2>3. v # w /\ pc[v] = "picked"
      BY <2>2 DEF MainType
    <2>4. job[v].of # e /\ job[v].of \in Enrollment
      BY <2>2, <2>3, JobFields
    <2> QED
      BY <2>2, <2>3, <2>4 DEF MainType
  <1>6. ASSUME NEW w \in Worker, Calls(w)
        PROVE  PickedInv'
    <2> SUFFICES ASSUME NEW v \in Worker, pc'[v] = "picked"
                 PROVE  pc[v] = "picked" /\ job'[v] = job[v] /\ row' = row
      BY <1>a
    <2>1. v # w
      BY <1>6 DEF Calls
    <2> QED
      BY <1>6, <2>1 DEF Calls, MainType
  <1>7. ASSUME NEW w \in Worker, Ends(w)
        PROVE  PickedInv'
    <2>1. PICK e \in Enrollment : e = job[w].of
      BY <1>7, JobFields DEF Ends
    <2>2. /\ pc' = [pc EXCEPT ![w] = "idle"] /\ job' = [job EXCEPT ![w] = NoJob]
          /\ row' = [row EXCEPT ![e] = row'[e]]
          /\ row'[e] = row[e] \/ \A v \in Worker \ {w} : pc[v] = "picked" => job[v].of # e
      BY <1>7, <2>1, EndParts
    <2> SUFFICES ASSUME NEW v \in Worker, pc'[v] = "picked"
                 PROVE  /\ pc[v] = "picked" /\ job'[v] = job[v]
                        /\ row'[job[v].of] = row[job[v].of]
      BY <1>a
    <2>3. v # w /\ pc[v] = "picked" /\ job'[v] = job[v]
      BY <2>2 DEF MainType
    <2>4. job[v].of \in Enrollment
      BY <2>3, JobFields
    <2>5. row'[job[v].of] = row[job[v].of]
      BY <2>2, <2>3, <2>4 DEF MainType
    <2> QED
      BY <2>3, <2>5
  <1>8. ASSUME NEW w \in Worker, LogUsage(w)
        PROVE  PickedInv'
    BY <1>a, <1>8, LogParts DEF MainType
  <1> QED
    BY <1>1, <1>2, <1>3, <1>4, <1>5, <1>6, <1>7, <1>8 DEF Kinds

LEMMA NeverRanNext ==
  ASSUME MainType, SideType, JobInv, PickedInv, NeverRan, Kinds
  PROVE  NeverRan'
  <1>a. ASSUME NEW e \in Enrollment, row' = [row EXCEPT ![e] = row'[e]], row'[e].status # "none"
        PROVE  NeverRan'
    BY <1>a DEF NeverRan, MainType
  <1>b. ASSUME row' = row
        PROVE  NeverRan'
    BY <1>b DEF NeverRan
  <1>1. CASE Outside \/ Replaces
    BY <1>1, <1>b DEF Outside, Replaces
  <1>2. ASSUME NEW e \in Enrollment, RowStep(e)
        PROVE  NeverRan'
    BY <1>2, <1>a DEF RowStep
  <1>3. ASSUME NEW w \in Worker, NEW e \in Enrollment, Pick(w, e)
        PROVE  NeverRan'
    BY <1>3, <1>b, PickParts
  <1>4. ASSUME NEW w \in Worker, ClaimDeliveryAttempt(w) \/ Ends(w)
        PROVE  NeverRan'
    <2>1. PICK e \in Enrollment : e = job[w].of
      BY <1>4, JobFields DEF ClaimDeliveryAttempt, Ends
    <2> QED
      BY <1>4, <1>a, <2>1, ClaimParts, EndParts
  <1>5. ASSUME NEW w \in Worker, Calls(w)
        PROVE  NeverRan'
    BY <1>5, <1>b DEF Calls
  <1>6. ASSUME NEW w \in Worker, LogUsage(w)
        PROVE  NeverRan'
    BY <1>6, <1>b, LogParts
  <1> QED
    BY <1>1, <1>2, <1>3, <1>4, <1>5, <1>6 DEF Kinds

\* The steps sent so far stay sent, unless a row moves or an attempt changes.
LEMMA StepsSentNext ==
  ASSUME MainType, SideType, JobInv, PickedInv, TurnInv, StepsSent, Kinds
  PROVE  StepsSent'
  <1>a. ASSUME UNCHANGED <<row, attempt, raced>>
        PROVE  StepsSent'
    BY <1>a DEF StepsSent, AttemptOf
  <1> DEFINE Sent(d) == ~raced'[d] /\ Runs(row'[d]) =>
               \A p \in Position : p < row'[d].step => attempt'[<<d, row'[d].run, p>>] = "sent"
  <1>b. ASSUME \A d \in Enrollment : Sent(d)
        PROVE  StepsSent'
    BY <1>b DEF StepsSent, AttemptOf, Runs
  <1>c. ASSUME NEW d \in Enrollment, ~raced[d], Runs(row[d]), NEW p \in Position, p < row[d].step
        PROVE  attempt[<<d, row[d].run, p>>] = "sent"
    BY <1>c DEF StepsSent, AttemptOf, Runs
  <1>1. CASE Outside \/ Replaces
    BY <1>1, <1>a DEF Outside, Replaces
  <1>2. ASSUME NEW e \in Enrollment, RowStep(e)
        PROVE  StepsSent'
    <2> SUFFICES ASSUME NEW d \in Enrollment, ~raced'[d], Runs(row'[d]),
                        NEW p \in Position, p < row'[d].step
                 PROVE  attempt'[<<d, row'[d].run, p>>] = "sent"
      BY <1>b
    <2>1. /\ attempt' = attempt /\ row' = [row EXCEPT ![e] = row'[e]]
          /\ raced' = [raced EXCEPT ![e] = raced'[e]]
      BY <1>2 DEF RowStep
    <2>2. CASE d = e
      <3>1. ~(row'[e].step = 0)
        BY <2>2, Bounds
      <3>2. /\ ~raced[e] /\ Runs(row[e])
            /\ row'[e].step = row[e].step /\ row'[e].run = row[e].run
        BY <1>2, <2>2, <3>1 DEF RowStep
      <3> QED
        BY <1>c, <2>1, <2>2, <3>2
    <2>3. CASE d # e
      BY <1>c, <2>1, <2>3 DEF MainType
    <2> QED
      BY <2>2, <2>3
  <1>3. ASSUME NEW w \in Worker, NEW e \in Enrollment, Pick(w, e)
        PROVE  StepsSent'
    BY <1>3, <1>a, PickParts
  <1>4. ASSUME NEW w \in Worker, ClaimDeliveryAttempt(w)
        PROVE  StepsSent'
    <2>1. PICK e \in Enrollment : e = job[w].of
      BY <1>4, JobFields DEF ClaimDeliveryAttempt
    <2> SUFFICES ASSUME NEW d \in Enrollment, ~raced'[d], Runs(row'[d]),
                        NEW p \in Position, p < row'[d].step
                 PROVE  attempt'[<<d, row'[d].run, p>>] = "sent"
      BY <1>b
    <2>2. /\ raced' = raced /\ row' = [row EXCEPT ![e] = row'[e]]
          /\ row'[e].step = row[e].step /\ row'[e].run = row[e].run /\ row[e].status = "active"
          /\ attempt' = [attempt EXCEPT ![<<e, row[e].run, row[e].step>>] = "sending"]
      BY <1>4, <2>1, ClaimParts DEF AttemptOf
    <2>3. row'[d].step = row[d].step /\ row'[d].run = row[d].run /\ Runs(row[d])
      BY <2>2 DEF MainType, Runs
    <2>4. attempt[<<d, row[d].run, p>>] = "sent"
      BY <1>c, <2>2, <2>3
    <2>5. <<d, row[d].run, p>> # <<e, row[e].run, row[e].step>>
      <3>1. d # e \/ p # row[e].step
        BY <2>3, RowFields, Bounds
      <3> QED
        BY <3>1
    <2>6. <<d, row[d].run, p>> \in Attempt
      <3>1. row[d].run \in 1 .. MaxRuns
        BY <2>3, RowFields, Bounds DEF MainType, Runs
      <3> QED
        BY <3>1 DEF Attempt
    <2>7. attempt'[<<d, row[d].run, p>>] = attempt[<<d, row[d].run, p>>]
      BY <2>2, <2>5, <2>6 DEF MainType
    <2> QED
      BY <2>3, <2>4, <2>7
  <1>5. ASSUME NEW w \in Worker, Calls(w)
        PROVE  StepsSent'
    BY <1>5, <1>a DEF Calls
  <1>6. ASSUME NEW w \in Worker, Ends(w)
        PROVE  StepsSent'
    <2>1. PICK e \in Enrollment : e = job[w].of
      BY <1>6, JobFields DEF Ends
    <2> SUFFICES ASSUME NEW d \in Enrollment, ~raced'[d], Runs(row'[d]),
                        NEW p \in Position, p < row'[d].step
                 PROVE  attempt'[<<d, row'[d].run, p>>] = "sent"
      BY <1>b
    <2>2. /\ raced' = raced /\ row' = [row EXCEPT ![e] = row'[e]] /\ row'[e].run = row[e].run
          /\ JobAttempt(w) \in Attempt /\ JobAttempt(w)[1] = e
          /\ \/ UNCHANGED attempt
             \/ pc[w] = "answered" /\ attempt' = [attempt EXCEPT ![JobAttempt(w)] = "failed"]
             \/ pc[w] = "counted" /\ attempt' = [attempt EXCEPT ![JobAttempt(w)] = "sent"]
          /\ ~raced[e] /\ Runs(row'[e]) =>
              /\ Runs(row[e])
              /\ \/ row'[e].step = row[e].step
                 \/ row'[e].step = row[e].step + 1
                    /\ (row[e].step \in Position => attempt'[AttemptOf(e, row[e].step)] = "sent")
      BY <1>6, <2>1, EndParts
    <2>3. /\ row'[d].run = row[d].run /\ Runs(row[d]) /\ ~raced[d]
          /\ \/ row'[d].step = row[d].step
             \/ /\ row'[d].step = row[d].step + 1
                /\ row[d].step \in Position => attempt'[AttemptOf(d, row[d].step)] = "sent"
      BY <2>2 DEF MainType
    <2>4. /\ p \in Int /\ row[d].step \in Int /\ row[d].run \in 1 .. MaxRuns
      BY <2>3, RowFields, Bounds DEF MainType, Runs
    <2>5. CASE p = row[d].step
      BY <2>3, <2>4, <2>5 DEF AttemptOf
    <2>6. CASE p # row[d].step
      <3>1. p < row[d].step
        BY <2>3, <2>4, <2>6
      <3>2. attempt[<<d, row[d].run, p>>] = "sent"
        BY <1>c, <2>3, <3>1
      <3>3. <<d, row[d].run, p>> \in Attempt
        BY <2>4 DEF Attempt
      <3>4. CASE UNCHANGED attempt
        BY <2>3, <3>2, <3>4
      <3>5. CASE attempt' = [attempt EXCEPT ![JobAttempt(w)] = "sent"]
        BY <2>2, <2>3, <3>2, <3>3, <3>5 DEF MainType
      <3>6. CASE pc[w] = "answered" /\ attempt' = [attempt EXCEPT ![JobAttempt(w)] = "failed"]
        <4>1. JobAttempt(w) # <<d, row[d].run, p>>
          <5>1. CASE d # e
            BY <2>2, <5>1
          <5>2. CASE d = e
            <6>1. Sending(w, e)
              BY <2>1, <3>6 DEF Sending, InFlight
            <6>2. job[w].pos = row[e].step
              BY <2>3, <5>2, <6>1 DEF TurnInv, InStep
            <6> QED
              BY <2>6, <5>2, <6>2 DEF JobAttempt
          <5> QED
            BY <5>1, <5>2
        <4> QED
          BY <2>2, <2>3, <3>2, <3>3, <3>6, <4>1 DEF MainType
      <3> QED
        BY <2>2, <3>4, <3>5, <3>6
    <2> QED
      BY <2>5, <2>6
  <1>7. ASSUME NEW w \in Worker, LogUsage(w)
        PROVE  StepsSent'
    BY <1>7, <1>a, LogParts
  <1> QED
    BY <1>1, <1>2, <1>3, <1>4, <1>5, <1>6, <1>7 DEF Kinds

LEMMA EmailNext ==
  ASSUME MainType, SideType, JobInv, PickedInv, EmailInv, Kinds
  PROVE  EmailInv'
  <1> DEFINE Good(a) == /\ mail'[a] # "none" => attempt'[a] # "none"
                        /\ attempt'[a] = "sent" => mail'[a] # "none"
             Named(v) == <<job'[v].of, job'[v].row.run, job'[v].pos>>
             Held(v) == /\ pc'[v] \in InFlight => attempt'[Named(v)] # "none"
                        /\ answer'[v] = "ok" => pc'[v] \in {"answered", "counted"}
                        /\ answer'[v] = "ok" => mail'[Named(v)] # "none"
                        /\ pc'[v] = "counted" => answer'[v] = "ok"
  <1>a. ASSUME \A a \in Attempt : Good(a), \A v \in Worker : Held(v)
        PROVE  EmailInv'
    BY <1>a DEF EmailInv, JobAttempt
  <1>c. \A a \in Attempt : /\ mail[a] # "none" => attempt[a] # "none"
                           /\ attempt[a] = "sent" => mail[a] # "none"
    BY DEF EmailInv
  <1>d. \A v \in Worker : /\ pc[v] \in InFlight => attempt[JobAttempt(v)] # "none"
                          /\ answer[v] = "ok" => pc[v] \in {"answered", "counted"}
                          /\ answer[v] = "ok" => mail[JobAttempt(v)] # "none"
                          /\ pc[v] = "counted" => answer[v] = "ok"
    BY DEF EmailInv
  \* A worker that does not move, while attempts and emails only grow.
  <1>b. ASSUME NEW v \in Worker, pc'[v] = pc[v], answer'[v] = answer[v],
               pc[v] \in InFlight => /\ job'[v].of = job[v].of
                                     /\ job'[v].row.run = job[v].row.run
                                     /\ job'[v].pos = job[v].pos,
               \A a \in Attempt : attempt[a] # "none" => attempt'[a] # "none",
               \A a \in Attempt : mail[a] # "none" => mail'[a] # "none"
        PROVE  Held(v)
    <2>1. CASE pc[v] \in InFlight
      <3>1. JobAttempt(v) \in Attempt
        BY <2>1, JobFields DEF InFlight
      <3>2. Named(v) = JobAttempt(v)
        BY <1>b, <2>1 DEF JobAttempt
      <3> HIDE DEF Named
      <3> QED
        BY <1>b, <1>d, <2>1, <3>1, <3>2
    <2>2. CASE pc[v] \notin InFlight
      BY <1>b, <1>d, <2>2 DEF InFlight
    <2> QED
      BY <2>1, <2>2
  <1> HIDE DEF Held, Good
  <1>1. ASSUME UNCHANGED <<attempt, mail, pc, answer>>,
               \A v \in Worker : pc[v] # "idle" =>
                   job'[v].of = job[v].of /\ job'[v].row = job[v].row /\ job'[v].pos = job[v].pos
        PROVE  EmailInv'
    <2>1. \A v \in Worker : Held(v)
      BY <1>1, <1>b DEF InFlight
    <2>2. \A a \in Attempt : Good(a)
      BY <1>1, <1>c DEF Good
    <2> QED
      BY <1>a, <2>1, <2>2
  <1>2. CASE Outside
    BY <1>1, <1>2 DEF Outside, workerVars
  <1>3. CASE Replaces
    <2>1. ASSUME NEW v \in Worker, pc[v] # "idle"
          PROVE  job'[v].of = job[v].of /\ job'[v].row = job[v].row /\ job'[v].pos = job[v].pos
      <3>1. job[v] \in Job /\ job'[v] = [job[v] EXCEPT !.gone = job'[v].gone]
        BY <1>3, <2>1 DEF Replaces, JobInv
      <3> QED
        BY <3>1 DEF Job
    <2> QED
      BY <1>1, <1>3, <2>1 DEF Replaces
  <1>4. ASSUME NEW e \in Enrollment, RowStep(e)
        PROVE  EmailInv'
    BY <1>1, <1>4 DEF RowStep, workerVars
  <1>5. ASSUME NEW w \in Worker, NEW e \in Enrollment, Pick(w, e)
        PROVE  EmailInv'
    <2>1. /\ UNCHANGED <<attempt, mail, answer>> /\ pc[w] = "idle" /\ pc'[w] = "picked"
          /\ \A v \in Worker \ {w} : pc'[v] = pc[v] /\ job'[v] = job[v]
      BY <1>5, PickParts DEF MainType
    <2>2. Held(w)
      BY <1>d, <2>1 DEF InFlight, Held
    <2>3. \A v \in Worker \ {w} : Held(v)
      BY <1>b, <2>1
    <2>4. \A a \in Attempt : Good(a)
      BY <1>c, <2>1 DEF Good
    <2> QED
      BY <1>a, <2>2, <2>3, <2>4
  <1>6. ASSUME NEW w \in Worker, ClaimDeliveryAttempt(w)
        PROVE  EmailInv'
    <2>1. PICK e \in Enrollment : e = job[w].of
      BY <1>6, JobFields DEF ClaimDeliveryAttempt
    <2>2. /\ UNCHANGED <<mail, answer, job>> /\ pc[w] = "picked" /\ pc'[w] = "claimed"
          /\ \A v \in Worker \ {w} : pc'[v] = pc[v]
          /\ attempt' = [attempt EXCEPT ![JobAttempt(w)] = "sending"]
          /\ JobAttempt(w) \in Attempt
      BY <1>6, <2>1, ClaimParts, JobFields DEF MainType
    <2>3. \A a \in Attempt : attempt[a] # "none" => attempt'[a] # "none"
      BY <2>2 DEF MainType
    <2>4. Held(w)
      <3>1. attempt'[JobAttempt(w)] = "sending" /\ answer[w] # "ok"
        BY <1>d, <2>2 DEF MainType
      <3> QED
        BY <2>2, <3>1 DEF JobAttempt, Held
    <2>5. \A v \in Worker \ {w} : Held(v)
      BY <1>b, <2>2, <2>3
    <2>6. \A a \in Attempt : Good(a)
      BY <1>c, <2>2 DEF MainType, Good
    <2> QED
      BY <1>a, <2>4, <2>5, <2>6
  <1>7. ASSUME NEW w \in Worker, Calls(w)
        PROVE  EmailInv'
    <2>1. PICK e \in Enrollment : e = job[w].of
      BY <1>7, JobFields DEF Calls
    <2>2. /\ attempt' = attempt /\ JobAttempt(w) \in Attempt
          /\ \A v \in Worker \ {w} : pc'[v] = pc[v] /\ job'[v] = job[v] /\ answer'[v] = answer[v]
          /\ Named(w) = JobAttempt(w)
          /\ pc[w] \in {"claimed", "calling"} /\ pc'[w] \in {"calling", "answered"}
      <3>1. job'[w].of = e /\ job'[w].pos = job[w].pos /\ job'[w].row.run = job[w].row.run
        BY <1>7, <2>1, CallParts
      <3>2. JobAttempt(w) \in Attempt
        BY <1>7, JobFields DEF Calls
      <3>3. /\ attempt' = attempt
            /\ pc[w] \in {"claimed", "calling"} /\ pc'[w] \in {"calling", "answered"}
            /\ \A v \in Worker \ {w} : pc'[v] = pc[v] /\ job'[v] = job[v] /\ answer'[v] = answer[v]
        BY <1>7 DEF Calls, MainType
      <3> QED
        BY <2>1, <3>1, <3>2, <3>3 DEF JobAttempt
    <2>3. attempt[JobAttempt(w)] # "none"
      BY <1>d, <2>2 DEF InFlight
    <2>4. /\ \A a \in Attempt : mail[a] # "none" => mail'[a] # "none"
          /\ \A a \in Attempt \ {JobAttempt(w)} : mail'[a] = mail[a]
          /\ answer'[w] = "ok" => pc'[w] = "answered" /\ mail'[JobAttempt(w)] # "none"
      <3>1. CASE UNCHANGED mail /\ answer'[w] # "ok"
        BY <2>2, <3>1
      <3>2. CASE /\ pc'[w] = "answered" /\ answer'[w] = "ok"
                 /\ mail' = [mail EXCEPT ![JobAttempt(w)] = "known"]
        BY <2>2, <3>2 DEF MainType
      <3>3. CASE /\ answer'[w] = "error"
                 /\ mail' = [mail EXCEPT ![JobAttempt(w)] = IF @ = "none" THEN "accepted" ELSE @]
        BY <2>2, <3>3 DEF MainType
      <3>4. pc[w] \in {"claimed", "calling"} => answer[w] # "ok"
        BY <1>d
      <3> QED
        BY <1>7, <2>2, <3>1, <3>2, <3>3, <3>4 DEF Calls
    <2> HIDE DEF Named
    <2>5. Held(w)
      BY <2>2, <2>3, <2>4 DEF Held
    <2>6. \A v \in Worker \ {w} : Held(v)
      BY <1>b, <2>2, <2>4
    <2>7. \A a \in Attempt : Good(a)
      <3> SUFFICES ASSUME NEW a \in Attempt PROVE Good(a)
        OBVIOUS
      <3>1. CASE a = JobAttempt(w)
        BY <1>c, <2>2, <2>3, <2>4, <3>1 DEF Good
      <3>2. CASE a # JobAttempt(w)
        BY <1>c, <2>2, <2>4, <3>2 DEF Good
      <3> QED
        BY <3>1, <3>2
    <2> QED
      BY <1>a, <2>5, <2>6, <2>7
  <1>8. ASSUME NEW w \in Worker, Ends(w)
        PROVE  EmailInv'
    <2>1. PICK e \in Enrollment : e = job[w].of
      BY <1>8, JobFields DEF Ends
    <2>2. /\ pc'[w] = "idle" /\ answer'[w] = "none" /\ JobAttempt(w) \in Attempt
          /\ \A v \in Worker \ {w} : pc'[v] = pc[v] /\ job'[v] = job[v] /\ answer'[v] = answer[v]
          /\ \/ UNCHANGED attempt
             \/ pc[w] = "answered" /\ attempt' = [attempt EXCEPT ![JobAttempt(w)] = "failed"]
             \/ pc[w] = "counted" /\ attempt' = [attempt EXCEPT ![JobAttempt(w)] = "sent"]
      BY <1>8, <2>1, EndParts DEF MainType
    <2>3. \A a \in Attempt : attempt[a] # "none" => attempt'[a] # "none"
      BY <2>2 DEF MainType
    <2>4. Held(w)
      BY <2>2 DEF InFlight, Held
    <2>5. \A a \in Attempt : mail'[a] # "none" <=> mail[a] # "none"
      <3>1. CASE UNCHANGED mail
        BY <3>1
      <3>2. CASE Lose(w)
        <4>1. answer[w] = "ok" => mail[JobAttempt(w)] # "none"
          BY <1>d
        <4>2. mail' = [mail EXCEPT ![JobAttempt(w)] =
                          IF answer[w] = "ok" THEN "accepted" ELSE mail[JobAttempt(w)]]
          BY <3>2 DEF Lose
        <4> QED
          BY <2>2, <4>1, <4>2 DEF MainType
      <3> QED
        BY <1>8, <3>1, <3>2 DEF Ends
    <2>6. \A v \in Worker \ {w} : Held(v)
      BY <1>b, <2>2, <2>3, <2>5
    <2>7. \A a \in Attempt : Good(a)
      <3> SUFFICES ASSUME NEW a \in Attempt PROVE Good(a)
        OBVIOUS
      <3>1. attempt'[a] = "sent" => mail[a] # "none"
        <4>1. pc[w] = "counted" => mail[JobAttempt(w)] # "none"
          BY <1>d
        <4> QED
          BY <1>c, <2>2, <4>1 DEF MainType
      <3> QED
        BY <1>c, <2>3, <2>5, <3>1 DEF Good
    <2> QED
      BY <1>a, <2>4, <2>6, <2>7
  <1>9. ASSUME NEW w \in Worker, LogUsage(w)
        PROVE  EmailInv'
    <2>1. /\ UNCHANGED <<attempt, job, answer, mail>> /\ pc'[w] = "counted"
          /\ pc[w] = "answered" /\ answer[w] = "ok"
          /\ \A v \in Worker \ {w} : pc'[v] = pc[v]
      BY <1>9, LogParts DEF MainType
    <2>2. Named(w) = JobAttempt(w)
      BY <2>1 DEF JobAttempt
    <2> HIDE DEF Named
    <2>3. Held(w)
      BY <1>d, <2>1, <2>2 DEF InFlight, Held
    <2>4. \A v \in Worker \ {w} : Held(v)
      BY <1>b, <2>1
    <2>5. \A a \in Attempt : Good(a)
      BY <1>c, <2>1 DEF Good
    <2> QED
      BY <1>a, <2>3, <2>4, <2>5
  <1> QED
    BY <1>2, <1>3, <1>4, <1>5, <1>6, <1>7, <1>8, <1>9 DEF Kinds

LEMMA UsersFinite ==
  /\ IsFiniteSet(Worker) /\ IsFiniteSet(Working) /\ Working \subseteq Worker
  /\ IsFiniteSet(Thread) /\ IsFiniteSet(Asking) /\ Asking \subseteq Thread
  /\ Cardinality(Worker) \in Nat /\ Cardinality(Worker) > 0
  /\ Cardinality(Thread) \in Nat
  /\ Cardinality(Working) \in Nat /\ Cardinality(Working) <= Cardinality(Worker)
  /\ Cardinality(Asking) \in Nat /\ Cardinality(Asking) <= Cardinality(Thread)
  <1>1. /\ IsFiniteSet(Worker) /\ Worker # {} /\ Working \subseteq Worker
        /\ IsFiniteSet(Thread) /\ Asking \subseteq Thread
    BY CampaignsAssumption DEF Working, Asking
  <1>2. /\ IsFiniteSet(Working) /\ Cardinality(Working) <= Cardinality(Worker)
        /\ IsFiniteSet(Asking) /\ Cardinality(Asking) <= Cardinality(Thread)
    BY <1>1, FS_Subset
  <1>3. /\ Cardinality(Worker) \in Nat /\ Cardinality(Working) \in Nat
        /\ Cardinality(Thread) \in Nat /\ Cardinality(Asking) \in Nat
    BY <1>1, <1>2, FS_CardinalityType
  <1>4. Cardinality(Worker) # 0
    BY <1>1, FS_EmptySet
  <1> QED
    BY <1>1, <1>2, <1>3, <1>4

LEMMA UsageNext ==
  ASSUME MainType, SideType, JobInv, PickedInv, UsageInv, Kinds
  PROVE  UsageInv'
  <1>a. used \in Nat /\ replies \in Nat /\ MonthlyCap \in Nat
    BY Bounds DEF SideType
  <1>b. /\ Working' \subseteq Worker /\ Asking' \subseteq Thread
        /\ Cardinality(Working') \in Nat /\ Cardinality(Working') <= Cardinality(Worker)
        /\ Cardinality(Asking') \in Nat /\ Cardinality(Asking') <= Cardinality(Thread)
    <2>1. Working' \subseteq Worker /\ Asking' \subseteq Thread
      BY DEF Working, Asking
    <2>2. IsFiniteSet(Working') /\ IsFiniteSet(Asking')
      BY <2>1, UsersFinite, FS_Subset
    <2> QED
      BY <2>1, <2>2, UsersFinite, FS_Subset, FS_CardinalityType
  \* Somebody sees room for one more email.
  <1>c. ASSUME used < MonthlyCap, used' = used, replies' = replies
        PROVE  UsageInv'
    BY <1>a, <1>b, <1>c, UsersFinite DEF UsageInv
  \* Nobody new does.
  <1>d. ASSUME used' = used, replies' = replies,
               Working' \subseteq Working, Asking' \subseteq Asking
        PROVE  UsageInv'
    <2>1. /\ Cardinality(Working') <= Cardinality(Working)
          /\ Cardinality(Asking') <= Cardinality(Asking)
      BY <1>d, UsersFinite, FS_Subset
    <2> QED
      BY <1>a, <1>b, <1>d, <2>1, UsersFinite DEF UsageInv
  <1>e. ASSUME pc' = pc
        PROVE  Working' = Working
    BY <1>e DEF Working
  <1>f. ASSUME manual' = manual
        PROVE  Asking' = Asking
    BY <1>f DEF Asking
  <1>1. ASSUME pc' = pc, UNCHANGED usageVars
        PROVE  UsageInv'
    BY <1>1, <1>d, <1>e, <1>f DEF usageVars
  <1>2. CASE Outside
    <2>1. Working' = Working
      BY <1>2, <1>e DEF Outside, workerVars
    <2>2. CASE UNCHANGED usageVars
      BY <2>1, <2>2, <1>d, <1>f DEF usageVars
    <2>3. CASE NewMonth
      <3>1. used' = 0 /\ replies' = 0 /\ Asking' = Asking
        BY <2>3, <1>f DEF NewMonth
      <3>2. CASE MonthlyCap = 0
        <4>1. Working' = {} /\ Asking' = {}
          BY <2>1, <3>1, <3>2 DEF UsageInv
        <4>2. Cardinality(Working') = 0 /\ Cardinality(Asking') = 0
          BY <4>1, FS_EmptySet
        <4> QED
          BY <1>a, <3>1, <4>1, <4>2, UsersFinite DEF UsageInv
      <3>3. CASE MonthlyCap > 0
        BY <1>a, <1>b, <3>1, <3>3, UsersFinite DEF UsageInv
      <3> QED
        BY <1>a, <3>2, <3>3
    <2>4. CASE CountReply
      <3>1. used' = used + 1 /\ replies' = replies + 1 /\ Asking' = Asking
        BY <2>4, <1>f DEF CountReply
      <3> QED
        BY <1>a, <2>1, <3>1, UsersFinite DEF UsageInv
    <2>5. ASSUME NEW t \in Thread, NEW l \in Lead, RequestEmail(t, l)
          PROVE  UsageInv'
      BY <1>c, <2>5 DEF RequestEmail, UnderLimit, HandOnly
    <2>6. ASSUME NEW t \in Thread, CommitEmail(t) \/ GiveUpEmail(t)
          PROVE  UsageInv'
      <3>1. /\ used' = used /\ replies' = replies /\ manual[t] # NoJob
            /\ \A s \in Thread \ {t} : manual'[s] = manual[s]
        BY <2>6 DEF CommitEmail, GiveUpEmail, HandOnly, Hand, SideType
      <3>2. Asking' \subseteq Asking
        BY <3>1 DEF Asking
      <3> QED
        BY <1>d, <2>1, <3>1, <3>2
    <2>7. ASSUME NEW t \in Thread, CountEmail(t)
          PROVE  UsageInv'
      <3>1. /\ used' = used + 1 /\ replies' = replies /\ manual[t] # NoJob
            /\ manual' = [manual EXCEPT ![t] = NoJob]
        BY <2>7 DEF CountEmail, HandOnly, Hand
      <3>2. t \in Asking /\ Asking' = Asking \ {t}
        BY <3>1 DEF Asking, SideType
      <3>3. Cardinality(Asking') = Cardinality(Asking) - 1
        BY <3>2, UsersFinite, FS_RemoveElement
      <3>4. MonthlyCap # 0
        BY <3>2 DEF UsageInv
      <3> QED
        BY <1>a, <2>1, <3>1, <3>3, <3>4, UsersFinite DEF UsageInv
    <2> QED
      BY <1>2, <2>2, <2>3, <2>4, <2>5, <2>6, <2>7 DEF Outside
  <1>3. CASE Replaces
    BY <1>1, <1>3 DEF Replaces
  <1>4. ASSUME NEW e \in Enrollment, RowStep(e)
        PROVE  UsageInv'
    BY <1>1, <1>4 DEF RowStep, workerVars
  <1>5. ASSUME NEW w \in Worker, NEW e \in Enrollment, Pick(w, e)
        PROVE  UsageInv'
    BY <1>5, <1>c, PickParts DEF usageVars
  <1>6. ASSUME NEW w \in Worker, ClaimDeliveryAttempt(w) \/ Calls(w)
        PROVE  UsageInv'
    <2>1. PICK e \in Enrollment : e = job[w].of
      BY <1>6, JobFields DEF ClaimDeliveryAttempt, Calls
    <2>2. /\ UNCHANGED usageVars /\ pc[w] \notin {"idle", "counted"}
          /\ pc' = [pc EXCEPT ![w] = pc'[w]]
      BY <1>6, <2>1, ClaimParts DEF Calls, MainType
    <2>3. Working' \subseteq Working
      BY <2>2 DEF Working, MainType
    <2> QED
      BY <2>2, <2>3, <1>d, <1>f DEF usageVars
  <1>7. ASSUME NEW w \in Worker, Ends(w)
        PROVE  UsageInv'
    <2>1. PICK e \in Enrollment : e = job[w].of
      BY <1>7, JobFields DEF Ends
    <2>2. UNCHANGED usageVars /\ pc' = [pc EXCEPT ![w] = "idle"]
      BY <1>7, <2>1, EndParts
    <2>3. Working' \subseteq Working
      BY <2>2 DEF Working, MainType
    <2> QED
      BY <2>2, <2>3, <1>d, <1>f DEF usageVars
  <1>8. ASSUME NEW w \in Worker, LogUsage(w)
        PROVE  UsageInv'
    <2>1. /\ pc[w] = "answered" /\ pc' = [pc EXCEPT ![w] = "counted"]
          /\ UNCHANGED <<replies, manual>> /\ (used' = used \/ used' = used + 1)
      BY <1>8, LogParts
    <2>2. w \in Working /\ Working' = Working \ {w}
      BY <2>1 DEF Working, MainType
    <2>3. Cardinality(Working') = Cardinality(Working) - 1
      BY <2>2, UsersFinite, FS_RemoveElement
    <2>4. MonthlyCap # 0 /\ Asking' = Asking
      BY <2>1, <2>2, <1>f DEF UsageInv
    <2> QED
      BY <1>a, <2>1, <2>3, <2>4, UsersFinite DEF UsageInv
  <1> QED
    BY <1>2, <1>3, <1>4, <1>5, <1>6, <1>7, <1>8 DEF Kinds

\* What a sender, its row and its attempt have in common does not change while
\* none of the three does.
LEMMA InStepStays ==
  ASSUME NEW v \in Worker, NEW d \in Enrollment, InStep(v, d), pc[v] = "claimed" => pc'[v] = "claimed",
         job'[v].of = job[v].of, job'[v].pos = job[v].pos, job'[v].row = job[v].row,
         job'[v].attempt = job[v].attempt, row'[d] = row[d],
         attempt'[JobAttempt(v)] = attempt[JobAttempt(v)]
  PROVE  InStep(v, d)'
  <1>1. JobAttempt(v)' = JobAttempt(v)
    BY DEF JobAttempt
  <1>2. attempt'[JobAttempt(v)'] = "sending"
    BY <1>1 DEF InStep
  <1> QED
    BY <1>2 DEF InStep

\* A step of one enrollment leaves the senders of the others in step.
LEMMA OthersStay ==
  ASSUME MainType, JobInv, TurnInv, NEW d \in Enrollment, ~raced[d], row'[d] = row[d],
         \A v \in Worker : job[v].of = d => pc'[v] = pc[v] /\ job'[v] = job[v],
         \A v \in Worker : pc'[v] \in InFlight /\ job'[v].of = d => job[v].of = d,
         \A a \in Attempt : a[1] = d => attempt'[a] = attempt[a]
  PROVE  /\ \A v \in Worker : Sending(v, d)' => InStep(v, d)'
         /\ \A u, v \in Worker : Sending(u, d)' /\ Sending(v, d)' => u = v
  <1>1. ASSUME NEW v \in Worker, Sending(v, d)'
        PROVE  Sending(v, d) /\ pc'[v] = pc[v] /\ job'[v] = job[v]
    BY <1>1 DEF Sending
  <1>2. ASSUME NEW v \in Worker, Sending(v, d)'
        PROVE  InStep(v, d)'
    <2>1. InStep(v, d)
      BY <1>1, <1>2 DEF TurnInv
    <2>2. attempt'[JobAttempt(v)] = attempt[JobAttempt(v)]
      BY <1>1, <1>2, JobFields DEF Sending, InFlight
    <2> QED
      BY <1>1, <1>2, <2>1, <2>2, InStepStays
  <1> QED
    BY <1>1, <1>2 DEF TurnInv

LEMMA TurnNext ==
  ASSUME MainType, SideType, JobInv, PickedInv, TurnInv, Kinds
  PROVE  TurnInv'
  <1> SUFFICES ASSUME NEW d \in Enrollment, ~raced'[d]
               PROVE  /\ \A v \in Worker : Sending(v, d)' => InStep(v, d)'
                      /\ \A u, v \in Worker : Sending(u, d)' /\ Sending(v, d)' => u = v
    BY DEF TurnInv
  <1> DEFINE Ok == /\ \A v \in Worker : Sending(v, d)' => InStep(v, d)'
                   /\ \A u, v \in Worker : Sending(u, d)' /\ Sending(v, d)' => u = v
  <1> SUFFICES Ok
    OBVIOUS
  <1>1. CASE Outside
    <2>1. UNCHANGED <<row, attempt, pc, job, raced>>
      BY <1>1 DEF Outside, workerVars
    <2> QED
      BY <2>1, OthersStay
  <1>2. CASE Replaces
    <2>1. UNCHANGED <<row, attempt, pc, raced>>
      BY <1>2 DEF Replaces
    <2>2. ASSUME NEW v \in Worker, pc[v] # "idle"
          PROVE  /\ job'[v].of = job[v].of /\ job'[v].pos = job[v].pos
                 /\ job'[v].row = job[v].row /\ job'[v].attempt = job[v].attempt
      <3>1. job[v] \in Job /\ job'[v] = [job[v] EXCEPT !.gone = job'[v].gone]
        BY <1>2, <2>2 DEF Replaces, JobInv
      <3> QED
        BY <3>1 DEF Job
    <2>3. ASSUME NEW v \in Worker, Sending(v, d)'
          PROVE  Sending(v, d) /\ InStep(v, d)'
      <3>1. pc[v] # "idle" /\ pc[v] \in InFlight
        BY <2>1, <2>3 DEF Sending, InFlight
      <3>2. Sending(v, d)
        BY <2>2, <2>3, <3>1 DEF Sending
      <3>3. InStep(v, d)
        BY <2>1, <3>2 DEF TurnInv
      <3> QED
        BY <2>1, <2>2, <3>1, <3>2, <3>3, InStepStays
    <2> QED
      BY <2>1, <2>3 DEF TurnInv
  <1>3. ASSUME NEW e \in Enrollment, RowStep(e)
        PROVE  Ok
    <2>1. /\ UNCHANGED <<attempt, pc, job>> /\ row' = [row EXCEPT ![e] = row'[e]]
          /\ raced' = [raced EXCEPT ![e] = raced'[e]]
      BY <1>3 DEF RowStep, workerVars
    <2>2. CASE d # e
      <3>1. row'[d] = row[d] /\ ~raced[d]
        BY <2>1, <2>2 DEF MainType
      <3> QED
        BY <2>1, <3>1, OthersStay
    <2>3. CASE d = e
      <3>1. CASE \A w \in Worker : ~Sending(w, e)
        BY <2>1, <2>3, <3>1 DEF Sending
      <3>2. CASE /\ row[e].status = "active" /\ ~raced[e]
                 /\ row'[e] = [row[e] EXCEPT !.status = "paused", !.next = "never"]
        <4>1. /\ row'[e].status = "paused" /\ row'[e].next = "never"
              /\ row'[e].run = row[e].run /\ row'[e].step = row[e].step
          BY <3>2, RowFields
        <4>2. ASSUME NEW v \in Worker, Sending(v, d)'
              PROVE  Sending(v, d) /\ InStep(v, d)'
          <5>1. Sending(v, d)
            BY <2>1, <4>2 DEF Sending
          <5>2. InStep(v, d)
            BY <2>3, <3>2, <5>1 DEF TurnInv
          <5>3. JobAttempt(v)' = JobAttempt(v)
            BY <2>1 DEF JobAttempt
          <5> QED
            BY <2>1, <2>3, <4>1, <5>1, <5>2, <5>3 DEF InStep
        <4> QED
          BY <2>3, <3>2, <4>2 DEF TurnInv
      <3> QED
        BY <1>3, <2>3, <3>1, <3>2 DEF RowStep
    <2> QED
      BY <2>2, <2>3
  <1>4. ASSUME NEW w \in Worker, NEW e \in Enrollment, Pick(w, e)
        PROVE  Ok
    <2>1. /\ UNCHANGED <<row, attempt, raced>> /\ pc[w] = "idle" /\ pc'[w] = "picked"
          /\ \A v \in Worker \ {w} : pc'[v] = pc[v] /\ job'[v] = job[v]
      BY <1>4, PickParts DEF MainType
    <2>2. ASSUME NEW v \in Worker, Sending(v, d)'
          PROVE  Sending(v, d) /\ InStep(v, d)'
      <3>1. v # w
        BY <2>1, <2>2 DEF Sending, InFlight
      <3>2. Sending(v, d)
        BY <2>1, <2>2, <3>1 DEF Sending
      <3>3. InStep(v, d)
        BY <2>1, <3>2 DEF TurnInv
      <3> QED
        BY <2>1, <3>1, <3>2, <3>3, InStepStays
    <2> QED
      BY <2>1, <2>2 DEF TurnInv
  <1>5. ASSUME NEW w \in Worker, ClaimDeliveryAttempt(w)
        PROVE  Ok
    <2>1. PICK e \in Enrollment : e = job[w].of
      BY <1>5, JobFields DEF ClaimDeliveryAttempt
    <2>2. /\ pc[w] = "picked" /\ pc' = [pc EXCEPT ![w] = "claimed"]
          /\ row[e].next = "due" /\ job[w].row = row[e] /\ job[w].pos = row[e].step
          /\ row' = [row EXCEPT ![e] = row'[e]]
          /\ row'[e].status = "active" /\ row'[e].next = w
          /\ row'[e].step = row[e].step /\ row'[e].run = row[e].run
          /\ attempt' = [attempt EXCEPT ![JobAttempt(w)] = "sending"]
          /\ UNCHANGED <<job, raced>>
      BY <1>5, <2>1, ClaimParts
    <2>3. JobAttempt(w) \in Attempt /\ JobAttempt(w)[1] = e
      BY <2>1, <2>2, JobFields
    <2>4. CASE d # e
      <3>1. row'[d] = row[d] /\ ~raced[d]
        BY <2>2, <2>4 DEF MainType
      <3>2. \A v \in Worker : job[v].of = d => pc'[v] = pc[v] /\ job'[v] = job[v]
        BY <2>1, <2>2, <2>4 DEF MainType
      <3>3. \A a \in Attempt : a[1] = d => attempt'[a] = attempt[a]
        BY <2>2, <2>3, <2>4 DEF MainType
      <3> QED
        BY <2>2, <3>1, <3>2, <3>3, OthersStay
    <2>5. CASE d = e
      <3>1. \A v \in Worker : ~Sending(v, e)
        BY <2>2, <2>5, DueIsFree
      <3>2. \A v \in Worker : Sending(v, d)' => v = w
        BY <2>2, <2>5, <3>1 DEF Sending, MainType
      <3>3. pc'[w] = "claimed"
        BY <2>2 DEF MainType
      <3>4. JobAttempt(w)' = JobAttempt(w)
        BY <2>2 DEF JobAttempt
      <3>5. attempt'[JobAttempt(w)] = "sending"
        BY <2>2, <2>3 DEF MainType
      <3>6. InStep(w, d)'
        BY <2>2, <2>5, <3>3, <3>4, <3>5 DEF InStep
      <3> QED
        BY <3>2, <3>6
    <2> QED
      BY <2>4, <2>5
  <1>6. ASSUME NEW w \in Worker, Calls(w)
        PROVE  Ok
    <2>1. PICK e \in Enrollment : e = job[w].of
      BY <1>6, JobFields DEF Calls
    <2>2. /\ UNCHANGED <<row, attempt, raced>> /\ pc[w] \in InFlight
          /\ \A v \in Worker \ {w} : pc'[v] = pc[v] /\ job'[v] = job[v]
      BY <1>6 DEF Calls, MainType, InFlight
    <2>3. /\ job'[w].of = e /\ job'[w].pos = job[w].pos
          /\ job'[w].row.run = job[w].row.run
          /\ \/ /\ pc[w] = "claimed" /\ pc'[w] = "calling"
                /\ job'[w].row.step = row[e].step /\ job'[w].row.status = row[e].status
                /\ job'[w].row.next = row[e].next
                /\ job'[w].attempt = attempt[JobAttempt(w)]
             \/ pc[w] = "calling" /\ job'[w] = job[w]
      BY <1>6, <2>1, CallParts
    <2>4. JobAttempt(w)' = JobAttempt(w)
      BY <2>1, <2>3 DEF JobAttempt
    <2>5. ASSUME NEW v \in Worker, Sending(v, d)'
          PROVE  Sending(v, d) /\ InStep(v, d)'
      <3>1. Sending(v, d)
        BY <2>1, <2>2, <2>3, <2>5 DEF Sending
      <3>2. InStep(v, d)
        BY <2>2, <3>1 DEF TurnInv
      <3>3. CASE v # w
        BY <2>2, <3>1, <3>2, <3>3, InStepStays
      <3>4. CASE v = w
        <4>1. d = e
          BY <2>1, <3>1, <3>4 DEF Sending
        <4>2. row' = row /\ attempt' = attempt
          BY <2>2
        <4>3. CASE pc[w] = "calling" /\ job'[w] = job[w]
          <5>1. InStep(w, e)'
            BY <2>4, <3>2, <3>4, <4>1, <4>2, <4>3 DEF InStep
          <5> QED
            BY <3>1, <3>4, <4>1, <5>1
        <4>4. CASE /\ pc[w] = "claimed" /\ pc'[w] = "calling"
                   /\ job'[w].row.step = row[e].step /\ job'[w].row.status = row[e].status
                   /\ job'[w].row.next = row[e].next
                   /\ job'[w].attempt = attempt[JobAttempt(w)]
          <5>1. InStep(w, e)
            BY <3>2, <3>4, <4>1
          <5>2. InStep(w, e)'
            BY <2>3, <2>4, <4>2, <4>4, <5>1 DEF InStep
          <5> QED
            BY <3>1, <3>4, <4>1, <5>2
        <4> QED
          BY <2>3, <4>3, <4>4
      <3> QED
        BY <3>1, <3>3, <3>4
    <2> QED
      BY <2>2, <2>5 DEF TurnInv
  <1>7. ASSUME NEW w \in Worker, Ends(w)
        PROVE  Ok
    <2>1. PICK e \in Enrollment : e = job[w].of
      BY <1>7, JobFields DEF Ends
    <2>2. /\ pc[w] # "idle" /\ pc' = [pc EXCEPT ![w] = "idle"]
          /\ job' = [job EXCEPT ![w] = NoJob] /\ raced' = raced
          /\ row' = [row EXCEPT ![e] = row'[e]]
          /\ JobAttempt(w) \in Attempt /\ JobAttempt(w)[1] = e
          /\ \E s \in {"failed", "sent"} :
               attempt' = attempt \/ attempt' = [attempt EXCEPT ![JobAttempt(w)] = s]
      BY <1>7, <2>1, EndParts
    <2>3. CASE d # e
      <3>1. row'[d] = row[d] /\ ~raced[d]
        BY <2>2, <2>3 DEF MainType
      <3>2. /\ \A v \in Worker : job[v].of = d => pc'[v] = pc[v] /\ job'[v] = job[v]
            /\ \A v \in Worker : pc'[v] \in InFlight /\ job'[v].of = d => job[v].of = d
        BY <2>1, <2>2, <2>3 DEF MainType, InFlight
      <3>3. \A a \in Attempt : a[1] = d => attempt'[a] = attempt[a]
        BY <2>2, <2>3 DEF MainType
      <3> QED
        BY <3>1, <3>2, <3>3, OthersStay
    <2>4. CASE d = e
      <3>1. \A v \in Worker \ {w} : ~Sending(v, e)
        <4>1. ~raced[e]
          BY <2>2, <2>4
        <4>2. CASE Sending(w, e)
          BY <4>1, <4>2 DEF TurnInv
        <4>3. CASE ~Sending(w, e)
          <5>1. pc[w] = "picked"
            BY <2>1, <2>2, <4>3 DEF Sending, MainType
          <5>2. row[e].next = "due"
            BY <2>1, <5>1 DEF PickedInv
          <5> QED
            BY <4>1, <5>2, DueIsFree
        <4> QED
          BY <4>2, <4>3
      <3>2. ASSUME NEW v \in Worker PROVE ~Sending(v, d)'
        BY <2>2, <2>4, <3>1 DEF Sending, MainType, InFlight
      <3> QED
        BY <3>2
    <2> QED
      BY <2>3, <2>4
  <1>8. ASSUME NEW w \in Worker, LogUsage(w)
        PROVE  Ok
    <2>1. /\ UNCHANGED <<row, attempt, raced, job>> /\ pc[w] = "answered"
          /\ pc' = [pc EXCEPT ![w] = "counted"]
      BY <1>8, LogParts
    <2>2. ASSUME NEW v \in Worker, Sending(v, d)'
          PROVE  Sending(v, d) /\ InStep(v, d)'
      <3>1. Sending(v, d) /\ (pc[v] = "claimed" => pc'[v] = "claimed")
        BY <2>1, <2>2 DEF Sending, InFlight, MainType
      <3>2. InStep(v, d)
        BY <2>1, <3>1 DEF TurnInv
      <3> QED
        BY <2>1, <3>1, <3>2, InStepStays
    <2> QED
      BY <2>1, <2>2 DEF TurnInv
  <1> QED
    BY <1>1, <1>2, <1>3, <1>4, <1>5, <1>6, <1>7, <1>8 DEF Kinds

\* A step after which a worker owes what it owed, no attempt loses its record and
\* no more is known, keeps what is known either recorded or owed.
LEMMA KnownStays ==
  ASSUME MainType, KnownInv, UNCHANGED <<row, raced>>,
         \A a \in Attempt : mail'[a] # "none" => mail[a] # "none",
         \A a \in Attempt : mail'[a] = "known" => mail[a] = "known",
         \A a \in Attempt : attempt[a] = "sent" => attempt'[a] = "sent",
         \A v \in Worker : answer[v] = "ok" => answer'[v] = "ok" /\ JobAttempt(v)' = JobAttempt(v)
  PROVE  KnownInv'
  <1>1. ASSUME NEW v \in Worker, NEW a \in Attempt, Owes(v, a)
        PROVE  Owes(v, a)'
    BY <1>1 DEF Owes
  <1> QED
    BY <1>1 DEF KnownInv

LEMMA KnownNext ==
  ASSUME MainType, SideType, JobInv, PickedInv, TurnInv, EmailInv, KnownInv, Kinds
  PROVE  KnownInv'
  <1>a. \A v \in Worker : answer[v] = "ok" => pc[v] \in {"answered", "counted"}
    BY DEF EmailInv
  <1>1. CASE Outside
    <2>1. UNCHANGED <<row, attempt, raced, job, answer, mail>>
      BY <1>1 DEF Outside, workerVars
    <2>2. \A v \in Worker : JobAttempt(v)' = JobAttempt(v)
      BY <2>1 DEF JobAttempt
    <2> QED
      BY <2>1, <2>2, KnownStays
  <1>2. CASE Replaces
    <2>1. UNCHANGED <<row, attempt, raced, answer, mail>>
      BY <1>2 DEF Replaces
    <2>2. ASSUME NEW v \in Worker, answer[v] = "ok"
          PROVE  JobAttempt(v)' = JobAttempt(v)
      <3>1. pc[v] # "idle"
        BY <1>a, <2>2
      <3>2. job[v] \in Job /\ job'[v] = [job[v] EXCEPT !.gone = job'[v].gone]
        BY <1>2, <3>1 DEF Replaces, JobInv
      <3>3. job'[v].of = job[v].of /\ job'[v].row = job[v].row /\ job'[v].pos = job[v].pos
        BY <3>2 DEF Job
      <3> QED
        BY <3>3 DEF JobAttempt
    <2> QED
      BY <2>1, <2>2, KnownStays
  <1>3. ASSUME NEW e \in Enrollment, RowStep(e)
        PROVE  KnownInv'
    <2>1. /\ UNCHANGED <<attempt, job, answer, mail>>
          /\ row' = [row EXCEPT ![e] = row'[e]] /\ raced' = [raced EXCEPT ![e] = raced'[e]]
          /\ row'[e].run \in 1 .. MaxRuns /\ row'[e].run >= row[e].run
          /\ ~raced'[e] => ~raced[e] \/ row'[e].run > row[e].run
      BY <1>3 DEF RowStep, workerVars
    <2>2. \A v \in Worker, a \in Attempt : Owes(v, a) => Owes(v, a)'
      BY <2>1 DEF Owes, JobAttempt
    <2> SUFFICES ASSUME NEW a \in Attempt
                 PROVE  /\ mail'[a] # "none" => a[2] <= row'[a[1]].run
                        /\ ~raced'[a[1]] /\ a[2] = row'[a[1]].run /\ mail'[a] = "known" =>
                             attempt'[a] = "sent" \/ \E w \in Worker : Owes(w, a)'
      BY DEF KnownInv
    <2>3. /\ mail[a] # "none" => a[2] <= row[a[1]].run
          /\ ~raced[a[1]] /\ a[2] = row[a[1]].run /\ mail[a] = "known" =>
               attempt[a] = "sent" \/ \E w \in Worker : Owes(w, a)
      BY DEF KnownInv
    <2>4. a[1] \in Enrollment /\ a[2] \in Nat /\ row[e].run \in Nat /\ row'[e].run \in Nat
      <3>1. a[1] \in Enrollment /\ a[2] \in 1 .. MaxRuns
        BY AttemptParts
      <3>2. row[e].run \in Nat
        BY RowFields
      <3> QED
        BY <2>1, <3>1, <3>2, Bounds
    <2>5. CASE a[1] # e
      <3>1. row'[a[1]] = row[a[1]] /\ raced'[a[1]] = raced[a[1]]
        BY <2>1, <2>4, <2>5 DEF MainType
      <3> QED
        BY <2>1, <2>2, <2>3, <3>1
    <2>6. CASE a[1] = e
      <3>1. mail'[a] # "none" => a[2] <= row'[a[1]].run
        BY <2>1, <2>3, <2>4, <2>6
      <3>2. ASSUME ~raced'[e], a[2] = row'[e].run, mail'[a] = "known"
            PROVE  ~raced[e] /\ a[2] = row[e].run
        <4>1. a[2] <= row[e].run
          BY <2>1, <2>3, <2>6, <3>2
        <4> QED
          BY <2>1, <2>4, <3>2, <4>1
      <3> QED
        BY <2>1, <2>2, <2>3, <2>6, <3>1, <3>2
    <2> QED
      BY <2>5, <2>6
  <1>4. ASSUME NEW w \in Worker, NEW e \in Enrollment, Pick(w, e)
        PROVE  KnownInv'
    <2>1. /\ UNCHANGED <<row, attempt, answer, mail, raced>> /\ pc[w] = "idle"
          /\ \A v \in Worker \ {w} : job'[v] = job[v]
      BY <1>4, PickParts DEF MainType
    <2>2. ASSUME NEW v \in Worker, answer[v] = "ok"
          PROVE  JobAttempt(v)' = JobAttempt(v)
      <3>1. v # w
        BY <1>a, <2>1, <2>2
      <3> QED
        BY <2>1, <3>1 DEF JobAttempt
    <2> QED
      BY <2>1, <2>2, KnownStays
  <1>5. ASSUME NEW w \in Worker, ClaimDeliveryAttempt(w)
        PROVE  KnownInv'
    <2>1. PICK e \in Enrollment : e = job[w].of
      BY <1>5, JobFields DEF ClaimDeliveryAttempt
    <2>2. /\ row' = [row EXCEPT ![e] = row'[e]] /\ row'[e].run = row[e].run
          /\ attempt[JobAttempt(w)] # "sent"
          /\ attempt' = [attempt EXCEPT ![JobAttempt(w)] = "sending"]
          /\ UNCHANGED <<job, answer, mail, raced>>
      BY <1>5, <2>1, ClaimParts
    <2>3. \A d \in Enrollment : row'[d].run = row[d].run
      BY <2>2 DEF MainType
    <2>4. \A a \in Attempt : attempt[a] = "sent" => attempt'[a] = "sent"
      BY <2>2 DEF MainType
    <2>5. \A v \in Worker, a \in Attempt : Owes(v, a) => Owes(v, a)'
      BY <2>2 DEF Owes, JobAttempt
    <2>6. \A a \in Attempt : row'[a[1]].run = row[a[1]].run
      BY <2>3, AttemptParts
    <2> QED
      BY <2>2, <2>4, <2>5, <2>6 DEF KnownInv
  <1>6. ASSUME NEW w \in Worker, Calls(w)
        PROVE  KnownInv'
    <2>1. PICK e \in Enrollment : e = job[w].of
      BY <1>6, JobFields DEF Calls
    <2>2. /\ UNCHANGED <<row, attempt, raced>> /\ pc[w] \in {"claimed", "calling"}
          /\ JobAttempt(w) \in Attempt /\ JobAttempt(w)[1] = e
          /\ JobAttempt(w)[2] = job[w].row.run
          /\ \A v \in Worker \ {w} : job'[v] = job[v] /\ answer'[v] = answer[v]
      BY <1>6, <2>1, JobFields DEF Calls, MainType, JobAttempt
    <2>3. JobAttempt(w)' = JobAttempt(w)
      <3>1. job'[w].of = e /\ job'[w].pos = job[w].pos /\ job'[w].row.run = job[w].row.run
        BY <1>6, <2>1, CallParts
      <3> QED
        BY <2>1, <3>1 DEF JobAttempt
    <2>4. answer[w] # "ok"
      BY <1>a, <2>2
    <2>5. \A v \in Worker : answer[v] = "ok" => answer'[v] = "ok" /\ JobAttempt(v)' = JobAttempt(v)
      BY <2>2, <2>4 DEF JobAttempt
    <2>6. CASE UNCHANGED mail
      BY <2>2, <2>5, <2>6, KnownStays
    <2>7. JobAttempt(w)[2] <= row[JobAttempt(w)[1]].run
      BY <2>1, <2>2 DEF JobInv
    <2>8. CASE /\ answer'[w] = "error"
               /\ mail' = [mail EXCEPT ![JobAttempt(w)] = IF @ = "none" THEN "accepted" ELSE @]
      <3>1. /\ \A a \in Attempt \ {JobAttempt(w)} : mail'[a] = mail[a]
            /\ mail'[JobAttempt(w)] = "known" => mail[JobAttempt(w)] = "known"
        BY <2>2, <2>8 DEF MainType
      <3>2. \A v \in Worker, a \in Attempt : Owes(v, a) => Owes(v, a)'
        BY <2>5 DEF Owes
      <3> QED
        BY <2>2, <2>7, <3>1, <3>2 DEF KnownInv
    <2>9. CASE answer'[w] = "ok" /\ mail' = [mail EXCEPT ![JobAttempt(w)] = "known"]
      <3>1. \A a \in Attempt \ {JobAttempt(w)} : mail'[a] = mail[a]
        BY <2>2, <2>9 DEF MainType
      <3>2. \A v \in Worker, a \in Attempt : Owes(v, a) => Owes(v, a)'
        BY <2>5 DEF Owes
      <3>3. Owes(w, JobAttempt(w))'
        BY <2>3, <2>9 DEF Owes
      <3>4. ASSUME NEW a \in Attempt
            PROVE  /\ mail'[a] # "none" => a[2] <= row'[a[1]].run
                   /\ ~raced'[a[1]] /\ a[2] = row'[a[1]].run /\ mail'[a] = "known" =>
                        attempt'[a] = "sent" \/ \E v \in Worker : Owes(v, a)'
        <4>1. CASE a # JobAttempt(w)
          BY <2>2, <3>1, <3>2, <4>1 DEF KnownInv
        <4>2. CASE a = JobAttempt(w)
          <5>1. Owes(w, a)'
            BY <2>3, <3>3, <4>2 DEF Owes
          <5> QED
            BY <2>2, <2>7, <4>2, <5>1
        <4> QED
          BY <4>1, <4>2
      <3> QED
        BY <3>4 DEF KnownInv
    <2> QED
      BY <1>6, <2>6, <2>8, <2>9 DEF Calls
  <1>7. ASSUME NEW w \in Worker, LogUsage(w)
        PROVE  KnownInv'
    <2>1. UNCHANGED <<row, attempt, raced, job, answer, mail>>
      BY <1>7, LogParts
    <2>2. \A v \in Worker : JobAttempt(v)' = JobAttempt(v)
      BY <2>1 DEF JobAttempt
    <2> QED
      BY <2>1, <2>2, KnownStays
  <1>8. ASSUME NEW w \in Worker, Ends(w)
        PROVE  KnownInv'
    <2>1. PICK e \in Enrollment : e = job[w].of
      BY <1>8, JobFields DEF Ends
    <2> DEFINE own == JobAttempt(w)
    <2>2. /\ pc[w] # "idle" /\ job' = [job EXCEPT ![w] = NoJob]
          /\ answer' = [answer EXCEPT ![w] = "none"] /\ raced' = raced
          /\ row' = [row EXCEPT ![e] = row'[e]] /\ row'[e].run = row[e].run
          /\ own \in Attempt /\ own[1] = e
      BY <1>8, <2>1, EndParts
    <2>3. \A a \in Attempt : row'[a[1]].run = row[a[1]].run
      BY <2>2, AttemptParts DEF MainType
    <2>4. ASSUME NEW v \in Worker \ {w}, NEW a \in Attempt, Owes(v, a)
          PROVE  Owes(v, a)'
      BY <2>2, <2>4 DEF Owes, JobAttempt, MainType
    \* What happens to the email and the record.
    <2>5. /\ \A a \in Attempt \ {own} : mail'[a] = mail[a] /\ attempt'[a] = attempt[a]
          /\ mail'[own] # "none" => mail[own] # "none" \/ answer[w] = "ok"
          /\ mail'[own] = "known" => mail[own] = "known"
          /\ mail'[own] = "known" =>
               \/ answer[w] # "ok" /\ attempt'[own] = attempt[own]
               \/ pc[w] = "answered" /\ answer[w] = "error"
               \/ attempt'[own] = "sent"
               \/ pc[w] = "counted" /\ job[w].attempt = "sent"
      <3>1. CASE UNCHANGED attempt /\ Lose(w)
        <4>1. mail' = [mail EXCEPT ![own] = IF answer[w] = "ok" THEN "accepted" ELSE mail[own]]
          BY <3>1 DEF Lose
        <4> HIDE DEF own
        <4> QED
          BY <2>2, <3>1, <4>1 DEF MainType
      <3>2. CASE pc[w] = "picked" /\ UNCHANGED <<attempt, mail>>
        <4>1. answer[w] # "ok"
          BY <1>a, <3>2
        <4> QED
          BY <3>2, <4>1
      <3>3. CASE /\ pc[w] = "answered" /\ answer[w] = "error" /\ UNCHANGED mail
                 /\ UNCHANGED attempt \/ attempt' = [attempt EXCEPT ![JobAttempt(w)] = "failed"]
        BY <2>2, <3>3 DEF MainType
      <3>4. CASE /\ pc[w] = "counted" /\ UNCHANGED mail
                 /\ \/ attempt' = [attempt EXCEPT ![JobAttempt(w)] = "sent"]
                    \/ UNCHANGED attempt /\ job[w].attempt = "sent"
        BY <2>2, <3>4 DEF MainType
      <3> QED
        BY <1>8, <3>1, <3>2, <3>3, <3>4 DEF Ends
    \* Nobody else owes what the worker leaves.
    <2>6. ASSUME ~raced[e], pc[w] \in {"answered", "counted"}
          PROVE  /\ attempt[own] = "sending" /\ job[w].attempt = "sending"
                 /\ \A v \in Worker \ {w} : ~Owes(v, own)
      <3>1. Sending(w, e)
        BY <2>1, <2>6 DEF Sending, InFlight
      <3>2. InStep(w, e) /\ \A v \in Worker : Sending(v, e) => v = w
        BY <2>6, <3>1 DEF TurnInv
      <3>3. ASSUME NEW v \in Worker \ {w}, Owes(v, own)
            PROVE  FALSE
        <4>1. job[v].of = e /\ pc[v] \in {"answered", "counted"}
          BY <1>a, <2>1, <3>3 DEF Owes, JobAttempt
        <4> QED
          BY <3>2, <4>1 DEF Sending, InFlight
      <3> QED
        BY <2>6, <3>2, <3>3 DEF InStep
    <2> HIDE DEF own
    <2> SUFFICES ASSUME NEW a \in Attempt
                 PROVE  /\ mail'[a] # "none" => a[2] <= row'[a[1]].run
                        /\ ~raced'[a[1]] /\ a[2] = row'[a[1]].run /\ mail'[a] = "known" =>
                             attempt'[a] = "sent" \/ \E v \in Worker : Owes(v, a)'
      BY DEF KnownInv
    <2>7. /\ mail[a] # "none" => a[2] <= row[a[1]].run
          /\ ~raced[a[1]] /\ a[2] = row[a[1]].run /\ mail[a] = "known" =>
               attempt[a] = "sent" \/ \E v \in Worker : Owes(v, a)
      BY DEF KnownInv
    <2>8. mail'[a] # "none" => a[2] <= row'[a[1]].run
      <3>1. answer[w] = "ok" => mail[own] # "none"
        BY DEF EmailInv, own
      <3> QED
        BY <2>3, <2>5, <2>7, <3>1
    <2>9. ASSUME ~raced[a[1]], a[2] = row[a[1]].run, mail'[a] = "known"
          PROVE  attempt'[a] = "sent" \/ \E v \in Worker : Owes(v, a)'
      <3>1. attempt[a] = "sent" \/ \E v \in Worker : Owes(v, a)
        BY <2>5, <2>7, <2>9
      <3>2. CASE a # own
        <4>1. ~Owes(w, a)
          BY <3>2 DEF Owes, own
        <4> QED
          BY <2>4, <2>5, <3>1, <3>2, <4>1
      <3>3. CASE a = own
        <4>1. ~raced[e]
          BY <2>2, <2>9, <3>3
        <4>2. CASE answer[w] # "ok" /\ attempt'[own] = attempt[own]
          <5>1. ~Owes(w, a)
            BY <4>2 DEF Owes
          <5> QED
            BY <2>4, <3>1, <3>3, <4>2, <5>1
        <4>3. CASE pc[w] = "answered" /\ answer[w] = "error"
          <5>1. ~Owes(w, a)
            BY <4>3 DEF Owes
          <5> QED
            BY <2>6, <3>1, <3>3, <4>1, <4>3, <5>1
        <4>4. CASE attempt'[own] = "sent"
          BY <3>3, <4>4
        <4>5. CASE pc[w] = "counted" /\ job[w].attempt = "sent"
          BY <2>6, <4>1, <4>5
        <4> QED
          BY <2>5, <2>9, <3>3, <4>2, <4>3, <4>4, <4>5
      <3> QED
        BY <3>2, <3>3
    <2> QED
      BY <2>2, <2>3, <2>8, <2>9
  <1> QED
    BY <1>1, <1>2, <1>3, <1>4, <1>5, <1>6, <1>7, <1>8 DEF Kinds

\* The campaigns, the leads and the usage keep their types.
LEMMA SideTypeNext ==
  ASSUME TypeOK, JobInv, [Next]_vars
  PROVE  SideType'
  <1>a. MainType /\ SideType
    BY TypeParts
  <1>b. ASSUME UNCHANGED <<campaign, steps, stage, held, usageVars>>, faults' \in 0 .. MaxFaults
        PROVE  SideType'
    BY <1>a, <1>b DEF SideType, usageVars
  <1>c. faults \in 0 .. MaxFaults
    BY <1>a DEF SideType
  <1>d. used \in Nat /\ replies \in Nat
    BY <1>a DEF SideType
  <1>1. CASE UNCHANGED vars
    BY <1>b, <1>c, <1>1 DEF vars, leadVars
  <1>2. ASSUME NEW c \in Campaign, NEW s \in CampaignStatus, UpdateCampaign(c, s)
        PROVE  SideType'
    <2>1. faults' \in 0 .. MaxFaults
      BY <1>2, <1>c, FaultType DEF UpdateCampaign
    <2> QED
      BY <1>a, <1>2, <2>1 DEF UpdateCampaign, SideType, leadVars, usageVars
  <1>3. ASSUME NEW c \in Campaign, NEW n \in 1 .. MaxSteps, SetCampaignSteps(c, n)
        PROVE  SideType'
    <2>1. faults' \in 0 .. MaxFaults /\ n \in 0 .. MaxSteps
      BY <1>3, <1>c, FaultType, Bounds DEF SetCampaignSteps
    <2> QED
      BY <1>a, <1>3, <2>1 DEF SetCampaignSteps, SideType, leadVars, usageVars
  <1>4. ASSUME NEW e \in Enrollment,
               \/ EnrollLead(e) \/ ReenrollLead(e) \/ Pause(e) \/ Resume(e) \/ Elapse(e)
        PROVE  SideType'
    <2>1. faults' \in 0 .. MaxFaults
      BY <1>4, <1>c, FaultType DEF EnrollLead, ReenrollLead, Pause, Resume, Elapse
    <2>2. UNCHANGED <<campaign, steps, stage, held, usageVars>>
      BY <1>4 DEF EnrollLead, ReenrollLead, Pause, Resume, Elapse, StartRun, leadVars
    <2> QED
      BY <1>b, <2>1, <2>2
  <1>5. ASSUME NEW l \in Lead, LeadChanges(l) \/ ChangeStage(l, "Booked")
        PROVE  SideType'
    <2>1. faults' \in 0 .. MaxFaults
      BY <1>5, <1>c, FaultType DEF LeadChanges, ChangeStage
    <2> QED
      BY <1>a, <1>5, <2>1 DEF LeadChanges, ChangeStage, LeadUnchanged, SideType, usageVars
  <1>6. CASE NewMonth
    BY <1>a, <1>6 DEF NewMonth, SideType, leadVars
  <1>7. ASSUME NEW w \in Worker, NEW e \in Enrollment, Tick(w, e)
        PROVE  SideType'
    <2>1. UNCHANGED <<campaign, steps, stage, held, usageVars, faults>>
      BY <1>7 DEF Tick, PauseWithCampaign, StopEnrollment, CompleteWithoutStep, Postpone,
                  Pick, TickOnly, leadVars
    <2> QED
      BY <1>b, <1>c, <2>1
  <1>8. ASSUME NEW w \in Worker, Work(w) \/ ProviderRefuses(w) \/ WorkerFails(w) \/ Crash(w)
        PROVE  SideType'
    <2>1. CASE RecordSent(w)
      <3>1. PICK e \in Enrollment : e = job[w].of
        BY <1>a, <2>1, JobFields DEF RecordSent
      <3>2. stage' \in [Lead -> {"New Lead", "Contacted", "Booked"}]
        BY <1>a, <2>1 DEF RecordSent, SideType
      <3>3. UNCHANGED <<campaign, steps, held, usageVars, faults>>
        BY <2>1 DEF RecordSent
      <3> QED
        BY <1>a, <3>2, <3>3 DEF SideType, usageVars
    <2>2. CASE LogUsage(w)
      <3>1. /\ UNCHANGED <<campaign, steps, stage, held, replies, manual>>
            /\ used' = used \/ used' = used + 1
            /\ faults' = faults \/ Fault
        BY <2>2 DEF LogUsage, leadVars
      <3>2. used' \in Nat
        BY <1>d, <3>1
      <3>3. faults' \in 0 .. MaxFaults
        BY <1>c, <3>1, FaultType
      <3> QED
        BY <1>a, <3>1, <3>2, <3>3 DEF SideType
    <2>3. CASE ~RecordSent(w) /\ ~LogUsage(w)
      <3>1. UNCHANGED <<campaign, steps, stage, held, usageVars>>
        BY <1>8, <2>3 DEF Work, ClaimDeliveryAttempt, AlreadySent, LoadForCall, ProviderAccepts,
                          ProviderRemembers, ProviderRefuses, RecordFailure, StepRowsGone,
                          WorkerFails, HandleException, Crash, leadVars
      <3>2. faults' = faults \/ Fault
        <4>1. CASE \/ ClaimDeliveryAttempt(w) \/ AlreadySent(w) \/ LoadForCall(w)
                   \/ ProviderRemembers(w) \/ RecordFailure(w) \/ StepRowsGone(w)
          BY <4>1 DEF ClaimDeliveryAttempt, AlreadySent, LoadForCall, ProviderRemembers,
                      RecordFailure, StepRowsGone
        <4>2. CASE ProviderAccepts(w) \/ ProviderRefuses(w) \/ WorkerFails(w) \/ Crash(w)
          BY <4>2 DEF ProviderAccepts, ProviderRefuses, WorkerFails, Crash
        <4> QED
          BY <1>8, <2>3, <4>1, <4>2 DEF Work
      <3> QED
        BY <1>b, <1>c, <3>1, <3>2, FaultType
    <2> QED
      BY <2>1, <2>2, <2>3
  <1>9. CASE CountReply
    <2>1. /\ faults' \in 0 .. MaxFaults /\ used' = used + 1 /\ replies' = replies + 1
          /\ UNCHANGED <<campaign, steps, stage, held, manual>>
      BY <1>9, <1>c, FaultType DEF CountReply, leadVars
    <2>2. used' \in Nat /\ replies' \in Nat
      BY <1>d, <2>1
    <2> QED
      BY <1>a, <2>1, <2>2 DEF SideType
  <1>10. ASSUME NEW t \in Thread,
                \/ \E l \in Lead : RequestEmail(t, l)
                \/ CommitEmail(t) \/ CountEmail(t) \/ GiveUpEmail(t)
         PROVE  SideType'
    <2>1. /\ UNCHANGED <<campaign, steps, held, replies>>
          /\ faults' = faults \/ Fault
          /\ used' = used \/ used' = used + 1
      BY <1>10 DEF RequestEmail, CommitEmail, CountEmail, GiveUpEmail, HandOnly
    <2>2. stage' \in [Lead -> {"New Lead", "Contacted", "Booked"}]
      BY <1>a, <1>10 DEF RequestEmail, CommitEmail, CountEmail, GiveUpEmail, SideType
    <2>3. manual' \in [Thread -> Manual \cup {NoJob}]
      <3>1. PICK m : manual' = [manual EXCEPT ![t] = m] /\ m \in Manual \cup {NoJob}
        <4>1. CASE \E l \in Lead : RequestEmail(t, l)
          <5>1. PICK l \in Lead : RequestEmail(t, l)
            BY <4>1
          <5>2. PICK new \in BOOLEAN : new = (stage[l] = "New Lead")
            OBVIOUS
          <5>3. [lead |-> l, new |-> new, sent |-> FALSE] \in Manual
            BY DEF Manual
          <5> QED
            BY <5>1, <5>2, <5>3 DEF RequestEmail, Hand
        <4>2. CASE CommitEmail(t)
          <5>1. manual[t] \in Manual
            BY <1>a, <4>2 DEF CommitEmail, SideType
          <5>2. [manual[t] EXCEPT !.sent = TRUE] \in Manual
            BY <5>1 DEF Manual
          <5> QED
            BY <4>2, <5>2 DEF CommitEmail, Hand
        <4>3. CASE CountEmail(t) \/ GiveUpEmail(t)
          BY <4>3 DEF CountEmail, GiveUpEmail, Hand
        <4> QED
          BY <1>10, <4>1, <4>2, <4>3
      <3> QED
        BY <1>a, <3>1 DEF SideType
    <2>4. faults' \in 0 .. MaxFaults
      BY <1>c, <2>1, FaultType
    <2>5. used' \in Nat /\ replies' \in Nat
      BY <1>d, <2>1
    <2> QED
      BY <1>a, <2>1, <2>2, <2>3, <2>4, <2>5 DEF SideType
  <1> QED
    BY <1>1, <1>2, <1>3, <1>4, <1>5, <1>6, <1>7, <1>8, <1>9, <1>10 DEF Next

LEMMA CampaignsInit == Init => CampaignsInv
  <1> SUFFICES ASSUME Init PROVE CampaignsInv
    OBVIOUS
  <1> DEFINE none == [status |-> "none", step |-> 0, run |-> 0, next |-> "never"]
  <1>1. /\ row = [e \in Enrollment |-> none] /\ pc = [w \in Worker |-> "idle"]
        /\ used = 0 /\ replies = 0 /\ manual = [t \in Thread |-> NoJob]
        /\ attempt = [a \in Attempt |-> "none"] /\ mail = [a \in Attempt |-> "none"]
        /\ answer = [w \in Worker |-> "none"]
    BY DEF Init
  <1>2. /\ none \in Row /\ none.status = "none" /\ none.run = 0 /\ none.step = 0
        /\ none.next = "never"
    BY Bounds DEF Row, Date
  <1> HIDE DEF none
  <1>3. MainType
    <2>1. row \in [Enrollment -> Row] /\ (\A e \in Enrollment : row[e] = none)
      BY <1>1, <1>2
    <2>2. /\ attempt \in [Attempt -> {"none", "sending", "failed", "sent"}]
          /\ mail \in [Attempt -> {"none", "accepted", "known"}]
          /\ pc \in [Worker -> {"idle", "picked"} \cup InFlight]
      BY <1>1
    <2>3. /\ raced \in [Enrollment -> BOOLEAN] /\ job \in [Worker -> Job \cup {NoJob}]
          /\ answer \in [Worker -> {"none", "ok", "error"}]
      BY DEF Init
    <2> QED
      BY <1>2, <2>1, <2>2, <2>3 DEF MainType
  <1>4. SideType
    <2>1. /\ faults \in 0 .. MaxFaults /\ used \in Nat /\ replies \in Nat
          /\ manual \in [Thread -> Manual \cup {NoJob}]
      <3>1. faults = MaxFaults /\ used = 0 /\ replies = 0 /\ manual = [t \in Thread |-> NoJob]
        BY DEF Init
      <3> QED
        BY <3>1, Bounds
    <2>2. /\ campaign \in [Campaign -> CampaignStatus] /\ steps \in [Campaign -> 0 .. MaxSteps]
          /\ stage \in [Lead -> {"New Lead", "Contacted", "Booked"}]
          /\ held \in [Lead -> BOOLEAN]
      BY DEF Init, CampaignStatus
    <2> QED
      BY <2>1, <2>2 DEF SideType
  <1>5. JobInv /\ PickedInv /\ TurnInv
    BY <1>1 DEF JobInv, PickedInv, TurnInv, Sending, InFlight
  <1>6. StepsSent /\ NeverRan
    BY <1>1, <1>2 DEF StepsSent, NeverRan
  <1>7. EmailInv /\ KnownInv
    BY <1>1 DEF EmailInv, KnownInv, InFlight
  <1>8. UsageInv
    <2>1. Working = {} /\ Asking = {}
      BY <1>1 DEF Working, Asking
    <2>2. Cardinality(Working) = 0 /\ Cardinality(Asking) = 0
      BY <2>1, FS_EmptySet
    <2> QED
      BY <1>1, <2>1, <2>2, UsersFinite, Bounds DEF UsageInv
  <1> QED
    BY <1>3, <1>4, <1>5, <1>6, <1>7, <1>8, TypeParts DEF CampaignsInv

LEMMA CampaignsInductive == CampaignsInv /\ [Next]_vars => CampaignsInv'
  <1> SUFFICES ASSUME CampaignsInv, [Next]_vars PROVE CampaignsInv'
    OBVIOUS
  <1> USE DEF CampaignsInv
  <1>1. MainType /\ SideType /\ Kinds
    BY TypeParts, EveryStep
  <1>2. MainType' /\ SideType'
    BY <1>1, MainTypeNext, SideTypeNext
  <1>3. TypeOK'
    BY <1>2 DEF TypeOK, MainType, SideType
  <1>4. JobInv' /\ PickedInv' /\ NeverRan'
    BY <1>1, JobNext, PickedNext, NeverRanNext
  <1>5. TurnInv' /\ StepsSent'
    BY <1>1, TurnNext, StepsSentNext
  <1>6. EmailInv' /\ KnownInv' /\ UsageInv'
    BY <1>1, EmailNext, KnownNext, UsageNext
  <1> QED
    BY <1>3, <1>4, <1>5, <1>6

LEMMA CampaignsAlways == Spec => []CampaignsInv
  BY CampaignsInit, CampaignsInductive, PTL DEF Spec

-----------------------------------------------------------------------------

\* The provider is never asked without a committed attempt, and what is recorded
\* as sent it accepted.  Where no operator resumed or restarted the enrollment
\* under a send, it is asked again for a step only if every acceptance of it was
\* lost with the process that knew of it: overlapping ticks, retries and stale
\* rows alone do not make it a second time.
THEOREM RepeatsAreLosses == Spec => []RepeatedOnlyWhenLost
  <1>1. CampaignsInv => RepeatedOnlyWhenLost
    <2> SUFFICES ASSUME CampaignsInv PROVE RepeatedOnlyWhenLost
      OBVIOUS
    <2> USE DEF CampaignsInv
    <2>1. ASSUME NEW w \in Worker, pc[w] = "calling", ~raced[job[w].of]
          PROVE  mail[JobAttempt(w)] # "known"
      <3>1. JobAttempt(w) \in Attempt /\ job[w].of \in Enrollment
        BY <2>1, JobFields, TypeParts
      <3>2. Sending(w, job[w].of) /\ InStep(w, job[w].of)
        BY <2>1, <3>1 DEF Sending, InFlight, TurnInv
      <3>3. /\ attempt[JobAttempt(w)] # "sent"
            /\ JobAttempt(w)[1] = job[w].of /\ JobAttempt(w)[2] = row[job[w].of].run
        BY <3>2 DEF InStep, JobAttempt
      <3>4. ASSUME NEW v \in Worker, Owes(v, JobAttempt(w))
            PROVE  FALSE
        <4>1. job[v].of = job[w].of /\ pc[v] \in {"answered", "counted"}
          BY <3>4 DEF Owes, JobAttempt, EmailInv
        <4>2. v = w
          BY <2>1, <3>1, <3>2, <4>1 DEF Sending, InFlight, TurnInv
        <4> QED
          BY <2>1, <4>1, <4>2
      <3> QED
        BY <2>1, <3>1, <3>3, <3>4 DEF KnownInv
    <2>2. \A a \in Attempt :
             /\ mail[a] # "none" => attempt[a] # "none"
             /\ attempt[a] = "sent" => mail[a] # "none"
      BY DEF EmailInv
    <2> QED
      BY <2>1, <2>2 DEF RepeatedOnlyWhenLost
  <1> QED
    BY <1>1, CampaignsAlways, PTL

\* Where no operator restarts an enrollment under a send, one process at a time
\* sends for it, and the steps before the current one were sent in its run.
THEOREM StepsTakeTurns == Spec => []StepsInTurn
  <1>1. CampaignsInv => StepsInTurn
    BY DEF CampaignsInv, TurnInv, StepsSent, StepsInTurn
  <1> QED
    BY <1>1, CampaignsAlways, PTL

\* The monthly limit, read before an email and counted after it, is overrun by at
\* most one email for every process and request thread but one, and by the replies
\* to inbound mail, for which it is not read.
THEOREM LimitHolds == Spec => []LimitOverrun
  <1>1. CampaignsInv => LimitOverrun
    <2> SUFFICES ASSUME CampaignsInv PROVE LimitOverrun
      OBVIOUS
    <2>1. used \in Nat /\ replies \in Nat /\ MonthlyCap \in Nat
      BY Bounds DEF CampaignsInv, TypeOK
    <2>2. used + Cardinality(Working) + Cardinality(Asking)
            <= MonthlyCap + Cardinality(Worker) + Cardinality(Thread) - 1 + replies
      BY DEF CampaignsInv, UsageInv
    <2> QED
      BY <2>1, <2>2, UsersFinite DEF LimitOverrun
  <1> QED
    BY <1>1, CampaignsAlways, PTL

\* What a process records of a send never makes an enrollment active again that
\* was paused, stopped or completed while the send went on.
THEOREM NoRevival == Spec => WorkersDoNotRevive
  <1> DEFINE Keeps == \A e \in Enrollment :
                        pc' # pc /\ row[e].status # "active" => row'[e].status # "active"
  <1>1. CampaignsInv /\ [Next]_vars => [Keeps]_vars
    <2> SUFFICES ASSUME CampaignsInv, [Next]_vars PROVE Keeps
      OBVIOUS
    <2> USE DEF CampaignsInv
    <2>1. MainType /\ Kinds
      BY TypeParts, EveryStep
    <2>2. ASSUME row' = row PROVE Keeps
      BY <2>2
    <2>3. ASSUME NEW d \in Enrollment, row' = [row EXCEPT ![d] = row'[d]],
                 row'[d].status = "active" => row[d].status = "active"
          PROVE  Keeps
      BY <2>1, <2>3 DEF MainType
    <2>4. CASE Outside \/ Replaces
      BY <2>2, <2>4 DEF Outside, Replaces
    <2>5. ASSUME NEW e \in Enrollment, RowStep(e)
          PROVE  Keeps
      BY <2>5 DEF RowStep, workerVars
    <2>6. ASSUME NEW w \in Worker, NEW e \in Enrollment, Pick(w, e)
          PROVE  Keeps
      BY <2>1, <2>2, <2>6, PickParts, TypeParts
    <2>7. ASSUME NEW w \in Worker, ClaimDeliveryAttempt(w) \/ Ends(w)
          PROVE  Keeps
      <3>1. PICK e \in Enrollment : e = job[w].of
        BY <2>1, <2>7, JobFields DEF ClaimDeliveryAttempt, Ends
      <3>2. /\ row' = [row EXCEPT ![e] = row'[e]]
            /\ row'[e].status = "active" => row[e].status = "active"
        BY <2>1, <2>7, <3>1, ClaimParts, EndParts
      <3> QED
        BY <2>3, <3>2
    <2>8. ASSUME NEW w \in Worker, Calls(w) \/ LogUsage(w)
          PROVE  Keeps
      BY <2>1, <2>2, <2>8, LogParts DEF Calls
    <2> QED
      BY <2>1, <2>4, <2>5, <2>6, <2>7, <2>8 DEF Kinds
  <1> QED
    BY <1>1, CampaignsAlways, PTL DEF Spec, WorkersDoNotRevive

=============================================================================
