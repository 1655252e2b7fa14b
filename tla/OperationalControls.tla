------------------------- MODULE OperationalControls -------------------------
(***************************************************************************)
(* The switches of WhatsApp sending: a global and a tenant switch, the      *)
(* workers' switch and the three controls of the pilot, each a row with a   *)
(* version and an audit of every change; the requests that change them,     *)
(* and the senders of the pilot's tenant that read them before they call    *)
(* the provider.                                                            *)
(*                                                                          *)
(* A request carries the versions its operator saw and a correlation id.    *)
(* A pilot request is checked in one transaction and carried out in a       *)
(* second.  A sender reads the controls and calls the provider in one       *)
(* transaction, with the tenant's row and every control row it read locked; *)
(* a row that does not exist cannot be locked.                              *)
(***************************************************************************)
EXTENDS Integers, FiniteSets

CONSTANTS
    Request,    \* correlation ids
    Exec,       \* web requests at work
    Sender,     \* dispatching processes
    None,       \* nothing to do
    TotalCap,   \* messages the pilot may send
    StopFailures, \* failed replies that stop the pilot
    MaxFaults   \* crashes and failed syncs

ASSUME ControlsAssumption ==
    /\ IsFiniteSet(Request) /\ IsFiniteSet(Sender)
    /\ None \notin Request /\ MaxFaults \in Nat
    /\ TotalCap \in Nat \ {0} /\ StopFailures \in Nat \ {0}

Pilot == {"pilot", "stage2", "stage3"}
GlobalControl == {"global", "worker"}
Control == GlobalControl \cup {"tenant"} \cup Pilot
Action == {"reply", "sequence"}

\* The controls that are switched together.
Switched == {{c} : c \in GlobalControl \cup {"tenant", "pilot"}} \cup {{"stage2", "stage3"}}

\* What a request says: the stage it starts from, the values it wants and the
\* versions its operator saw.
Body == [kind : {"set", "stage", "enable"}, from : 0 .. 3,
         to : UNION {[C -> BOOLEAN] : C \in Switched},
         seen : UNION {[C -> 0 .. Cardinality(Request)] : C \in Switched}]

ASSUME NoBodyAssumption == None \notin Body

VARIABLES
    row,        \* the row of a control; version 0 is no row
    audit,      \* the audit rows
    body,       \* what a request asks for
    exec,       \* the request, and the step, of each web request
    suspended,  \* the workers' suspension in Redis
    sender,     \* what each sender is calling the provider for, or a failure
                \* it has still to record
    accepted,   \* committed decisions with an accepted message
    failures,   \* failed or unknown replies since the pilot was started
    faults,     \* faults left
    created,    \* ghost: controls switched for the first time under a call
    overtaken   \* ghost: a sync was lost, repeated or overtaken

ghostVars == <<created, overtaken>>
pilotVars == <<sender, accepted, failures>>
vars == <<row, audit, body, exec, suspended, pilotVars, faults, ghostVars>>

Row == [version : 0 .. Cardinality(Request), enabled : BOOLEAN]

Idle == [request |-> None, step |-> "idle"]

\* Rows, requests and senders keep their types; only the workers' switch is
\* synced, and only pilot requests are checked first.
TypeOK ==
    /\ row \in [Control -> Row]
    /\ audit \subseteq [request : Request, control : Control,
                        version : 1 .. Cardinality(Request), enabled : BOOLEAN]
    /\ body \in [Request -> Body \cup {None}] /\ DOMAIN exec = Exec
    /\ \A r \in Request : body[r] # None => DOMAIN body[r].seen = DOMAIN body[r].to
    /\ \A x \in Exec : exec[x] = Idle \/
         /\ exec[x].request \in Request /\ body[exec[x].request] # None
         /\ exec[x].step \in {"check", "mutate", "sync"}
         /\ exec[x].step = "check" => body[exec[x].request].kind # "set"
         /\ exec[x].step = "sync" => DOMAIN body[exec[x].request].to = {"worker"}
    /\ suspended \in BOOLEAN
    /\ sender \in [Sender -> {"idle", "failing"} \cup Action]
    /\ accepted \in Nat /\ failures \in Nat /\ faults \in 0 .. MaxFaults
    /\ created \subseteq GlobalControl /\ overtaken \in BOOLEAN

Init ==
    /\ row = [c \in Control |-> [version |-> 0, enabled |-> c \notin Pilot]]
    /\ audit = {}
    /\ body = [r \in Request |-> None]
    /\ exec = [x \in Exec |-> Idle]
    /\ suspended = FALSE
    /\ sender = [s \in Sender |-> "idle"]
    /\ accepted = 0 /\ failures = 0 /\ faults = MaxFaults
    /\ created = {} /\ overtaken = FALSE

On(c) == row[c].enabled

Stage == IF On("stage3") THEN 3 ELSE IF On("stage2") THEN 2 ELSE 1

Fault == faults > 0 /\ faults' = faults - 1

-----------------------------------------------------------------------------
(* Requests.                                                                *)

Goes(x, r, step) == exec' = [exec EXCEPT ![x] = [request |-> r, step |-> step]]
Answer(x) == exec' = [exec EXCEPT ![x] = Idle]

\* The control, or the stage, and the versions the operator saw.
Bodies ==
    LET Seen(C) == [c \in C |-> row[c].version]
        Set(c, b) == [kind |-> IF c = "pilot" THEN "enable" ELSE "set",
                      from |-> 0, to |-> [d \in {c} |-> b], seen |-> Seen({c})]
        Move(i, j) == [kind |-> "stage", from |-> i,
                       to |-> [c \in {"stage2", "stage3"} |->
                                 IF c = "stage2" THEN j >= 2 ELSE j >= 3],
                       seen |-> Seen({"stage2", "stage3"})]
    IN  {Set(c, b) : c \in GlobalControl \cup {"tenant", "pilot"}, b \in BOOLEAN}
        \cup {Move(m[1], m[2]) : m \in {<<1, 2>>, <<2, 1>>, <<2, 3>>, <<3, 2>>}}

FirstStep(b) == IF b.kind = "set" THEN "mutate" ELSE "check"

\* A new request, or one whose operator had no answer and sends it again.
Take(x, r) ==
    /\ exec[x] = Idle
    /\ \/ body[r] = None /\ \E b \in Bodies :
            body' = [body EXCEPT ![r] = b] /\ Goes(x, r, FirstStep(b))
       \/ body[r] # None /\ Goes(x, r, FirstStep(body[r])) /\ UNCHANGED body
    /\ UNCHANGED <<row, audit, suspended, pilotVars, faults, ghostVars>>

\* The evidence of the pilot, its approval, consents, templates and sequence,
\* is good or not whenever it is looked at.
Readiness == BOOLEAN

\* The stop thresholds: the failed replies, or any of those that are not
\* modelled (dead letters, escalations, duplicates, the queue's age, Redis).
Tripped(broken) == failures >= StopFailures \/ broken

\* Slip: the stage the operator saw is not compared.
MayProceedAnyStage(b, ready, broken) ==
    IF b.kind = "stage" THEN On("pilot") /\ ready
    ELSE b.to["pilot"] => Stage = 1 /\ ready /\ ~Tripped(broken)

\* A stage is left as the operator saw it, upwards only with good evidence; a
\* start needs the first stage and no threshold reached.
MayProceed(b, ready, broken) ==
    IF b.kind = "stage"
    THEN /\ Stage = b.from
         /\ (b.to["stage3"] \/ (b.to["stage2"] /\ b.from = 1)) => On("pilot") /\ ready
    ELSE b.to["pilot"] => Stage = 1 /\ ready /\ ~Tripped(broken)

CheckPilot(x) ==
    /\ exec[x].step = "check"
    /\ \E ready \in Readiness, broken \in BOOLEAN :
         IF MayProceed(body[exec[x].request], ready, broken)
         THEN Goes(x, exec[x].request, "mutate") ELSE Answer(x)
    /\ UNCHANGED <<row, audit, body, suspended, pilotVars, faults, ghostVars>>

Calls == {s \in Sender : sender[s] \in Action}
Failing == {s \in Sender : sender[s] = "failing"}
Calling == Calls # {}

\* Slip: a control of the tenant is switched without the tenant's lock.
LocksFreeOfRow(C) == ~(Calling /\ "global" \in C /\ row["global"].version > 0)

\* The tenant's row, or the row of a global control if there is one: a sender
\* holds them while it calls.
LocksFree(C) ==
    Calling => C \subseteq GlobalControl /\ ("global" \in C => row["global"].version = 0)

VersionsHold(b) == \A c \in DOMAIN b.seen : row[c].version = b.seen[c]

Repeated(r) == \E a \in audit : a.request = r

\* Slip: the workers are suspended and never resumed.
CarriedOff(x, r) ==
    IF "worker" \in DOMAIN body[r].to /\ ~body[r].to["worker"]
    THEN Goes(x, r, "sync") ELSE Answer(x)

\* The workers' switch is synced with what the request asked for, whether it
\* was carried out now or before.
Carried(x, r) ==
    IF "worker" \in DOMAIN body[r].to THEN Goes(x, r, "sync") ELSE Answer(x)

\* Slip: stage 3 is audited and stage 2 is not.
AuditedLast(r, b, next) ==
    {[request |-> r, control |-> c, version |-> next[c].version, enabled |-> b.to[c]] :
       c \in DOMAIN b.to \ {"stage2"}}

Audited(r, b, next) ==
    {[request |-> r, control |-> c, version |-> next[c].version, enabled |-> b.to[c]] :
       c \in DOMAIN b.to}

NextRows(b) ==
    [c \in Control |-> IF c \in DOMAIN b.to
       THEN [version |-> row[c].version + 1, enabled |-> b.to[c]] ELSE row[c]]

\* A start: the failures of messages from before do not count any more.
StartsPilot(b) == "pilot" \in DOMAIN b.to /\ b.to["pilot"]
CountsAnew(b) ==
    /\ failures' = IF StartsPilot(b) THEN 0 ELSE failures
    /\ sender' = IF StartsPilot(b)
         THEN [s \in Sender |-> IF s \in Failing THEN "idle" ELSE sender[s]] ELSE sender

\* Another request's sync of the workers' switch is still to come.
OvertakesSync(x) == \E y \in Exec \ {x} : exec[y].step = "sync"

Mutate(x) ==
    LET r == exec[x].request
        b == body[r]
        C == DOMAIN b.to
    IN
    /\ exec[x].step = "mutate"
    /\ \/ /\ Repeated(r)
          /\ Carried(x, r)
          /\ overtaken' = (overtaken \/ "worker" \in C)
          /\ UNCHANGED <<row, audit, created, sender, failures>>
       \/ /\ ~Repeated(r) /\ LocksFree(C) /\ ~VersionsHold(b)
          /\ Answer(x)
          /\ UNCHANGED <<row, audit, created, overtaken, sender, failures>>
       \/ /\ ~Repeated(r) /\ LocksFree(C) /\ VersionsHold(b)
          /\ row' = NextRows(b)
          /\ audit' = audit \cup Audited(r, b, row')
          /\ CountsAnew(b)
          /\ Carried(x, r)
          /\ created' = IF Calling THEN created \cup (C \cap {"global"}) ELSE created
          /\ overtaken' = (overtaken \/ ("worker" \in C /\ OvertakesSync(x)))
    /\ UNCHANGED <<body, suspended, accepted, faults>>

\* Best effort: the request is answered either way.
SyncWorkers(x) ==
    /\ exec[x].step = "sync"
    /\ suspended' = ~body[exec[x].request].to["worker"]
    /\ Answer(x)
    /\ UNCHANGED <<row, audit, body, pilotVars, faults, ghostVars>>

SyncFails(x) ==
    /\ exec[x].step = "sync"
    /\ Fault
    /\ Answer(x)
    /\ overtaken' = TRUE
    /\ UNCHANGED <<row, audit, body, suspended, pilotVars, created>>

CrashExec(x) ==
    /\ exec[x] # Idle
    /\ Fault
    /\ Answer(x)
    /\ overtaken' = (overtaken \/ exec[x].step = "sync")
    /\ UNCHANGED <<row, audit, body, suspended, pilotVars, created>>

-----------------------------------------------------------------------------
(* Senders of the pilot's tenant.                                           *)

StagePermits(action) == IF action = "sequence" THEN Stage = 3 ELSE Stage >= 2

UnderTotalCap == accepted < TotalCap

\* Evidence, the other thresholds, the operating hours and the policy may stop
\* it as well.
GateOpen(action) ==
    On("global") /\ On("tenant") /\ On("pilot") /\ StagePermits(action) /\ UnderTotalCap
    /\ ~Tripped(FALSE)

\* Slip: a second sender of the tenant does not wait.
TenantFreeNot == TRUE

TenantFree == ~Calling

StartSend(s, action) ==
    /\ sender[s] = "idle" /\ TenantFree
    /\ GateOpen(action)
    /\ sender' = [sender EXCEPT ![s] = action]
    /\ UNCHANGED <<row, audit, body, exec, suspended, accepted, failures, faults, ghostVars>>

Return(s, next) ==
    /\ s \in Calls
    /\ sender' = [sender EXCEPT ![s] = next]
    /\ created' = {}
    /\ UNCHANGED <<row, audit, body, exec, suspended, failures, faults, overtaken>>

Accepted(s) == Return(s, "idle") /\ accepted' = accepted + 1

\* Refused, accepted and recorded as anything else, or its process died.  The
\* transaction and its locks are gone before a reply's failure is recorded; a
\* sequence step has no intent to record it in, a reply may be older than the
\* pilot's start.
NotAccepted(s) ==
    /\ \/ Return(s, "idle")
       \/ sender[s] = "reply" /\ Return(s, "failing")
    /\ UNCHANGED accepted

RecordFailure(s) ==
    /\ s \in Failing
    /\ sender' = [sender EXCEPT ![s] = "idle"]
    /\ failures' = failures + 1
    /\ UNCHANGED <<row, audit, body, exec, suspended, accepted, faults, ghostVars>>

-----------------------------------------------------------------------------
Web(x) ==
    \/ \E r \in Request : Take(x, r)
    \/ CheckPilot(x) \/ Mutate(x) \/ SyncWorkers(x) \/ SyncFails(x) \/ CrashExec(x)

Send(s) ==
    \/ \E action \in Action : StartSend(s, action)
    \/ Accepted(s) \/ NotAccepted(s) \/ RecordFailure(s)

Next == (\E x \in Exec : Web(x)) \/ (\E s \in Sender : Send(s))

Spec == Init /\ [][Next]_vars

-----------------------------------------------------------------------------
\* Each version of a control has exactly one audit row, which says what the
\* control became, and a request is carried out once however often it is sent
\* (mutate and mutate_multiple: "append exactly one audit row").  All rows keep
\* their types.
VersionsAudited ==
    /\ TypeOK
    /\ \A c \in Control, v \in 1 .. Cardinality(Request) :
         Cardinality({a \in audit : a.control = c /\ a.version = v})
           = (IF v <= row[c].version THEN 1 ELSE 0)
    /\ \A a \in audit : a.version = row[a.control].version => a.enabled = row[a.control].enabled
    /\ \A a, b \in audit : a.request = b.request /\ a.control = b.control => a = b

\* The stages are passed one at a time and in order, whatever requests were
\* checked against an earlier stage (transition_stage).
OneStageAtATime ==
    [][/\ Stage' - Stage \in -1 .. 1
       /\ On("stage3")' => On("stage2")']_vars

\* While the provider is called every switch that lets the message go is on:
\* switching one off waits for the call, except the first switch of a control
\* that had no row to lock (enabled_locked with lock).
NoCallWhenOff ==
    \A s \in Calls :
        /\ On("tenant") /\ On("pilot") /\ StagePermits(sender[s])
        /\ On("global") \/ "global" \in created

\* The messages recorded as accepted never pass the pilot's total cap, those
\* of the calls under way included (_accepted_counts_locked); and the failures
\* pass the threshold that stops the pilot by at most the other senders, whose
\* failures are recorded after their locks are gone (_thresholds_locked).
PilotCap ==
    /\ accepted + Cardinality(Calls) <= TotalCap
    /\ failures + Cardinality(Calls \cup Failing) < StopFailures + Cardinality(Sender)

\* Once no sync is under way the workers' suspension agrees with their switch,
\* unless a sync was lost, came again with a repeated request, or was
\* overtaken by a later switch (sync_worker_suspension).
SuspensionFollows ==
    (~overtaken /\ \A x \in Exec : exec[x].step # "sync") => suspended = ~On("worker")

=============================================================================
