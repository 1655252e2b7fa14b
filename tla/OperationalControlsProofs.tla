---------------------- MODULE OperationalControlsProofs ----------------------
(***************************************************************************)
(* Proofs about the controls for any number of requests, web requests at    *)
(* work and senders, and for all caps and thresholds.                       *)
(*                                                                          *)
(* The versions an operator saw carry what the first transaction of a       *)
(* request has checked into its second one: while they hold, nobody has      *)
(* changed those rows since.  The locks of a sender do the same for what it  *)
(* has read, except for a row that is not there.                            *)
(***************************************************************************)
EXTENDS OperationalControls, FiniteSetTheorems, TLAPS

\* What a request may ask for: one switch, or a move to the next stage.
SwitchBody(b) ==
    \E c \in GlobalControl \cup {"tenant", "pilot"} :
        /\ b.kind = IF c = "pilot" THEN "enable" ELSE "set"
        /\ DOMAIN b.to = {c} /\ b.to[c] \in BOOLEAN
StageBody(b) ==
    /\ b.kind = "stage" /\ DOMAIN b.to = {"stage2", "stage3"}
    /\ \E i, j \in 1 .. 3 :
         /\ j - i \in {-1, 1} /\ b.from = i
         /\ b.to["stage2"] = (j >= 2) /\ b.to["stage3"] = (j >= 3)

\* Operators saw versions that were there.
BodyInv ==
    \A r \in Request : body[r] # None =>
        /\ SwitchBody(body[r]) \/ StageBody(body[r])
        /\ DOMAIN body[r].seen = DOMAIN body[r].to
        /\ \A c \in DOMAIN body[r].seen :
             body[r].seen[c] \in Nat /\ body[r].seen[c] <= row[c].version

\* A move that was checked is still a move from the stage it was checked in,
\* as long as the versions hold.
StageInv ==
    /\ On("stage3") => On("stage2")
    /\ \A x \in Exec :
         LET b == body[exec[x].request] IN
         exec[x].step = "mutate" /\ b.kind = "stage" /\ VersionsHold(b) => Stage = b.from

\* The requests that have changed a control.
Changed(c) == {r \in Request : \E a \in audit : a.control = c /\ a.request = r}

\* The audit rows of a control are its versions, one request each.
AuditInv ==
    /\ \A c \in Control : \A v \in 1 .. row[c].version :
         \E a \in audit : a.control = c /\ a.version = v
    /\ \A a \in audit :
         /\ a.version <= row[a.control].version
         /\ a.version = row[a.control].version => a.enabled = row[a.control].enabled
    /\ \A a, b \in audit : a.control = b.control =>
         (a.version = b.version \/ a.request = b.request => a = b)
    /\ \A c \in Control : Cardinality(Changed(c)) = row[c].version

OneCaller == \A s, t \in Calls : s = t

\* Unless a sync was lost or overtaken, the one under way brings what the
\* switch says.
SyncInv ==
    ~overtaken =>
        /\ (\A x \in Exec : exec[x].step # "sync") => suspended = ~On("worker")
        /\ \A x, y \in Exec : exec[x].step = "sync" /\ exec[y].step = "sync" => x = y
        /\ \A x \in Exec : exec[x].step = "sync" =>
             body[exec[x].request].to["worker"] = On("worker")

ControlsInv ==
    TypeOK /\ BodyInv /\ StageInv /\ AuditInv /\ OneCaller /\ NoCallWhenOff /\ PilotCap
    /\ SyncInv

-----------------------------------------------------------------------------
(* Requests.                                                                *)

LEMMA VersionBound == Cardinality(Request) \in Nat
  BY ControlsAssumption, FS_CardinalityType

\* What an operator may ask for, with the versions he sees.
LEMMA BodyShape ==
  ASSUME row \in [Control -> Row], NEW b \in Bodies
  PROVE  /\ b \in Body
         /\ SwitchBody(b) \/ StageBody(b)
         /\ DOMAIN b.seen = DOMAIN b.to
         /\ \A c \in DOMAIN b.seen : b.seen[c] = row[c].version
  <1> USE DEF Control, GlobalControl, Pilot
  <1>a. \A c \in Control : row[c].version \in 0 .. Cardinality(Request)
    BY DEF Row
  <1>1. ASSUME NEW c \in GlobalControl \cup {"tenant", "pilot"}, NEW v \in BOOLEAN,
               b = [kind |-> IF c = "pilot" THEN "enable" ELSE "set", from |-> 0,
                    to |-> [d \in {c} |-> v], seen |-> [d \in {c} |-> row[d].version]]
        PROVE  /\ b \in Body
               /\ SwitchBody(b) \/ StageBody(b)
               /\ DOMAIN b.seen = DOMAIN b.to
               /\ \A d \in DOMAIN b.seen : b.seen[d] = row[d].version
    <2>1. {c} \in Switched
      BY DEF Switched
    <2>2. b.to \in [{c} -> BOOLEAN] /\ b.seen \in [{c} -> 0 .. Cardinality(Request)]
      BY <1>a, <1>1
    <2>3. b \in Body
      BY <1>1, <2>1, <2>2 DEF Body
    <2>4. SwitchBody(b)
      BY <1>1 DEF SwitchBody
    <2> QED
      BY <1>1, <2>3, <2>4
  <1>2. ASSUME NEW i \in 1 .. 3, NEW j \in 1 .. 3, j - i \in {-1, 1},
               b = [kind |-> "stage", from |-> i,
                    to |-> [c \in {"stage2", "stage3"} |->
                              IF c = "stage2" THEN j >= 2 ELSE j >= 3],
                    seen |-> [c \in {"stage2", "stage3"} |-> row[c].version]]
        PROVE  /\ b \in Body
               /\ SwitchBody(b) \/ StageBody(b)
               /\ DOMAIN b.seen = DOMAIN b.to
               /\ \A d \in DOMAIN b.seen : b.seen[d] = row[d].version
    <2>1. {"stage2", "stage3"} \in Switched
      BY DEF Switched
    <2>2. /\ b.to \in [{"stage2", "stage3"} -> BOOLEAN]
          /\ b.seen \in [{"stage2", "stage3"} -> 0 .. Cardinality(Request)]
      BY <1>a, <1>2
    <2>3. b \in Body
      <3>1. b.to \in UNION {[C -> BOOLEAN] : C \in Switched}
        BY <2>1, <2>2
      <3>2. b.seen \in UNION {[C -> 0 .. Cardinality(Request)] : C \in Switched}
        BY <2>1, <2>2
      <3>3. b = [kind |-> "stage", from |-> i, to |-> b.to, seen |-> b.seen]
        BY <1>2
      <3> QED
        BY <3>1, <3>2, <3>3 DEF Body
    <2>4. StageBody(b)
      <3>1. b.to["stage2"] = (j >= 2) /\ b.to["stage3"] = (j >= 3)
        BY <1>2
      <3>2. b.kind = "stage" /\ DOMAIN b.to = {"stage2", "stage3"} /\ b.from = i
        BY <1>2
      <3>3. \E k, l \in 1 .. 3 : /\ l - k \in {-1, 1} /\ b.from = k
                               /\ b.to["stage2"] = (l >= 2) /\ b.to["stage3"] = (l >= 3)
        <4> WITNESS i \in 1 .. 3, j \in 1 .. 3
        <4> QED
          BY <1>2, <3>1, <3>2
      <3> QED
        BY <3>2, <3>3 DEF StageBody
    <2> QED
      BY <1>2, <2>3, <2>4
  <1>3. \/ \E c \in GlobalControl \cup {"tenant", "pilot"}, v \in BOOLEAN :
             b = [kind |-> IF c = "pilot" THEN "enable" ELSE "set", from |-> 0,
                  to |-> [d \in {c} |-> v], seen |-> [d \in {c} |-> row[d].version]]
        \/ \E i, j \in 1 .. 3 : 
             /\ j - i \in {-1, 1}
             /\ b = [kind |-> "stage", from |-> i,
                     to |-> [c \in {"stage2", "stage3"} |->
                               IF c = "stage2" THEN j >= 2 ELSE j >= 3],
                     seen |-> [c \in {"stage2", "stage3"} |-> row[c].version]]
    BY DEF Bodies
  <1> QED
    BY <1>1, <1>2, <1>3

\* What follows from the two shapes.
LEMMA BodyFacts ==
  ASSUME BodyInv, NEW r \in Request, body[r] # None
  PROVE  LET b == body[r]  C == DOMAIN b.to IN
         /\ C \subseteq Control /\ \A c \in C : b.to[c] \in BOOLEAN
         /\ "worker" \in C => C = {"worker"} /\ b.kind = "set"
         /\ "stage2" \in C \/ "stage3" \in C => StageBody(b)
         /\ b.kind = "stage" => StageBody(b)
         /\ b.kind # "stage" => SwitchBody(b)
  <1>1. CASE SwitchBody(body[r])
    BY <1>1 DEF SwitchBody, Control, GlobalControl, Pilot
  <1>2. CASE StageBody(body[r])
    <2>1. \A i, j \in 1 .. 3 : (j >= 2) \in BOOLEAN /\ (j >= 3) \in BOOLEAN
      OBVIOUS
    <2> QED
      BY <1>2, <2>1 DEF StageBody, Control, GlobalControl, Pilot
  <1> QED
    BY <1>1, <1>2 DEF BodyInv

-----------------------------------------------------------------------------
(* The second transaction of a request, when it changes something.          *)

Changes(x) ==
    LET r == exec[x].request
        b == body[r]
        C == DOMAIN b.to
    IN
    /\ exec[x].step = "mutate" /\ ~Repeated(r) /\ LocksFree(C) /\ VersionsHold(b)
    /\ row' = NextRows(b)
    /\ audit' = audit \cup Audited(r, b, row')
    /\ CountsAnew(b) /\ Carried(x, r)
    /\ created' = IF Calling THEN created \cup (C \cap {"global"}) ELSE created
    /\ overtaken' = (overtaken \/ ("worker" \in C /\ OvertakesSync(x)))
    /\ UNCHANGED <<body, suspended, accepted, faults>>

\* And when it does not: it was carried out before, or the rows have moved on.
LeavesRows(x) ==
    /\ exec[x].step = "mutate"
    /\ \/ /\ Carried(x, exec[x].request)
          /\ overtaken' = (overtaken \/ "worker" \in DOMAIN body[exec[x].request].to)
       \/ Answer(x) /\ overtaken' = overtaken
    /\ UNCHANGED <<row, audit, body, suspended, created, sender, accepted, failures, faults>>

LEMMA MutateSplits ==
  ASSUME NEW x \in Exec, Mutate(x)
  PROVE  Changes(x) \/ LeavesRows(x)
  BY DEF Mutate, Changes, LeavesRows

\* A request at work has a body; what it goes on to is within its type.
LEMMA AtWork ==
  ASSUME TypeOK, NEW x \in Exec, exec[x].step # "idle"
  PROVE  /\ exec[x].request \in Request /\ body[exec[x].request] # None
         /\ body[exec[x].request] \in Body
  BY DEF TypeOK, Idle

\* The next version of a control is the number of requests that changed it.
LEMMA NextVersion ==
  ASSUME TypeOK, AuditInv, NEW c \in Control, NEW r \in Request, ~Repeated(r)
  PROVE  /\ row[c].version \in Nat
         /\ row[c].version + 1 <= Cardinality(Request)
         /\ r \notin Changed(c)
         /\ Cardinality(Changed(c) \cup {r}) = row[c].version + 1
  <1>1. r \notin Changed(c)
    BY DEF Repeated, Changed
  <1>2. /\ Changed(c) \in SUBSET Request /\ Changed(c) \cup {r} \in SUBSET Request
        /\ IsFiniteSet(Request)
    BY ControlsAssumption DEF Changed
  <1>3. IsFiniteSet(Changed(c))
    BY <1>2, FS_Subset
  <1>4. Cardinality(Changed(c) \cup {r}) = Cardinality(Changed(c)) + 1
    BY <1>1, <1>3, FS_AddElement
  <1>5. Cardinality(Changed(c) \cup {r}) <= Cardinality(Request)
    BY <1>2, FS_Subset
  <1>6. row[c].version \in Nat
    BY VersionBound DEF TypeOK, Row
  <1> QED
    BY <1>1, <1>4, <1>5, <1>6 DEF AuditInv

\* What changes, one control at a time.
LEMMA ChangedRow ==
  ASSUME TypeOK, BodyInv, AuditInv, NEW x \in Exec, Changes(x), NEW c \in Control
  PROVE  LET r == exec[x].request  b == body[r] IN
         /\ r \in Request /\ b # None /\ DOMAIN b.to \subseteq Control
         /\ c \in DOMAIN b.to =>
              /\ row'[c].version = row[c].version + 1 /\ row'[c].enabled = b.to[c]
              /\ row'[c] \in Row
              /\ row'[c].version \in 1 .. Cardinality(Request) /\ b.to[c] \in BOOLEAN
         /\ c \notin DOMAIN b.to => row'[c] = row[c]
  <1> DEFINE r == exec[x].request
             b == body[r]
  <1>1. r \in Request /\ b # None
    BY AtWork DEF Changes
  <1>2. DOMAIN b.to \subseteq Control /\ \A d \in DOMAIN b.to : b.to[d] \in BOOLEAN
    BY <1>1, BodyFacts
  <1>3. row' = [d \in Control |-> IF d \in DOMAIN b.to
                  THEN [version |-> row[d].version + 1, enabled |-> b.to[d]] ELSE row[d]]
    BY DEF Changes, NextRows
  <1>4. ~Repeated(r)
    BY DEF Changes
  <1>5. row[c].version \in Nat /\ row[c].version + 1 <= Cardinality(Request)
    BY <1>1, <1>4, NextVersion
  <1>6. ASSUME c \in DOMAIN b.to
        PROVE  /\ row'[c].version = row[c].version + 1 /\ row'[c].enabled = b.to[c]
               /\ row'[c] \in Row
               /\ row'[c].version \in 1 .. Cardinality(Request) /\ b.to[c] \in BOOLEAN
    BY <1>2, <1>3, <1>5, <1>6, VersionBound DEF Row
  <1>7. c \notin DOMAIN b.to => row'[c] = row[c]
    BY <1>3
  <1> QED
    BY <1>1, <1>2, <1>6, <1>7

LEMMA ChangedAudit ==
  ASSUME TypeOK, BodyInv, AuditInv, NEW x \in Exec, Changes(x)
  PROVE  LET r == exec[x].request  b == body[r] IN
         /\ \A a \in audit' : a \in audit \/
              /\ a.request = r /\ a.control \in DOMAIN b.to /\ a.control \in Control
              /\ a.version = row'[a.control].version /\ a.enabled = b.to[a.control]
         /\ \A c \in DOMAIN b.to : \E a \in audit' :
              /\ a.request = r /\ a.control = c
              /\ a.version = row'[c].version /\ a.enabled = b.to[c]
         /\ \A a, d \in audit' : a \notin audit /\ d \notin audit /\ a.control = d.control
              => a = d
         /\ audit \subseteq audit'
         /\ audit' \subseteq [request : Request, control : Control,
                              version : 1 .. Cardinality(Request), enabled : BOOLEAN]
  <1> DEFINE r == exec[x].request
             b == body[r]
             New == {[request |-> r, control |-> c, version |-> row'[c].version,
                      enabled |-> b.to[c]] : c \in DOMAIN b.to}
  <1>1. audit' = audit \cup New
    BY DEF Changes, Audited
  <1>2. DOMAIN b.to \subseteq Control /\ r \in Request
    BY AtWork, BodyFacts DEF Changes
  <1>3. New \subseteq [request : Request, control : Control,
                       version : 1 .. Cardinality(Request), enabled : BOOLEAN]
    BY <1>2, ChangedRow
  <1>4. audit \subseteq audit' /\
        audit' \subseteq [request : Request, control : Control,
                         version : 1 .. Cardinality(Request), enabled : BOOLEAN]
    BY <1>1, <1>3 DEF TypeOK
  <1>5. \A c \in DOMAIN b.to :
          [request |-> r, control |-> c, version |-> row'[c].version,
           enabled |-> b.to[c]] \in audit'
    BY <1>1
  <1>6. \A a \in New : \E c \in DOMAIN b.to :
          a = [request |-> r, control |-> c, version |-> row'[c].version,
               enabled |-> b.to[c]]
    OBVIOUS
  <1>7. \A a \in New : /\ a.request = r /\ a.control \in DOMAIN b.to
                       /\ a.control \in Control
                       /\ a.version = row'[a.control].version
                       /\ a.enabled = b.to[a.control]
    BY <1>2, <1>6
  <1>8. \A a, d \in New : a.control = d.control => a = d
    BY <1>6
  <1>9. \A c \in DOMAIN b.to : \E a \in audit' :
          /\ a.request = r /\ a.control = c
          /\ a.version = row'[c].version /\ a.enabled = b.to[c]
    BY <1>5
  <1> QED
    BY <1>1, <1>4, <1>7, <1>8, <1>9

-----------------------------------------------------------------------------
(* Type correctness.                                                        *)

LEMMA FaultType ==
  ASSUME faults \in 0 .. MaxFaults, Fault
  PROVE  faults' \in 0 .. MaxFaults
  BY ControlsAssumption DEF Fault

LEMMA InitType == Init => TypeOK
  <1> SUFFICES ASSUME Init PROVE TypeOK
    OBVIOUS
  <1>1. row \in [Control -> Row]
    BY VersionBound DEF Init, Row
  <1>2. body \in [Request -> Body \cup {None}] /\ \A r \in Request : body[r] = None
    BY DEF Init
  <1>3. DOMAIN exec = Exec /\ \A x \in Exec : exec[x] = Idle
    BY DEF Init
  <1>4. sender \in [Sender -> {"idle", "failing"} \cup Action]
    BY DEF Init
  <1>5. /\ audit = {} /\ suspended = FALSE /\ created = {} /\ overtaken = FALSE
        /\ accepted \in Nat /\ failures \in Nat /\ faults \in 0 .. MaxFaults
    BY ControlsAssumption DEF Init
  <1> QED
    BY <1>1, <1>2, <1>3, <1>4, <1>5 DEF TypeOK

\* The requests at work keep their types where only one of them goes on.
ExecType ==
    /\ DOMAIN exec = Exec
    /\ \A x \in Exec : exec[x] = Idle \/
         /\ exec[x].request \in Request /\ body[exec[x].request] # None
         /\ exec[x].step \in {"check", "mutate", "sync"}
         /\ exec[x].step = "check" => body[exec[x].request].kind # "set"
         /\ exec[x].step = "sync" => DOMAIN body[exec[x].request].to = {"worker"}

LEMMA AnswerType ==
  ASSUME TypeOK, NEW x \in Exec, Answer(x), UNCHANGED body
  PROVE  ExecType'
  BY DEF TypeOK, ExecType, Answer

LEMMA CarriedType ==
  ASSUME TypeOK, BodyInv, NEW x \in Exec, exec[x].step = "mutate",
         Carried(x, exec[x].request), UNCHANGED body
  PROVE  ExecType'
  <1>1. exec[x].request \in Request /\ body[exec[x].request] # None
    BY AtWork
  <1>2. CASE Answer(x)
    BY <1>2, AnswerType
  <1>3. CASE /\ "worker" \in DOMAIN body[exec[x].request].to
             /\ Goes(x, exec[x].request, "sync")
    <2>1. DOMAIN body[exec[x].request].to = {"worker"}
      BY <1>1, <1>3, BodyFacts
    <2> QED
      BY <1>1, <1>3, <2>1 DEF TypeOK, ExecType, Goes
  <1> QED
    BY <1>2, <1>3 DEF Carried

LEMMA TakeType ==
  ASSUME TypeOK, NEW x \in Exec, NEW r \in Request, Take(x, r)
  PROVE  TypeOK'
  <1>1. CASE body[r] = None /\ \E b \in Bodies :
               body' = [body EXCEPT ![r] = b] /\ Goes(x, r, FirstStep(b))
    <2>1. PICK b \in Bodies : body' = [body EXCEPT ![r] = b] /\ Goes(x, r, FirstStep(b))
      BY <1>1
    <2>2. b \in Body /\ b # None /\ DOMAIN b.seen = DOMAIN b.to
      BY BodyShape, NoBodyAssumption DEF TypeOK
    <2>3. ExecType'
      BY <1>1, <2>1, <2>2 DEF TypeOK, ExecType, Goes, FirstStep
    <2>4. /\ body' \in [Request -> Body \cup {None}]
          /\ \A q \in Request : body'[q] # None => DOMAIN body'[q].seen = DOMAIN body'[q].to
      BY <2>1, <2>2 DEF TypeOK
    <2> QED
      BY <2>3, <2>4 DEF Take, TypeOK, ExecType, pilotVars, ghostVars
  <1>2. CASE body[r] # None /\ Goes(x, r, FirstStep(body[r])) /\ UNCHANGED body
    <2>1. ExecType'
      BY <1>2 DEF TypeOK, ExecType, Goes, FirstStep
    <2> QED
      BY <1>2, <2>1 DEF Take, TypeOK, ExecType, pilotVars, ghostVars
  <1> QED
    BY <1>1, <1>2 DEF Take

LEMMA MutateType ==
  ASSUME TypeOK, BodyInv, AuditInv, NEW x \in Exec, Mutate(x)
  PROVE  TypeOK'
  <1>1. CASE LeavesRows(x)
    <2>1. ExecType'
      BY <1>1, AnswerType, CarriedType DEF LeavesRows
    <2> QED
      BY <1>1, <2>1 DEF LeavesRows, TypeOK, ExecType
  <1>2. CASE Changes(x)
    <2>1. ExecType'
      BY <1>2, CarriedType DEF Changes
    <2>2. row' \in [Control -> Row]
      <3>1. \A c \in Control : row'[c] \in Row
        BY <1>2, ChangedRow DEF TypeOK
      <3> QED
        BY <1>2, <3>1 DEF Changes, NextRows
    <2>3. audit' \subseteq [request : Request, control : Control,
                            version : 1 .. Cardinality(Request), enabled : BOOLEAN]
      BY <1>2, ChangedAudit
    <2>4. sender' \in [Sender -> {"idle", "failing"} \cup Action] /\ failures' \in Nat
      BY <1>2 DEF Changes, CountsAnew, TypeOK
    <2>5. created' \subseteq GlobalControl /\ overtaken' \in BOOLEAN
      BY <1>2 DEF Changes, TypeOK, GlobalControl
    <2> QED
      BY <1>2, <2>1, <2>2, <2>3, <2>4, <2>5 DEF Changes, TypeOK, ExecType
  <1> QED
    BY <1>1, <1>2, MutateSplits

LEMMA TypeNext ==
  ASSUME TypeOK, BodyInv, AuditInv, [Next]_vars
  PROVE  TypeOK'
  <1>1. ASSUME NEW x \in Exec, CheckPilot(x)
        PROVE  TypeOK'
    <2>1. ExecType'
      BY <1>1, AtWork DEF TypeOK, ExecType, CheckPilot, Goes, Answer
    <2> QED
      BY <1>1, <2>1 DEF CheckPilot, TypeOK, ExecType, pilotVars, ghostVars
  <1>2. ASSUME NEW x \in Exec, SyncWorkers(x)
        PROVE  TypeOK'
    <2>1. ExecType'
      BY <1>2, AnswerType DEF SyncWorkers
    <2> QED
      BY <1>2, <2>1 DEF SyncWorkers, TypeOK, ExecType, pilotVars, ghostVars
  <1>3. ASSUME NEW x \in Exec, SyncFails(x) \/ CrashExec(x)
        PROVE  TypeOK'
    <2>1. ExecType'
      BY <1>3, AnswerType DEF SyncFails, CrashExec
    <2>2. faults' \in 0 .. MaxFaults
      BY <1>3, FaultType DEF TypeOK, SyncFails, CrashExec
    <2> QED
      BY <1>3, <2>1, <2>2 DEF SyncFails, CrashExec, TypeOK, ExecType, pilotVars
  <1>4. ASSUME NEW s \in Sender, Send(s)
        PROVE  TypeOK'
    BY <1>4 DEF Send, StartSend, Accepted, NotAccepted, RecordFailure, Return, TypeOK, Action,
                ghostVars, pilotVars
  <1>5. CASE UNCHANGED vars
    BY <1>5 DEF TypeOK, vars, pilotVars, ghostVars
  <1> QED
    BY <1>1, <1>2, <1>3, <1>4, <1>5, TakeType, MutateType DEF Next, Web

-----------------------------------------------------------------------------
(* The versions operators saw.                                              *)

\* Versions do not go back.
LEMMA VersionsGrow ==
  ASSUME TypeOK, BodyInv, AuditInv, NEW x \in Exec, Changes(x), NEW c \in Control
  PROVE  row[c].version \in Nat /\ row'[c].version \in Nat
         /\ row[c].version <= row'[c].version
  <1>1. row[c].version \in Nat
    BY VersionBound DEF TypeOK, Row
  <1> QED
    BY <1>1, ChangedRow

LEMMA BodyNext ==
  ASSUME TypeOK, BodyInv, AuditInv, [Next]_vars
  PROVE  BodyInv'
  <1>1. ASSUME UNCHANGED <<body, row>> PROVE BodyInv'
    BY <1>1 DEF BodyInv, SwitchBody, StageBody
  <1>2. ASSUME NEW x \in Exec, NEW r \in Request, Take(x, r)
        PROVE  BodyInv'
    <2>1. CASE UNCHANGED body
      BY <1>1, <1>2, <2>1 DEF Take
    <2>2. CASE body[r] = None /\ \E b \in Bodies : body' = [body EXCEPT ![r] = b]
      <3>1. PICK b \in Bodies : body' = [body EXCEPT ![r] = b]
        BY <2>2
      <3>2. /\ SwitchBody(b) \/ StageBody(b)
            /\ DOMAIN b.seen = DOMAIN b.to
            /\ \A c \in DOMAIN b.seen : b.seen[c] = row[c].version
        BY BodyShape DEF TypeOK
      <3>3. DOMAIN b.to \subseteq Control
        BY <3>2 DEF SwitchBody, StageBody, Control, GlobalControl, Pilot
      <3>4. \A c \in Control : row[c].version \in Nat
        BY VersionBound DEF TypeOK, Row
      <3>5. \A c \in DOMAIN b.seen : b.seen[c] \in Nat /\ b.seen[c] <= row[c].version
        BY <3>2, <3>3, <3>4
      <3>6. row' = row
        BY <1>2 DEF Take
      <3>7. body'[r] = b /\ \A q \in Request : q # r => body'[q] = body[q]
        BY <3>1 DEF TypeOK
      <3> QED
        BY <3>2, <3>5, <3>6, <3>7 DEF BodyInv, SwitchBody, StageBody
    <2> QED
      BY <1>2, <2>1, <2>2 DEF Take
  <1>3. ASSUME NEW x \in Exec, Changes(x)
        PROVE  BodyInv'
    <2>1. body' = body
      BY <1>3 DEF Changes
    <2>2. ASSUME NEW r \in Request, body[r] # None, NEW c \in DOMAIN body[r].seen
          PROVE  body[r].seen[c] \in Nat /\ body[r].seen[c] <= row'[c].version
      <3>1. c \in Control
        BY <2>2, BodyFacts DEF BodyInv
      <3>2. /\ row[c].version \in Nat /\ row'[c].version \in Nat
            /\ row[c].version <= row'[c].version
        BY <1>3, <3>1, VersionsGrow
      <3>3. body[r].seen[c] \in Nat /\ body[r].seen[c] <= row[c].version
        BY <2>2 DEF BodyInv
      <3> QED
        BY <3>2, <3>3
    <2> QED
      BY <2>1, <2>2 DEF BodyInv, SwitchBody, StageBody
  <1>4. ASSUME NEW x \in Exec, Web(x)
        PROVE  BodyInv'
    <2>1. CASE Mutate(x)
      BY <1>1, <1>3, <2>1, MutateSplits DEF LeavesRows
    <2>2. CASE CheckPilot(x) \/ SyncWorkers(x) \/ SyncFails(x) \/ CrashExec(x)
      BY <1>1, <2>2 DEF CheckPilot, SyncWorkers, SyncFails, CrashExec
    <2> QED
      BY <1>2, <1>4, <2>1, <2>2 DEF Web
  <1>5. ASSUME NEW s \in Sender, Send(s)
        PROVE  BodyInv'
    BY <1>1, <1>5 DEF Send, StartSend, Accepted, NotAccepted, RecordFailure, Return
  <1>6. CASE UNCHANGED vars
    BY <1>1, <1>6 DEF vars
  <1> QED
    BY <1>4, <1>5, <1>6 DEF Next

-----------------------------------------------------------------------------
(* The stages.                                                              *)

\* Other requests at work are where they were, or have just been answered.
LEMMA OthersStay ==
  ASSUME TypeOK, NEW x \in Exec, Changes(x) \/ LeavesRows(x)
  PROVE  /\ \A y \in Exec \ {x} : exec'[y] = exec[y]
         /\ exec'[x].step # "mutate"
         /\ DOMAIN exec' = Exec
  BY DEF TypeOK, Changes, LeavesRows, Carried, Goes, Answer, Idle

\* A change that leaves a version leaves the row.
LEMMA SameVersionSameRow ==
  ASSUME TypeOK, BodyInv, AuditInv, NEW x \in Exec, Changes(x), NEW c \in Control,
         row'[c].version <= row[c].version
  PROVE  row'[c] = row[c]
  <1>1. row[c].version \in Nat
    BY VersionBound DEF TypeOK, Row
  <1> QED
    BY <1>1, ChangedRow

LEMMA StageRange == Stage \in 1 .. 3
  BY DEF Stage

\* What a change does to the stage: nothing, or one step.
LEMMA StageMoves ==
  ASSUME TypeOK, BodyInv, AuditInv, StageInv, NEW x \in Exec, Changes(x)
  PROVE  /\ Stage' - Stage \in -1 .. 1
         /\ On("stage3")' => On("stage2")'
  <1> DEFINE b == body[exec[x].request]
  <1>1. exec[x].request \in Request /\ b # None
    BY AtWork DEF Changes
  <1>c. {"stage2", "stage3"} \subseteq Control
    BY DEF Control, Pilot
  <1>2. CASE "stage2" \notin DOMAIN b.to /\ "stage3" \notin DOMAIN b.to
    <2>1. row'["stage2"] = row["stage2"] /\ row'["stage3"] = row["stage3"]
      BY <1>c, <1>2, ChangedRow
    <2>2. Stage' = Stage
      BY <2>1 DEF Stage, On
    <2> QED
      BY <2>1, <2>2, StageRange DEF StageInv, On
  <1>3. CASE StageBody(b)
    <2>1. PICK i, j \in 1 .. 3 : /\ j - i \in {-1, 1} /\ b.from = i
                                 /\ b.to["stage2"] = (j >= 2) /\ b.to["stage3"] = (j >= 3)
      BY <1>3 DEF StageBody
    <2>2. b.kind = "stage" /\ DOMAIN b.to = {"stage2", "stage3"}
      BY <1>3 DEF StageBody
    <2>3. Stage = i
      <3>1. exec[x].step = "mutate" /\ VersionsHold(b)
        BY DEF Changes
      <3> QED
        BY <2>1, <2>2, <3>1 DEF StageInv
    <2>4. row'["stage2"].enabled = (j >= 2) /\ row'["stage3"].enabled = (j >= 3)
      BY <1>c, <2>1, <2>2, ChangedRow
    <2>5. /\ j = 1 => (j >= 2) = FALSE /\ (j >= 3) = FALSE
          /\ j = 2 => (j >= 2) = TRUE /\ (j >= 3) = FALSE
          /\ j = 3 => (j >= 2) = TRUE /\ (j >= 3) = TRUE
          /\ j = 1 \/ j = 2 \/ j = 3
      OBVIOUS
    <2>6. Stage' = j /\ (On("stage3")' => On("stage2")')
      BY <2>4, <2>5, Zenon DEF Stage, On
    <2> QED
      BY <2>1, <2>3, <2>6
  <1> QED
    BY <1>1, <1>2, <1>3, BodyFacts

LEMMA StageNext ==
  ASSUME TypeOK, BodyInv, AuditInv, StageInv, [Next]_vars
  PROVE  StageInv'
  <1> DEFINE Checked(x) ==
        LET b == body[exec[x].request] IN
        exec[x].step = "mutate" /\ b.kind = "stage" /\ VersionsHold(b) => Stage = b.from
  <1>a. \A x \in Exec : Checked(x)
    BY DEF StageInv
  <1>b. ASSUME row' = row, NEW x \in Exec, exec'[x] = exec[x],
               body'[exec[x].request] = body[exec[x].request]
        PROVE  Checked(x)'
    BY <1>a, <1>b DEF VersionsHold, Stage, On
  <1>c. ASSUME NEW x \in Exec, exec'[x].step # "mutate"
        PROVE  Checked(x)'
    BY <1>c
  <1>d. ASSUME row' = row, \A x \in Exec : Checked(x)'
        PROVE  StageInv'
    BY <1>d DEF StageInv, On
  <1>1. ASSUME NEW x \in Exec, NEW r \in Request, Take(x, r)
        PROVE  StageInv'
    <2>1. row' = row /\ DOMAIN exec' = Exec /\ \A y \in Exec \ {x} : exec'[y] = exec[y]
      BY <1>1 DEF Take, Goes, TypeOK
    <2>2. \A y \in Exec \ {x} : exec[y].step = "mutate" => 
            body'[exec[y].request] = body[exec[y].request]
      <3> SUFFICES ASSUME NEW y \in Exec \ {x}, exec[y].step = "mutate"
                   PROVE  body'[exec[y].request] = body[exec[y].request]
        OBVIOUS
      <3>1. exec[y].request \in Request /\ body[exec[y].request] # None
        BY AtWork
      <3> QED
        BY <1>1, <3>1 DEF Take, TypeOK
    <2>3. Checked(x)'
      <3>1. exec'[x].request = r /\ exec'[x].step = FirstStep(body'[r])
        BY <1>1 DEF Take, Goes, TypeOK
      <3> QED
        BY <3>1 DEF FirstStep
    <2>4. \A y \in Exec \ {x} : Checked(y)'
      BY <1>b, <1>c, <2>1, <2>2
    <2> QED
      BY <1>d, <2>1, <2>3, <2>4
  <1>2. ASSUME NEW x \in Exec, CheckPilot(x)
        PROVE  StageInv'
    <2>1. /\ row' = row /\ body' = body /\ DOMAIN exec' = Exec
          /\ \A y \in Exec \ {x} : exec'[y] = exec[y]
      BY <1>2 DEF CheckPilot, Goes, Answer, TypeOK
    <2>2. Checked(x)'
      <3>1. CASE Answer(x)
        BY <1>c, <3>1 DEF Answer, TypeOK, Idle
      <3>2. CASE /\ Goes(x, exec[x].request, "mutate")
                 /\ \E ready \in Readiness, broken \in BOOLEAN :
                      MayProceed(body[exec[x].request], ready, broken)
        <4>1. body[exec[x].request].kind = "stage" => Stage = body[exec[x].request].from
          BY <3>2 DEF MayProceed
        <4>2. exec'[x].request = exec[x].request
          BY <3>2 DEF Goes, TypeOK
        <4> QED
          BY <2>1, <4>1, <4>2 DEF Stage, On
      <3> QED
        BY <1>2, <3>1, <3>2 DEF CheckPilot
    <2>3. \A y \in Exec \ {x} : Checked(y)'
      BY <1>b, <2>1
    <2> QED
      BY <1>d, <2>1, <2>2, <2>3
  <1>3. ASSUME NEW x \in Exec, LeavesRows(x)
        PROVE  StageInv'
    <2>1. row' = row /\ body' = body
      BY <1>3 DEF LeavesRows
    <2>2. (\A y \in Exec \ {x} : exec'[y] = exec[y]) /\ exec'[x].step # "mutate"
      BY <1>3, OthersStay
    <2>3. \A y \in Exec : Checked(y)'
      BY <1>b, <1>c, <2>1, <2>2
    <2> QED
      BY <1>d, <2>1, <2>3
  <1>4. ASSUME NEW x \in Exec, Changes(x)
        PROVE  StageInv'
    <2>1. body' = body
      BY <1>4 DEF Changes
    <2>2. (\A y \in Exec \ {x} : exec'[y] = exec[y]) /\ exec'[x].step # "mutate"
      BY <1>4, OthersStay
    <2>3. ASSUME NEW y \in Exec \ {x}, exec[y].step = "mutate",
                 body[exec[y].request].kind = "stage",
                 VersionsHold(body[exec[y].request])'
          PROVE  Stage' = body[exec[y].request].from
      <3> DEFINE b == body[exec[y].request]
      <3>1. exec[y].request \in Request /\ b # None
        BY <2>3, AtWork
      <3>2. /\ DOMAIN b.seen = {"stage2", "stage3"} /\ {"stage2", "stage3"} \subseteq Control
            /\ \A c \in {"stage2", "stage3"} : b.seen[c] <= row[c].version
        BY <2>3, <3>1, BodyFacts DEF BodyInv, StageBody, Control, Pilot
      <3>3. exec'[y] = exec[y]
        BY <2>2
      <3>4. \A c \in {"stage2", "stage3"} : row'[c].version = b.seen[c]
        BY <2>1, <2>3, <3>2, <3>3 DEF VersionsHold
      <3>5. \A c \in {"stage2", "stage3"} : row'[c] = row[c]
        BY <1>4, <3>2, <3>4, SameVersionSameRow
      <3>6. VersionsHold(b)
        BY <3>2, <3>4, <3>5 DEF VersionsHold
      <3>7. Stage = b.from
        BY <2>3, <3>6 DEF StageInv
      <3>8. Stage' = Stage
        BY <3>5 DEF Stage, On
      <3> QED
        BY <3>7, <3>8
    <2>4. \A y \in Exec : Checked(y)'
      <3>1. \A y \in Exec \ {x} : Checked(y)'
        BY <2>1, <2>2, <2>3
      <3> QED
        BY <1>c, <2>2, <3>1
    <2>5. On("stage3")' => On("stage2")'
      BY <1>4, StageMoves
    <2> QED
      BY <2>4, <2>5 DEF StageInv
  <1>5. ASSUME NEW x \in Exec, SyncWorkers(x) \/ SyncFails(x) \/ CrashExec(x)
        PROVE  StageInv'
    <2>1. row' = row /\ body' = body
      BY <1>5 DEF SyncWorkers, SyncFails, CrashExec
    <2>2. (\A y \in Exec \ {x} : exec'[y] = exec[y]) /\ exec'[x].step # "mutate"
      BY <1>5 DEF SyncWorkers, SyncFails, CrashExec, Answer, Idle, TypeOK
    <2>3. \A y \in Exec : Checked(y)'
      BY <1>b, <1>c, <2>1, <2>2
    <2> QED
      BY <1>d, <2>1, <2>3
  <1>6. ASSUME row' = row, body' = body, exec' = exec
        PROVE  StageInv'
    BY <1>b, <1>d, <1>6
  <1>7. ASSUME NEW s \in Sender, Send(s)
        PROVE  StageInv'
    BY <1>6, <1>7 DEF Send, StartSend, Accepted, NotAccepted, RecordFailure, Return
  <1>8. CASE UNCHANGED vars
    BY <1>6, <1>8 DEF vars
  <1>9. ASSUME NEW x \in Exec, Web(x)
        PROVE  StageInv'
    BY <1>1, <1>2, <1>3, <1>4, <1>5, <1>9, MutateSplits DEF Web
  <1> QED
    BY <1>7, <1>8, <1>9 DEF Next

-----------------------------------------------------------------------------
(* The audit.                                                               *)

LEMMA AuditChange ==
  ASSUME TypeOK, BodyInv, AuditInv, NEW x \in Exec, Changes(x)
  PROVE  AuditInv'
  <1> DEFINE r == exec[x].request
             C == DOMAIN body[r].to
  <1>1. r \in Request /\ ~Repeated(r) /\ C \subseteq Control
    BY AtWork, BodyFacts DEF Changes
  <1>2. \A c \in Control : row[c].version \in Nat
    BY VersionBound DEF TypeOK, Row
  <1>3. \A c \in Control : IF c \in C THEN row'[c].version = row[c].version + 1
                                           /\ row'[c].enabled = body[r].to[c]
                                      ELSE row'[c] = row[c]
    BY ChangedRow
  <1>4. \A a \in audit : a.control \in Control /\ a.version \in Nat /\ a.request # r
                         /\ a.version <= row[a.control].version
    BY <1>1, VersionBound DEF TypeOK, Repeated, AuditInv
  <1>5. \A a \in audit' : a \in audit \/
          /\ a.request = r /\ a.control \in C /\ a.control \in Control
          /\ a.version = row'[a.control].version /\ a.enabled = body[r].to[a.control]
    BY ChangedAudit
  <1>6. \A c \in C : \E a \in audit' : a.request = r /\ a.control = c
                                       /\ a.version = row'[c].version
    BY ChangedAudit
  <1>7. /\ audit \subseteq audit'
        /\ \A a, d \in audit' : a \notin audit /\ d \notin audit /\ a.control = d.control
             => a = d
    BY ChangedAudit
  <1>8. \A c \in Control : \A v \in 1 .. row'[c].version :
          \E a \in audit' : a.control = c /\ a.version = v
    <2> SUFFICES ASSUME NEW c \in Control, NEW v \in 1 .. row'[c].version
                 PROVE  \E a \in audit' : a.control = c /\ a.version = v
      OBVIOUS
    <2>1. v \in 1 .. row[c].version \/ (c \in C /\ v = row'[c].version)
      BY <1>2, <1>3
    <2>2. CASE v \in 1 .. row[c].version
      <3>1. \E a \in audit : a.control = c /\ a.version = v
        BY <2>2 DEF AuditInv
      <3> QED
        BY <1>7, <3>1
    <2>3. CASE c \in C /\ v = row'[c].version
      BY <1>6, <2>3
    <2> QED
      BY <2>1, <2>2, <2>3
  <1>9. \A a \in audit' :
          /\ a.version <= row'[a.control].version
          /\ a.version = row'[a.control].version => a.enabled = row'[a.control].enabled
    <2> SUFFICES ASSUME NEW a \in audit'
                 PROVE  /\ a.version <= row'[a.control].version
                        /\ a.version = row'[a.control].version
                             => a.enabled = row'[a.control].enabled
      OBVIOUS
    <2>1. CASE a \in audit
      <3>1. a.version = row[a.control].version => a.enabled = row[a.control].enabled
        BY <2>1 DEF AuditInv
      <3>2. a.control \in Control /\ a.version \in Nat /\ a.version <= row[a.control].version
        BY <1>4, <2>1
      <3>3. CASE a.control \in C
        <4>1. row'[a.control].version = row[a.control].version + 1
          BY <1>3, <3>2, <3>3
        <4> QED
          BY <1>2, <3>2, <4>1
      <3>4. CASE a.control \notin C
        <4>1. row'[a.control] = row[a.control]
          BY <1>3, <3>2, <3>4
        <4> QED
          BY <3>1, <3>2, <4>1
      <3> QED
        BY <3>3, <3>4
    <2>2. CASE a \notin audit
      <3>1. /\ a.control \in C /\ a.control \in Control
            /\ a.version = row'[a.control].version /\ a.enabled = body[r].to[a.control]
        BY <1>5, <2>2
      <3>2. /\ row'[a.control].version = row[a.control].version + 1
            /\ row'[a.control].enabled = body[r].to[a.control]
        BY <1>3, <3>1
      <3> QED
        BY <1>2, <3>1, <3>2
    <2> QED
      BY <2>1, <2>2
  <1>10. \A a, d \in audit' : a.control = d.control =>
           (a.version = d.version \/ a.request = d.request => a = d)
    <2>1. ASSUME NEW a \in audit, NEW d \in audit', d \notin audit, a.control = d.control
          PROVE  a.version # d.version /\ a.request # d.request
      <3>1. /\ d.request = r /\ d.control \in C /\ d.control \in Control
            /\ d.version = row'[d.control].version
        BY <1>5, <2>1
      <3>2. row'[d.control].version = row[d.control].version + 1
        BY <1>3, <3>1
      <3>3. a.version \in Nat /\ a.version <= row[d.control].version /\ a.request # r
        BY <1>4, <2>1
      <3> QED
        BY <1>2, <3>1, <3>2, <3>3
    <2>2. \A a, d \in audit : a.control = d.control =>
            (a.version = d.version \/ a.request = d.request => a = d)
      BY DEF AuditInv
    <2> QED
      BY <1>7, <2>1, <2>2
  <1>11. ASSUME NEW c \in Control
         PROVE  Cardinality(Changed(c)') = row'[c].version
    <2>1. CASE c \in C
      <3>1. Changed(c)' = Changed(c) \cup {r}
        BY <1>1, <1>5, <1>6, <1>7, <2>1 DEF Changed
      <3>2. Cardinality(Changed(c) \cup {r}) = row[c].version + 1
        BY <1>1, NextVersion
      <3>3. row'[c].version = row[c].version + 1
        BY <1>3, <2>1
      <3> QED
        BY <3>1, <3>2, <3>3
    <2>2. CASE c \notin C
      <3>1. Changed(c)' = Changed(c)
        BY <1>5, <1>7, <2>2 DEF Changed
      <3>2. Cardinality(Changed(c)) = row[c].version
        BY DEF AuditInv
      <3> QED
        BY <1>3, <2>2, <3>1, <3>2
    <2> QED
      BY <2>1, <2>2
  <1> QED
    BY <1>8, <1>9, <1>10, <1>11 DEF AuditInv

\* The other steps leave the rows and the audit.
LEMMA RowsStay ==
  ASSUME [Next]_vars
  PROVE  (\E x \in Exec : Changes(x)) \/ UNCHANGED <<row, audit>>
  <1>1. ASSUME NEW x \in Exec, Web(x)
        PROVE  Changes(x) \/ UNCHANGED <<row, audit>>
    BY <1>1, MutateSplits DEF Web, Take, CheckPilot, LeavesRows, SyncWorkers, SyncFails,
                              CrashExec
  <1>2. ASSUME NEW s \in Sender, Send(s)
        PROVE  UNCHANGED <<row, audit>>
    BY <1>2 DEF Send, StartSend, Accepted, NotAccepted, RecordFailure, Return
  <1> QED
    BY <1>1, <1>2 DEF Next, vars

LEMMA AuditNext ==
  ASSUME TypeOK, BodyInv, AuditInv, [Next]_vars
  PROVE  AuditInv'
  <1>1. CASE UNCHANGED <<row, audit>>
    BY <1>1 DEF AuditInv, Changed
  <1> QED
    BY <1>1, AuditChange, RowsStay

-----------------------------------------------------------------------------
(* The senders.                                                             *)

\* No request takes a call away, or begins one.
LEMMA WebKeepsCalls ==
  ASSUME TypeOK, NEW x \in Exec, Web(x)
  PROVE  /\ Calls' = Calls /\ \A s \in Calls : sender'[s] = sender[s]
         /\ accepted' = accepted
         /\ \/ Failing' = Failing /\ failures' = failures
            \/ failures' = 0
  <1>1. CASE UNCHANGED pilotVars
    BY <1>1 DEF pilotVars, Calls, Failing
  <1>2. CASE Changes(x)
    <2>1. CASE StartsPilot(body[exec[x].request])
      BY <1>2, <2>1 DEF Changes, CountsAnew, Calls, Failing, Action, TypeOK
    <2>2. CASE ~StartsPilot(body[exec[x].request])
      BY <1>2, <2>2 DEF Changes, CountsAnew, Calls, Failing
    <2> QED
      BY <2>1, <2>2
  <1>3. CASE LeavesRows(x)
    BY <1>3 DEF LeavesRows, Calls, Failing
  <1> QED
    BY <1>1, <1>2, <1>3, MutateSplits DEF Web, Take, CheckPilot, SyncWorkers, SyncFails, CrashExec

\* A sender begins only when no other calls, and ends the only call.
LEMMA SendMovesCalls ==
  ASSUME TypeOK, OneCaller, NEW s \in Sender, Send(s)
  PROVE  \/ Calls = {} /\ Calls' = {s} /\ sender'[s] \in Action /\ GateOpen(sender'[s])
            /\ UNCHANGED <<row, accepted, failures, created>>
         \/ Calls = {s} /\ Calls' = {} /\ accepted' \in {accepted, accepted + 1}
            /\ Failing' \subseteq Failing \cup {s} /\ UNCHANGED <<row, failures>>
         \/ Calls' = Calls /\ s \in Failing /\ Failing' = Failing \ {s}
            /\ failures' = failures + 1 /\ UNCHANGED <<row, accepted, created>>
            /\ \A t \in Calls : sender'[t] = sender[t]
  <1>1. ASSUME NEW action \in Action, StartSend(s, action)
        PROVE  /\ Calls = {} /\ Calls' = {s} /\ sender'[s] \in Action /\ GateOpen(sender'[s])
               /\ UNCHANGED <<row, accepted, failures, created>>
    <2>1. sender'[s] = action /\ \A t \in Sender \ {s} : sender'[t] = sender[t]
      BY <1>1 DEF StartSend, TypeOK
    <2>2. Calls = {} /\ GateOpen(action)
      BY <1>1 DEF StartSend, TenantFree, Calling
    <2>3. Calls' = {s}
      BY <2>1, <2>2 DEF Calls
    <2> QED
      BY <1>1, <2>1, <2>2, <2>3 DEF StartSend, ghostVars
  <1>2. ASSUME NEW next \in {"idle", "failing"}, Return(s, next)
        PROVE  /\ Calls = {s} /\ Calls' = {} /\ Failing' \subseteq Failing \cup {s}
               /\ UNCHANGED <<row, failures>>
    <2>1. sender'[s] = next /\ \A t \in Sender \ {s} : sender'[t] = sender[t]
      BY <1>2 DEF Return, TypeOK
    <2>2. Calls = {s}
      BY <1>2 DEF Return, OneCaller
    <2>3. Calls' = {}
      BY <2>1, <2>2 DEF Calls, Action
    <2>4. Failing' \subseteq Failing \cup {s}
      BY <2>1 DEF Failing
    <2> QED
      BY <1>2, <2>2, <2>3, <2>4 DEF Return
  <1>3. CASE RecordFailure(s)
    <2>1. sender'[s] = "idle" /\ \A t \in Sender \ {s} : sender'[t] = sender[t]
      BY <1>3 DEF RecordFailure, TypeOK
    <2>2. sender[s] = "failing"
      BY <1>3 DEF RecordFailure, Failing
    <2>3. Calls' = Calls /\ Failing' = Failing \ {s}
      BY <2>1, <2>2 DEF Calls, Failing, Action
    <2>4. \A t \in Calls : sender'[t] = sender[t]
      BY <2>1, <2>2 DEF Calls, Action
    <2> QED
      BY <1>3, <2>3, <2>4 DEF RecordFailure, ghostVars
  <1> QED
    BY <1>1, <1>2, <1>3 DEF Send, Accepted, NotAccepted

LEMMA CallerNext ==
  ASSUME TypeOK, OneCaller, [Next]_vars
  PROVE  OneCaller'
  <1>1. ASSUME NEW x \in Exec, Web(x) PROVE OneCaller'
    BY <1>1, WebKeepsCalls DEF OneCaller
  <1>2. ASSUME NEW s \in Sender, Send(s) PROVE OneCaller'
    BY <1>2, SendMovesCalls DEF OneCaller
  <1>3. CASE UNCHANGED vars
    BY <1>3 DEF vars, pilotVars, OneCaller, Calls
  <1> QED
    BY <1>1, <1>2, <1>3 DEF Next

-----------------------------------------------------------------------------
(* Switches and calls.                                                      *)

\* The switches a message of this action passes, the global one apart.
Lets(action) == On("tenant") /\ On("pilot") /\ StagePermits(action)

LEMMA LocksHoldRows ==
  ASSUME TypeOK, BodyInv, AuditInv, NEW x \in Exec, Changes(x), Calling
  PROVE  /\ \A action \in Action : Lets(action) => Lets(action)'
         /\ On("global") \/ "global" \in created
              => On("global")' \/ "global" \in created'
  <1> DEFINE C == DOMAIN body[exec[x].request].to
  <1>1. C \subseteq GlobalControl
    BY DEF Changes, LocksFree
  <1>2. \A c \in {"tenant", "pilot", "stage2", "stage3"} : row'[c] = row[c]
    BY <1>1, ChangedRow DEF GlobalControl, Control, Pilot
  <1>3. \A action \in Action : Lets(action) => Lets(action)'
    BY <1>2 DEF Lets, On, StagePermits, Stage
  <1>4. CASE "global" \in C
    BY <1>3, <1>4 DEF Changes
  <1>5. CASE "global" \notin C
    <2>1. row'["global"] = row["global"]
      BY <1>5, ChangedRow DEF GlobalControl, Control
    <2>2. created \subseteq created'
      BY DEF Changes
    <2> QED
      BY <1>3, <2>1, <2>2 DEF On
  <1> QED
    BY <1>3, <1>4, <1>5

LEMMA GateNext ==
  ASSUME TypeOK, BodyInv, AuditInv, OneCaller, NoCallWhenOff, [Next]_vars
  PROVE  NoCallWhenOff'
  <1>a. \A s \in Calls : Lets(sender[s]) /\ (On("global") \/ "global" \in created)
    BY DEF NoCallWhenOff, Lets
  <1>b. ASSUME \A s \in Calls' : \A action \in Action : sender'[s] = action =>
                 Lets(action)' /\ (On("global")' \/ "global" \in created')
        PROVE  NoCallWhenOff'
    <2>1. \A s \in Calls' : sender'[s] \in Action
      BY DEF Calls
    <2> QED
      BY <1>b, <2>1 DEF NoCallWhenOff, Lets, On, StagePermits, Stage
  <1>c. ASSUME Calls' = Calls, \A s \in Calls : sender'[s] = sender[s],
               UNCHANGED <<row, created>>
        PROVE  NoCallWhenOff'
    <2>1. \A action : Lets(action)' <=> Lets(action)
      BY <1>c DEF Lets, On, StagePermits, Stage
    <2> QED
      BY <1>a, <1>b, <1>c, <2>1 DEF On
  <1>1. ASSUME NEW x \in Exec, Web(x)
        PROVE  NoCallWhenOff'
    <2>1. Calls' = Calls /\ \A s \in Calls : sender'[s] = sender[s]
      BY <1>1, WebKeepsCalls
    <2>2. CASE Changes(x)
      <3>1. CASE Calling
        <4>1. \A s \in Calls : \A action \in Action : sender[s] = action =>
                Lets(action)' /\ (On("global")' \/ "global" \in created')
          BY <1>a, <2>2, <3>1, LocksHoldRows
        <4> QED
          BY <1>b, <2>1, <4>1
      <3>2. CASE ~Calling
        BY <1>b, <2>1, <3>2 DEF Calling
      <3> QED
        BY <3>1, <3>2
    <2>3. CASE UNCHANGED <<row, created>>
      BY <1>c, <2>1, <2>3
    <2> QED
      BY <1>1, <2>2, <2>3, MutateSplits
         DEF Web, Take, CheckPilot, LeavesRows, SyncWorkers, SyncFails, CrashExec, ghostVars
  <1>2. ASSUME NEW s \in Sender, Send(s)
        PROVE  NoCallWhenOff'
    <2>1. CASE Calls' = {s} /\ GateOpen(sender'[s]) /\ UNCHANGED <<row, created>>
      <3>1. Lets(sender'[s]) /\ On("global")
        BY <2>1 DEF GateOpen, Lets
      <3>2. \A action : Lets(action)' <=> Lets(action)
        BY <2>1 DEF Lets, On, StagePermits, Stage
      <3> QED
        BY <1>b, <2>1, <3>1, <3>2 DEF On
    <2>2. CASE Calls' = {}
      BY <1>b, <2>2
    <2> QED
      BY <1>2, <1>c, <2>1, <2>2, SendMovesCalls
  <1>3. CASE UNCHANGED vars
    BY <1>3, <1>c DEF vars, pilotVars, ghostVars, Calls
  <1> QED
    BY <1>1, <1>2, <1>3 DEF Next

-----------------------------------------------------------------------------
(* The caps.                                                                *)

\* The senders are finitely many, and so are those at work.
LEMMA Senders ==
  ASSUME NEW S \in SUBSET Sender
  PROVE  /\ IsFiniteSet(S) /\ Cardinality(S) \in Nat
         /\ Cardinality(Sender) \in Nat /\ Cardinality(S) <= Cardinality(Sender)
         /\ \A T \in SUBSET S : Cardinality(T) <= Cardinality(S)
  <1>1. IsFiniteSet(Sender)
    BY ControlsAssumption
  <1>2. IsFiniteSet(S) /\ Cardinality(S) <= Cardinality(Sender)
    BY <1>1, FS_Subset
  <1>3. \A T \in SUBSET S : Cardinality(T) <= Cardinality(S)
    BY <1>2, FS_Subset
  <1> QED
    BY <1>1, <1>2, <1>3, FS_CardinalityType

LEMMA CapNext ==
  ASSUME TypeOK, OneCaller, PilotCap, [Next]_vars
  PROVE  PilotCap'
  <1> DEFINE n == Cardinality(Sender)
  <1>a. /\ accepted \in Nat /\ failures \in Nat
        /\ TotalCap \in Nat /\ StopFailures \in Nat /\ StopFailures > 0
    BY ControlsAssumption DEF TypeOK
  <1>b. Calls \in SUBSET Sender /\ Failing \in SUBSET Sender
        /\ Calls' \in SUBSET Sender /\ Failing' \in SUBSET Sender
    BY DEF Calls, Failing
  <1>c. /\ Cardinality(Calls) \in Nat /\ Cardinality(Calls \cup Failing) \in Nat
        /\ Cardinality((Calls \cup Failing)') \in Nat /\ n \in Nat
        /\ Cardinality((Calls \cup Failing)') <= n
    BY <1>b, Senders
  <1>d. /\ accepted + Cardinality(Calls) <= TotalCap
        /\ failures + Cardinality(Calls \cup Failing) < StopFailures + n
    BY DEF PilotCap
  <1>e. ASSUME UNCHANGED <<Calls, Failing, accepted, failures>>
        PROVE  PilotCap'
    BY <1>d, <1>e DEF PilotCap
  <1>1. ASSUME NEW x \in Exec, Web(x)
        PROVE  PilotCap'
    <2>1. CASE Failing' = Failing /\ failures' = failures
      BY <1>1, <1>e, <2>1, WebKeepsCalls
    <2>2. CASE failures' = 0
      <3>1. Calls' = Calls /\ accepted' = accepted
        BY <1>1, WebKeepsCalls
      <3>2. Cardinality(Calls') = Cardinality(Calls)
        BY <3>1
      <3>3. failures' + Cardinality((Calls \cup Failing)') < StopFailures + n
        BY <1>a, <1>c, <2>2
      <3> QED
        BY <1>d, <3>1, <3>2, <3>3 DEF PilotCap
    <2> QED
      BY <1>1, <2>1, <2>2, WebKeepsCalls
  <1>2. ASSUME NEW s \in Sender, Send(s)
        PROVE  PilotCap'
    <2>1. CASE Calls = {} /\ Calls' = {s} /\ GateOpen(sender'[s])
               /\ UNCHANGED <<accepted, failures>>
      <3>1. accepted < TotalCap /\ failures < StopFailures
        BY <1>a, <2>1 DEF GateOpen, UnderTotalCap, Tripped
      <3>2. Cardinality(Calls') = 1
        BY <2>1, FS_Singleton
      <3>3. accepted' + Cardinality(Calls') <= TotalCap
        BY <1>a, <2>1, <3>1, <3>2
      <3>4. failures' + Cardinality((Calls \cup Failing)') < StopFailures + n
        BY <1>a, <1>c, <2>1, <3>1
      <3> QED
        BY <3>3, <3>4 DEF PilotCap
    <2>2. CASE Calls = {s} /\ Calls' = {} /\ accepted' \in {accepted, accepted + 1}
               /\ Failing' \subseteq Failing \cup {s} /\ UNCHANGED failures
      <3>1. Cardinality(Calls) = 1 /\ Cardinality(Calls') = 0
        BY <2>2, FS_Singleton, FS_EmptySet
      <3>2. accepted' + Cardinality(Calls') <= TotalCap
        BY <1>a, <1>d, <2>2, <3>1
      <3>3. (Calls \cup Failing)' \in SUBSET (Calls \cup Failing)
        BY <2>2
      <3>4. Cardinality((Calls \cup Failing)') <= Cardinality(Calls \cup Failing)
        BY <1>b, <3>3, Senders
      <3>5. failures' + Cardinality((Calls \cup Failing)') < StopFailures + n
        BY <1>a, <1>c, <1>d, <2>2, <3>4
      <3> QED
        BY <3>2, <3>5 DEF PilotCap
    <2>3. CASE Calls' = Calls /\ s \in Failing /\ Failing' = Failing \ {s}
               /\ failures' = failures + 1 /\ UNCHANGED accepted
      <3>1. s \notin Calls
        BY <2>3 DEF Calls, Failing, Action
      <3>2. (Calls \cup Failing)' = (Calls \cup Failing) \ {s}
        BY <2>3, <3>1
      <3>3. IsFiniteSet(Calls \cup Failing) /\ s \in Calls \cup Failing
        BY <1>b, <2>3, Senders
      <3>4. Cardinality((Calls \cup Failing) \ {s}) = Cardinality(Calls \cup Failing) - 1
        BY <3>3, FS_RemoveElement
      <3>5. Cardinality((Calls \cup Failing)') = Cardinality(Calls \cup Failing) - 1
        BY <3>2, <3>4
      <3>6. failures' + Cardinality((Calls \cup Failing)') < StopFailures + n
        BY <1>a, <1>c, <1>d, <2>3, <3>5
      <3>7. Cardinality(Calls') = Cardinality(Calls)
        BY <2>3
      <3> QED
        BY <1>d, <2>3, <3>6, <3>7 DEF PilotCap
    <2> QED
      BY <1>2, <2>1, <2>2, <2>3, SendMovesCalls
  <1>3. CASE UNCHANGED vars
    BY <1>3, <1>e DEF vars, pilotVars, Calls, Failing
  <1> QED
    BY <1>1, <1>2, <1>3 DEF Next

-----------------------------------------------------------------------------
(* The workers' suspension.                                                 *)

Syncing(x) == exec[x].step = "sync"
Brings(x) == body[exec[x].request].to["worker"] = On("worker")

\* A step that leaves the switch, the suspension and all syncs alone.
LEMMA SyncStays ==
  ASSUME SyncInv, TypeOK, ~overtaken, UNCHANGED suspended, On("worker")' = On("worker"),
         \A y \in Exec : Syncing(y)' <=> Syncing(y),
         \A y \in Exec : Syncing(y) =>
           exec'[y] = exec[y] /\ body'[exec[y].request] = body[exec[y].request]
  PROVE  SyncInv'
  <1>1. (\A y \in Exec : exec'[y].step # "sync") => suspended' = ~On("worker")'
    BY DEF SyncInv, Syncing
  <1>2. \A y, z \in Exec : exec'[y].step = "sync" /\ exec'[z].step = "sync" => y = z
    BY DEF SyncInv, Syncing
  <1>3. \A y \in Exec : exec'[y].step = "sync" =>
          body'[exec'[y].request].to["worker"] = On("worker")'
    BY DEF SyncInv, Syncing
  <1> QED
    BY <1>1, <1>2, <1>3 DEF SyncInv

LEMMA SyncNext ==
  ASSUME TypeOK, BodyInv, AuditInv, SyncInv, [Next]_vars
  PROVE  SyncInv'
  <1> SUFFICES ASSUME ~overtaken' PROVE SyncInv'
    BY DEF SyncInv
  <1>1. ASSUME NEW x \in Exec, NEW r \in Request, Take(x, r)
        PROVE  SyncInv'
    <2>1. /\ ~overtaken /\ UNCHANGED suspended /\ On("worker")' = On("worker")
          /\ \A y \in Exec \ {x} : exec'[y] = exec[y]
          /\ exec[x] = Idle /\ exec'[x].step \in {"check", "mutate"}
      BY <1>1 DEF Take, Goes, FirstStep, On, ghostVars, TypeOK
    <2>2. \A y \in Exec : Syncing(y)' <=> Syncing(y)
      BY <2>1 DEF Syncing, Idle
    <2>3. ASSUME NEW y \in Exec, Syncing(y)
          PROVE  exec'[y] = exec[y] /\ body'[exec[y].request] = body[exec[y].request]
      <3>1. y # x
        BY <2>1, <2>3 DEF Syncing, Idle
      <3>2. exec[y].request \in Request /\ body[exec[y].request] # None
        BY <2>3, AtWork DEF Syncing
      <3>3. exec[y].request # r \/ UNCHANGED body
        BY <1>1, <3>2 DEF Take
      <3>4. body'[exec[y].request] = body[exec[y].request]
        BY <1>1, <3>2, <3>3 DEF Take, TypeOK
      <3> QED
        BY <2>1, <3>1, <3>4
    <2> QED
      BY <2>1, <2>2, <2>3, SyncStays
  <1>a. ASSUME NEW x \in Exec, ~Syncing(x), ~Syncing(x)', ~overtaken,
               UNCHANGED <<body, suspended>>, On("worker")' = On("worker"),
               \A y \in Exec \ {x} : exec'[y] = exec[y]
        PROVE  SyncInv'
    <2>1. \A y \in Exec : Syncing(y)' <=> Syncing(y)
      BY <1>a DEF Syncing
    <2>2. \A y \in Exec : Syncing(y) =>
            exec'[y] = exec[y] /\ body'[exec[y].request] = body[exec[y].request]
      BY <1>a
    <2> QED
      BY <1>a, <2>1, <2>2, SyncStays
  <1>2. ASSUME NEW x \in Exec, CheckPilot(x)
        PROVE  SyncInv'
    <2>1. (\A y \in Exec \ {x} : exec'[y] = exec[y]) /\ ~Syncing(x) /\ ~Syncing(x)'
      BY <1>2 DEF CheckPilot, Goes, Answer, Idle, Syncing, TypeOK
    <2>2. /\ ~overtaken /\ UNCHANGED <<body, suspended>> /\ On("worker")' = On("worker")
      BY <1>2 DEF CheckPilot, ghostVars, On
    <2> QED
      BY <1>a, <2>1, <2>2
  <1>3. ASSUME NEW x \in Exec, LeavesRows(x)
        PROVE  SyncInv'
    <2>1. Answer(x) /\ ~overtaken
      <3>1. CASE Answer(x) /\ overtaken' = overtaken
        BY <3>1
      <3>2. CASE /\ Carried(x, exec[x].request)
                 /\ overtaken' = (overtaken \/ "worker" \in DOMAIN body[exec[x].request].to)
        <4>1. ~(overtaken \/ "worker" \in DOMAIN body[exec[x].request].to)
          BY <3>2
        <4> QED
          BY <3>2, <4>1 DEF Carried
      <3> QED
        BY <1>3, <3>1, <3>2 DEF LeavesRows
    <2>2. (\A y \in Exec \ {x} : exec'[y] = exec[y]) /\ ~Syncing(x) /\ ~Syncing(x)'
      BY <1>3, <2>1 DEF LeavesRows, Answer, Idle, Syncing, TypeOK
    <2>3. UNCHANGED <<body, suspended>> /\ On("worker")' = On("worker")
      BY <1>3 DEF LeavesRows, On
    <2> QED
      BY <1>a, <2>1, <2>2, <2>3
  <1>4. ASSUME NEW x \in Exec, Changes(x)
        PROVE  SyncInv'
    <2> DEFINE b == body[exec[x].request]
    <2>1. /\ ~overtaken /\ UNCHANGED <<body, suspended>> /\ exec[x].step = "mutate"
          /\ Carried(x, exec[x].request)
      BY <1>4 DEF Changes
    <2>2. \A y \in Exec \ {x} : exec'[y] = exec[y]
      BY <1>4, OthersStay
    <2>3. CASE "worker" \notin DOMAIN b.to
      <3>1. Answer(x)
        BY <2>1, <2>3 DEF Carried
      <3>2. ~Syncing(x) /\ ~Syncing(x)'
        BY <2>1, <3>1 DEF Answer, Idle, Syncing, TypeOK
      <3>3. row'["worker"] = row["worker"]
        BY <1>4, <2>3, ChangedRow DEF Control, GlobalControl
      <3>4. On("worker")' = On("worker")
        BY <3>3 DEF On
      <3> QED
        BY <1>a, <2>1, <2>2, <3>2, <3>4
    <2>4. CASE "worker" \in DOMAIN b.to
      <3>1. exec'[x].step = "sync" /\ exec'[x].request = exec[x].request
        BY <2>1, <2>4 DEF Carried, Goes, TypeOK
      <3>2. \A y \in Exec \ {x} : exec'[y].step # "sync"
        BY <1>4, <2>2, <2>4 DEF Changes, OvertakesSync
      <3>3. row'["worker"].enabled = b.to["worker"]
        BY <1>4, <2>4, ChangedRow DEF Control, GlobalControl
      <3>4. body'[exec'[x].request].to["worker"] = On("worker")'
        BY <2>1, <3>1, <3>3 DEF On
      <3>5. \A y, z \in Exec : exec'[y].step = "sync" /\ exec'[z].step = "sync" => y = z
        BY <3>2
      <3>6. \A y \in Exec : exec'[y].step = "sync" =>
              body'[exec'[y].request].to["worker"] = On("worker")'
        BY <3>2, <3>4
      <3>7. ~(\A y \in Exec : exec'[y].step # "sync")
        BY <3>1
      <3> QED
        BY <3>5, <3>6, <3>7 DEF SyncInv
    <2> QED
      BY <2>3, <2>4
  <1>5. ASSUME NEW x \in Exec, SyncWorkers(x)
        PROVE  SyncInv'
    <2>1. ~overtaken /\ exec[x].step = "sync" /\ UNCHANGED <<row, body>>
          /\ suspended' = ~body[exec[x].request].to["worker"]
      BY <1>5 DEF SyncWorkers, ghostVars
    <2>2. exec'[x] = Idle /\ \A y \in Exec \ {x} : exec'[y] = exec[y]
      BY <1>5 DEF SyncWorkers, Answer, TypeOK
    <2>3. \A y \in Exec : exec'[y].step # "sync"
      BY <2>1, <2>2 DEF SyncInv, Idle
    <2>4. body[exec[x].request].to["worker"] = On("worker")
      BY <2>1 DEF SyncInv
    <2>5. suspended' = ~On("worker")'
      BY <2>1, <2>4 DEF On
    <2> QED
      BY <2>3, <2>5 DEF SyncInv
  <1>6. ASSUME NEW x \in Exec, SyncFails(x)
        PROVE  SyncInv'
    BY <1>6 DEF SyncFails
  <1>7. ASSUME NEW x \in Exec, CrashExec(x)
        PROVE  SyncInv'
    <2>1. (\A y \in Exec \ {x} : exec'[y] = exec[y]) /\ ~Syncing(x) /\ ~Syncing(x)'
      BY <1>7 DEF CrashExec, Answer, Idle, Syncing, TypeOK
    <2>2. ~overtaken /\ UNCHANGED <<body, suspended>> /\ On("worker")' = On("worker")
      BY <1>7 DEF CrashExec, On
    <2> QED
      BY <1>a, <2>1, <2>2
  <1>8. ASSUME UNCHANGED <<row, body, exec, suspended, overtaken>>
        PROVE  SyncInv'
    BY <1>8 DEF SyncInv, On
  <1>9. ASSUME NEW s \in Sender, Send(s)
        PROVE  SyncInv'
    BY <1>8, <1>9 DEF Send, StartSend, Accepted, NotAccepted, RecordFailure, Return, ghostVars
  <1>10. CASE UNCHANGED vars
    BY <1>8, <1>10 DEF vars, ghostVars
  <1>11. ASSUME NEW x \in Exec, Web(x)
         PROVE  SyncInv'
    BY <1>1, <1>2, <1>3, <1>4, <1>5, <1>6, <1>7, <1>11, MutateSplits DEF Web
  <1> QED
    BY <1>9, <1>10, <1>11 DEF Next

-----------------------------------------------------------------------------
(* The invariant and what follows from it.                                  *)

LEMMA ControlsStart == Init => ControlsInv
  <1> SUFFICES ASSUME Init PROVE ControlsInv
    OBVIOUS
  <1>1. TypeOK
    BY InitType
  <1>2. \A r \in Request : body[r] = None
    BY DEF Init
  <1>3. \A x \in Exec : exec[x] = Idle
    BY DEF Init
  <1>4. \A c \in Control : row[c] = [version |-> 0, enabled |-> c \notin Pilot]
    BY DEF Init
  <1>5. BodyInv
    BY <1>2 DEF BodyInv
  <1>6. StageInv
    <2>1. row["stage3"].enabled = ("stage3" \notin Pilot) /\ "stage3" \in Pilot
      BY <1>4 DEF Control, GlobalControl, Pilot
    <2>2. ~On("stage3")
      BY <2>1, Zenon DEF On
    <2>3. \A x \in Exec : exec[x].step # "mutate"
      BY <1>3 DEF Idle
    <2> QED
      BY <2>2, <2>3 DEF StageInv
  <1>7. AuditInv
    <2>1. audit = {} /\ \A c \in Control : row[c].version = 0 /\ Changed(c) = {}
      BY <1>4 DEF Init, Changed
    <2>2. \A c \in Control : Cardinality(Changed(c)) = row[c].version
      BY <2>1, FS_EmptySet
    <2>3. \A c \in Control : 1 .. row[c].version = {}
      BY <2>1
    <2> QED
      BY <2>1, <2>2, <2>3 DEF AuditInv
  <1>8. Calls = {} /\ Failing = {}
    BY DEF Init, Calls, Failing, Action
  <1>9. OneCaller /\ NoCallWhenOff
    BY <1>8 DEF OneCaller, NoCallWhenOff
  <1>10. PilotCap
    <2>1. Cardinality(Calls) = 0 /\ Cardinality(Calls \cup Failing) = 0
      BY <1>8, FS_EmptySet
    <2>2. Cardinality(Sender) \in Nat
      BY Senders
    <2>3. accepted = 0 /\ failures = 0
      BY DEF Init
    <2> QED
      BY <2>1, <2>2, <2>3, ControlsAssumption DEF PilotCap
  <1>11. SyncInv
    <2>1. row["worker"].enabled = ("worker" \notin Pilot) /\ "worker" \notin Pilot
      BY <1>4 DEF Control, GlobalControl, Pilot
    <2>2. On("worker")
      BY <2>1, Zenon DEF On
    <2>3. suspended = ~On("worker")
      BY <2>2 DEF Init
    <2>4. \A x \in Exec : exec[x].step # "sync"
      BY <1>3 DEF Idle
    <2> QED
      BY <2>3, <2>4 DEF SyncInv
  <1> QED
    BY <1>1, <1>5, <1>6, <1>7, <1>9, <1>10, <1>11 DEF ControlsInv

LEMMA ControlsInductive == Spec => []ControlsInv
  <1>1. ControlsInv /\ [Next]_vars => ControlsInv'
    BY TypeNext, BodyNext, StageNext, AuditNext, CallerNext, GateNext, CapNext, SyncNext
       DEF ControlsInv
  <1> QED
    BY ControlsStart, <1>1, PTL DEF Spec

\* Each version of each control has exactly one audit row that says what it
\* became, and each request has changed a control at most once: of any number
\* of requests, sent any number of times, on any number of web processes that
\* may crash (mutate, mutate_multiple).
THEOREM AuditsVersions == Spec => []VersionsAudited
  <1>1. ControlsInv => VersionsAudited
    <2> SUFFICES ASSUME ControlsInv PROVE VersionsAudited
      OBVIOUS
    <2>1. ASSUME NEW c \in Control, NEW v \in 1 .. Cardinality(Request)
          PROVE  Cardinality({a \in audit : a.control = c /\ a.version = v})
                   = (IF v <= row[c].version THEN 1 ELSE 0)
      <3> DEFINE S == {a \in audit : a.control = c /\ a.version = v}
      <3>0. row[c].version \in Nat /\ v \in Nat /\ v >= 1
        BY VersionBound DEF ControlsInv, TypeOK, Row
      <3>1. CASE v <= row[c].version
        <4>1. PICK a \in audit : a.control = c /\ a.version = v
          BY <3>0, <3>1 DEF ControlsInv, AuditInv
        <4>2. S = {a}
          BY <4>1 DEF ControlsInv, AuditInv
        <4>3. Cardinality(S) = 1
          BY <4>2, FS_Singleton
        <4> QED
          BY <3>1, <4>3
      <3>2. CASE ~(v <= row[c].version)
        <4>1. S = {}
          BY <3>0, <3>2 DEF ControlsInv, AuditInv
        <4>2. Cardinality(S) = 0
          BY <4>1, FS_EmptySet
        <4> QED
          BY <3>2, <4>2
      <3> QED
        BY <3>1, <3>2
    <2> QED
      BY <2>1 DEF ControlsInv, AuditInv, VersionsAudited
  <1> QED
    BY ControlsInductive, <1>1, PTL

\* The pilot passes its stages one at a time and in order, although a request
\* that moves it is checked in one transaction and carried out in another
\* (transition_stage, mutate_multiple).
THEOREM StagesInOrder == Spec => OneStageAtATime
  <1>1. ControlsInv /\ [Next]_vars
          => [/\ Stage' - Stage \in -1 .. 1
              /\ On("stage3")' => On("stage2")']_vars
    <2> SUFFICES ASSUME ControlsInv, [Next]_vars
                 PROVE  /\ Stage' - Stage \in -1 .. 1
                        /\ On("stage3")' => On("stage2")'
      OBVIOUS
    <2>1. CASE \E x \in Exec : Changes(x)
      BY <2>1, StageMoves DEF ControlsInv
    <2>2. CASE UNCHANGED row
      <3>1. Stage' = Stage
        BY <2>2 DEF Stage, On
      <3>2. On("stage3")' => On("stage2")'
        BY <2>2 DEF On, ControlsInv, StageInv
      <3> QED
        BY <3>1, <3>2, StageRange
    <2> QED
      BY <2>1, <2>2, RowsStay
  <1> QED
    BY ControlsInductive, <1>1, PTL DEF Spec, OneStageAtATime

\* No sender calls the provider with a switch off, except the first switch of a
\* control that had no row to lock: for any number of senders and of requests
\* that switch the controls meanwhile (enabled_locked).
THEOREM CallsWhileOn == Spec => []NoCallWhenOff
  <1>1. ControlsInv => NoCallWhenOff
    BY DEF ControlsInv
  <1> QED
    BY ControlsInductive, <1>1, PTL

\* The total cap holds for every cap and number of senders, and the failures
\* pass the stop threshold by fewer than there are senders
\* (_accepted_counts_locked, _thresholds_locked).
THEOREM CapsHold == Spec => []PilotCap
  <1>1. ControlsInv => PilotCap
    BY DEF ControlsInv
  <1> QED
    BY ControlsInductive, <1>1, PTL

\* The workers are suspended as their switch says, once no sync is under way
\* and unless one was lost or overtaken (sync_worker_suspension).
THEOREM SuspensionAgrees == Spec => []SuspensionFollows
  <1>1. ControlsInv => SuspensionFollows
    BY DEF ControlsInv, SyncInv, SuspensionFollows
  <1> QED
    BY ControlsInductive, <1>1, PTL

=============================================================================
