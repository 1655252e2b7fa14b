--------------------------- MODULE LeadStoreProofs ---------------------------
(***************************************************************************)
(* Proofs about the two stores of a contact for any number of handlers,     *)
(* messages, records and writes.                                            *)
(*                                                                          *)
(* Neither store knows what the other one has, so each claim about both     *)
(* rests on what the handlers on their way from one to the other have done  *)
(* so far: a row before its log entry, one copy of a flag before the other, *)
(* the intent's status before the shown one.                                *)
(***************************************************************************)
EXTENDS LeadStore, TLAPS

\* What a handler is on, at each of its steps.
Fine(h) ==
    /\ pc[h] \in {"adding", "shadowing", "dropping", "persisting", "appended"} =>
         job[h].of \in Inbound /\ job[h].report = None
    /\ pc[h] \in {"searching", "patching"} => job[h].of \in Message /\ job[h].report = None
    /\ pc[h] \in {"flagging", "mirroring", "updating", "copying"} =>
         job[h].of = None /\ job[h].report = None
    /\ pc[h] = "updating" => 1 \in DOMAIN record
    /\ pc[h] \in {"applying", "showing"} => job[h].of \in Outbound /\ job[h].report \in Report

HandlerInv == \A h \in Handler : Fine(h)

\* The row of a customer's message comes before its entries in a log, and
\* before the copies of a log that handlers write back.
Logged(m) == \E r \in DOMAIN record : record[r].log[m] > 0

Kept(m) ==
    /\ inbound[m] <= 1
    /\ Logged(m) \/ m \in answered => inbound[m] = 1
    /\ m \in answered /\ ~torn => Logged(m)

Keeps(h) ==
    /\ pc[h] \in {"searching", "patching", "appended"} /\ job[h].of \in Inbound =>
         inbound[job[h].of] = 1
    /\ pc[h] = "patching" => \A m \in Inbound : job[h].log[m] > 0 => inbound[m] = 1
    /\ pc[h] = "appended" /\ ~torn => Logged(job[h].of)

KeptInv ==
    /\ \A m \in Inbound : Kept(m)
    /\ \A h \in Handler : Keeps(h)

\* Unless a report of it was sent again, a message has one report in the queue
\* or with a handler, whose status is the intent's once it was applied.
Queued(m) == {r \in Report : <<m, r>> \in queue}
Holders(m) == {h \in Handler : pc[h] \in {"applying", "showing"} /\ job[h].of = m}
OneReport(m) ==
    /\ receipt[m] # "enqueue_failed"
    /\ receipt[m] = "none" => Queued(m) = {} /\ Holders(m) = {} /\ provider[m] = "sent"
    /\ \A r, q \in Queued(m) : r = q
    /\ \A g, h \in Holders(m) : g = h
    /\ Queued(m) = {} \/ Holders(m) = {}
    /\ \A r \in Queued(m) : provider[m] \in {"sent", r}
    /\ \A h \in Holders(m) :
         /\ provider[m] \in {"sent", job[h].report}
         /\ pc[h] = "showing" => provider[m] = job[h].report
    /\ shown[m] = provider[m]

ReportInv == \A m \in Outbound \ resent : OneReport(m)

\* Without a record nothing was written yet.  Unless it is contested, one
\* handler at a time is between the two copies, and knows what the one it wrote
\* first says.
NothingYet == record = <<>> => ~lead.held /\ ~lead.name /\ \A h \in Handler : ~Writing(h)

OneWriter == ~contested => \A g, h \in Handler : Writing(g) /\ Writing(h) => g = h

Copied ==
    Len(record) = 1 /\ ~contested =>
        /\ (\A h \in Handler : pc[h] # "flagging") => record[1].held = lead.held
        /\ (\A h \in Handler : pc[h] # "copying") => record[1].name = lead.name
        /\ \A h \in Handler :
             /\ pc[h] \in {"flagging", "mirroring"} => lead.held = job[h].value
             /\ pc[h] = "copying" => record[1].name = job[h].value

CopyInv == NothingYet /\ OneWriter /\ Copied

StoreInv == TypeOK /\ HandlerInv /\ KeptInv /\ ReportInv /\ CopyInv

-----------------------------------------------------------------------------
(* Types in two parts: stores and handlers.                                 *)

StoreType ==
    /\ record \in Seq(Record) /\ Len(record) <= MaxRecords
    /\ lead \in [there : BOOLEAN, held : BOOLEAN, name : BOOLEAN]
    /\ inbound \in [Inbound -> Nat]
    /\ provider \in [Outbound -> Report] /\ shown \in [Outbound -> Report]
    /\ receipt \in [Outbound -> {"none", "enqueue_failed", "taken"}]
    /\ queue \subseteq Message \cup (Outbound \X Report)
    /\ writes \in 0 .. MaxWrites /\ faults \in 0 .. MaxFaults
    /\ answered \subseteq Inbound /\ torn \in BOOLEAN
    /\ contested \in BOOLEAN /\ resent \subseteq Outbound

HandlerType ==
    /\ pc \in [Handler -> Step] /\ job \in [Handler -> Job \cup {None}]
    /\ \A h \in Handler : pc[h] = "idle" <=> job[h] = None

FoundThere == \A h \in Handler : pc[h] \in {"patching", "flagging"} => job[h].found \in DOMAIN record

LEMMA TypeParts == TypeOK <=> StoreType /\ HandlerType /\ FoundThere
  BY DEF TypeOK, StoreType, HandlerType, FoundThere

\* A handler goes to a step, with a job or without one.
Sets(h, step, j) ==
    /\ step \in Step /\ j \in Job \cup {None}
    /\ step = "idle" <=> j = None
    /\ pc' = [pc EXCEPT ![h] = step]
    /\ job' = [job EXCEPT ![h] = j]

Same(g) == pc'[g] = pc[g] /\ job'[g] = job[g]

LEMMA JobNotNone == \A j \in Job : j # None
  BY KindsAssumption

LEMMA SetsHandler ==
  ASSUME HandlerType, NEW h \in Handler, NEW step, NEW j, Sets(h, step, j)
  PROVE  /\ HandlerType' /\ pc'[h] = step /\ job'[h] = j
         /\ \A g \in Handler \ {h} : Same(g)
  BY DEF HandlerType, Sets, Same

LEMMA LeaveSets ==
  ASSUME HandlerType, NEW h \in Handler, Leave(h)
  PROVE  Sets(h, "idle", None)
  BY DEF Leave, Go, Sets, Step

LEMMA GoSets ==
  ASSUME HandlerType, NEW h \in Handler, NEW step \in Step \ {"idle"},
         pc[h] # "idle", Go(h, step), job' = job
  PROVE  Sets(h, step, job[h])
  <1>1. job[h] \in Job
    BY DEF HandlerType
  <1>2. job = [job EXCEPT ![h] = job[h]]
    BY DEF HandlerType
  <1> QED
    BY <1>1, <1>2, JobNotNone DEF Go, Sets

\* What a handler has in memory when it begins.
NewJob(of, report, found, value) ==
    [of |-> of, report |-> report, found |-> found, log |-> EmptyLog, value |-> value]

LEMMA BeginSets ==
  ASSUME HandlerType, NEW h \in Handler, NEW step \in Step \ {"idle"},
         NEW of, NEW report, NEW found, NEW value,
         of \in Message \cup {None}, report \in Report \cup {None},
         found \in 0 .. MaxRecords, value \in BOOLEAN,
         Begin(h, step, of, report, found, value)
  PROVE  /\ Sets(h, step, NewJob(of, report, found, value))
         /\ pc[h] = "idle" /\ pc'[h] = step /\ job'[h] \in Job
         /\ job'[h].of = of /\ job'[h].report = report /\ job'[h].found = found
         /\ job'[h].log = EmptyLog
  <1>1. EmptyLog \in Log
    BY DEF EmptyLog, Log
  <1>2. PICK j : j = NewJob(of, report, found, value)
    OBVIOUS
  <1>3. /\ j \in Job /\ j.of = of /\ j.report = report /\ j.found = found
        /\ j.log = EmptyLog
    BY <1>1, <1>2 DEF NewJob, Job
  <1>4. pc[h] = "idle" /\ Go(h, step) /\ job' = [job EXCEPT ![h] = j]
    BY <1>2 DEF Begin, NewJob
  <1>5. Sets(h, step, j)
    BY <1>3, <1>4, JobNotNone DEF Go, Sets
  <1>6. pc'[h] = step /\ job'[h] = j
    BY <1>5, SetsHandler
  <1> QED
    BY <1>2, <1>3, <1>4, <1>5, <1>6

LEMMA BegunValue ==
  ASSUME HandlerType, NEW h \in Handler, NEW step, NEW of, NEW report, NEW found, NEW value,
         Begin(h, step, of, report, found, value)
  PROVE  job'[h].value = value
  BY DEF Begin, HandlerType

-----------------------------------------------------------------------------
(* What a step must leave for the types and for the handlers.               *)

Grows == record' \in Seq(Record) /\ Len(record) <= Len(record')

\* A step of a handler that keeps the types, takes nothing from the others and
\* leaves it on what its next step needs.
Sound(h) ==
    /\ \E step, j : Sets(h, step, j)
    /\ StoreType' /\ Grows
    /\ Fine(h)'
    /\ pc'[h] \in {"patching", "flagging"} => job'[h].found \in DOMAIN record'

LEMMA DomainGrows ==
  ASSUME StoreType, Grows
  PROVE  DOMAIN record \subseteq DOMAIN record'
  BY DEF StoreType, Grows

LEMMA SoundStep ==
  ASSUME TypeOK, HandlerInv, NEW h \in Handler, Sound(h)
  PROVE  /\ TypeOK' /\ HandlerInv'
         /\ HandlerType' /\ \A g \in Handler \ {h} : Same(g)
  <1>1. PICK step, j : Sets(h, step, j)
    BY DEF Sound
  <1>2. HandlerType' /\ \A g \in Handler \ {h} : Same(g)
    BY <1>1, TypeParts, SetsHandler
  <1>3. DOMAIN record \subseteq DOMAIN record'
    BY TypeParts, DomainGrows DEF Sound
  <1>4. FoundThere'
    BY <1>2, <1>3, TypeParts DEF Sound, FoundThere, Same
  <1>5. TypeOK'
    BY <1>2, <1>4 DEF Sound, TypeOK, StoreType, HandlerType, FoundThere
  <1>6. HandlerInv'
    BY <1>2, <1>3 DEF HandlerInv, Fine, Same, Sound
  <1> QED
    BY <1>2, <1>5, <1>6

LEMMA FaultType ==
  ASSUME StoreType, Fault \/ UNCHANGED faults
  PROVE  faults' \in 0 .. MaxFaults
  BY StoreAssumption DEF StoreType, Fault

LEMMA SameRecords ==
  ASSUME StoreType, UNCHANGED record
  PROVE  Grows
  BY DEF StoreType, Grows

\* A handler that is done.
LEMMA LeaveSound ==
  ASSUME TypeOK, NEW h \in Handler, Leave(h), StoreType', Grows
  PROVE  Sound(h) /\ pc'[h] = "idle" /\ job'[h] = None
  <1>1. Sets(h, "idle", None)
    BY TypeParts, LeaveSets
  <1>2. pc'[h] = "idle" /\ job'[h] = None
    BY <1>1, TypeParts, SetsHandler
  <1> QED
    BY <1>1, <1>2 DEF Sound, Fine

\* A handler that goes on with the job it has.
LEMMA GoOnSound ==
  ASSUME TypeOK, NEW h \in Handler, NEW step \in Step \ {"idle"}, pc[h] # "idle",
         Go(h, step), job' = job, StoreType', Grows,
         pc'[h] = step /\ job'[h] = job[h] => Fine(h)',
         step \in {"patching", "flagging"} => job[h].found \in DOMAIN record'
  PROVE  Sound(h) /\ pc'[h] = step /\ job'[h] = job[h]
  <1>1. Sets(h, step, job[h])
    BY TypeParts, GoSets
  <1>2. pc'[h] = step /\ job'[h] = job[h]
    BY <1>1, TypeParts, SetsHandler
  <1> QED
    BY <1>1, <1>2 DEF Sound

\* A handler that begins.
LEMMA BeginSound ==
  ASSUME TypeOK, NEW h \in Handler, NEW step \in Step \ {"idle"},
         NEW of, NEW report, NEW found, NEW value,
         of \in Message \cup {None}, report \in Report \cup {None},
         found \in 0 .. MaxRecords, value \in BOOLEAN,
         Begin(h, step, of, report, found, value), StoreType', Grows,
         pc'[h] = step /\ job'[h].of = of /\ job'[h].report = report => Fine(h)',
         step \in {"patching", "flagging"} => found \in DOMAIN record'
  PROVE  /\ Sound(h) /\ pc[h] = "idle" /\ pc'[h] = step
         /\ job'[h].of = of /\ job'[h].report = report /\ job'[h].found = found
         /\ job'[h].log = EmptyLog
  <1>1. /\ Sets(h, step, NewJob(of, report, found, value))
        /\ pc[h] = "idle" /\ pc'[h] = step
        /\ job'[h].of = of /\ job'[h].report = report /\ job'[h].found = found
        /\ job'[h].log = EmptyLog
    BY TypeParts, BeginSets
  <1> QED
    BY <1>1 DEF Sound

LEMMA StartJobSound ==
  ASSUME TypeOK, NEW h \in Handler, NEW m \in Inbound, StartJob(h, m)
  PROVE  /\ Sound(h) /\ pc[h] = "idle" /\ pc'[h] \in {"adding", "persisting"}
         /\ UNCHANGED <<storeVars, statusVars, ghostVars>> /\ queue' = queue \ {m}
  <1>1. UNCHANGED <<storeVars, statusVars, writes, ghostVars>> /\ queue' = queue \ {m}
    BY DEF StartJob
  <1>2. faults' \in 0 .. MaxFaults
    BY TypeParts, FaultType DEF StartJob
  <1>3. StoreType' /\ Grows
    BY <1>1, <1>2, TypeParts, SameRecords DEF StoreType, storeVars, statusVars, ghostVars
  <1>4. m \in Message \cup {None} /\ None \in Report \cup {None} /\ FALSE \in BOOLEAN
    BY DEF Message
  <1>5. pc'[h] = "persisting" /\ job'[h].of = m /\ job'[h].report = None => Fine(h)'
    BY DEF Fine
  <1>6. pc'[h] = "adding" /\ job'[h].of = m /\ job'[h].report = None => Fine(h)'
    BY DEF Fine
  <1>7. CASE record # <<>> /\ Begin(h, "persisting", m, None, 1, FALSE)
    <2>1. 1 \in 0 .. MaxRecords
      BY StoreAssumption
    <2> QED
      BY <1>1, <1>3, <1>4, <1>5, <1>7, <2>1, BeginSound DEF Step
  <1>8. CASE Begin(h, "adding", m, None, 0, FALSE)
    <2>1. 0 \in 0 .. MaxRecords
      BY StoreAssumption
    <2> QED
      BY <1>1, <1>3, <1>4, <1>6, <1>8, <2>1, BeginSound DEF Step
  <1> QED
    BY <1>7, <1>8 DEF StartJob

LEMMA StartMirrorSound ==
  ASSUME TypeOK, NEW h \in Handler, NEW m \in Outbound, StartMirror(h, m)
  PROVE  /\ Sound(h) /\ pc[h] = "idle" /\ pc'[h] = "searching" /\ job'[h].of = m
         /\ UNCHANGED <<storeVars, statusVars, ghostVars>> /\ queue' = queue \ {m}
  <1>1. UNCHANGED <<storeVars, statusVars, writes, faults, ghostVars>> /\ queue' = queue \ {m}
    BY DEF StartMirror
  <1>3. StoreType' /\ Grows
    BY <1>1, TypeParts, SameRecords DEF StoreType, storeVars, statusVars, ghostVars
  <1>4. /\ m \in Message \cup {None} /\ None \in Report \cup {None} /\ FALSE \in BOOLEAN
        /\ 0 \in 0 .. MaxRecords
    BY StoreAssumption DEF Message
  <1>5. pc'[h] = "searching" /\ job'[h].of = m /\ job'[h].report = None => Fine(h)'
    BY DEF Fine, Message
  <1>6. Begin(h, "searching", m, None, 0, FALSE)
    BY DEF StartMirror
  <1>7. "searching" \in Step \ {"idle"} /\ "searching" \notin {"patching", "flagging"}
    BY DEF Step
  <1>8. Sound(h) /\ pc[h] = "idle" /\ pc'[h] = "searching" /\ job'[h].of = m
    BY <1>3, <1>4, <1>5, <1>6, <1>7, BeginSound
  <1> QED
    BY <1>1, <1>8

LEMMA StartSwitchSound ==
  ASSUME TypeOK, NEW h \in Handler, NEW r \in DOMAIN record, NEW value \in BOOLEAN,
         StartSwitch(h, r, value)
  PROVE  Sound(h) /\ pc[h] = "idle" /\ pc'[h] = "flagging" /\ job'[h].value = value
  <1>1. /\ UNCHANGED <<record, inbound, statusVars, queue, faults, answered, torn, resent>>
        /\ lead' = [lead EXCEPT !.held = value] /\ writes > 0 /\ writes' = writes - 1
        /\ Begin(h, "flagging", None, None, r, value)
    BY DEF StartSwitch
  <1>2. contested' \in BOOLEAN
    BY TypeParts DEF StoreType, StartSwitch, Contested
  <1>3. lead' \in [there : BOOLEAN, held : BOOLEAN, name : BOOLEAN]
    BY <1>1, TypeParts DEF StoreType
  <1>4. writes' \in 0 .. MaxWrites
    BY <1>1, TypeParts, StoreAssumption DEF StoreType
  <1>5. StoreType' /\ Grows
    BY <1>1, <1>2, <1>3, <1>4, TypeParts, SameRecords DEF StoreType, statusVars
  <1>6. /\ None \in Message \cup {None} /\ None \in Report \cup {None}
        /\ r \in 0 .. MaxRecords
    BY TypeParts, StoreAssumption DEF StoreType
  <1>7. pc'[h] = "flagging" /\ job'[h].of = None /\ job'[h].report = None => Fine(h)'
    BY DEF Fine
  <1>8. r \in DOMAIN record'
    BY <1>1
  <1>9. Sound(h) /\ pc[h] = "idle" /\ pc'[h] = "flagging"
    BY <1>1, <1>5, <1>6, <1>7, <1>8, BeginSound DEF Step
  <1>10. job'[h].value = value
    BY <1>1, TypeParts, BegunValue
  <1> QED
    BY <1>9, <1>10

LEMMA StartUpdateSound ==
  ASSUME TypeOK, NEW h \in Handler, NEW value \in BOOLEAN, StartUpdate(h, value)
  PROVE  Sound(h) /\ pc[h] = "idle" /\ pc'[h] = "updating"
  <1>1. /\ UNCHANGED <<storeVars, statusVars, queue, faults, answered, torn, resent>>
        /\ writes > 0 /\ writes' = writes - 1
        /\ Begin(h, "updating", None, None, 1, value) /\ record # <<>>
    BY DEF StartUpdate
  <1>2. contested' \in BOOLEAN
    BY TypeParts DEF StoreType, StartUpdate, Contested
  <1>4. writes' \in 0 .. MaxWrites
    BY <1>1, TypeParts, StoreAssumption DEF StoreType
  <1>5. StoreType' /\ Grows
    BY <1>1, <1>2, <1>4, TypeParts, SameRecords DEF StoreType, storeVars, statusVars
  <1>6. /\ None \in Message \cup {None} /\ None \in Report \cup {None}
        /\ 1 \in 0 .. MaxRecords
    BY TypeParts, StoreAssumption DEF StoreType
  <1>7. 1 \in DOMAIN record'
    BY <1>1, TypeParts DEF StoreType, storeVars
  <1>8. pc'[h] = "updating" /\ job'[h].of = None /\ job'[h].report = None => Fine(h)'
    BY <1>7 DEF Fine
  <1> QED
    BY <1>1, <1>5, <1>6, <1>8, BeginSound DEF Step

LEMMA StartReportSound ==
  ASSUME TypeOK, NEW h \in Handler, NEW m \in Outbound, NEW report \in Report,
         StartReport(h, m, report)
  PROVE  /\ Sound(h) /\ pc[h] = "idle" /\ pc'[h] = "applying"
         /\ job'[h].of = m /\ job'[h].report = report
         /\ UNCHANGED <<storeVars, statusVars, ghostVars>>
         /\ <<m, report>> \in queue /\ queue' = queue \ {<<m, report>>}
  <1>1. /\ UNCHANGED <<storeVars, statusVars, writes, faults, ghostVars>>
        /\ <<m, report>> \in queue /\ queue' = queue \ {<<m, report>>}
    BY DEF StartReport
  <1>3. StoreType' /\ Grows
    BY <1>1, TypeParts, SameRecords DEF StoreType, storeVars, statusVars, ghostVars
  <1>4. /\ m \in Message \cup {None} /\ report \in Report \cup {None} /\ FALSE \in BOOLEAN
        /\ 0 \in 0 .. MaxRecords
    BY StoreAssumption DEF Message
  <1>5. pc'[h] = "applying" /\ job'[h].of = m /\ job'[h].report = report => Fine(h)'
    BY DEF Fine
  <1>6. Begin(h, "applying", m, report, 0, FALSE)
    BY DEF StartReport
  <1>7. "applying" \in Step \ {"idle"} /\ "applying" \notin {"patching", "flagging"}
    BY DEF Step
  <1>8. Sound(h) /\ pc[h] = "idle" /\ pc'[h] = "applying" /\ job'[h].of = m /\ job'[h].report = report
    BY <1>3, <1>4, <1>5, <1>6, <1>7, BeginSound
  <1> QED
    BY <1>1, <1>8

LEMMA JobThere ==
  ASSUME TypeOK, NEW h \in Handler, pc[h] # "idle"
  PROVE  job[h] \in Job
  BY DEF TypeOK

LEMMA NewRecordType == NewRecord \in Record /\ \A m \in Message : ~(NewRecord.log[m] > 0)
  BY DEF NewRecord, Record, Log, EmptyLog

LEMMA AppendGrows ==
  ASSUME StoreType, Len(record) < MaxRecords, record' = Append(record, NewRecord)
  PROVE  record' \in Seq(Record) /\ Len(record') <= MaxRecords /\ Grows
  BY NewRecordType, StoreAssumption DEF StoreType, Grows

LEMMA AddRecordSound ==
  ASSUME TypeOK, HandlerInv, NEW h \in Handler, AddRecord(h)
  PROVE  /\ Sound(h) /\ pc'[h] \in {"shadowing", "dropping"} /\ job'[h] = job[h]
         /\ record' \in {record, Append(record, NewRecord)}
  <1>1. /\ pc[h] = "adding" /\ Len(record) < MaxRecords
        /\ UNCHANGED <<lead, inbound, statusVars, queue, job, writes, ghostVars>>
        /\ record' \in {record, Append(record, NewRecord)}
    BY DEF AddRecord
  <1>2. faults' \in 0 .. MaxFaults
    BY TypeParts, FaultType DEF AddRecord
  <1>3. record' \in Seq(Record) /\ Len(record') <= MaxRecords /\ Grows
    <2>1. CASE record' = record
      BY <2>1, TypeParts, SameRecords DEF StoreType
    <2>2. CASE record' = Append(record, NewRecord)
      BY <1>1, <2>2, TypeParts, AppendGrows
    <2> QED
      BY <1>1, <2>1, <2>2
  <1>4. StoreType' /\ Grows
    BY <1>1, <1>2, <1>3, TypeParts DEF StoreType, statusVars, ghostVars
  <1>5. job[h].of \in Inbound /\ job[h].report = None
    BY <1>1 DEF HandlerInv, Fine
  <1>6. pc[h] # "idle" /\ job' = job
    BY <1>1
  <1>7. CASE Go(h, "shadowing")
    <2>1. pc'[h] = "shadowing" /\ job'[h] = job[h] => Fine(h)'
      BY <1>5 DEF Fine
    <2>2. "shadowing" \in Step \ {"idle"} /\ "shadowing" \notin {"patching", "flagging"}
      BY DEF Step
    <2>3. Sound(h) /\ pc'[h] = "shadowing" /\ job'[h] = job[h]
      BY <1>4, <1>6, <1>7, <2>1, <2>2, GoOnSound
    <2> QED
      BY <1>1, <2>3
  <1>8. CASE Go(h, "dropping")
    <2>1. pc'[h] = "dropping" /\ job'[h] = job[h] => Fine(h)'
      BY <1>5 DEF Fine
    <2>2. "dropping" \in Step \ {"idle"} /\ "dropping" \notin {"patching", "flagging"}
      BY DEF Step
    <2>3. Sound(h) /\ pc'[h] = "dropping" /\ job'[h] = job[h]
      BY <1>4, <1>6, <1>8, <2>1, <2>2, GoOnSound
    <2> QED
      BY <1>1, <2>3
  <1> QED
    BY <1>7, <1>8 DEF AddRecord

LEMMA AddShadowSound ==
  ASSUME TypeOK, HandlerInv, NEW h \in Handler, AddShadow(h)
  PROVE  /\ Sound(h) /\ pc'[h] \in {"persisting", "idle"}
         /\ UNCHANGED <<record, inbound, statusVars, queue, ghostVars>>
         /\ lead'.held = lead.held /\ lead'.name = lead.name
  <1>1. /\ pc[h] \in {"shadowing", "dropping"}
        /\ UNCHANGED <<record, inbound, statusVars, queue, writes, ghostVars>>
    BY DEF AddShadow
  <1>2. faults' \in 0 .. MaxFaults
    BY TypeParts, FaultType DEF AddShadow
  <1>3. /\ lead' \in [there : BOOLEAN, held : BOOLEAN, name : BOOLEAN]
        /\ lead'.held = lead.held /\ lead'.name = lead.name
    BY TypeParts DEF StoreType, AddShadow
  <1>4. StoreType' /\ Grows
    BY <1>1, <1>2, <1>3, TypeParts, SameRecords DEF StoreType, statusVars, ghostVars
  <1>5. job[h].of \in Inbound /\ job[h].report = None
    BY <1>1 DEF HandlerInv, Fine
  <1>6. pc[h] # "idle"
    BY <1>1
  <1>7. CASE Go(h, "persisting") /\ UNCHANGED job
    <2>1. pc'[h] = "persisting" /\ job'[h] = job[h] => Fine(h)'
      BY <1>5 DEF Fine
    <2>2. "persisting" \in Step \ {"idle"} /\ "persisting" \notin {"patching", "flagging"}
      BY DEF Step
    <2>3. Sound(h) /\ pc'[h] = "persisting"
      BY <1>4, <1>6, <1>7, <2>1, <2>2, GoOnSound
    <2> QED
      BY <1>1, <1>3, <2>3
  <1>8. CASE Leave(h)
    <2>1. Sound(h) /\ pc'[h] = "idle"
      BY <1>4, <1>8, LeaveSound
    <2> QED
      BY <1>1, <1>3, <2>1
  <1> QED
    BY <1>7, <1>8 DEF AddShadow

\* A job that goes back leaves a queue of jobs.
LEMMA AgainQueue ==
  ASSUME TypeOK, HandlerInv, NEW h \in Handler, pc[h] # "idle", Again(h)
  PROVE  /\ queue' \subseteq Message \cup (Outbound \X Report)
         /\ pc[h] \in {"applying", "showing"} =>
              queue' = queue \cup {<<job[h].of, job[h].report>>}
         /\ pc[h] \notin {"applying", "showing"} => queue' = queue \cup ({job[h].of} \cap Inbound)
  <1>1. queue \subseteq Message \cup (Outbound \X Report) /\ pc[h] \in Step /\ Fine(h)
    BY TypeParts DEF StoreType, HandlerType, HandlerInv
  <1>2. None \notin Report
    BY KindsAssumption
  <1>3. CASE pc[h] \in {"applying", "showing"}
    <2>1. job[h].of \in Outbound /\ job[h].report \in Report
      BY <1>1, <1>3 DEF Fine
    <2>2. queue' = queue \cup {<<job[h].of, job[h].report>>}
      BY <1>2, <2>1 DEF Again
    <2> QED
      BY <1>1, <1>3, <2>1, <2>2
  <1>4. CASE pc[h] \notin {"applying", "showing"}
    <2>1. job[h].report = None
      BY <1>1, <1>4 DEF Fine, Step
    <2>2. queue' = queue \cup ({job[h].of} \cap Inbound)
      BY <2>1 DEF Again
    <2> QED
      BY <1>1, <1>4, <2>2 DEF Message
  <1> QED
    BY <1>3, <1>4

LEMMA PersistSound ==
  ASSUME TypeOK, HandlerInv, NEW h \in Handler, Persist(h)
  PROVE  /\ Sound(h) /\ pc[h] = "persisting"
         /\ UNCHANGED <<record, lead, statusVars, ghostVars>>
         /\ \/ /\ inbound' = [inbound EXCEPT ![job[h].of] = Stored(job[h].of)]
               /\ pc'[h] = "searching" /\ job'[h] = job[h] /\ queue' = queue
            \/ /\ inbound' = inbound /\ pc'[h] = "idle"
               /\ queue' = queue \cup ({job[h].of} \cap Inbound)
  <1>1. /\ pc[h] = "persisting"
        /\ UNCHANGED <<record, lead, statusVars, writes, faults, ghostVars>>
    BY DEF Persist
  <1>2. job[h].of \in Inbound /\ job[h].report = None
    BY <1>1 DEF HandlerInv, Fine
  <1>3. pc[h] # "idle" /\ pc[h] \notin {"applying", "showing"}
    BY <1>1
  <1>4. CASE lead.there
    <2>1. /\ inbound' = [inbound EXCEPT ![job[h].of] = Stored(job[h].of)]
          /\ Go(h, "searching") /\ UNCHANGED <<job, queue>>
      BY <1>4 DEF Persist
    <2>2. inbound' \in [Inbound -> Nat]
      BY <1>2, <2>1, TypeParts DEF StoreType, Stored
    <2>3. StoreType' /\ Grows
      BY <1>1, <2>1, <2>2, TypeParts, SameRecords DEF StoreType, statusVars, ghostVars
    <2>4. pc'[h] = "searching" /\ job'[h] = job[h] => Fine(h)'
      BY <1>2 DEF Fine, Message
    <2>5. "searching" \in Step \ {"idle"} /\ "searching" \notin {"patching", "flagging"}
      BY DEF Step
    <2>6. Sound(h) /\ pc'[h] = "searching" /\ job'[h] = job[h]
      BY <1>3, <2>1, <2>3, <2>4, <2>5, GoOnSound
    <2> QED
      BY <1>1, <2>1, <2>6
  <1>5. CASE ~lead.there
    <2>1. Again(h) /\ UNCHANGED inbound
      BY <1>5 DEF Persist
    <2>2. queue' \subseteq Message \cup (Outbound \X Report)
      BY <1>3, <2>1, AgainQueue
    <2>3. queue' = queue \cup ({job[h].of} \cap Inbound)
      BY <1>3, <2>1, AgainQueue
    <2>4. StoreType' /\ Grows
      BY <1>1, <2>1, <2>2, TypeParts, SameRecords DEF StoreType, statusVars, ghostVars
    <2>5. Leave(h)
      BY <2>1 DEF Again
    <2>6. Sound(h) /\ pc'[h] = "idle"
      BY <2>4, <2>5, LeaveSound
    <2> QED
      BY <1>1, <2>1, <2>3, <2>6
  <1> QED
    BY <1>4, <1>5

LEMMA RecordAt ==
  ASSUME TypeOK, NEW r, r \in DOMAIN record
  PROVE  record[r] \in Record
  BY TypeParts DEF StoreType

LEMMA FirstRecord ==
  ASSUME TypeOK, record # <<>>
  PROVE  1 \in DOMAIN record
  BY TypeParts DEF StoreType

\* A record of the contact is written over.
LEMMA WriteOver ==
  ASSUME StoreType, NEW r, r \in DOMAIN record, NEW new, new \in Record,
         record' = [record EXCEPT ![r] = new]
  PROVE  /\ record' \in Seq(Record) /\ Len(record') = Len(record) /\ Grows
         /\ DOMAIN record' = DOMAIN record /\ record'[r] = new
         /\ \A q \in DOMAIN record \ {r} : record'[q] = record[q]
  BY DEF StoreType, Grows

LEMMA SearchLogSound ==
  ASSUME TypeOK, HandlerInv, NEW h \in Handler, SearchLog(h)
  PROVE  /\ Sound(h) /\ pc[h] = "searching"
         /\ UNCHANGED <<storeVars, statusVars, queue, ghostVars>>
         /\ \/ /\ pc'[h] = "patching" /\ 1 \in DOMAIN record
               /\ job'[h].of = job[h].of /\ job'[h].log = record[1].log
            \/ pc'[h] = "idle"
  <1>1. /\ pc[h] = "searching"
        /\ UNCHANGED <<storeVars, statusVars, queue, writes, ghostVars>>
    BY DEF SearchLog
  <1>2. faults' \in 0 .. MaxFaults
    BY TypeParts, FaultType DEF SearchLog
  <1>3. StoreType' /\ Grows
    BY <1>1, <1>2, TypeParts, SameRecords DEF StoreType, storeVars, statusVars, ghostVars
  <1>4. CASE Leave(h)
    BY <1>1, <1>3, <1>4, LeaveSound
  <1>5. CASE /\ record # <<>> /\ Go(h, "patching")
             /\ job' = [job EXCEPT ![h].found = 1, ![h].log = record[1].log]
    <2>1. job[h] \in Job /\ job[h].of \in Message /\ job[h].report = None
      BY <1>1, JobThere DEF HandlerInv, Fine
    <2>2. 1 \in DOMAIN record /\ record[1].log \in Log
      <3>1. 1 \in DOMAIN record
        BY <1>5, FirstRecord
      <3>2. record[1] \in Record
        BY <3>1, RecordAt
      <3> QED
        BY <3>1, <3>2 DEF Record
    <2>3. 1 \in 0 .. MaxRecords
      BY StoreAssumption
    <2>4. PICK j : j = [job[h] EXCEPT !.found = 1, !.log = record[1].log]
      OBVIOUS
    <2>5. /\ j \in Job /\ j.of = job[h].of /\ j.report = None /\ j.found = 1
          /\ j.log = record[1].log
      BY <2>1, <2>2, <2>3, <2>4 DEF Job
    <2>6. job' = [job EXCEPT ![h] = j]
      BY <1>5, <2>4
    <2>7. Sets(h, "patching", j)
      BY <1>5, <2>5, <2>6, JobNotNone DEF Sets, Go, Step
    <2>8. pc'[h] = "patching" /\ job'[h] = j
      BY <2>7, TypeParts, SetsHandler
    <2>9. Fine(h)'
      BY <2>1, <2>5, <2>8 DEF Fine
    <2>10. 1 \in DOMAIN record'
      BY <1>1, <2>2 DEF storeVars
    <2>11. job'[h].found \in DOMAIN record'
      BY <2>5, <2>8, <2>10
    <2>12. Sound(h)
      BY <1>3, <2>7, <2>9, <2>11 DEF Sound
    <2>13. job'[h].of = job[h].of /\ job'[h].log = record[1].log
      BY <2>5, <2>8
    <2> QED
      BY <1>1, <2>2, <2>8, <2>12, <2>13
  <1> QED
    BY <1>4, <1>5 DEF SearchLog

\* The log written back, and whose record it is.
LEMMA PatchLogSound ==
  ASSUME TypeOK, HandlerInv, NEW h \in Handler, PatchLog(h)
  PROVE  /\ Sound(h) /\ pc[h] = "patching"
         /\ UNCHANGED <<lead, inbound, statusVars, queue, answered, contested, resent>>
         /\ job[h] \in Job /\ job[h].of \in Message /\ job[h].found \in DOMAIN record
         /\ \/ /\ Len(record') = Len(record) /\ DOMAIN record' = DOMAIN record
               /\ record'[job[h].found] =
                    [record[job[h].found] EXCEPT !.log = [job[h].log EXCEPT ![job[h].of] = @ + 1]]
               /\ \A q \in DOMAIN record \ {job[h].found} : record'[q] = record[q]
            \/ record' = record
         /\ \/ pc'[h] = "appended" /\ job'[h] = job[h] /\ job[h].of \in Inbound
            \/ pc'[h] = "idle"
  <1> DEFINE r == job[h].found
             l == [job[h].log EXCEPT ![job[h].of] = @ + 1]
             new == [record[r] EXCEPT !.log = l]
  <1>1. /\ pc[h] = "patching"
        /\ UNCHANGED <<lead, inbound, statusVars, queue, writes, answered, contested, resent>>
    BY DEF PatchLog
  <1>2. faults' \in 0 .. MaxFaults
    BY TypeParts, FaultType DEF PatchLog
  <1>3. job[h] \in Job /\ job[h].of \in Message /\ job[h].report = None
    BY <1>1, JobThere DEF HandlerInv, Fine
  <1>4. r \in DOMAIN record
    BY <1>1, TypeParts DEF FoundThere
  <1>5. l \in Log
    BY <1>3 DEF Job, Log
  <1>6. new \in Record
    <2> HIDE DEF l
    <2>1. record[r] \in Record
      BY <1>4, RecordAt
    <2> QED
      BY <1>5, <2>1 DEF Record
  <1>7. /\ record' \in Seq(Record) /\ Len(record') = Len(record) /\ Grows
        /\ \/ /\ DOMAIN record' = DOMAIN record
              /\ record'[r] = new
              /\ \A q \in DOMAIN record \ {r} : record'[q] = record[q]
           \/ record' = record
    <2>1. CASE record' = [record EXCEPT ![r].log = l]
      <3>1. record' = [record EXCEPT ![r] = new]
        BY <2>1
      <3> HIDE DEF new
      <3> QED
        BY <1>4, <1>6, <3>1, TypeParts, WriteOver
    <2>2. CASE record' = record
      BY <2>2, TypeParts, SameRecords DEF StoreType
    <2> QED
      BY <2>1, <2>2 DEF PatchLog
  <1>8. torn' \in BOOLEAN
    BY TypeParts DEF StoreType, PatchLog
  <1>9. StoreType' /\ Grows
    BY <1>1, <1>2, <1>7, <1>8, TypeParts DEF StoreType, statusVars
  <1> HIDE DEF r, l, new
  <1>10. CASE job[h].of \in Inbound /\ Go(h, "appended") /\ UNCHANGED job
    <2>1. pc'[h] = "appended" /\ job'[h] = job[h] => Fine(h)'
      BY <1>3, <1>10 DEF Fine
    <2>2. "appended" \in Step \ {"idle"} /\ "appended" \notin {"patching", "flagging"}
      BY DEF Step
    <2>3. pc[h] # "idle"
      BY <1>1
    <2>4. Sound(h) /\ pc'[h] = "appended" /\ job'[h] = job[h]
      BY <1>9, <1>10, <2>1, <2>2, <2>3, GoOnSound
    <2> QED
      BY <1>1, <1>3, <1>4, <1>7, <1>10, <2>4 DEF r, l, new
  <1>11. CASE Leave(h)
    <2>1. Sound(h) /\ pc'[h] = "idle"
      BY <1>9, <1>11, LeaveSound
    <2> QED
      BY <1>1, <1>3, <1>4, <1>7, <2>1 DEF r, l, new
  <1>12. \/ job[h].of \in Inbound /\ Go(h, "appended") /\ UNCHANGED job
         \/ Leave(h)
    BY DEF PatchLog
  <1> QED
    BY <1>10, <1>11, <1>12

LEMMA GoOnToReply ==
  ASSUME TypeOK, HandlerInv, NEW h \in Handler, GoOn(h)
  PROVE  /\ Sound(h) /\ pc[h] = "appended" /\ pc'[h] = "idle"
         /\ job[h].of \in Inbound /\ answered' = answered \cup {job[h].of}
         /\ UNCHANGED <<storeVars, statusVars, queue, torn, contested, resent>>
  <1>1. /\ pc[h] = "appended" /\ Leave(h) /\ answered' = answered \cup {job[h].of}
        /\ UNCHANGED <<storeVars, statusVars, queue, writes, faults, torn, contested, resent>>
    BY DEF GoOn
  <1>2. job[h].of \in Inbound
    BY <1>1 DEF HandlerInv, Fine
  <1>3. StoreType' /\ Grows
    BY <1>1, <1>2, TypeParts, SameRecords DEF StoreType, storeVars, statusVars
  <1>4. Sound(h) /\ pc'[h] = "idle"
    BY <1>1, <1>3, LeaveSound
  <1> QED
    BY <1>1, <1>2, <1>4

\* The logs of the contact's records stay as they are.
LogsSame ==
    /\ Len(record') = Len(record) /\ DOMAIN record' = DOMAIN record
    /\ \A q \in DOMAIN record : record'[q].log = record[q].log

LEMMA FlagRecordSound ==
  ASSUME TypeOK, HandlerInv, NEW h \in Handler, FlagRecord(h)
  PROVE  /\ Sound(h) /\ pc[h] = "flagging"
         /\ UNCHANGED <<lead, inbound, statusVars, queue, answered, torn, resent>>
         /\ LogsSame /\ \A q \in DOMAIN record : record'[q].name = record[q].name
         /\ job[h].found \in DOMAIN record
         /\ \/ /\ pc'[h] = "mirroring" /\ job'[h] = job[h] /\ contested' = contested
               /\ record'[job[h].found].held = job[h].value
            \/ pc'[h] = "idle" /\ contested'
  <1> DEFINE r == job[h].found
             new == [record[r] EXCEPT !.held = job[h].value]
  <1>1. /\ pc[h] = "flagging"
        /\ UNCHANGED <<lead, inbound, statusVars, queue, writes, answered, torn, resent>>
        /\ record' = [record EXCEPT ![job[h].found].held = job[h].value] \/ record' = record
    BY DEF FlagRecord
  <1>2. faults' \in 0 .. MaxFaults
    BY TypeParts, FaultType DEF FlagRecord
  <1>3. job[h] \in Job /\ job[h].of = None /\ job[h].report = None
    BY <1>1, JobThere DEF HandlerInv, Fine
  <1>4. r \in DOMAIN record
    BY <1>1, TypeParts DEF FoundThere
  <1>5. record[r] \in Record /\ job[h].value \in BOOLEAN
    BY <1>3, <1>4, RecordAt DEF Job
  <1>6. new \in Record
    BY <1>5 DEF Record
  <1>7. new.log = record[r].log /\ new.name = record[r].name
    BY <1>5 DEF Record
  <1>8. new.held = job[h].value
    BY <1>5 DEF Record
  <1>9. /\ record' \in Seq(Record) /\ Len(record') = Len(record) /\ Grows
         /\ LogsSame /\ \A q \in DOMAIN record : record'[q].name = record[q].name
    <2>1. CASE record' = [record EXCEPT ![job[h].found].held = job[h].value]
      <3>1. record' = [record EXCEPT ![r] = new]
        BY <2>1
      <3> HIDE DEF new
      <3>2. /\ record' \in Seq(Record) /\ Len(record') = Len(record) /\ Grows
            /\ DOMAIN record' = DOMAIN record /\ record'[r] = new
            /\ \A q \in DOMAIN record \ {r} : record'[q] = record[q]
        BY <1>4, <1>6, <3>1, TypeParts, WriteOver
      <3> QED
        BY <1>7, <3>2 DEF LogsSame
    <2>2. CASE record' = record
      BY <2>2, TypeParts, SameRecords DEF StoreType, LogsSame
    <2> QED
      BY <1>1, <2>1, <2>2
  <1>10. contested' \in BOOLEAN
    BY TypeParts DEF StoreType, FlagRecord
  <1>11. StoreType' /\ Grows
    BY <1>1, <1>2, <1>9, <1>10, TypeParts DEF StoreType, statusVars
  <1>12. ASSUME record' = [record EXCEPT ![job[h].found].held = job[h].value]
         PROVE  record'[r].held = job[h].value
    <2>1. record' = [record EXCEPT ![r] = new]
      BY <1>12
    <2> HIDE DEF new
    <2>2. record'[r] = new
      BY <1>4, <1>6, <2>1, TypeParts, WriteOver
    <2> QED
      BY <1>8, <2>2
  <1> HIDE DEF r, new
  <1>13. CASE /\ record' = [record EXCEPT ![job[h].found].held = job[h].value]
              /\ Go(h, "mirroring") /\ UNCHANGED <<job, faults, contested>>
    <2>1. pc'[h] = "mirroring" /\ job'[h] = job[h] => Fine(h)'
      BY <1>3 DEF Fine
    <2>2. "mirroring" \in Step \ {"idle"} /\ "mirroring" \notin {"patching", "flagging"}
      BY DEF Step
    <2>3. pc[h] # "idle" /\ job' = job
      BY <1>1, <1>13
    <2>4. Sound(h) /\ pc'[h] = "mirroring" /\ job'[h] = job[h]
      BY <1>11, <1>13, <2>1, <2>2, <2>3, GoOnSound
    <2>5. record'[job[h].found].held = job[h].value
      BY <1>12, <1>13 DEF r
    <2>6. job[h].found \in DOMAIN record
      BY <1>4 DEF r
    <2> QED
      BY <1>1, <1>9, <1>13, <2>4, <2>5, <2>6
  <1>14. CASE Leave(h) /\ contested' = TRUE
    <2>1. Sound(h) /\ pc'[h] = "idle"
      BY <1>11, <1>14, LeaveSound
    <2>2. job[h].found \in DOMAIN record
      BY <1>4 DEF r
    <2> QED
      BY <1>1, <1>9, <1>14, <2>1, <2>2
  <1>15. \/ /\ record' = [record EXCEPT ![job[h].found].held = job[h].value]
            /\ Go(h, "mirroring") /\ UNCHANGED <<job, faults, contested>>
         \/ Leave(h) /\ contested' = TRUE
    BY DEF FlagRecord
  <1> QED
    BY <1>13, <1>14, <1>15

LEMMA MirrorFlagSound ==
  ASSUME TypeOK, HandlerInv, NEW h \in Handler, MirrorFlag(h)
  PROVE  /\ Sound(h) /\ pc[h] = "mirroring" /\ pc'[h] = "idle"
         /\ UNCHANGED <<record, inbound, statusVars, queue, answered, torn, resent>>
         /\ lead'.name = lead.name
         /\ (contested' = contested /\ lead'.held = job[h].value) \/ contested'
  <1>1. /\ pc[h] = "mirroring" /\ Leave(h)
        /\ UNCHANGED <<record, inbound, statusVars, queue, writes, answered, torn, resent>>
    BY DEF MirrorFlag
  <1>2. faults' \in 0 .. MaxFaults
    BY TypeParts, FaultType DEF MirrorFlag
  <1>3. job[h] \in Job
    BY <1>1, JobThere
  <1>4. job[h].value \in BOOLEAN
    BY <1>3 DEF Job
  <1>5. /\ lead' \in [there : BOOLEAN, held : BOOLEAN, name : BOOLEAN]
        /\ lead'.name = lead.name
    BY <1>4, TypeParts DEF StoreType, MirrorFlag
  <1>6. (contested' = contested /\ lead'.held = job[h].value) \/ contested'
    BY TypeParts DEF StoreType, MirrorFlag
  <1>7. contested' \in BOOLEAN
    BY TypeParts DEF StoreType, MirrorFlag
  <1>8. StoreType' /\ Grows
    BY <1>1, <1>2, <1>5, <1>7, TypeParts, SameRecords DEF StoreType, statusVars
  <1>9. Sound(h) /\ pc'[h] = "idle"
    BY <1>1, <1>8, LeaveSound
  <1> QED
    BY <1>1, <1>5, <1>6, <1>9

LEMMA UpdateRecordSound ==
  ASSUME TypeOK, HandlerInv, NEW h \in Handler, UpdateRecord(h)
  PROVE  /\ Sound(h) /\ pc[h] = "updating" /\ pc'[h] = "copying" /\ job'[h] = job[h]
         /\ UNCHANGED <<lead, inbound, statusVars, queue, answered, torn, resent>>
         /\ LogsSame /\ \A q \in DOMAIN record : record'[q].held = record[q].held
         /\ \/ contested' = contested /\ record'[1].name = job[h].value
            \/ contested'
  <1> DEFINE new == [record[1] EXCEPT !.name = job[h].value]
  <1>1. /\ pc[h] = "updating" /\ Go(h, "copying")
        /\ UNCHANGED <<lead, inbound, statusVars, queue, job, writes, answered, torn, resent>>
        /\ record' = [record EXCEPT ![1].name = job[h].value] \/ record' = record
    BY DEF UpdateRecord
  <1>2. faults' \in 0 .. MaxFaults
    BY TypeParts, FaultType DEF UpdateRecord
  <1>3. job[h] \in Job /\ job[h].of = None /\ job[h].report = None
    BY <1>1, JobThere DEF HandlerInv, Fine
  <1>4. 1 \in DOMAIN record
    BY <1>1 DEF HandlerInv, Fine
  <1>5. record[1] \in Record /\ job[h].value \in BOOLEAN
    BY <1>3, <1>4, RecordAt DEF Job
  <1>6. new \in Record
    BY <1>5 DEF Record
  <1>7. new.log = record[1].log /\ new.held = record[1].held
    BY <1>5 DEF Record
  <1>8. new.name = job[h].value
    BY <1>5 DEF Record
  <1>9. /\ record' \in Seq(Record) /\ Len(record') = Len(record) /\ Grows
        /\ LogsSame /\ \A q \in DOMAIN record : record'[q].held = record[q].held
    <2>1. CASE record' = [record EXCEPT ![1].name = job[h].value]
      <3>1. record' = [record EXCEPT ![1] = new]
        BY <2>1
      <3> HIDE DEF new
      <3>2. /\ record' \in Seq(Record) /\ Len(record') = Len(record) /\ Grows
            /\ DOMAIN record' = DOMAIN record /\ record'[1] = new
            /\ \A q \in DOMAIN record \ {1} : record'[q] = record[q]
        BY <1>4, <1>6, <3>1, TypeParts, WriteOver
      <3> QED
        BY <1>7, <3>2 DEF LogsSame
    <2>2. CASE record' = record
      BY <2>2, TypeParts, SameRecords DEF StoreType, LogsSame
    <2> QED
      BY <1>1, <2>1, <2>2
  <1>10. contested' \in BOOLEAN
    BY TypeParts DEF StoreType, UpdateRecord
  <1>11. StoreType' /\ Grows
    BY <1>1, <1>2, <1>9, <1>10, TypeParts DEF StoreType, statusVars
  <1>12. ASSUME record' = [record EXCEPT ![1].name = job[h].value]
         PROVE  record'[1].name = job[h].value
    <2>1. record' = [record EXCEPT ![1] = new]
      BY <1>12
    <2> HIDE DEF new
    <2>2. record'[1] = new
      BY <1>4, <1>6, <2>1, TypeParts, WriteOver
    <2> QED
      BY <1>8, <2>2
  <1> HIDE DEF new
  <1>13. (contested' = contested /\ record'[1].name = job[h].value) \/ contested'
    <2>1. CASE /\ record' = [record EXCEPT ![1].name = job[h].value]
               /\ UNCHANGED <<faults, contested>>
      BY <1>12, <2>1
    <2>2. CASE contested' = TRUE
      BY <2>2
    <2> QED
      BY <2>1, <2>2 DEF UpdateRecord
  <1>14. pc'[h] = "copying" /\ job'[h] = job[h] => Fine(h)'
    BY <1>3 DEF Fine
  <1>15. "copying" \in Step \ {"idle"} /\ "copying" \notin {"patching", "flagging"}
    BY DEF Step
  <1>16. pc[h] # "idle" /\ job' = job
    BY <1>1
  <1>17. Sound(h) /\ pc'[h] = "copying" /\ job'[h] = job[h]
    BY <1>1, <1>11, <1>14, <1>15, <1>16, GoOnSound
  <1> QED
    BY <1>1, <1>9, <1>13, <1>17

LEMMA UpdateShadowSound ==
  ASSUME TypeOK, HandlerInv, NEW h \in Handler, UpdateShadow(h)
  PROVE  /\ Sound(h) /\ pc[h] = "copying" /\ pc'[h] = "idle"
         /\ UNCHANGED <<record, inbound, statusVars, queue, answered, torn, resent>>
         /\ lead'.held = lead.held
         /\ (contested' = contested /\ lead'.name = job[h].value) \/ contested'
  <1>1. /\ pc[h] = "copying" /\ Leave(h)
        /\ UNCHANGED <<record, inbound, statusVars, queue, writes, answered, torn, resent>>
    BY DEF UpdateShadow
  <1>2. faults' \in 0 .. MaxFaults
    BY TypeParts, FaultType DEF UpdateShadow
  <1>3. job[h] \in Job
    BY <1>1, JobThere
  <1>4. job[h].value \in BOOLEAN
    BY <1>3 DEF Job
  <1>5. /\ lead' \in [there : BOOLEAN, held : BOOLEAN, name : BOOLEAN]
        /\ lead'.held = lead.held
    BY <1>4, TypeParts DEF StoreType, UpdateShadow, Updated
  <1>6. (contested' = contested /\ lead'.name = job[h].value) \/ contested'
    BY TypeParts DEF StoreType, UpdateShadow, Updated
  <1>7. contested' \in BOOLEAN
    BY TypeParts DEF StoreType, UpdateShadow
  <1>8. StoreType' /\ Grows
    BY <1>1, <1>2, <1>5, <1>7, TypeParts, SameRecords DEF StoreType, statusVars
  <1>9. Sound(h) /\ pc'[h] = "idle"
    BY <1>1, <1>8, LeaveSound
  <1> QED
    BY <1>1, <1>5, <1>6, <1>9

LEMMA StatusType ==
  ASSUME NEW s \in Report, NEW r \in Report
  PROVE  /\ NextProviderStatus(s, r) \in Report
         /\ s \in {"sent", r} => NextProviderStatus(s, r) = r
  BY DEF NextProviderStatus, Order, Report

LEMMA ApplyStatusSound ==
  ASSUME TypeOK, HandlerInv, NEW h \in Handler, ApplyStatus(h)
  PROVE  /\ Sound(h) /\ pc[h] = "applying" /\ pc'[h] = "showing" /\ job'[h] = job[h]
         /\ UNCHANGED <<storeVars, receipt, queue, ghostVars>>
         /\ job[h].of \in Outbound /\ job[h].report \in Report
         /\ \A m \in Outbound \ {job[h].of} : provider'[m] = provider[m] /\ shown'[m] = shown[m]
         /\ provider[job[h].of] \in {"sent", job[h].report} =>
              provider'[job[h].of] = job[h].report
         /\ shown[job[h].of] = provider[job[h].of] => shown'[job[h].of] = provider'[job[h].of]
  <1> DEFINE m == job[h].of
             next == NextProviderStatus(provider[m], job[h].report)
  <1>1. /\ pc[h] = "applying" /\ Go(h, "showing")
        /\ provider' = [provider EXCEPT ![m] = next]
        /\ shown' = [shown EXCEPT ![m] = IF next # provider[m] THEN next ELSE @]
        /\ UNCHANGED <<storeVars, receipt, queue, job, writes, faults, ghostVars>>
    BY DEF ApplyStatus
  <1>2. m \in Outbound /\ job[h].report \in Report
    BY <1>1 DEF HandlerInv, Fine
  <1>3. provider \in [Outbound -> Report] /\ shown \in [Outbound -> Report]
    BY TypeParts DEF StoreType
  <1>4. next \in Report /\ (provider[m] \in {"sent", job[h].report} => next = job[h].report)
    BY <1>2, <1>3, StatusType
  <1> HIDE DEF next
  <1>5. provider' \in [Outbound -> Report] /\ shown' \in [Outbound -> Report]
    BY <1>1, <1>2, <1>3, <1>4
  <1>6. /\ \A n \in Outbound \ {m} : provider'[n] = provider[n] /\ shown'[n] = shown[n]
        /\ provider'[m] = next
        /\ shown[m] = provider[m] => shown'[m] = next
    BY <1>1, <1>2, <1>3
  <1> HIDE DEF m
  <1>7. StoreType' /\ Grows
    BY <1>1, <1>5, TypeParts, SameRecords DEF StoreType, storeVars, ghostVars
  <1>8. pc'[h] = "showing" /\ job'[h] = job[h] => Fine(h)'
    BY <1>2 DEF Fine, m
  <1>9. "showing" \in Step \ {"idle"} /\ "showing" \notin {"patching", "flagging"}
    BY DEF Step
  <1>10. pc[h] # "idle" /\ job' = job
    BY <1>1
  <1>11. Sound(h) /\ pc'[h] = "showing" /\ job'[h] = job[h]
    BY <1>1, <1>7, <1>8, <1>9, <1>10, GoOnSound
  <1> QED
    BY <1>1, <1>2, <1>4, <1>6, <1>11 DEF m

LEMMA ShowStatusSound ==
  ASSUME TypeOK, HandlerInv, NEW h \in Handler, ShowStatus(h)
  PROVE  /\ Sound(h) /\ pc[h] = "showing" /\ pc'[h] = "idle"
         /\ UNCHANGED <<storeVars, provider, receipt, queue, ghostVars>>
         /\ job[h].of \in Outbound /\ job[h].report \in Report
         /\ \A m \in Outbound \ {job[h].of} : shown'[m] = shown[m]
         /\ shown'[job[h].of] \in {shown[job[h].of], job[h].report}
  <1>1. /\ pc[h] = "showing" /\ Leave(h)
        /\ UNCHANGED <<storeVars, provider, receipt, queue, writes, ghostVars>>
        /\ shown' = [shown EXCEPT ![job[h].of] = job[h].report] \/ shown' = shown
    BY DEF ShowStatus
  <1>2. faults' \in 0 .. MaxFaults
    BY TypeParts, FaultType DEF ShowStatus
  <1>3. job[h].of \in Outbound /\ job[h].report \in Report
    BY <1>1 DEF HandlerInv, Fine
  <1>4. /\ shown' \in [Outbound -> Report]
        /\ \A m \in Outbound \ {job[h].of} : shown'[m] = shown[m]
        /\ shown'[job[h].of] \in {shown[job[h].of], job[h].report}
    BY <1>1, <1>3, TypeParts DEF StoreType
  <1>5. StoreType' /\ Grows
    BY <1>1, <1>2, <1>4, TypeParts, SameRecords DEF StoreType, storeVars, ghostVars
  <1>6. Sound(h) /\ pc'[h] = "idle"
    BY <1>1, <1>5, LeaveSound
  <1> QED
    BY <1>1, <1>3, <1>4, <1>6

LEMMA CrashSound ==
  ASSUME TypeOK, HandlerInv, NEW h \in Handler, Crash(h)
  PROVE  /\ Sound(h) /\ pc[h] # "idle" /\ pc'[h] = "idle"
         /\ UNCHANGED <<storeVars, statusVars, answered, torn, resent>>
         /\ pc[h] \in {"applying", "showing"} =>
              queue' = queue \cup {<<job[h].of, job[h].report>>}
         /\ pc[h] \notin {"applying", "showing"} => queue' = queue \cup ({job[h].of} \cap Inbound)
         /\ contested' = (contested \/ Writing(h))
  <1>1. /\ pc[h] # "idle" /\ Again(h) /\ contested' = (contested \/ Writing(h))
        /\ UNCHANGED <<storeVars, statusVars, writes, answered, torn, resent>>
    BY DEF Crash
  <1>2. faults' \in 0 .. MaxFaults
    BY TypeParts, FaultType DEF Crash
  <1>3. /\ queue' \subseteq Message \cup (Outbound \X Report)
        /\ pc[h] \in {"applying", "showing"} =>
             queue' = queue \cup {<<job[h].of, job[h].report>>}
        /\ pc[h] \notin {"applying", "showing"} => queue' = queue \cup ({job[h].of} \cap Inbound)
    BY <1>1, AgainQueue
  <1>4. contested' \in BOOLEAN
    BY <1>1
  <1>5. StoreType' /\ Grows
    BY <1>1, <1>2, <1>3, <1>4, TypeParts, SameRecords DEF StoreType, storeVars, statusVars
  <1>6. Leave(h)
    BY <1>1 DEF Again
  <1>7. Sound(h) /\ pc'[h] = "idle"
    BY <1>5, <1>6, LeaveSound
  <1> QED
    BY <1>1, <1>3, <1>7

-----------------------------------------------------------------------------
(* A customer's message is in Postgres before it is in Airtable.            *)

\* Where logs, rows and answers stay, only the handler that moved matters.
LEMMA KeptFrame ==
  ASSUME KeptInv, NEW h \in Handler, \A g \in Handler \ {h} : Same(g),
         \A m \in Message : Logged(m)' <=> Logged(m),
         UNCHANGED <<inbound, answered, torn>>, Keeps(h)',
         \A g \in Handler : pc[g] = "appended" => job[g].of \in Message
  PROVE  KeptInv'
  <1>1. ASSUME NEW m \in Inbound
        PROVE  Kept(m)'
    BY DEF KeptInv, Kept, Message
  <1>2. ASSUME NEW g \in Handler \ {h}
        PROVE  Keeps(g)'
    BY <1>2 DEF KeptInv, Keeps, Same
  <1> QED
    BY <1>1, <1>2 DEF KeptInv

LEMMA AppendedOf ==
  ASSUME HandlerInv
  PROVE  \A g \in Handler : pc[g] = "appended" => job[g].of \in Message
  BY DEF HandlerInv, Fine, Message

LEMMA SameLogged ==
  ASSUME UNCHANGED record \/ LogsSame
  PROVE  \A m \in Message : Logged(m)' <=> Logged(m)
  BY DEF LogsSame, Logged

\* A handler that is not on its way to the log.
LEMMA KeepsElse ==
  ASSUME NEW h \in Handler, pc'[h] \notin {"searching", "patching", "appended"}
  PROVE  Keeps(h)'
  BY DEF Keeps

LEMMA AddRecordKept ==
  ASSUME TypeOK, HandlerInv, KeptInv, NEW h \in Handler, AddRecord(h)
  PROVE  KeptInv'
  <1>1. /\ Sound(h) /\ pc'[h] \in {"shadowing", "dropping"}
        /\ record' \in {record, Append(record, NewRecord)}
    BY AddRecordSound
  <1>2. \A g \in Handler \ {h} : Same(g)
    BY <1>1, SoundStep
  <1>3. UNCHANGED <<inbound, answered, torn>>
    BY DEF AddRecord, ghostVars
  <1>4. \A m \in Message : Logged(m)' <=> Logged(m)
    <2>1. CASE record' = record
      BY <2>1, SameLogged
    <2>2. CASE record' = Append(record, NewRecord)
      <3>1. \A m \in Message : ~(NewRecord.log[m] > 0)
        BY NewRecordType
      <3>2. PICK new : new = NewRecord
        OBVIOUS
      <3>3. record \in Seq(Record) /\ new \in Record
        BY <3>2, TypeParts, NewRecordType DEF StoreType
      <3>4. /\ DOMAIN record' = DOMAIN record \cup {Len(record) + 1}
            /\ record'[Len(record) + 1] = new
            /\ \A q \in DOMAIN record : record'[q] = record[q]
        BY <2>2, <3>2, <3>3
      <3> QED
        BY <3>1, <3>2, <3>4 DEF Logged
    <2> QED
      BY <1>1, <2>1, <2>2
  <1> QED
    BY <1>1, <1>2, <1>3, <1>4, KeepsElse, KeptFrame, AppendedOf

LEMMA PersistKept ==
  ASSUME TypeOK, HandlerInv, KeptInv, NEW h \in Handler, Persist(h)
  PROVE  KeptInv'
  <1>1. /\ Sound(h) /\ pc[h] = "persisting"
        /\ UNCHANGED <<record, lead, statusVars, ghostVars>>
        /\ \/ /\ inbound' = [inbound EXCEPT ![job[h].of] = Stored(job[h].of)]
              /\ pc'[h] = "searching" /\ job'[h] = job[h] /\ queue' = queue
           \/ /\ inbound' = inbound /\ pc'[h] = "idle"
              /\ queue' = queue \cup ({job[h].of} \cap Inbound)
    BY PersistSound
  <1>2. \A g \in Handler \ {h} : Same(g)
    BY <1>1, SoundStep
  <1>3. UNCHANGED <<record, answered, torn>>
    BY <1>1 DEF ghostVars
  <1>4. \A m \in Message : Logged(m)' <=> Logged(m)
    BY <1>3, SameLogged
  <1>5. CASE inbound' = inbound /\ pc'[h] = "idle"
    BY <1>2, <1>3, <1>4, <1>5, KeepsElse, KeptFrame, AppendedOf
  <1>6. CASE /\ inbound' = [inbound EXCEPT ![job[h].of] = Stored(job[h].of)]
             /\ pc'[h] = "searching" /\ job'[h] = job[h]
    <2>1. job[h].of \in Inbound
      BY <1>1 DEF HandlerInv, Fine
    <2>2. inbound \in [Inbound -> Nat] /\ inbound[job[h].of] <= 1
      BY <2>1, TypeParts DEF StoreType, KeptInv, Kept
    <2>3. Stored(job[h].of) = 1
      BY <2>1, <2>2 DEF Stored
    <2>4. /\ inbound'[job[h].of] = 1
          /\ \A m \in Inbound \ {job[h].of} : inbound'[m] = inbound[m]
      BY <1>6, <2>1, <2>2, <2>3
    <2>5. \A m \in Inbound : inbound[m] = 1 => inbound'[m] = 1
      BY <2>4
    <2>6. ASSUME NEW m \in Inbound
          PROVE  Kept(m)'
      <3>1. Kept(m) /\ (Logged(m)' <=> Logged(m))
        BY <1>4 DEF KeptInv, Message
      <3>2. inbound'[m] \in {1, inbound[m]}
        BY <2>4
      <3> QED
        BY <1>3, <2>5, <3>1, <3>2 DEF Kept
    <2>7. Keeps(h)'
      BY <1>6, <2>4 DEF Keeps
    <2>8. ASSUME NEW g \in Handler \ {h}
          PROVE  Keeps(g)'
      <3>1. Keeps(g) /\ Same(g)
        BY <1>2 DEF KeptInv
      <3> QED
        BY <1>3, <2>5, <3>1 DEF Keeps, Same, Logged
    <2> QED
      BY <2>6, <2>7, <2>8 DEF KeptInv
  <1> QED
    BY <1>1, <1>5, <1>6

LEMMA SearchLogKept ==
  ASSUME TypeOK, HandlerInv, KeptInv, NEW h \in Handler, SearchLog(h)
  PROVE  KeptInv'
  <1>1. /\ Sound(h) /\ pc[h] = "searching"
        /\ UNCHANGED <<storeVars, statusVars, queue, ghostVars>>
        /\ \/ /\ pc'[h] = "patching" /\ 1 \in DOMAIN record
              /\ job'[h].of = job[h].of /\ job'[h].log = record[1].log
           \/ pc'[h] = "idle"
    BY SearchLogSound
  <1>2. \A g \in Handler \ {h} : Same(g)
    BY <1>1, SoundStep
  <1>3. UNCHANGED <<record, inbound, answered, torn>>
    BY <1>1 DEF storeVars, ghostVars
  <1>4. \A m \in Message : Logged(m)' <=> Logged(m)
    BY <1>3, SameLogged
  <1>5. Keeps(h)'
    <2>1. CASE pc'[h] = "idle"
      BY <2>1, KeepsElse
    <2>2. CASE /\ pc'[h] = "patching" /\ 1 \in DOMAIN record
               /\ job'[h].of = job[h].of /\ job'[h].log = record[1].log
      <3>1. \A m \in Inbound : job'[h].log[m] > 0 => inbound[m] = 1
        BY <2>2 DEF KeptInv, Kept, Logged
      <3> QED
        BY <1>1, <1>3, <2>2, <3>1 DEF Keeps, KeptInv
    <2> QED
      BY <1>1, <2>1, <2>2
  <1> QED
    BY <1>2, <1>3, <1>4, <1>5, KeptFrame, AppendedOf

LEMMA PatchLogKept ==
  ASSUME TypeOK, HandlerInv, KeptInv, NEW h \in Handler, PatchLog(h)
  PROVE  KeptInv'
  <1> DEFINE r == job[h].found
             l == [job[h].log EXCEPT ![job[h].of] = @ + 1]
  <1>1. /\ Sound(h) /\ pc[h] = "patching"
        /\ UNCHANGED <<lead, inbound, statusVars, queue, answered, contested, resent>>
        /\ job[h] \in Job /\ job[h].of \in Message /\ r \in DOMAIN record
        /\ \/ /\ Len(record') = Len(record) /\ DOMAIN record' = DOMAIN record
              /\ record'[r] = [record[r] EXCEPT !.log = l]
              /\ \A q \in DOMAIN record \ {r} : record'[q] = record[q]
           \/ record' = record
        /\ \/ pc'[h] = "appended" /\ job'[h] = job[h] /\ job[h].of \in Inbound
           \/ pc'[h] = "idle"
    BY PatchLogSound
  <1>2. \A g \in Handler \ {h} : Same(g)
    BY <1>1, SoundStep
  <1>3. ~torn' => ~torn /\ record[r].log = job[h].log /\ record' # record
    BY DEF PatchLog
  <1>4. record[r] \in Record
    BY <1>1, RecordAt
  <1>5. /\ job[h].log \in [Message -> Nat] /\ l[job[h].of] > 0
        /\ \A m \in Message : l[m] > 0 => m = job[h].of \/ job[h].log[m] > 0
        /\ \A m \in Message : job[h].log[m] > 0 => l[m] > 0
    BY <1>1 DEF Job, Log
  <1> HIDE DEF l
  <1>6. /\ \A q \in DOMAIN record : q # r => record'[q] = record[q]
        /\ DOMAIN record' = DOMAIN record /\ record'[r].log \in {l, record[r].log}
        /\ record' # record => record'[r].log = l
    BY <1>1, <1>4 DEF Record
  <1> HIDE DEF r
  <1>7. ASSUME NEW m \in Inbound, Logged(m)'
        PROVE  inbound[m] = 1
    <2>1. PICK q \in DOMAIN record : record'[q].log[m] > 0
      BY <1>6, <1>7 DEF Logged
    <2>2. CASE record'[q].log = record[q].log
      BY <2>1, <2>2 DEF KeptInv, Kept, Logged
    <2>3. CASE q = r /\ record'[q].log = l
      <3>1. m = job[h].of \/ job[h].log[m] > 0
        BY <1>5, <2>1, <2>3 DEF Message
      <3> QED
        BY <1>1, <3>1 DEF KeptInv, Keeps
    <2> QED
      BY <1>6, <2>2, <2>3
  <1>8. ASSUME ~torn', NEW m \in Message, Logged(m)
        PROVE  Logged(m)'
    <2>1. PICK q \in DOMAIN record : record[q].log[m] > 0
      BY <1>8 DEF Logged
    <2>2. record'[q].log[m] > 0
      BY <1>3, <1>5, <1>6, <1>8, <2>1
    <2> QED
      BY <1>6, <2>1, <2>2 DEF Logged
  <1>9. ASSUME NEW m \in Inbound
        PROVE  Kept(m)'
    <2>1. Kept(m) /\ m \in Message
      BY DEF KeptInv, Message
    <2> QED
      BY <1>1, <1>3, <1>7, <1>8, <2>1 DEF Kept
  <1>10. PICK n : n = job[h].of
    OBVIOUS
  <1>11. ASSUME ~torn'
         PROVE  Logged(n)'
    <2>1. record'[r].log[n] > 0
      BY <1>3, <1>5, <1>6, <1>10, <1>11
    <2>2. r \in DOMAIN record'
      BY <1>1, <1>6 DEF r
    <2> QED
      BY <2>1, <2>2 DEF Logged
  <1>12. Keeps(h)'
    <2>1. CASE pc'[h] = "idle"
      BY <2>1, KeepsElse
    <2>2. CASE pc'[h] = "appended" /\ job'[h] = job[h] /\ job[h].of \in Inbound
      <3>1. inbound'[n] = 1
        BY <1>1, <1>10, <2>2 DEF KeptInv, Keeps
      <3>2. job'[h].of = n
        BY <1>10, <2>2
      <3> QED
        BY <1>11, <2>2, <3>1, <3>2 DEF Keeps
    <2> QED
      BY <1>1, <2>1, <2>2
  <1>13. ASSUME NEW g \in Handler \ {h}
         PROVE  Keeps(g)'
    <2>1. Keeps(g) /\ Same(g)
      BY <1>2 DEF KeptInv
    <2>2. PICK k : k = job[g].of
      OBVIOUS
    <2>3. pc[g] = "appended" => k \in Message
      BY <2>2, AppendedOf
    <2>4. pc'[g] = "appended" /\ ~torn' => Logged(k)'
      BY <1>3, <1>8, <2>1, <2>2, <2>3 DEF Keeps, Same
    <2>5. job'[g].of = k
      BY <2>1, <2>2 DEF Same
    <2> QED
      BY <1>1, <2>1, <2>4, <2>5 DEF Keeps, Same
  <1> QED
    BY <1>9, <1>12, <1>13 DEF KeptInv

LEMMA GoOnKept ==
  ASSUME TypeOK, HandlerInv, KeptInv, NEW h \in Handler, GoOn(h)
  PROVE  KeptInv'
  <1>1. /\ Sound(h) /\ pc[h] = "appended" /\ pc'[h] = "idle"
        /\ job[h].of \in Inbound /\ answered' = answered \cup {job[h].of}
        /\ UNCHANGED <<storeVars, statusVars, queue, torn, contested, resent>>
    BY GoOnToReply
  <1>2. \A g \in Handler \ {h} : Same(g)
    BY <1>1, SoundStep
  <1>3. UNCHANGED <<record, inbound, torn>>
    BY <1>1 DEF storeVars
  <1>4. ASSUME NEW m \in Inbound
        PROVE  Kept(m)'
    <2>1. Kept(m) /\ (Logged(m)' <=> Logged(m))
      BY <1>3 DEF KeptInv, Logged
    <2>2. inbound[job[h].of] = 1 /\ (~torn => Logged(job[h].of))
      BY <1>1 DEF KeptInv, Keeps
    <2> QED
      BY <1>1, <1>3, <2>1, <2>2 DEF Kept
  <1>5. Keeps(h)'
    BY <1>1, KeepsElse
  <1>6. ASSUME NEW g \in Handler \ {h}
        PROVE  Keeps(g)'
    BY <1>2, <1>3 DEF KeptInv, Keeps, Same, Logged
  <1> QED
    BY <1>4, <1>5, <1>6 DEF KeptInv

LEMMA StartKept ==
  ASSUME TypeOK, HandlerInv, KeptInv, NEW h \in Handler, Start(h)
  PROVE  KeptInv'
  <1>1. Sound(h) /\ Keeps(h)' /\ UNCHANGED <<record, inbound, answered, torn>>
    <2>1. ASSUME NEW m \in Inbound, StartJob(h, m)
          PROVE  Sound(h) /\ Keeps(h)' /\ UNCHANGED <<record, inbound, answered, torn>>
      <3>1. /\ Sound(h) /\ pc'[h] \in {"adding", "persisting"}
            /\ UNCHANGED <<storeVars, statusVars, ghostVars>>
        BY <2>1, StartJobSound
      <3> QED
        BY <3>1, KeepsElse DEF storeVars, ghostVars
    <2>2. ASSUME NEW m \in Outbound, StartMirror(h, m)
          PROVE  Sound(h) /\ Keeps(h)' /\ UNCHANGED <<record, inbound, answered, torn>>
      <3>1. /\ Sound(h) /\ pc'[h] = "searching" /\ job'[h].of = m
            /\ UNCHANGED <<storeVars, statusVars, ghostVars>>
        BY <2>2, StartMirrorSound
      <3>2. Keeps(h)'
        BY <3>1, StoreAssumption DEF Keeps
      <3> QED
        BY <3>1, <3>2 DEF storeVars, ghostVars
    <2>3. ASSUME NEW r \in DOMAIN record, NEW value \in BOOLEAN, StartSwitch(h, r, value)
          PROVE  Sound(h) /\ Keeps(h)' /\ UNCHANGED <<record, inbound, answered, torn>>
      <3>1. Sound(h) /\ pc'[h] = "flagging"
        BY <2>3, StartSwitchSound
      <3> QED
        BY <2>3, <3>1, KeepsElse DEF StartSwitch
    <2>4. ASSUME NEW value \in BOOLEAN, StartUpdate(h, value)
          PROVE  Sound(h) /\ Keeps(h)' /\ UNCHANGED <<record, inbound, answered, torn>>
      <3>1. Sound(h) /\ pc'[h] = "updating"
        BY <2>4, StartUpdateSound
      <3> QED
        BY <2>4, <3>1, KeepsElse DEF StartUpdate, storeVars
    <2>5. ASSUME NEW m \in Outbound, NEW report \in Report, StartReport(h, m, report)
          PROVE  Sound(h) /\ Keeps(h)' /\ UNCHANGED <<record, inbound, answered, torn>>
      <3>1. Sound(h) /\ pc'[h] = "applying" /\ UNCHANGED <<storeVars, statusVars, ghostVars>>
        BY <2>5, StartReportSound
      <3> QED
        BY <3>1, KeepsElse DEF storeVars, ghostVars
    <2> QED
      BY <2>1, <2>2, <2>3, <2>4, <2>5 DEF Start
  <1>2. \A g \in Handler \ {h} : Same(g)
    BY <1>1, SoundStep
  <1>3. \A m \in Message : Logged(m)' <=> Logged(m)
    BY <1>1, SameLogged
  <1> QED
    BY <1>1, <1>2, <1>3, KeptFrame, AppendedOf

\* The other steps touch neither logs, rows nor answers.
LEMMA ElseKept ==
  ASSUME TypeOK, HandlerInv, KeptInv, NEW h \in Handler, Sound(h),
         pc'[h] \notin {"searching", "patching", "appended"},
         UNCHANGED record \/ LogsSame, UNCHANGED <<inbound, answered, torn>>
  PROVE  KeptInv'
  <1>1. \A g \in Handler \ {h} : Same(g)
    BY SoundStep
  <1>2. \A m \in Message : Logged(m)' <=> Logged(m)
    BY SameLogged
  <1> QED
    BY <1>1, <1>2, KeepsElse, KeptFrame, AppendedOf

LEMMA WorkKept ==
  ASSUME TypeOK, HandlerInv, KeptInv, NEW h \in Handler, Work(h)
  PROVE  KeptInv'
  <1>1. CASE AddShadow(h)
    <2>1. /\ Sound(h) /\ pc'[h] \in {"persisting", "idle"}
          /\ UNCHANGED <<record, inbound, statusVars, queue, ghostVars>>
      BY <1>1, AddShadowSound
    <2> QED
      BY <2>1, ElseKept DEF ghostVars
  <1>2. CASE FlagRecord(h)
    <2>1. /\ Sound(h) /\ pc'[h] \in {"mirroring", "idle"} /\ LogsSame
          /\ UNCHANGED <<inbound, answered, torn>>
      BY <1>2, FlagRecordSound
    <2> QED
      BY <2>1, ElseKept
  <1>3. CASE MirrorFlag(h)
    <2>1. /\ Sound(h) /\ pc'[h] = "idle" /\ UNCHANGED record
          /\ UNCHANGED <<inbound, answered, torn>>
      BY <1>3, MirrorFlagSound
    <2> QED
      BY <2>1, ElseKept
  <1>4. CASE UpdateRecord(h)
    <2>1. /\ Sound(h) /\ pc'[h] = "copying" /\ LogsSame
          /\ UNCHANGED <<inbound, answered, torn>>
      BY <1>4, UpdateRecordSound
    <2> QED
      BY <2>1, ElseKept
  <1>5. CASE UpdateShadow(h)
    <2>1. /\ Sound(h) /\ pc'[h] = "idle" /\ UNCHANGED record
          /\ UNCHANGED <<inbound, answered, torn>>
      BY <1>5, UpdateShadowSound
    <2> QED
      BY <2>1, ElseKept
  <1>6. CASE ApplyStatus(h)
    <2>1. Sound(h) /\ pc'[h] = "showing" /\ UNCHANGED <<storeVars, ghostVars>>
      BY <1>6, ApplyStatusSound
    <2> QED
      BY <2>1, ElseKept DEF storeVars, ghostVars
  <1>7. CASE ShowStatus(h)
    <2>1. Sound(h) /\ pc'[h] = "idle" /\ UNCHANGED <<storeVars, ghostVars>>
      BY <1>7, ShowStatusSound
    <2> QED
      BY <2>1, ElseKept DEF storeVars, ghostVars
  <1>8. CASE Crash(h)
    <2>1. Sound(h) /\ pc'[h] = "idle" /\ UNCHANGED <<storeVars, answered, torn>>
      BY <1>8, CrashSound
    <2> QED
      BY <2>1, ElseKept DEF storeVars
  <1> QED
    BY <1>1, <1>2, <1>3, <1>4, <1>5, <1>6, <1>7, <1>8, AddRecordKept, PersistKept,
       SearchLogKept, PatchLogKept, GoOnKept DEF Work

-----------------------------------------------------------------------------
(* One report of a message is on its way.                                   *)

\* The reports in the queue are the ones that were there.
SameReports == \A m \in Outbound : Queued(m)' = Queued(m)

LEMMA NoMessageIsReport ==
  ASSUME NEW m \in Outbound, NEW r \in Report
  PROVE  <<m, r>> \notin Message
  BY KindsAssumption

\* Where nothing is recorded of a message, and nobody takes or gives back a
\* report of it, it has the same reports as before.
LEMMA ReportFrame ==
  ASSUME NEW m \in Outbound, OneReport(m), UNCHANGED <<provider, receipt>>,
         shown'[m] = shown[m], Queued(m)' = Queued(m), Holders(m)' = Holders(m),
         \A h \in Holders(m) : Same(h)
  PROVE  OneReport(m)'
  <1>1. \A h \in Holders(m) : job'[h] = job[h] /\ pc'[h] = pc[h]
    BY DEF Same
  <1> QED
    BY <1>1 DEF OneReport

LEMMA OthersHold ==
  ASSUME NEW m, NEW h \in Handler, \A g \in Handler \ {h} : Same(g)
  PROVE  /\ Holders(m)' \ {h} = Holders(m) \ {h}
         /\ \A g \in Holders(m) \ {h} : Same(g)
  BY DEF Holders, Same

\* A handler that has no report, before and after.
LEMMA ElseReport ==
  ASSUME TypeOK, HandlerInv, ReportInv, NEW h \in Handler, Sound(h),
         pc[h] \notin {"applying", "showing"}, pc'[h] \notin {"applying", "showing"},
         UNCHANGED <<provider, shown, receipt, resent>>, SameReports
  PROVE  ReportInv'
  <1>1. \A g \in Handler \ {h} : Same(g)
    BY SoundStep
  <1>2. ASSUME NEW m \in Outbound \ resent
        PROVE  OneReport(m)'
    <2>1. h \notin Holders(m) /\ h \notin Holders(m)'
      BY DEF Holders
    <2>2. Holders(m)' = Holders(m) /\ \A g \in Holders(m) : Same(g)
      BY <1>1, <2>1, OthersHold
    <2>3. OneReport(m) /\ Queued(m)' = Queued(m)
      BY DEF ReportInv, SameReports
    <2>4. UNCHANGED <<provider, receipt>> /\ shown'[m] = shown[m]
      OBVIOUS
    <2> QED
      BY <2>2, <2>3, <2>4, ReportFrame
  <1> QED
    BY <1>2 DEF ReportInv

\* Messages come and go in the queue without a report moving.
LEMMA MessagesMove ==
  ASSUME NEW M, M \subseteq Message, queue' \in {queue, queue \ M, queue \cup M}
  PROVE  SameReports
  <1>1. ASSUME NEW m \in Outbound, NEW r \in Report
        PROVE  <<m, r>> \in queue' <=> <<m, r>> \in queue
    BY NoMessageIsReport
  <1> QED
    BY <1>1 DEF SameReports, Queued

\* A report moves without touching the ones of other messages.
LEMMA OtherReports ==
  ASSUME NEW m \in Outbound, NEW r \in Report, NEW n \in Outbound, n # m,
         queue' \in {queue, queue \ {<<m, r>>}, queue \cup {<<m, r>>}}
  PROVE  Queued(n)' = Queued(n)
  BY DEF Queued

\* A step with the report of one message: the others' stay.
LEMMA OneReportStep ==
  ASSUME TypeOK, HandlerInv, ReportInv, NEW h \in Handler, Sound(h), NEW m \in Outbound,
         UNCHANGED <<receipt, resent>>,
         \A n \in Outbound \ {m} : provider'[n] = provider[n] /\ shown'[n] = shown[n],
         \A n \in Outbound \ {m} : Queued(n)' = Queued(n),
         \A n \in Outbound \ {m} : h \notin Holders(n) /\ h \notin Holders(n)',
         m \notin resent => OneReport(m)'
  PROVE  ReportInv'
  <1>1. \A g \in Handler \ {h} : Same(g)
    BY SoundStep
  <1>2. ASSUME NEW n \in Outbound \ resent, n # m
        PROVE  OneReport(n)'
    <2>1. Holders(n)' = Holders(n) /\ \A g \in Holders(n) : Same(g)
      BY <1>1, <1>2, OthersHold
    <2>2. /\ OneReport(n) /\ Queued(n)' = Queued(n) /\ receipt'[n] = receipt[n]
          /\ provider'[n] = provider[n] /\ shown'[n] = shown[n]
      BY <1>2 DEF ReportInv
    <2>3. \A g \in Holders(n) : job'[g] = job[g] /\ pc'[g] = pc[g]
      BY <2>1 DEF Same
    <2> QED
      BY <2>1, <2>2, <2>3 DEF OneReport
  <1> QED
    BY <1>2 DEF ReportInv

LEMMA StartReportReport ==
  ASSUME TypeOK, HandlerInv, ReportInv, NEW h \in Handler, NEW m \in Outbound,
         NEW report \in Report, StartReport(h, m, report)
  PROVE  ReportInv'
  <1>1. /\ Sound(h) /\ pc[h] = "idle" /\ pc'[h] = "applying"
        /\ job'[h].of = m /\ job'[h].report = report
        /\ UNCHANGED <<storeVars, statusVars, ghostVars>>
        /\ <<m, report>> \in queue /\ queue' = queue \ {<<m, report>>}
    BY StartReportSound
  <1>2. UNCHANGED <<receipt, resent, provider, shown>>
    BY <1>1 DEF statusVars, ghostVars
  <1>3. \A g \in Handler \ {h} : Same(g)
    BY <1>1, SoundStep
  <1>4. \A n \in Outbound \ {m} : Queued(n)' = Queued(n)
    BY <1>1, OtherReports
  <1>5. \A n \in Outbound \ {m} : h \notin Holders(n) /\ h \notin Holders(n)'
    BY <1>1 DEF Holders
  <1>6. ASSUME m \notin resent
        PROVE  OneReport(m)'
    <2>1. OneReport(m)
      BY <1>6 DEF ReportInv
    <2>2. report \in Queued(m) /\ Queued(m)' = Queued(m) \ {report}
      BY <1>1 DEF Queued
    <2>3. Queued(m)' = {} /\ Holders(m) = {} /\ receipt[m] \notin {"none", "enqueue_failed"}
      BY <2>1, <2>2 DEF OneReport
    <2>4. Holders(m)' = {h}
      <3>1. h \notin Holders(m) /\ h \in Holders(m)'
        BY <1>1 DEF Holders
      <3> QED
        BY <1>3, <2>3, <3>1, OthersHold
    <2>5. provider[m] \in {"sent", report} /\ shown[m] = provider[m]
      BY <2>1, <2>2 DEF OneReport
    <2> QED
      BY <1>1, <1>2, <2>3, <2>4, <2>5 DEF OneReport
  <1> QED
    BY <1>1, <1>2, <1>4, <1>5, <1>6, OneReportStep

LEMMA ApplyReport ==
  ASSUME TypeOK, HandlerInv, ReportInv, NEW h \in Handler, ApplyStatus(h)
  PROVE  ReportInv'
  <1>1. PICK m, r : m = job[h].of /\ r = job[h].report
    OBVIOUS
  <1>2. /\ Sound(h) /\ pc[h] = "applying" /\ pc'[h] = "showing" /\ job'[h] = job[h]
        /\ UNCHANGED <<storeVars, receipt, queue, ghostVars>>
        /\ m \in Outbound /\ r \in Report
        /\ \A n \in Outbound \ {m} : provider'[n] = provider[n] /\ shown'[n] = shown[n]
        /\ provider[m] \in {"sent", r} => provider'[m] = r
        /\ shown[m] = provider[m] => shown'[m] = provider'[m]
    BY <1>1, ApplyStatusSound
  <1>3. UNCHANGED <<receipt, resent, queue>>
    BY <1>2 DEF ghostVars
  <1>4. \A g \in Handler \ {h} : Same(g)
    BY <1>2, SoundStep
  <1>5. \A n \in Outbound : Queued(n)' = Queued(n)
    BY <1>3 DEF Queued
  <1>6. \A n \in Outbound \ {m} : h \notin Holders(n) /\ h \notin Holders(n)'
    BY <1>1, <1>2 DEF Holders
  <1>7. ASSUME m \notin resent
        PROVE  OneReport(m)'
    <2>1. OneReport(m)
      BY <1>2, <1>7 DEF ReportInv
    <2>2. h \in Holders(m) /\ h \in Holders(m)'
      BY <1>1, <1>2 DEF Holders
    <2>3. Queued(m)' = {} /\ Holders(m)' = {h} /\ receipt'[m] \notin {"none", "enqueue_failed"}
      <3>1. Queued(m) = {} /\ Holders(m) = {h} /\ receipt[m] \notin {"none", "enqueue_failed"}
        BY <2>1, <2>2 DEF OneReport
      <3>2. Holders(m)' = {h}
        BY <1>4, <2>2, <3>1, OthersHold
      <3> QED
        BY <1>2, <1>3, <1>5, <3>1, <3>2
    <2>4. provider'[m] = r /\ shown'[m] = r /\ job'[h].report = r
      BY <1>1, <1>2, <2>1, <2>2 DEF OneReport
    <2> QED
      BY <1>2, <2>3, <2>4 DEF OneReport
  <1> QED
    BY <1>2, <1>3, <1>5, <1>6, <1>7, OneReportStep

LEMMA ShowReport ==
  ASSUME TypeOK, HandlerInv, ReportInv, NEW h \in Handler, ShowStatus(h)
  PROVE  ReportInv'
  <1>1. PICK m, r : m = job[h].of /\ r = job[h].report
    OBVIOUS
  <1>2. /\ Sound(h) /\ pc[h] = "showing" /\ pc'[h] = "idle"
        /\ UNCHANGED <<storeVars, provider, receipt, queue, ghostVars>>
        /\ m \in Outbound /\ r \in Report
        /\ \A n \in Outbound \ {m} : shown'[n] = shown[n]
        /\ shown'[m] \in {shown[m], r}
    BY <1>1, ShowStatusSound
  <1>3. UNCHANGED <<receipt, resent, queue, provider>>
    BY <1>2 DEF ghostVars
  <1>4. \A g \in Handler \ {h} : Same(g)
    BY <1>2, SoundStep
  <1>5. \A n \in Outbound : Queued(n)' = Queued(n)
    BY <1>3 DEF Queued
  <1>6. /\ \A n \in Outbound \ {m} : h \notin Holders(n)
        /\ \A n \in Outbound : h \notin Holders(n)'
    BY <1>1, <1>2 DEF Holders
  <1>7. ASSUME m \notin resent
        PROVE  OneReport(m)'
    <2>1. OneReport(m)
      BY <1>2, <1>7 DEF ReportInv
    <2>2. h \in Holders(m) /\ h \notin Holders(m)'
      BY <1>1, <1>2, <1>6 DEF Holders
    <2>3. Queued(m)' = {} /\ Holders(m)' = {} /\ receipt'[m] \notin {"none", "enqueue_failed"}
      <3>1. Queued(m) = {} /\ Holders(m) = {h} /\ receipt[m] \notin {"none", "enqueue_failed"}
        BY <2>1, <2>2 DEF OneReport
      <3>2. Holders(m)' = {}
        BY <1>4, <2>2, <3>1, OthersHold
      <3> QED
        BY <1>2, <1>3, <1>5, <3>1, <3>2
    <2>4. provider[m] = r /\ shown[m] = r
      BY <1>1, <1>2, <2>1, <2>2 DEF OneReport
    <2>5. provider'[m] = r /\ shown'[m] = r
      BY <1>2, <1>3, <2>4
    <2> QED
      BY <2>3, <2>5 DEF OneReport
  <1> QED
    BY <1>2, <1>3, <1>5, <1>6, <1>7, OneReportStep

\* A handler that dies gives back the report it had.
LEMMA CrashReport ==
  ASSUME TypeOK, HandlerInv, ReportInv, NEW h \in Handler, Crash(h)
  PROVE  ReportInv'
  <1>1. PICK m, r : m = job[h].of /\ r = job[h].report
    OBVIOUS
  <1>2. /\ Sound(h) /\ pc[h] # "idle" /\ pc'[h] = "idle"
        /\ UNCHANGED <<storeVars, statusVars, answered, torn, resent>>
        /\ pc[h] \in {"applying", "showing"} => queue' = queue \cup {<<m, r>>}
        /\ pc[h] \notin {"applying", "showing"} => queue' = queue \cup ({m} \cap Inbound)
    BY <1>1, CrashSound
  <1>3. UNCHANGED <<receipt, resent, provider, shown>>
    BY <1>2 DEF statusVars
  <1>4. \A g \in Handler \ {h} : Same(g)
    BY <1>2, SoundStep
  <1>5. CASE pc[h] \notin {"applying", "showing"}
    <2>1. {m} \cap Inbound \subseteq Message
      BY DEF Message
    <2>2. PICK M : M = {m} \cap Inbound
      OBVIOUS
    <2>3. SameReports
      BY <1>2, <1>5, <2>1, <2>2, MessagesMove
    <2> QED
      BY <1>2, <1>3, <1>5, <2>3, ElseReport
  <1>6. CASE pc[h] \in {"applying", "showing"}
    <2>1. m \in Outbound /\ r \in Report
      BY <1>1, <1>6 DEF HandlerInv, Fine
    <2>2. \A n \in Outbound \ {m} : Queued(n)' = Queued(n)
      BY <1>2, <1>6, <2>1, OtherReports
    <2>3. /\ \A n \in Outbound \ {m} : h \notin Holders(n)
          /\ \A n \in Outbound : h \notin Holders(n)'
      BY <1>1, <1>2 DEF Holders
    <2>4. ASSUME m \notin resent
          PROVE  OneReport(m)'
      <3>1. OneReport(m)
        BY <2>1, <2>4 DEF ReportInv
      <3>2. h \in Holders(m)
        BY <1>1, <1>6 DEF Holders
      <3>3. Queued(m) = {} /\ Holders(m) = {h} /\ receipt[m] \notin {"none", "enqueue_failed"}
        BY <3>1, <3>2 DEF OneReport
      <3>4. Holders(m)' = {}
        BY <1>4, <2>1, <2>3, <3>3, OthersHold
      <3>5. Queued(m)' = {r}
        BY <1>2, <1>6, <2>1, <3>3 DEF Queued
      <3>6. provider[m] \in {"sent", r} /\ shown[m] = provider[m]
        BY <1>1, <3>1, <3>2 DEF OneReport
      <3> QED
        BY <1>3, <3>3, <3>4, <3>5, <3>6 DEF OneReport
    <2>5. \A n \in Outbound \ {m} : provider'[n] = provider[n] /\ shown'[n] = shown[n]
      BY <1>3
    <2> QED
      BY <1>2, <1>3, <2>1, <2>2, <2>3, <2>4, <2>5, OneReportStep
  <1> QED
    BY <1>5, <1>6

LEMMA ArrivesReport ==
  ASSUME TypeOK, ReportInv, NEW m \in Outbound, NEW report \in Report,
         ReportArrives(m, report)
  PROVE  ReportInv'
  <1>1. /\ UNCHANGED <<provider, shown, pc, job>>
        /\ receipt[m] # "taken" /\ queue' \in {queue, queue \cup {<<m, report>>}}
    BY DEF ReportArrives
  <1>2. receipt \in [Outbound -> {"none", "enqueue_failed", "taken"}]
    BY TypeParts DEF StoreType
  <1>3. ASSUME NEW n \in Outbound \ resent', n # m
        PROVE  OneReport(n)'
    <2>1. n \notin resent /\ receipt'[n] = receipt[n]
      BY <1>2, <1>3 DEF ReportArrives
    <2>2. Queued(n)' = Queued(n)
      BY <1>1, <1>3, OtherReports
    <2>3. Holders(n)' = Holders(n)
      BY <1>1 DEF Holders
    <2> QED
      BY <1>1, <2>1, <2>2, <2>3 DEF ReportInv, OneReport
  <1>4. ASSUME m \notin resent'
        PROVE  OneReport(m)'
    <2>1. /\ m \notin resent /\ receipt' = [receipt EXCEPT ![m] = "taken"]
          /\ queue' = queue \cup {<<m, report>>}
      BY <1>4 DEF ReportArrives
    <2>2. receipt'[m] = "taken" /\ OneReport(m)
      BY <1>2, <2>1 DEF ReportInv
    <2>3. receipt[m] = "none"
      BY <1>1, <1>2, <2>2 DEF OneReport
    <2>4. Queued(m) = {} /\ Holders(m) = {} /\ provider[m] = "sent" /\ shown[m] = "sent"
      BY <2>2, <2>3 DEF OneReport
    <2>5. Queued(m)' = {report}
      BY <2>1, <2>4 DEF Queued
    <2>6. Holders(m)' = {}
      BY <1>1, <2>4 DEF Holders
    <2> QED
      BY <1>1, <2>2, <2>4, <2>5, <2>6 DEF OneReport
  <1> QED
    BY <1>3, <1>4 DEF ReportInv

LEMMA StartReported ==
  ASSUME TypeOK, HandlerInv, ReportInv, NEW h \in Handler, Start(h)
  PROVE  ReportInv'
  <1>1. ASSUME NEW m \in Inbound, StartJob(h, m)
        PROVE  ReportInv'
    <2>1. /\ Sound(h) /\ pc[h] = "idle" /\ pc'[h] \in {"adding", "persisting"}
          /\ UNCHANGED <<storeVars, statusVars, ghostVars>> /\ queue' = queue \ {m}
      BY <1>1, StartJobSound
    <2>2. PICK M : M = {m}
      OBVIOUS
    <2>3. SameReports
      BY <2>1, <2>2, MessagesMove DEF Message
    <2> QED
      BY <2>1, <2>3, ElseReport DEF statusVars, ghostVars
  <1>2. ASSUME NEW m \in Outbound, StartMirror(h, m)
        PROVE  ReportInv'
    <2>1. /\ Sound(h) /\ pc[h] = "idle" /\ pc'[h] = "searching"
          /\ UNCHANGED <<storeVars, statusVars, ghostVars>> /\ queue' = queue \ {m}
      BY <1>2, StartMirrorSound
    <2>2. PICK M : M = {m}
      OBVIOUS
    <2>3. SameReports
      BY <2>1, <2>2, MessagesMove DEF Message
    <2> QED
      BY <2>1, <2>3, ElseReport DEF statusVars, ghostVars
  <1>3. ASSUME NEW r \in DOMAIN record, NEW value \in BOOLEAN, StartSwitch(h, r, value)
        PROVE  ReportInv'
    <2>1. Sound(h) /\ pc[h] = "idle" /\ pc'[h] = "flagging"
      BY <1>3, StartSwitchSound
    <2>2. UNCHANGED <<statusVars, queue, resent>>
      BY <1>3 DEF StartSwitch
    <2> QED
      BY <2>1, <2>2, ElseReport DEF statusVars, SameReports, Queued
  <1>4. ASSUME NEW value \in BOOLEAN, StartUpdate(h, value)
        PROVE  ReportInv'
    <2>1. Sound(h) /\ pc[h] = "idle" /\ pc'[h] = "updating"
      BY <1>4, StartUpdateSound
    <2>2. UNCHANGED <<statusVars, queue, resent>>
      BY <1>4 DEF StartUpdate
    <2> QED
      BY <2>1, <2>2, ElseReport DEF statusVars, SameReports, Queued
  <1>5. ASSUME NEW m \in Outbound, NEW report \in Report, StartReport(h, m, report)
        PROVE  ReportInv'
    BY <1>5, StartReportReport
  <1> QED
    BY <1>1, <1>2, <1>3, <1>4, <1>5 DEF Start

LEMMA WorkReported ==
  ASSUME TypeOK, HandlerInv, ReportInv, NEW h \in Handler, Work(h)
  PROVE  ReportInv'
  <1>1. CASE Persist(h)
    <2>1. /\ Sound(h) /\ pc[h] = "persisting" /\ pc'[h] \in {"searching", "idle"}
          /\ UNCHANGED <<statusVars, ghostVars>>
          /\ queue' \in {queue, queue \cup ({job[h].of} \cap Inbound)}
      BY <1>1, PersistSound
    <2>2. PICK M : M = {job[h].of} \cap Inbound
      OBVIOUS
    <2>3. SameReports
      BY <2>1, <2>2, MessagesMove DEF Message
    <2> QED
      BY <2>1, <2>3, ElseReport DEF statusVars, ghostVars
  <1>2. CASE \/ AddRecord(h) \/ AddShadow(h) \/ SearchLog(h) \/ PatchLog(h) \/ GoOn(h)
             \/ FlagRecord(h) \/ MirrorFlag(h) \/ UpdateRecord(h) \/ UpdateShadow(h)
    <2>1. /\ Sound(h) /\ pc'[h] \notin {"applying", "showing"}
      BY <1>2, AddRecordSound, AddShadowSound, SearchLogSound, PatchLogSound, GoOnToReply,
         FlagRecordSound, MirrorFlagSound, UpdateRecordSound, UpdateShadowSound
    <2>2. pc[h] \notin {"applying", "showing"} /\ UNCHANGED <<statusVars, queue, resent>>
      BY <1>2 DEF AddRecord, AddShadow, SearchLog, PatchLog, GoOn, FlagRecord, MirrorFlag,
         UpdateRecord, UpdateShadow, ghostVars
    <2> QED
      BY <2>1, <2>2, ElseReport DEF statusVars, SameReports, Queued
  <1> QED
    BY <1>1, <1>2, ApplyReport, ShowReport, CrashReport DEF Work

-----------------------------------------------------------------------------
(* One copy before the other.                                               *)

LEMMA EmptyBefore ==
  ASSUME TypeOK, Grows, record' = <<>>
  PROVE  record = <<>>
  BY TypeParts DEF StoreType, Grows

LEMMA NothingYetStep ==
  ASSUME TypeOK, HandlerInv, CopyInv, NEW h \in Handler, Sound(h),
         record = <<>> => ~Writing(h)' /\ lead'.held = lead.held /\ lead'.name = lead.name
  PROVE  NothingYet'
  <1> SUFFICES ASSUME record' = <<>>
               PROVE  ~lead'.held /\ ~lead'.name /\ \A g \in Handler : ~Writing(g)'
    BY DEF NothingYet
  <1>1. record = <<>>
    BY EmptyBefore DEF Sound
  <1>2. ~lead.held /\ ~lead.name /\ \A g \in Handler : ~Writing(g)
    BY <1>1 DEF CopyInv, NothingYet
  <1>3. \A g \in Handler \ {h} : Same(g)
    BY SoundStep
  <1>4. \A g \in Handler : ~Writing(g)'
    BY <1>1, <1>2, <1>3 DEF Writing, Same
  <1> QED
    BY <1>1, <1>2, <1>4

\* What the two copies say while no other handler is between them.
Mine(h) ==
    /\ pc[h] # "flagging" => record[1].held = lead.held
    /\ pc[h] # "copying" => record[1].name = lead.name
    /\ pc[h] \in {"flagging", "mirroring"} => lead.held = job[h].value
    /\ pc[h] = "copying" => record[1].name = job[h].value

Alone(h) == \A g \in Handler \ {h} : ~Writing(g)

LEMMA MineAlone ==
  ASSUME NEW h \in Handler, Alone(h), Len(record) = 1, ~contested
  PROVE  Copied <=> Mine(h)
  BY DEF Copied, Mine, Alone, Writing

LEMMA AloneNext ==
  ASSUME NEW h \in Handler, Alone(h), \A g \in Handler \ {h} : Same(g)
  PROVE  Alone(h)'
  BY DEF Alone, Writing, Same

LEMMA WriterAlone ==
  ASSUME CopyInv, NEW h \in Handler, Writing(h), ~contested
  PROVE  Alone(h)
  BY DEF CopyInv, OneWriter, Alone

\* A write of one handler, alone between the copies.
LEMMA WriterCopy ==
  ASSUME TypeOK, HandlerInv, CopyInv, NEW h \in Handler, Sound(h),
         Len(record') = Len(record), record # <<>>,
         ~contested' => ~contested /\ Alone(h),
         Len(record) = 1 /\ Mine(h) /\ ~contested' => Mine(h)'
  PROVE  CopyInv'
  <1>1. NothingYet'
    BY NothingYetStep
  <1>2. \A g \in Handler \ {h} : Same(g)
    BY SoundStep
  <1>3. CASE contested'
    BY <1>1, <1>3 DEF CopyInv, OneWriter, Copied
  <1>4. CASE ~contested'
    <2>1. ~contested /\ Alone(h) /\ Alone(h)'
      BY <1>2, <1>4, AloneNext
    <2>2. OneWriter'
      BY <2>1 DEF Alone, OneWriter
    <2>3. ASSUME Len(record') = 1
          PROVE  Copied'
      <3>1. Mine(h)
        BY <2>1, <2>3, MineAlone DEF CopyInv
      <3>2. Mine(h)'
        BY <1>4, <2>3, <3>1
      <3> QED
        BY <1>4, <2>1, <2>3, <3>2 DEF Copied, Mine, Alone, Writing
    <2>4. Copied'
      BY <2>3 DEF Copied
    <2> QED
      BY <1>1, <2>2, <2>4 DEF CopyInv
  <1> QED
    BY <1>3, <1>4

\* A step of a handler that is not between the copies.
FlagsSame ==
    /\ Len(record') = Len(record)
    /\ Len(record) = 1 => record'[1].held = record[1].held
    /\ Len(record) = 1 => record'[1].name = record[1].name
    /\ lead'.held = lead.held /\ lead'.name = lead.name

LEMMA ElseCopy ==
  ASSUME TypeOK, HandlerInv, CopyInv, NEW h \in Handler, Sound(h),
         ~Writing(h), ~Writing(h)', FlagsSame, contested => contested'
  PROVE  CopyInv'
  <1>1. NothingYet'
    BY NothingYetStep DEF FlagsSame
  <1>2. \A g \in Handler \ {h} : Same(g)
    BY SoundStep
  <1>3. \A g \in Handler : Writing(g)' => Writing(g) /\ Same(g)
    BY <1>2 DEF Writing, Same
  <1>4. \A g \in Handler : Writing(g) => Same(g)
    BY <1>2
  <1>5. OneWriter'
    BY <1>3 DEF CopyInv, OneWriter
  <1>6. ASSUME Len(record') = 1, ~contested'
        PROVE  /\ (\A g \in Handler : pc'[g] # "flagging") => record'[1].held = lead'.held
               /\ (\A g \in Handler : pc'[g] # "copying") => record'[1].name = lead'.name
               /\ \A g \in Handler :
                    /\ pc'[g] \in {"flagging", "mirroring"} => lead'.held = job'[g].value
                    /\ pc'[g] = "copying" => record'[1].name = job'[g].value
    <2>1. Len(record) = 1 /\ ~contested /\ Copied
      BY <1>6 DEF CopyInv, FlagsSame
    <2>2. (\A g \in Handler : pc'[g] # "flagging") => \A g \in Handler : pc[g] # "flagging"
      BY <1>4 DEF Writing, Same
    <2>3. (\A g \in Handler : pc'[g] # "copying") => \A g \in Handler : pc[g] # "copying"
      BY <1>4 DEF Writing, Same
    <2>4. /\ record'[1].held = record[1].held /\ lead'.held = lead.held
          /\ record'[1].name = record[1].name /\ lead'.name = lead.name
      BY <2>1 DEF FlagsSame
    <2> QED
      BY <1>3, <2>1, <2>2, <2>3, <2>4 DEF Copied, Writing, Same
  <1>7. Copied'
    BY <1>6 DEF Copied
  <1> QED
    BY <1>1, <1>5, <1>7 DEF CopyInv

LEMMA AddRecordCopy ==
  ASSUME TypeOK, HandlerInv, CopyInv, NEW h \in Handler, AddRecord(h)
  PROVE  CopyInv'
  <1>1. /\ Sound(h) /\ pc'[h] \in {"shadowing", "dropping"}
        /\ record' \in {record, Append(record, NewRecord)}
    BY AddRecordSound
  <1>2. ~Writing(h) /\ ~Writing(h)' /\ UNCHANGED <<lead, contested>>
    BY <1>1 DEF AddRecord, Writing, ghostVars
  <1>3. CASE record' = record
    BY <1>1, <1>2, <1>3, ElseCopy DEF FlagsSame
  <1>4. CASE record' = Append(record, NewRecord)
    <2>1. PICK new : new = NewRecord
      OBVIOUS
    <2>2. new \in Record /\ new.held = FALSE /\ new.name = FALSE
      BY <2>1, NewRecordType DEF NewRecord
    <2>3. record \in Seq(Record)
      BY TypeParts DEF StoreType
    <2>4. Len(record') = Len(record) + 1 /\ (record = <<>> => record'[1] = new)
      BY <1>4, <2>1, <2>2, <2>3
    <2>5. \A g \in Handler \ {h} : Same(g)
      BY <1>1, SoundStep
    <2>6. NothingYet'
      BY <1>1, <1>2, NothingYetStep
    <2>7. OneWriter'
      BY <1>2, <2>5 DEF CopyInv, OneWriter, Writing, Same
    <2>8. ASSUME Len(record') = 1
          PROVE  Copied'
      <3>1. record = <<>>
        <4>1. PICK s : s = record
          OBVIOUS
        <4>2. s \in Seq(Record) /\ Len(s) + 1 = 1
          BY <2>3, <2>4, <2>8, <4>1
        <4>3. Len(s) = 0
          BY <4>2
        <4> QED
          BY <4>1, <4>2, <4>3
      <3>2. ~lead.held /\ ~lead.name /\ \A g \in Handler : ~Writing(g)
        BY <3>1 DEF CopyInv, NothingYet
      <3>3. lead.held \in BOOLEAN /\ lead.name \in BOOLEAN
        BY TypeParts DEF StoreType
      <3>4. lead.held = FALSE /\ lead.name = FALSE
        BY <3>2, <3>3
      <3>5. record'[1].held = lead'.held /\ record'[1].name = lead'.name
        BY <1>2, <2>2, <2>4, <3>1, <3>4
      <3>6. \A g \in Handler : ~Writing(g)'
        BY <1>2, <2>5, <3>2 DEF Writing, Same
      <3> QED
        BY <3>5, <3>6 DEF Copied, Writing
    <2>9. Copied'
      BY <2>8 DEF Copied
    <2> QED
      BY <2>6, <2>7, <2>9 DEF CopyInv
  <1> QED
    BY <1>1, <1>3, <1>4

\* The steps that begin a write begin it with nobody between the copies, or it
\* is contested.
LEMMA BeginWrite ==
  ASSUME TypeOK, NEW h \in Handler, contested' = Contested
  PROVE  ~contested' => ~contested /\ Alone(h)
  BY DEF Contested, Alone

LEMMA StartSwitchCopy ==
  ASSUME TypeOK, HandlerInv, CopyInv, NEW h \in Handler, NEW r \in DOMAIN record,
         NEW value \in BOOLEAN, StartSwitch(h, r, value)
  PROVE  CopyInv'
  <1>1. Sound(h) /\ pc[h] = "idle" /\ pc'[h] = "flagging" /\ job'[h].value = value
    BY StartSwitchSound
  <1>2. record' = record /\ lead' = [lead EXCEPT !.held = value] /\ contested' = Contested
    BY DEF StartSwitch
  <1>3. lead'.held = value /\ lead'.name = lead.name
    BY <1>2, TypeParts DEF StoreType
  <1>4. record # <<>>
    BY TypeParts DEF StoreType
  <1>5. Mine(h) => Mine(h)'
    BY <1>1, <1>2, <1>3 DEF Mine
  <1> QED
    BY <1>1, <1>2, <1>4, <1>5, BeginWrite, WriterCopy

LEMMA StartUpdateCopy ==
  ASSUME TypeOK, HandlerInv, CopyInv, NEW h \in Handler, NEW value \in BOOLEAN,
         StartUpdate(h, value)
  PROVE  CopyInv'
  <1>1. Sound(h) /\ pc[h] = "idle" /\ pc'[h] = "updating"
    BY StartUpdateSound
  <1>2. record # <<>> /\ UNCHANGED <<record, lead>> /\ contested' = Contested
    BY DEF StartUpdate, storeVars
  <1>3. Mine(h) => Mine(h)'
    BY <1>1, <1>2 DEF Mine
  <1> QED
    BY <1>1, <1>2, <1>3, BeginWrite, WriterCopy

LEMMA FlagRecordCopy ==
  ASSUME TypeOK, HandlerInv, CopyInv, NEW h \in Handler, FlagRecord(h)
  PROVE  CopyInv'
  <1>1. /\ Sound(h) /\ pc[h] = "flagging" /\ lead' = lead
        /\ LogsSame /\ \A q \in DOMAIN record : record'[q].name = record[q].name
        /\ job[h].found \in DOMAIN record
        /\ \/ /\ pc'[h] = "mirroring" /\ job'[h] = job[h] /\ contested' = contested
              /\ record'[job[h].found].held = job[h].value
           \/ pc'[h] = "idle" /\ contested'
    BY FlagRecordSound
  <1>2. Writing(h) /\ Len(record') = Len(record) /\ record # <<>>
    BY <1>1, TypeParts DEF Writing, LogsSame, StoreType
  <1>3. ~contested' => ~contested /\ Alone(h)
    BY <1>1, <1>2, WriterAlone
  <1>4. ASSUME Len(record) = 1, Mine(h), ~contested'
        PROVE  Mine(h)'
    <2>1. record \in Seq(Record)
      BY TypeParts DEF StoreType
    <2>2. job[h].found = 1
      BY <1>1, <1>4, <2>1
    <2>3. record'[1].held = job[h].value /\ record'[1].name = record[1].name
      BY <1>1, <1>4, <2>2
    <2>4. lead'.held = job[h].value /\ record[1].name = lead'.name
      BY <1>1, <1>4 DEF Mine
    <2>5. job'[h].value = job[h].value /\ pc'[h] = "mirroring"
      BY <1>1, <1>4
    <2> QED
      BY <2>3, <2>4, <2>5 DEF Mine
  <1> QED
    BY <1>1, <1>2, <1>3, <1>4, WriterCopy

LEMMA MirrorFlagCopy ==
  ASSUME TypeOK, HandlerInv, CopyInv, NEW h \in Handler, MirrorFlag(h)
  PROVE  CopyInv'
  <1>1. /\ Sound(h) /\ pc[h] = "mirroring" /\ pc'[h] = "idle" /\ record' = record
        /\ lead'.name = lead.name
        /\ (contested' = contested /\ lead'.held = job[h].value) \/ contested'
    BY MirrorFlagSound
  <1>2. Writing(h)
    BY <1>1 DEF Writing
  <1>3. record # <<>>
    BY <1>2 DEF CopyInv, NothingYet
  <1>4. ~contested' => ~contested /\ Alone(h)
    BY <1>1, <1>2, WriterAlone
  <1>5. ASSUME Mine(h), ~contested'
        PROVE  Mine(h)'
    BY <1>1, <1>5 DEF Mine
  <1> QED
    BY <1>1, <1>3, <1>4, <1>5, WriterCopy

LEMMA UpdateRecordCopy ==
  ASSUME TypeOK, HandlerInv, CopyInv, NEW h \in Handler, UpdateRecord(h)
  PROVE  CopyInv'
  <1>1. /\ Sound(h) /\ pc[h] = "updating" /\ pc'[h] = "copying" /\ job'[h] = job[h]
        /\ lead' = lead /\ LogsSame /\ \A q \in DOMAIN record : record'[q].held = record[q].held
        /\ \/ contested' = contested /\ record'[1].name = job[h].value
           \/ contested'
    BY UpdateRecordSound
  <1>2. Writing(h)
    BY <1>1 DEF Writing
  <1>3. record # <<>> /\ 1 \in DOMAIN record
    BY <1>2, FirstRecord DEF CopyInv, NothingYet
  <1>4. ~contested' => ~contested /\ Alone(h)
    BY <1>1, <1>2, WriterAlone
  <1>5. ASSUME Mine(h), ~contested'
        PROVE  Mine(h)'
    <2>1. record[1].held = lead.held
      BY <1>1, <1>5 DEF Mine
    <2>2. record'[1].held = lead'.held
      BY <1>1, <1>3, <2>1
    <2>3. record'[1].name = job'[h].value
      BY <1>1, <1>5
    <2> QED
      BY <1>1, <2>2, <2>3 DEF Mine
  <1>6. Len(record') = Len(record)
    BY <1>1 DEF LogsSame
  <1> QED
    BY <1>1, <1>3, <1>4, <1>5, <1>6, WriterCopy

LEMMA UpdateShadowCopy ==
  ASSUME TypeOK, HandlerInv, CopyInv, NEW h \in Handler, UpdateShadow(h)
  PROVE  CopyInv'
  <1>1. /\ Sound(h) /\ pc[h] = "copying" /\ pc'[h] = "idle" /\ record' = record
        /\ lead'.held = lead.held
        /\ (contested' = contested /\ lead'.name = job[h].value) \/ contested'
    BY UpdateShadowSound
  <1>2. Writing(h)
    BY <1>1 DEF Writing
  <1>3. record # <<>>
    BY <1>2 DEF CopyInv, NothingYet
  <1>4. ~contested' => ~contested /\ Alone(h)
    BY <1>1, <1>2, WriterAlone
  <1>5. ASSUME Mine(h), ~contested'
        PROVE  Mine(h)'
    BY <1>1, <1>5 DEF Mine
  <1> QED
    BY <1>1, <1>3, <1>4, <1>5, WriterCopy

LEMMA CrashCopy ==
  ASSUME TypeOK, HandlerInv, CopyInv, NEW h \in Handler, Crash(h)
  PROVE  CopyInv'
  <1>1. /\ Sound(h) /\ pc[h] # "idle" /\ pc'[h] = "idle" /\ UNCHANGED <<storeVars, torn>>
        /\ contested' = (contested \/ Writing(h))
    BY CrashSound
  <1>2. UNCHANGED <<record, lead>> /\ ~Writing(h)'
    BY <1>1 DEF storeVars, Writing
  <1>3. CASE ~Writing(h)
    BY <1>1, <1>2, <1>3, ElseCopy DEF FlagsSame
  <1>4. CASE Writing(h)
    <2>1. contested'
      BY <1>1, <1>4
    <2>2. NothingYet'
      BY <1>1, <1>2, NothingYetStep
    <2> QED
      BY <2>1, <2>2 DEF CopyInv, OneWriter, Copied
  <1> QED
    BY <1>3, <1>4

-----------------------------------------------------------------------------
(* The invariant and what follows from it.                                  *)

LEMMA StartCopy ==
  ASSUME TypeOK, HandlerInv, CopyInv, NEW h \in Handler, Start(h)
  PROVE  CopyInv'
  <1>1. ASSUME NEW m \in Inbound, StartJob(h, m)
        PROVE  CopyInv'
    <2>1. /\ Sound(h) /\ pc[h] = "idle" /\ pc'[h] \in {"adding", "persisting"}
          /\ UNCHANGED <<storeVars, statusVars, ghostVars>>
      BY <1>1, StartJobSound
    <2> QED
      BY <2>1, ElseCopy DEF Writing, FlagsSame, storeVars, ghostVars
  <1>2. ASSUME NEW m \in Outbound, StartMirror(h, m)
        PROVE  CopyInv'
    <2>1. /\ Sound(h) /\ pc[h] = "idle" /\ pc'[h] = "searching"
          /\ UNCHANGED <<storeVars, statusVars, ghostVars>>
      BY <1>2, StartMirrorSound
    <2> QED
      BY <2>1, ElseCopy DEF Writing, FlagsSame, storeVars, ghostVars
  <1>3. ASSUME NEW m \in Outbound, NEW report \in Report, StartReport(h, m, report)
        PROVE  CopyInv'
    <2>1. /\ Sound(h) /\ pc[h] = "idle" /\ pc'[h] = "applying"
          /\ UNCHANGED <<storeVars, statusVars, ghostVars>>
      BY <1>3, StartReportSound
    <2> QED
      BY <2>1, ElseCopy DEF Writing, FlagsSame, storeVars, ghostVars
  <1> QED
    BY <1>1, <1>2, <1>3, StartSwitchCopy, StartUpdateCopy DEF Start

LEMMA PatchLogFlags ==
  ASSUME TypeOK, HandlerInv, NEW h \in Handler, PatchLog(h)
  PROVE  FlagsSame
  <1> DEFINE r == job[h].found
             l == [job[h].log EXCEPT ![job[h].of] = @ + 1]
  <1>1. /\ lead' = lead /\ r \in DOMAIN record
        /\ \/ /\ Len(record') = Len(record) /\ DOMAIN record' = DOMAIN record
              /\ record'[r] = [record[r] EXCEPT !.log = l]
              /\ \A q \in DOMAIN record \ {r} : record'[q] = record[q]
           \/ record' = record
    BY PatchLogSound
  <1>2. record[r] \in Record
    BY <1>1, RecordAt
  <1> HIDE DEF l
  <1>3. \A q \in DOMAIN record : record'[q].held = record[q].held
    BY <1>1, <1>2 DEF Record
  <1>4. \A q \in DOMAIN record : record'[q].name = record[q].name
    BY <1>1, <1>2 DEF Record
  <1>5. Len(record) = 1 => 1 \in DOMAIN record
    BY TypeParts DEF StoreType
  <1> QED
    BY <1>1, <1>3, <1>4, <1>5 DEF FlagsSame

LEMMA WorkCopy ==
  ASSUME TypeOK, HandlerInv, CopyInv, NEW h \in Handler, Work(h)
  PROVE  CopyInv'
  <1>1. CASE AddShadow(h)
    <2>1. /\ Sound(h) /\ pc'[h] \in {"persisting", "idle"} /\ record' = record
          /\ UNCHANGED ghostVars /\ lead'.held = lead.held /\ lead'.name = lead.name
      BY <1>1, AddShadowSound
    <2>2. pc[h] \in {"shadowing", "dropping"}
      BY <1>1 DEF AddShadow
    <2> QED
      BY <2>1, <2>2, ElseCopy DEF Writing, FlagsSame, ghostVars
  <1>2. CASE Persist(h)
    <2>1. /\ Sound(h) /\ pc[h] = "persisting" /\ pc'[h] \in {"searching", "idle"}
          /\ UNCHANGED <<record, lead, ghostVars>>
      BY <1>2, PersistSound
    <2> QED
      BY <2>1, ElseCopy DEF Writing, FlagsSame, ghostVars
  <1>3. CASE SearchLog(h)
    <2>1. /\ Sound(h) /\ pc[h] = "searching" /\ pc'[h] \in {"patching", "idle"}
          /\ UNCHANGED <<storeVars, ghostVars>>
      BY <1>3, SearchLogSound
    <2> QED
      BY <2>1, ElseCopy DEF Writing, FlagsSame, storeVars, ghostVars
  <1>4. CASE PatchLog(h)
    <2>1. /\ Sound(h) /\ pc[h] = "patching" /\ pc'[h] \in {"appended", "idle"}
          /\ contested' = contested
      BY <1>4, PatchLogSound
    <2> QED
      BY <1>4, <2>1, PatchLogFlags, ElseCopy DEF Writing
  <1>5. CASE GoOn(h)
    <2>1. /\ Sound(h) /\ pc[h] = "appended" /\ pc'[h] = "idle"
          /\ UNCHANGED <<storeVars, contested>>
      BY <1>5, GoOnToReply
    <2> QED
      BY <2>1, ElseCopy DEF Writing, FlagsSame, storeVars
  <1>6. CASE ApplyStatus(h)
    <2>1. /\ Sound(h) /\ pc[h] = "applying" /\ pc'[h] = "showing"
          /\ UNCHANGED <<storeVars, ghostVars>>
      BY <1>6, ApplyStatusSound
    <2> QED
      BY <2>1, ElseCopy DEF Writing, FlagsSame, storeVars, ghostVars
  <1>7. CASE ShowStatus(h)
    <2>1. /\ Sound(h) /\ pc[h] = "showing" /\ pc'[h] = "idle"
          /\ UNCHANGED <<storeVars, ghostVars>>
      BY <1>7, ShowStatusSound
    <2> QED
      BY <2>1, ElseCopy DEF Writing, FlagsSame, storeVars, ghostVars
  <1> QED
    BY <1>1, <1>2, <1>3, <1>4, <1>5, <1>6, <1>7, AddRecordCopy, FlagRecordCopy,
       MirrorFlagCopy, UpdateRecordCopy, UpdateShadowCopy, CrashCopy DEF Work

LEMMA StartSound ==
  ASSUME TypeOK, NEW h \in Handler, Start(h)
  PROVE  Sound(h)
  <1>1. ASSUME NEW m \in Inbound, StartJob(h, m)
        PROVE  Sound(h)
    BY <1>1, StartJobSound
  <1>2. ASSUME NEW m \in Outbound, StartMirror(h, m)
        PROVE  Sound(h)
    BY <1>2, StartMirrorSound
  <1>3. ASSUME NEW r \in DOMAIN record, NEW value \in BOOLEAN, StartSwitch(h, r, value)
        PROVE  Sound(h)
    BY <1>3, StartSwitchSound
  <1>4. ASSUME NEW value \in BOOLEAN, StartUpdate(h, value)
        PROVE  Sound(h)
    BY <1>4, StartUpdateSound
  <1>5. ASSUME NEW m \in Outbound, NEW report \in Report, StartReport(h, m, report)
        PROVE  Sound(h)
    BY <1>5, StartReportSound
  <1> QED
    BY <1>1, <1>2, <1>3, <1>4, <1>5 DEF Start

LEMMA WorkSound ==
  ASSUME TypeOK, HandlerInv, NEW h \in Handler, Work(h)
  PROVE  Sound(h)
  BY AddRecordSound, AddShadowSound, PersistSound, SearchLogSound, PatchLogSound,
     GoOnToReply, FlagRecordSound, MirrorFlagSound, UpdateRecordSound, UpdateShadowSound,
     ApplyStatusSound, ShowStatusSound, CrashSound DEF Work

LEMMA ReportArrivesType ==
  ASSUME TypeOK, HandlerInv, NEW m \in Outbound, NEW report \in Report,
         ReportArrives(m, report)
  PROVE  TypeOK' /\ HandlerInv'
  <1>1. UNCHANGED <<storeVars, provider, shown, pc, job, writes, answered, torn, contested>>
    BY DEF ReportArrives
  <1>2. faults' \in 0 .. MaxFaults
    BY TypeParts, FaultType DEF ReportArrives
  <1>3. /\ receipt' \in [Outbound -> {"none", "enqueue_failed", "taken"}]
        /\ queue' \subseteq Message \cup (Outbound \X Report)
        /\ resent' \subseteq Outbound
    BY TypeParts DEF StoreType, ReportArrives
  <1>4. TypeOK'
    BY <1>1, <1>2, <1>3 DEF TypeOK, storeVars
  <1>5. HandlerInv'
    BY <1>1 DEF HandlerInv, Fine, storeVars
  <1> QED
    BY <1>4, <1>5

LEMMA InitInv ==
  ASSUME Init
  PROVE  StoreInv
  <1>1. TypeOK
    <2>1. record \in Seq(Record) /\ Len(record) <= MaxRecords
      BY StoreAssumption DEF Init
    <2>2. /\ lead \in [there : BOOLEAN, held : BOOLEAN, name : BOOLEAN]
          /\ inbound \in [Inbound -> Nat]
      BY DEF Init
    <2>3. /\ provider \in [Outbound -> Report] /\ shown \in [Outbound -> Report]
          /\ receipt \in [Outbound -> {"none", "enqueue_failed", "taken"}]
          /\ queue \subseteq Message \cup (Outbound \X Report)
      BY DEF Init, Report
    <2>4. pc \in [Handler -> Step] /\ job \in [Handler -> Job \cup {None}]
      BY DEF Init, Step
    <2>5. /\ \A h \in Handler : pc[h] = "idle" <=> job[h] = None
          /\ \A h \in Handler : pc[h] \in {"patching", "flagging"} => job[h].found \in DOMAIN record
      BY DEF Init
    <2>6. /\ writes \in 0 .. MaxWrites /\ faults \in 0 .. MaxFaults
      BY StoreAssumption DEF Init
    <2>7. /\ answered \subseteq Inbound /\ resent \subseteq Outbound
          /\ torn \in BOOLEAN /\ contested \in BOOLEAN
      BY DEF Init
    <2> QED
      BY <2>1, <2>2, <2>3, <2>4, <2>5, <2>6, <2>7 DEF TypeOK
  <1>2. HandlerInv
    BY DEF Init, HandlerInv, Fine
  <1>3. KeptInv
    BY DEF Init, KeptInv, Kept, Keeps, Logged
  <1>4. ReportInv
    <2>1. ASSUME NEW m \in Outbound
          PROVE  Queued(m) = {}
      BY NoMessageIsReport DEF Init, Queued
    <2>2. ASSUME NEW m \in Outbound
          PROVE  Holders(m) = {}
      BY DEF Init, Holders
    <2> QED
      BY <2>1, <2>2 DEF Init, ReportInv, OneReport
  <1>5. CopyInv
    <2>1. Len(record) # 1 /\ \A h \in Handler : ~Writing(h)
      BY DEF Init, Writing
    <2>2. ~lead.held /\ ~lead.name
      BY DEF Init
    <2> QED
      BY <2>1, <2>2 DEF CopyInv, NothingYet, OneWriter, Copied
  <1> QED
    BY <1>1, <1>2, <1>3, <1>4, <1>5 DEF StoreInv

LEMMA NextInv ==
  ASSUME StoreInv, [Next]_vars
  PROVE  StoreInv'
  <1> USE DEF StoreInv
  <1>1. ASSUME NEW h \in Handler, Start(h)
        PROVE  StoreInv'
    <2>1. TypeOK' /\ HandlerInv'
      BY <1>1, StartSound, SoundStep
    <2> QED
      BY <1>1, <2>1, StartKept, StartReported, StartCopy
  <1>2. ASSUME NEW h \in Handler, Work(h)
        PROVE  StoreInv'
    <2>1. TypeOK' /\ HandlerInv'
      BY <1>2, WorkSound, SoundStep
    <2> QED
      BY <1>2, <2>1, WorkKept, WorkReported, WorkCopy
  <1>3. ASSUME NEW m \in Outbound, NEW report \in Report, ReportArrives(m, report)
        PROVE  StoreInv'
    <2>1. TypeOK' /\ HandlerInv'
      BY <1>3, ReportArrivesType
    <2>2. ReportInv'
      BY <1>3, ArrivesReport
    <2>3. UNCHANGED <<storeVars, pc, job, answered, torn, contested>>
      BY <1>3 DEF ReportArrives
    <2>4. KeptInv'
      BY <2>3 DEF KeptInv, Kept, Keeps, Logged, storeVars
    <2>5. CopyInv'
      BY <2>3 DEF CopyInv, NothingYet, OneWriter, Copied, Writing, storeVars
    <2> QED
      BY <2>1, <2>2, <2>4, <2>5
  <1>4. CASE UNCHANGED vars
    <2>1. TypeOK'
      BY <1>4 DEF TypeOK, vars, storeVars, statusVars, ghostVars
    <2>2. HandlerInv'
      BY <1>4 DEF HandlerInv, Fine, vars, storeVars
    <2>3. KeptInv'
      BY <1>4 DEF KeptInv, Kept, Keeps, Logged, vars, storeVars, ghostVars
    <2>4. ReportInv'
      BY <1>4 DEF ReportInv, OneReport, Queued, Holders, vars, statusVars, ghostVars
    <2>5. CopyInv'
      BY <1>4 DEF CopyInv, NothingYet, OneWriter, Copied, Writing, vars, storeVars, ghostVars
    <2> QED
      BY <2>1, <2>2, <2>3, <2>4, <2>5
  <1> QED
    BY <1>1, <1>2, <1>3, <1>4 DEF Next

\* Stores and handlers keep their types and every handler has on hand what its
\* step needs; rows come before log entries, one report of a message is on its
\* way, and one handler at a time is between two copies (app/store, run by
\* process_webhook_message and process_status_update).
THEOREM StoreInvariant == Spec => []StoreInv
  <1>1. Init => StoreInv
    BY InitInv
  <1>2. StoreInv /\ [Next]_vars => StoreInv'
    BY NextInv
  <1> QED
    BY <1>1, <1>2, PTL DEF Spec

\* What Airtable shows of a customer's message is in Postgres, once, and an
\* answered message is in both unless a write of the log was torn
\* (append_message, persist_inbound_message_required).
THEOREM MessagesKept == Spec => []MessageKept
  <1>1. StoreInv => MessageKept
    BY DEF StoreInv, KeptInv, Kept, Logged, MessageKept
  <1> QED
    BY <1>1, StoreInvariant, PTL

\* Between writes both copies of the takeover flag and of the name agree,
\* unless the contact has two records or a write failed half-way or overlapped
\* another (update_human_takeover_by_id, update_lead_info).
THEOREM CopiesStayEqual == Spec => []CopiesAgree
  <1>1. StoreInv => CopiesAgree
    BY DEF StoreInv, CopyInv, Copied, Writing, CopiesAgree
  <1> QED
    BY <1>1, StoreInvariant, PTL

\* The timeline shows what the intent says of a sent message, unless a report
\* of it could not be enqueued and a second one came (process_status_update).
THEOREM ShownIsApplied == Spec => []StatusShown
  <1>1. StoreInv => StatusShown
    BY DEF StoreInv, ReportInv, OneReport, StatusShown
  <1> QED
    BY <1>1, StoreInvariant, PTL

=============================================================================
