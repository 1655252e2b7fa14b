------------------------------ MODULE LeadStore ------------------------------
(***************************************************************************)
(* The two stores of one contact while MIGRATION_MODE is "dual": Airtable,  *)
(* which is read, and Postgres, which is shadowed.                          *)
(*                                                                          *)
(* A handler is a worker or a web request.  It runs the job of an inbound   *)
(* message up to the reply, appends a sent message to the log, switches the *)
(* takeover flag, writes the name that was extracted, or applies a delivery *)
(* report.  Every call of Airtable and every transaction of Postgres is a   *)
(* step, and none spans both stores.                                        *)
(* A job that raises, or whose worker dies, is run again (MODULE            *)
(* WhatsAppQueue says how often).                                           *)
(***************************************************************************)
EXTENDS Integers, Sequences

CONSTANTS
    Handler,
    Inbound,     \* inbound messages
    Outbound,    \* messages that were sent
    None,        \* nothing to do
    MaxRecords,  \* most records of the contact
    MaxWrites,   \* most writes of the flag or the name
    MaxFaults    \* failed calls, lost answers, crashes, failed enqueues

ASSUME StoreAssumption ==
    /\ Inbound \cap Outbound = {}
    /\ MaxRecords \in Nat \ {0} /\ MaxWrites \in Nat /\ MaxFaults \in Nat

Message == Inbound \cup Outbound
Report == {"sent", "delivered", "read", "failed"}

VARIABLES
    record,    \* the contact's records in Airtable, oldest first
    lead,      \* the contact's row in Postgres
    inbound,   \* number of INBOUND rows of a message in Postgres
    provider,  \* intent.provider_status of a sent message
    shown,     \* message.status of a sent message
    receipt,   \* the report receipt of a sent message
    queue,     \* jobs to run: inbound messages, sent ones, reports to apply
    pc, job,   \* each handler's step, and what it has in memory
    writes,    \* writes left
    faults,    \* faults left
    answered,  \* ghost: inbound messages whose job went on to the reply
    torn,      \* ghost: a write of the log was lost or overwrote another
    contested, \* ghost: a write failed or overlapped another
    resent     \* ghost: sent messages with a report that was not enqueued

storeVars == <<record, lead, inbound>>
statusVars == <<provider, shown, receipt>>
ghostVars == <<answered, torn, contested, resent>>
vars == <<storeVars, statusVars, queue, pc, job, writes, faults, ghostVars>>

\* The log counts the entries of a message.
Log == [Message -> Nat]
Record == [log : Log, held : BOOLEAN, name : BOOLEAN]
\* What is worked on, the record found, the log read, and the value to write.
Job == [of : Message \cup {None}, report : Report \cup {None},
        found : 0 .. MaxRecords, log : Log, value : BOOLEAN]
Step == {"idle", "adding", "shadowing", "dropping", "persisting", "searching", "patching",
         "appended", "flagging", "mirroring", "updating", "copying", "applying",
         "showing"}

\* Nothing is two of a message, a report, a job and nothing.
ASSUME KindsAssumption ==
    /\ None \notin Message \cup Report \cup Job
    /\ Message \cap (Outbound \X Report) = {}

\* Stores and handlers keep their types, and nothing is written to a record
\* that is not there.
TypeOK ==
    /\ record \in Seq(Record) /\ Len(record) <= MaxRecords
    /\ lead \in [there : BOOLEAN, held : BOOLEAN, name : BOOLEAN]
    /\ inbound \in [Inbound -> Nat]
    /\ provider \in [Outbound -> Report] /\ shown \in [Outbound -> Report]
    /\ receipt \in [Outbound -> {"none", "enqueue_failed", "taken"}]
    /\ queue \subseteq Message \cup (Outbound \X Report)
    /\ pc \in [Handler -> Step] /\ job \in [Handler -> Job \cup {None}]
    /\ \A h \in Handler : pc[h] = "idle" <=> job[h] = None
    /\ \A h \in Handler : pc[h] \in {"patching", "flagging"} => job[h].found \in DOMAIN record
    /\ writes \in 0 .. MaxWrites /\ faults \in 0 .. MaxFaults
    /\ answered \subseteq Inbound /\ torn \in BOOLEAN
    /\ contested \in BOOLEAN /\ resent \subseteq Outbound

Init ==
    /\ record = <<>>
    /\ lead = [there |-> FALSE, held |-> FALSE, name |-> FALSE]
    /\ inbound = [m \in Inbound |-> 0]
    /\ provider = [m \in Outbound |-> "sent"]
    /\ shown = [m \in Outbound |-> "sent"]
    /\ receipt = [m \in Outbound |-> "none"]
    /\ queue = Message
    /\ pc = [h \in Handler |-> "idle"]
    /\ job = [h \in Handler |-> None]
    /\ writes = MaxWrites /\ faults = MaxFaults
    /\ answered = {} /\ torn = FALSE /\ contested = FALSE
    /\ resent = {}

-----------------------------------------------------------------------------
(* Handlers.                                                                *)

EmptyLog == [m \in Message |-> 0]
Fault == faults > 0 /\ faults' = faults - 1

Go(h, step) == pc' = [pc EXCEPT ![h] = step]
Leave(h) == Go(h, "idle") /\ job' = [job EXCEPT ![h] = None]
Begin(h, step, of, report, found, value) ==
    /\ pc[h] = "idle"
    /\ Go(h, step)
    /\ job' = [job EXCEPT ![h] = [of |-> of, report |-> report, found |-> found,
                                  log |-> EmptyLog, value |-> value]]

\* The job goes back to the queue.
Again(h) ==
    /\ Leave(h)
    /\ queue' = queue \cup
         (IF job[h].report # None THEN {<<job[h].of, job[h].report>>}
          ELSE {job[h].of} \cap Inbound)

Writing(h) == pc[h] \in {"flagging", "mirroring", "updating", "copying"}
Contested == contested \/ \E h \in Handler : Writing(h)

-----------------------------------------------------------------------------
(* Inbound messages: process_webhook_message up to the reply.               *)

\* get_lead, which finds nothing when the search fails.
StartJob(h, m) ==
    /\ m \in queue /\ queue' = queue \ {m}
    /\ \/ /\ record # <<>>
          /\ Begin(h, "persisting", m, None, 1, FALSE)
          /\ UNCHANGED faults
       \/ /\ IF record = <<>> THEN UNCHANGED faults ELSE Fault
          /\ Begin(h, "adding", m, None, 0, FALSE)
    /\ UNCHANGED <<storeVars, statusVars, writes, ghostVars>>

NewRecord == [log |-> EmptyLog, held |-> FALSE, name |-> FALSE]

\* add_lead in Airtable, which never looks for a record of the same phone.
AddRecord(h) ==
    /\ pc[h] = "adding"
    /\ Len(record) < MaxRecords
    /\ \/ record' = Append(record, NewRecord) /\ Go(h, "shadowing") /\ UNCHANGED faults
       \/ Fault /\ record' \in {record, Append(record, NewRecord)} /\ Go(h, "dropping")
    /\ UNCHANGED <<lead, inbound, statusVars, queue, job, writes, ghostVars>>

\* add_lead in Postgres, also when Airtable refused, and then the message is
\* dropped.  An error is swallowed by the client and shows nowhere.
AddShadow(h) ==
    /\ pc[h] \in {"shadowing", "dropping"}
    /\ \/ lead' = [lead EXCEPT !.there = TRUE] /\ UNCHANGED faults
       \/ ~lead.there /\ Fault /\ UNCHANGED lead
    /\ IF pc[h] = "shadowing" THEN Go(h, "persisting") /\ UNCHANGED job ELSE Leave(h)
    /\ UNCHANGED <<record, inbound, statusVars, queue, writes, ghostVars>>

\* Slip: the row of a message that is run again is not looked for.
StoredAlways(m) == inbound[m] + 1

\* One row for a message, however often its job runs.
Stored(m) == IF inbound[m] = 0 THEN 1 ELSE inbound[m]

\* persist_inbound_message_required, which raises without the lead's row:
\* nothing creates that row any more once Airtable has the contact.
Persist(h) ==
    /\ pc[h] = "persisting"
    /\ IF lead.there
       THEN /\ inbound' = [inbound EXCEPT ![job[h].of] = Stored(job[h].of)]
            /\ Go(h, "searching") /\ UNCHANGED <<job, queue>>
       ELSE Again(h) /\ UNCHANGED inbound
    /\ UNCHANGED <<record, lead, statusVars, writes, faults, ghostVars>>

\* The dispatch of a sent message appends it as well, once: its row is there.
StartMirror(h, m) ==
    /\ m \in queue /\ queue' = queue \ {m}
    /\ record # <<>>
    /\ Begin(h, "searching", m, None, 0, FALSE)
    /\ UNCHANGED <<storeVars, statusVars, writes, faults, ghostVars>>

\* append_message in Airtable finds the record and reads its log.  When that
\* fails it says no, which the job takes for a duplicate and ends.
SearchLog(h) ==
    /\ pc[h] = "searching"
    /\ \/ /\ record # <<>> /\ UNCHANGED faults
          /\ job' = [job EXCEPT ![h].found = 1, ![h].log = record[1].log]
          /\ Go(h, "patching")
       \/ Fault /\ Leave(h)
    /\ UNCHANGED <<storeVars, statusVars, queue, writes, ghostVars>>

\* ... and writes back what it read with one entry more; it says yes even when
\* the write fails.
PatchLog(h) ==
    LET r == job[h].found
        new == [job[h].log EXCEPT ![job[h].of] = @ + 1]
    IN
    /\ pc[h] = "patching"
    /\ \/ record' = [record EXCEPT ![r].log = new] /\ UNCHANGED faults
       \/ UNCHANGED record /\ Fault
    /\ torn' = (torn \/ record[r].log # job[h].log \/ record' = record)
    /\ IF job[h].of \in Inbound THEN Go(h, "appended") /\ UNCHANGED job ELSE Leave(h)
    /\ UNCHANGED <<lead, inbound, statusVars, queue, writes, answered, contested, resent>>

\* On to the opt-out, the gates and the reply (MODULE ReplyPipeline).
GoOn(h) ==
    /\ pc[h] = "appended"
    /\ answered' = answered \cup {job[h].of}
    /\ Leave(h)
    /\ UNCHANGED <<storeVars, statusVars, queue, writes, faults, torn, contested, resent>>

-----------------------------------------------------------------------------
(* The takeover flag: update_human_takeover_by_id after transition_takeover. *)

\* The transition is committed in Postgres; r is the record named or read.
StartSwitch(h, r, value) ==
    /\ writes > 0 /\ writes' = writes - 1
    /\ lead.there /\ r \in DOMAIN record
    /\ lead' = [lead EXCEPT !.held = value]
    /\ Begin(h, "flagging", None, None, r, value)
    /\ contested' = Contested
    /\ UNCHANGED <<record, inbound, statusVars, queue, faults, answered, torn, resent>>

\* Airtable first; without its answer nothing is mirrored.
FlagRecord(h) ==
    LET flagged == [record EXCEPT ![job[h].found].held = job[h].value] IN
    /\ pc[h] = "flagging"
    /\ \/ /\ record' = flagged
          /\ Go(h, "mirroring") /\ UNCHANGED <<job, faults, contested>>
       \/ /\ Fault
          /\ record' \in {record, flagged}
          /\ Leave(h) /\ contested' = TRUE
    /\ UNCHANGED <<lead, inbound, statusVars, queue, writes, answered, torn, resent>>

\* Then Postgres, without a version: required for a takeover, contained for a
\* release.
MirrorFlag(h) ==
    /\ pc[h] = "mirroring"
    /\ \/ lead' = [lead EXCEPT !.held = job[h].value] /\ UNCHANGED <<faults, contested>>
       \/ Fault /\ UNCHANGED lead /\ contested' = TRUE
    /\ Leave(h)
    /\ UNCHANGED <<record, inbound, statusVars, queue, writes, answered, torn, resent>>

-----------------------------------------------------------------------------
(* The name the analytics of an answered job extracted: update_lead_info.   *)
(* The score is written in the same way.                                    *)

StartUpdate(h, value) ==
    /\ writes > 0 /\ writes' = writes - 1
    /\ answered # {} /\ record # <<>>
    /\ Begin(h, "updating", None, None, 1, value)
    /\ contested' = Contested
    /\ UNCHANGED <<storeVars, statusVars, queue, faults, answered, torn, resent>>

\* Airtable first, whose client swallows a failed search and a failed write ...
UpdateRecord(h) ==
    /\ pc[h] = "updating"
    /\ \/ record' = [record EXCEPT ![1].name = job[h].value] /\ UNCHANGED <<faults, contested>>
       \/ Fault /\ UNCHANGED record /\ contested' = TRUE
    /\ Go(h, "copying")
    /\ UNCHANGED <<lead, inbound, statusVars, queue, job, writes, answered, torn, resent>>

\* Slip: a lead that has a name keeps it.
UpdatedOnce(value) == [lead EXCEPT !.name = @ \/ value]

Updated(value) == [lead EXCEPT !.name = value]

\* ... and then Postgres all the same, whose client does so too.
UpdateShadow(h) ==
    /\ pc[h] = "copying"
    /\ \/ lead' = Updated(job[h].value) /\ UNCHANGED <<faults, contested>>
       \/ Fault /\ UNCHANGED lead /\ contested' = TRUE
    /\ Leave(h)
    /\ UNCHANGED <<record, inbound, statusVars, queue, writes, answered, torn, resent>>

-----------------------------------------------------------------------------
(* Delivery reports: process_status_update.                                 *)

\* The receipt is keyed by the message, so one report of a message is taken;
\* a later one only when the first could not be enqueued or seemed not to be.
ReportArrives(m, report) ==
    /\ receipt[m] # "taken"
    /\ \/ /\ receipt' = [receipt EXCEPT ![m] = "taken"]
          /\ queue' = queue \cup {<<m, report>>}
          /\ UNCHANGED <<faults, resent>>
       \/ /\ Fault
          /\ receipt' = [receipt EXCEPT ![m] = "enqueue_failed"]
          /\ queue' \in {queue, queue \cup {<<m, report>>}}
          /\ resent' = resent \cup {m}
    /\ UNCHANGED <<storeVars, provider, shown, pc, job, writes, answered, torn, contested>>

StartReport(h, m, report) ==
    /\ <<m, report>> \in queue /\ queue' = queue \ {<<m, report>>}
    /\ Begin(h, "applying", m, report, 0, FALSE)
    /\ UNCHANGED <<storeVars, statusVars, writes, faults, ghostVars>>

Order(s) == CASE s = "sent" -> 1 [] s = "delivered" -> 2 [] s = "read" -> 3 [] s = "failed" -> 4

\* Slip: a failure is no progress.
NextProviderStatusForward(current, incoming) ==
    IF incoming # "failed" /\ Order(incoming) > Order(current) THEN incoming ELSE current

\* _next_provider_status: a failure only before a delivery, and then for good.
NextProviderStatus(current, incoming) ==
    IF incoming = "failed" /\ current # "sent" THEN current
    ELSE IF Order(incoming) > Order(current) THEN incoming
    ELSE current

\* apply_provider_status, in a transaction that locks the intent.
ApplyStatus(h) ==
    LET m == job[h].of
        next == NextProviderStatus(provider[m], job[h].report)
    IN
    /\ pc[h] = "applying"
    /\ provider' = [provider EXCEPT ![m] = next]
    /\ shown' = [shown EXCEPT ![m] = IF next # provider[m] THEN next ELSE @]
    /\ Go(h, "showing")
    /\ UNCHANGED <<storeVars, receipt, queue, job, writes, faults, ghostVars>>

\* update_message_status of the store writes the report as it came; an error
\* is swallowed.
ShowStatus(h) ==
    /\ pc[h] = "showing"
    /\ \/ shown' = [shown EXCEPT ![job[h].of] = job[h].report] /\ UNCHANGED faults
       \/ UNCHANGED shown /\ Fault
    /\ Leave(h)
    /\ UNCHANGED <<storeVars, provider, receipt, queue, writes, ghostVars>>

\* A handler dies: a job is run again, a write is not.
Crash(h) ==
    /\ pc[h] # "idle"
    /\ Fault
    /\ Again(h)
    /\ contested' = (contested \/ Writing(h))
    /\ UNCHANGED <<storeVars, statusVars, writes, answered, torn, resent>>

-----------------------------------------------------------------------------
Work(h) ==
    \/ AddRecord(h) \/ AddShadow(h) \/ Persist(h)
    \/ SearchLog(h) \/ PatchLog(h) \/ GoOn(h)
    \/ FlagRecord(h) \/ MirrorFlag(h) \/ UpdateRecord(h) \/ UpdateShadow(h)
    \/ ApplyStatus(h) \/ ShowStatus(h) \/ Crash(h)

Start(h) ==
    \/ \E m \in Inbound : StartJob(h, m)
    \/ \E m \in Outbound : StartMirror(h, m)
    \/ \E r \in DOMAIN record, value \in BOOLEAN : StartSwitch(h, r, value)
    \/ \E value \in BOOLEAN : StartUpdate(h, value)
    \/ \E m \in Outbound, report \in Report : StartReport(h, m, report)

Next ==
    \/ \E h \in Handler : Start(h) \/ Work(h)
    \/ \E m \in Outbound, report \in Report : ReportArrives(m, report)

Spec == Init /\ [][Next]_vars

-----------------------------------------------------------------------------
\* What Airtable shows of a customer's message is in Postgres, and there once,
\* whatever failed and however often its job ran (append_message persists
\* first; persist_inbound_message_required is idempotent).  A message that was
\* answered is in both stores, unless a write of the log failed silently or
\* overwrote another handler's.  The stores and handlers keep their types.
MessageKept ==
    /\ TypeOK
    /\ \A m \in Inbound :
         LET logged == \E r \in DOMAIN record : record[r].log[m] > 0 IN
         /\ inbound[m] <= 1
         /\ logged \/ m \in answered => inbound[m] = 1
         /\ m \in answered /\ ~torn => logged

\* Between writes both copies of the takeover flag and of the name say the
\* same, unless the contact has two records, a write failed half-way or two
\* overlapped (store.update_human_takeover_by_id, store.update_lead_info).
CopiesAgree ==
    Len(record) = 1 /\ ~contested /\ (\A h \in Handler : ~Writing(h)) =>
        record[1].held = lead.held /\ record[1].name = lead.name

\* The timeline shows what the intent says of a sent message, although the
\* store writes the report over it as it came: one report of a message gets
\* through.  Where its receipt could not be enqueued a second one may, and a
\* late "delivered" is then shown over "read" (process_status_update).
StatusShown == \A m \in Outbound \ resent : shown[m] = provider[m]

=============================================================================
