----------------------------- MODULE EmailChannel -----------------------------
(***************************************************************************)
(* One tenant's email outside campaigns: the replies the AI writes to       *)
(* inbound mail, the mail colleagues send, the provider's delivery events,  *)
(* the do-not-email list and the address and email status of each lead.     *)
(*                                                                          *)
(* A server takes the provider's notices one at a time, since the webhook   *)
(* route runs on its event loop; two servers only exist while a new version *)
(* is deployed.  A notice is outstanding until it is answered, and may come *)
(* again.  Threads run the other requests.  A handler reads in one step and *)
(* commits in a later one what it decided from the values it read.          *)
(***************************************************************************)
EXTENDS Integers, FiniteSets

CONSTANTS
    Lead, Address,
    Server, Thread,
    Mail,       \* provider ids of outbound mail
    Inbound,    \* inbound emails
    Event,      \* the delivery events that may come
    None,       \* no address, no lead, no mail, nothing to do
    MaxFaults,  \* crashes, redeliveries, failed calls, lost answers and
                \* changes of an address
    MaxEvents   \* most delivery events

ASSUME ChannelAssumption ==
    /\ Event \subseteq {"delivered", "delayed", "failed", "bounced", "complained"}
    /\ MaxFaults \in Nat /\ MaxEvents \in Nat
    /\ Server \cap Thread = {} /\ Mail \cap Inbound = {}
    /\ IsFiniteSet(Server \cup Thread) /\ IsFiniteSet(Mail)
    /\ None \notin Lead \cup Address \cup Mail \cup Inbound

Handler == Server \cup Thread
Failure == {"failed", "bounced", "complained"}
Blocked == {"bounced", "complained", "unsubscribed"}
Reason == {"none", "bounce", "complaint", "unsubscribed"}
Notice == [of : Mail, event : Event] \cup [of : Inbound, event : {"received"}]
DeliveryOf(m, e) == [of |-> m, event |-> e]
Received(i) == [of |-> i, event |-> "received"]

VARIABLES
    lead,        \* address and email_status of a lead
    held,        \* lead.is_human_takeover
    suppression, \* email_suppressions.reason of an address ("none": no row)
    stored,      \* number of INBOUND rows of an inbound email
    arrived,     \* sender of an inbound email the provider announced
    mail,        \* outbound mail: addressee, what it answers, its row's status
    emitted,     \* delivery events of a mail so far
    outstanding, \* notices the provider has not seen answered
    pc, job,     \* each handler's step, and what it has in memory
    faults,      \* faults left
    overlapped,  \* ghost: two servers were on an inbound email at once
    crossed      \* ghost: a lead's status was written from an outdated read

rowVars == <<lead, held, suppression, stored>>
providerVars == <<arrived, emitted, outstanding>>
ghostVars == <<overlapped, crossed>>
vars == <<rowVars, mail, providerVars, pc, job, faults, ghostVars>>

Unused == {m \in Mail : mail[m].to = None}
LeadRow == [address : Address \cup {None},
            status : {"unset", "unknown", "valid"} \cup Blocked]
MailRow == [to : Address \cup {None}, answers : Inbound \cup {None},
            shown : {"none", "sent"} \cup Event, barred : BOOLEAN]
\* The notice, address, lead and mail worked on and the rows read of them;
\* ghost: barred, was the address suppressed or the lead taken over before
\* the handler decided anything, and ever since.
Job == [notice : Notice \cup {None}, to : Address \cup {None},
        lead : Lead \cup {None}, mail : Mail \cup {None},
        leads : [Lead -> LeadRow], reason : Reason,
        shown : {"none", "sent"} \cup Event, barred : BOOLEAN]

ASSUME NoJobAssumption == None \notin Job \cup Notice

Composing == {"fetched", "matched", "kept", "calling"}
Step == {"idle", "event", "sent", "changing", "unsubscribing"} \cup Composing

\* Rows and handlers keep their types; a handler that is on nothing has no job.
TypeOK ==
    /\ lead \in [Lead -> LeadRow]
    /\ held \in [Lead -> BOOLEAN]
    /\ suppression \in [Address -> Reason]
    /\ stored \in [Inbound -> Nat]
    /\ arrived \in [Inbound -> Address \cup {None}]
    /\ mail \in [Mail -> MailRow]
    /\ emitted \in [Mail -> SUBSET Event]
    /\ outstanding \in SUBSET Notice
    /\ pc \in [Handler -> Step]
    /\ job \in [Handler -> Job \cup {None}]
    /\ \A h \in Handler : pc[h] = "idle" <=> job[h] = None
    /\ faults \in 0 .. MaxFaults
    /\ crossed \in [Lead -> BOOLEAN]
    /\ overlapped \in [Inbound -> BOOLEAN]
    /\ \A m \in Mail : mail[m].to = None => mail[m].shown = "none" /\ emitted[m] = {}

Init ==
    /\ lead \in [Lead -> [address : Address, status : {"unset", "unknown"}]]
    /\ \A k, l \in Lead : lead[k].address = lead[l].address => k = l
    /\ held = [l \in Lead |-> FALSE]
    /\ suppression = [a \in Address |-> "none"]
    /\ stored = [i \in Inbound |-> 0]
    /\ arrived = [i \in Inbound |-> None]
    /\ mail = [m \in Mail |->
                  [to |-> None, answers |-> None, shown |-> "none", barred |-> FALSE]]
    /\ emitted = [m \in Mail |-> {}]
    /\ outstanding = {}
    /\ pc = [h \in Handler |-> "idle"]
    /\ job = [h \in Handler |-> None]
    /\ faults = MaxFaults
    /\ crossed = [l \in Lead |-> FALSE]
    /\ overlapped = [i \in Inbound |-> FALSE]

-----------------------------------------------------------------------------
(* Handlers.                                                                *)

Go(h, step) == pc' = [pc EXCEPT ![h] = step]

\* A handler is done.
Leave(h) == Go(h, "idle") /\ job' = [job EXCEPT ![h] = None]

\* The notice is answered, and the provider will not send it again.
Answer(h) == outstanding' = outstanding \ {job[h].notice}
Dismiss(h) == Leave(h) /\ Answer(h)
Fault == faults > 0 /\ faults' = faults - 1

Suppressed(a) == a # None /\ suppression[a] # "none"
\* What a handler reads when it begins.
Read(n, a, l, m) ==
    [notice |-> n, to |-> a, lead |-> l, mail |-> m, leads |-> lead,
     reason |-> IF a = None THEN "none" ELSE suppression[a],
     shown |-> IF m = None THEN "none" ELSE mail[m].shown,
     barred |-> Suppressed(a)]
Begin(h, step, read) ==
    /\ pc[h] = "idle"
    /\ Go(h, step) /\ job' = [job EXCEPT ![h] = read]

Outdated(h, l) ==
    \/ lead[l] # job[h].leads[l]
    \/ job[h].to # None /\ suppression[job[h].to] # job[h].reason
NoteCrossing(h) == crossed' = [l \in Lead |-> crossed[l] \/ Outdated(h, l)]

\* What a flush leaves in a column: the value loaded is not written.
Flush(db, loaded, new) == IF new = loaded THEN db ELSE new

\* The leads the handler read with the address it is about.
Having(h) == {l \in Lead : job[h].leads[l].address = job[h].to}
MarkLeads(h, status) ==
    lead' = [l \in Lead |-> IF l \in Having(h)
        THEN [lead[l] EXCEPT !.status = Flush(@, job[h].leads[l].status, status)]
        ELSE lead[l]]

\* Bound: a handler may only set out to send while provider ids are left.
MaySend ==
    Cardinality(Unused) > Cardinality({h \in Handler : pc[h] \in Composing})

-----------------------------------------------------------------------------
(* The provider, outside the repository: what it announces and when.        *)

EmailArrives(i) ==
    /\ arrived[i] = None
    /\ \E a \in Address : arrived' = [arrived EXCEPT ![i] = a]
    /\ outstanding' = outstanding \cup {Received(i)}
    /\ UNCHANGED <<rowVars, mail, emitted, pc, job, faults, ghostVars>>

\* A mail bounces at once or after its delivery; a delay comes before either.
MayEmit(m, e) ==
    LET past == emitted[m] IN
    CASE e = "delivered"  -> past \cap {"failed", "bounced"} = {}
      [] e = "delayed"    -> past \cap {"delivered", "failed", "bounced"} = {}
      [] e = "failed"     -> past \cap {"delivered", "bounced"} = {}
      [] e = "bounced"    -> "failed" \notin past
      [] e = "complained" -> "delivered" \in past

Emit(m, e) ==
    /\ mail[m].to # None
    /\ e \notin emitted[m] /\ MayEmit(m, e)
    /\ Cardinality({d \in Mail \X Event : d[2] \in emitted[d[1]]}) < MaxEvents
    /\ emitted' = [emitted EXCEPT ![m] = @ \cup {e}]
    /\ outstanding' = outstanding \cup {DeliveryOf(m, e)}
    /\ UNCHANGED <<rowVars, mail, arrived, pc, job, faults, ghostVars>>

\* An answer was lost, or came too late for the provider.
Redeliver(n) ==
    /\ Fault
    /\ n \notin outstanding
    /\ \/ n.of \in Inbound /\ arrived[n.of] # None
       \/ n.of \in Mail /\ n.event \in emitted[n.of]
    /\ outstanding' = outstanding \cup {n}
    /\ UNCHANGED <<rowVars, mail, arrived, emitted, pc, job, ghostVars>>

-----------------------------------------------------------------------------
(* Delivery events.                                                         *)

TakenBy(n) == {s \in Server : job[s] # None /\ job[s].notice = n}

\* A notice another server is still on comes again only when its answer is late.
Take(s, n, step, read) ==
    /\ s \in Server /\ n \in outstanding
    /\ Begin(s, step, read)
    /\ IF TakenBy(n) # {} THEN Fault ELSE UNCHANGED faults

TakeEvent(s, m, e) ==
    /\ Take(s, DeliveryOf(m, e), "event", Read(DeliveryOf(m, e), mail[m].to, None, m))
    /\ UNCHANGED <<rowVars, mail, providerVars, ghostVars>>

\* A failure stands when a delivery, an opening or a click comes after it.
StatusAfter(old, e) == IF old \in Failure /\ e = "delivered" THEN old ELSE e

\* Slip: the last reason wins.
SuppressionAfterLast(old, e) == IF e = "complained" THEN "complaint" ELSE "bounce"

\* The first reason is kept, unless this is a complaint.
SuppressionAfter(old, e) ==
    IF e = "complained" THEN "complaint"
    ELSE IF old # "none" THEN old
    ELSE "bounce"

\* Both wrote the row of the address first: the unique key refuses the second.
Conflict(h) == job[h].reason = "none" /\ suppression[job[h].to] # "none"

\* Slip: a bounce counts only for a mail that has its row.
SuppressesKnown(h) ==
    job[h].shown # "none" /\ job[h].notice.event \in {"bounced", "complained"}

Suppresses(h) == job[h].notice.event \in {"bounced", "complained"}

\* The row of the mail, if there is one by now, takes the status, and a bounce
\* or a complaint puts the address on the list and marks its leads.
RecordEvent(s) ==
    LET m == job[s].mail
        e == job[s].notice.event
    IN
    /\ pc[s] = "event"
    /\ ~(Suppresses(s) /\ Conflict(s))
    /\ mail' = [mail EXCEPT ![m].shown =
           IF job[s].shown = "none" THEN @
           ELSE Flush(@, job[s].shown, StatusAfter(job[s].shown, e))]
    /\ IF Suppresses(s)
       THEN /\ suppression' = [suppression EXCEPT ![job[s].to] =
                   Flush(@, job[s].reason, SuppressionAfter(job[s].reason, e))]
            /\ MarkLeads(s, e)
            /\ NoteCrossing(s)
       ELSE UNCHANGED <<lead, suppression, crossed>>
    /\ Dismiss(s)
    /\ UNCHANGED <<held, stored, arrived, emitted, faults, overlapped>>

\* The second insert of an address fails with its whole transaction: a notice
\* is answered with an error and comes again, an unsubscription is lost.
LoseConflict(h) ==
    /\ \/ pc[h] = "event" /\ Suppresses(h)
       \/ pc[h] = "unsubscribing"
    /\ Conflict(h)
    /\ Leave(h)
    /\ UNCHANGED <<rowVars, mail, providerVars, faults, ghostVars>>

-----------------------------------------------------------------------------
(* Inbound mail and the reply to it.                                        *)

\* The body is fetched before anything is read from the database.
TakeInbound(s, i) ==
    /\ MaySend
    /\ Take(s, Received(i), "fetched", Read(Received(i), arrived[i], None, None))
    /\ overlapped' = [overlapped EXCEPT ![i] = @ \/ TakenBy(Received(i)) # {}]
    /\ UNCHANGED <<rowVars, mail, providerVars, crossed>>

\* Not fetched: the notice is answered all the same, and the mail is lost.
FetchFails(s) ==
    /\ pc[s] = "fetched"
    /\ Fault
    /\ Dismiss(s)
    /\ UNCHANGED <<rowVars, mail, arrived, emitted, ghostVars>>

Matching(a) == {l \in Lead : lead[l].address = a}
\* Slip: a mail that is already stored is not looked for.
KnownNever(i) == FALSE

Known(i) == stored[i] > 0

MatchInbound(s) ==
    LET i == job[s].notice.of
        found == Matching(job[s].to)
    IN
    /\ pc[s] = "fetched"
    /\ IF Known(i) \/ Cardinality(found) # 1 THEN Dismiss(s)
       ELSE /\ job' = [job EXCEPT ![s] =
                   LET l == CHOOSE x \in found : TRUE
                   IN [@ EXCEPT !.lead = l,
                                !.barred = Suppressed(job[s].to) \/ held[l]]]
            /\ Go(s, "matched")
            /\ UNCHANGED outstanding
    /\ UNCHANGED <<rowVars, mail, arrived, emitted, faults, ghostVars>>

StoreInbound(s) ==
    /\ pc[s] = "matched"
    /\ stored' = [stored EXCEPT ![job[s].notice.of] = @ + 1]
    /\ Go(s, "kept")
    /\ UNCHANGED <<lead, held, suppression, mail, providerVars, job, faults, ghostVars>>

\* Slip: the do-not-email list is read before the mail is fetched.
MayReplyRead(s) == ~held[job[s].lead] /\ job[s].reason = "none"

MayReply(s) == ~held[job[s].lead] /\ ~Suppressed(job[s].to)

\* Stored only: no reply is wanted, or the AI responses of the month are used
\* up, which hands the lead over.
KeepOnly(s) ==
    /\ pc[s] = "kept"
    /\ \/ UNCHANGED held
       \/ MayReply(s) /\ held' = [held EXCEPT ![job[s].lead] = TRUE]
    /\ Dismiss(s)
    /\ UNCHANGED <<lead, suppression, stored, mail, arrived, emitted, faults, ghostVars>>

\* The model writes the reply; nothing is read again before it is sent.
AskModel(s) ==
    /\ pc[s] = "kept" /\ MayReply(s)
    /\ Go(s, "calling")
    /\ UNCHANGED <<rowVars, mail, providerVars, job, faults, ghostVars>>

\* The model failed, wrote nothing usable, or is not trusted, which hands over.
DiscardReply(s) ==
    /\ pc[s] = "calling" /\ s \in Server
    /\ \/ UNCHANGED held
       \/ held' = [held EXCEPT ![job[s].lead] = TRUE]
    /\ Dismiss(s)
    /\ UNCHANGED <<lead, suppression, stored, mail, arrived, emitted, faults, ghostVars>>

-----------------------------------------------------------------------------
(* Sending: a reply, or the mail of a colleague.                            *)

MayWrite(l) ==
    /\ lead[l].address # None /\ lead[l].status \notin Blocked
    /\ ~Suppressed(lead[l].address)

StartSend(t, l) ==
    /\ t \in Thread /\ MayWrite(l) /\ MaySend
    /\ Begin(t, "calling", Read(None, lead[l].address, l, None))
    /\ UNCHANGED <<rowVars, mail, providerVars, faults, ghostVars>>

\* No idempotency key is given: each call is a new mail.
NewMail == CHOOSE m \in Mail : m \in Unused
ProviderTakes(h, m) ==
    mail' = [mail EXCEPT ![m] =
           [to |-> job[h].to, shown |-> "none", barred |-> job[h].barred,
            answers |-> IF h \in Server THEN job[h].notice.of ELSE None]]

CallProvider(h) ==
    /\ pc[h] = "calling"
    /\ ProviderTakes(h, NewMail)
    /\ job' = [job EXCEPT ![h].mail = NewMail]
    /\ Go(h, "sent")
    /\ UNCHANGED <<rowVars, providerVars, faults, ghostVars>>

\* The provider refuses, or takes the mail and its answer is lost.
CallFails(h) ==
    /\ pc[h] = "calling"
    /\ Fault
    /\ UNCHANGED mail \/ ProviderTakes(h, NewMail)
    /\ Dismiss(h)
    /\ UNCHANGED <<rowVars, arrived, emitted, ghostVars>>

\* The row of a reply is written.
RecordReply(s) ==
    /\ pc[s] = "sent" /\ s \in Server
    /\ mail' = [mail EXCEPT ![job[s].mail].shown = "sent"]
    /\ Dismiss(s)
    /\ UNCHANGED <<rowVars, arrived, emitted, faults, ghostVars>>

\* The row of a colleague's mail is written, and an address that had no status
\* is valid now.
RecordMail(t) ==
    LET l == job[t].lead IN
    /\ pc[t] = "sent" /\ t \in Thread
    /\ mail' = [mail EXCEPT ![job[t].mail].shown = "sent"]
    /\ IF job[t].leads[l].status = "unset"
       THEN lead' = [lead EXCEPT ![l].status = "valid"] /\ NoteCrossing(t)
       ELSE UNCHANGED <<lead, crossed>>
    /\ Leave(t)
    /\ UNCHANGED <<held, suppression, stored, providerVars, faults, overlapped>>

-----------------------------------------------------------------------------
(* Addresses, unsubscriptions, takeovers, crashes.                          *)

\* The new address may not be another lead's.
StartChange(t, l, a) ==
    /\ t \in Thread
    /\ Fault
    /\ a # None => Matching(a) \subseteq {l}
    /\ Begin(t, "changing", Read(None, a, l, None))
    /\ UNCHANGED <<rowVars, mail, providerVars, ghostVars>>

StatusFor(reason) ==
    CASE reason = "unsubscribed" -> "unsubscribed"
      [] reason = "complaint"    -> "complained"
      [] reason = "bounce"       -> "bounced"

\* Slip: a new address starts unknown.
StatusOfUnknown(t) == "unknown"

\* The status that goes with the new address.
StatusOf(t) ==
    LET old == job[t].leads[job[t].lead] IN
    IF job[t].to = None THEN "unset"
    ELSE IF job[t].reason # "none" THEN StatusFor(job[t].reason)
    ELSE IF old.address # job[t].to \/ old.status = "unset" THEN "unknown"
    ELSE old.status

ChangeAddress(t) ==
    LET l == job[t].lead
        old == job[t].leads[l]
    IN
    /\ pc[t] = "changing"
    /\ lead' = [lead EXCEPT ![l] =
           [address |-> Flush(@.address, old.address, job[t].to),
            status |-> Flush(@.status, old.status, StatusOf(t))]]
    /\ NoteCrossing(t)
    /\ Leave(t)
    /\ UNCHANGED <<held, suppression, stored, mail, providerVars, faults, overlapped>>

\* A link names the tenant and the address it was signed for, and every mail
\* sent has one.  Bound: no link expires.
HasLink(a) == \E m \in Mail : mail[m].to = a

OpenUnsubscribe(t, a) ==
    /\ t \in Thread /\ HasLink(a)
    /\ Begin(t, "unsubscribing", Read(None, a, None, None))
    /\ UNCHANGED <<rowVars, mail, providerVars, faults, ghostVars>>

Unsubscribe(t) ==
    /\ pc[t] = "unsubscribing" /\ ~Conflict(t)
    /\ suppression' = [suppression EXCEPT ![job[t].to] =
           Flush(@, job[t].reason, "unsubscribed")]
    /\ MarkLeads(t, "unsubscribed")
    /\ NoteCrossing(t)
    /\ Leave(t)
    /\ UNCHANGED <<held, stored, mail, providerVars, faults, overlapped>>

\* A colleague takes the conversation over (MODULE Takeover has the rest).
TakeOver(l) ==
    /\ ~held[l] /\ held' = [held EXCEPT ![l] = TRUE]
    /\ UNCHANGED <<lead, suppression, stored, mail, providerVars, pc, job, faults, ghostVars>>

\* ... or gives it back to the AI, also during a reply.
GiveBack(l) ==
    /\ held[l] /\ held' = [held EXCEPT ![l] = FALSE]
    /\ job' = [h \in Handler |->
           IF pc[h] \in {"matched", "kept"} /\ job[h].lead = l
           THEN [job[h] EXCEPT !.barred = @ /\ Suppressed(job[h].to)]
           ELSE job[h]]
    /\ UNCHANGED <<lead, suppression, stored, mail, providerVars, pc, faults, ghostVars>>

\* The processes die, and with them what their handlers were doing.
Crash ==
    /\ \E h \in Handler : pc[h] # "idle"
    /\ Fault
    /\ pc' = [h \in Handler |-> "idle"]
    /\ job' = [h \in Handler |-> None]
    /\ UNCHANGED <<rowVars, mail, providerVars, ghostVars>>

-----------------------------------------------------------------------------
ProviderStep ==
    \/ \E i \in Inbound : EmailArrives(i)
    \/ \E m \in Mail, e \in Event : Emit(m, e)
    \/ \E n \in Notice : Redeliver(n)

TakeNotice ==
    \E s \in Server :
        \/ \E m \in Mail, e \in Event : TakeEvent(s, m, e)
        \/ \E i \in Inbound : TakeInbound(s, i)

Continue(h) ==
    \/ RecordEvent(h) \/ LoseConflict(h) \/ MatchInbound(h) \/ StoreInbound(h)
    \/ KeepOnly(h) \/ AskModel(h) \/ DiscardReply(h)
    \/ CallProvider(h) \/ RecordReply(h) \/ RecordMail(h) \/ ChangeAddress(h) \/ Unsubscribe(h)

Request ==
    \E t \in Thread :
        \/ \E l \in Lead : StartSend(t, l)
        \/ \E l \in Lead, a \in Address \cup {None} : StartChange(t, l, a)
        \/ \E a \in Address : OpenUnsubscribe(t, a)

Next ==
    \/ ProviderStep \/ TakeNotice \/ Request
    \/ \E h \in Handler : Continue(h) \/ FetchFails(h) \/ CallFails(h)
    \/ Crash
    \/ \E l \in Lead : TakeOver(l) \/ GiveBack(l)

Spec == Init /\ [][Next]_vars

-----------------------------------------------------------------------------
\* An inbound email is answered by one mail at most, after it was stored, and
\* is stored once, unless two servers had it at the same time: redeliveries
\* and crashes lead to no second reply (process_inbound_email_event).  All rows
\* keep their types.
OneReply ==
    /\ TypeOK
    /\ \A i \in Inbound :
         /\ Cardinality({m \in Mail : mail[m].answers = i}) <= stored[i]
         /\ ~overlapped[i] => stored[i] <= 1

\* No mail goes to an address that was on the do-not-email list, and no reply
\* to a lead that was taken over, before its sender had read anything, unless it
\* was given back since: the checks are early, but what is known when they start
\* binds.
NothingToBarred == \A m \in Mail : ~mail[m].barred

\* A lead's status says that its address is blocked exactly when the address
\* is on the list, whatever the order of bounces, complaints, unsubscriptions
\* and address changes, unless one was written from an outdated read.
StatusAgrees ==
    \A l \in Lead : ~crossed[l] =>
        (lead[l].status \in Blocked <=> Suppressed(lead[l].address))

\* An address never leaves the list, what the customer said is never replaced
\* by a bounce, and a complaint only by the customer's own unsubscription.
SuppressionSticks ==
    [][\A a \in Address :
         LET old == suppression[a]  new == suppression'[a] IN
         /\ old # "none" => new # "none"
         /\ old \in {"complaint", "unsubscribed"} =>
                new \in {"complaint", "unsubscribed"}]_vars

\* A bounce or a complaint the provider has seen answered is on the list, even
\* when it came before the mail's own row, twice, to two servers at once, or to
\* one that died over it (handle_resend_event).
AnsweredSuppresses ==
    \A m \in Mail, e \in {"bounced", "complained"} :
        e \in emitted[m] /\ DeliveryOf(m, e) \notin outstanding => Suppressed(mail[m].to)

=============================================================================
