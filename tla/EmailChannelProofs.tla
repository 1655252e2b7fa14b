------------------------- MODULE EmailChannelProofs -------------------------
(***************************************************************************)
(* Proofs about the email channel for any number of leads, addresses,       *)
(* servers, requests, mails and delivery events.                            *)
(*                                                                          *)
(* A handler acts on what it read some steps ago.  What keeps the rows      *)
(* right all the same is that the list of addresses only grows, that a      *)
(* status is written from an outdated read only where this is noted, and    *)
(* that one server at a time has an inbound email unless this is noted.     *)
(***************************************************************************)
EXTENDS EmailChannel, FiniteSetTheorems, TLAPS

\* What a handler has in memory at each of its steps.
OnEvent(h) ==
    LET j == job[h] IN
    /\ h \in Server /\ j.mail \in Mail /\ j.to \in Address
    /\ j.to = mail[j.mail].to
    /\ j.notice.event \in emitted[j.mail]
    /\ j.notice = DeliveryOf(j.mail, j.notice.event)
    /\ j.reason # "none" => suppression[j.to] # "none"

OnMail(h) ==
    /\ job[h].to \in Address
    /\ h \in Server => \E i \in Inbound : job[h].notice = Received(i)
    /\ h \in Thread => job[h].notice = None

Fine(h) ==
    /\ pc[h] = "event" => OnEvent(h)
    /\ pc[h] \in Composing \cup {"sent"} => OnMail(h)
    /\ pc[h] \in {"fetched", "matched", "kept"} => h \in Server
    /\ pc[h] \in {"changing", "unsubscribing"} => h \in Thread /\ job[h].notice = None
    /\ pc[h] = "unsubscribing" => job[h].to \in Address
    /\ pc[h] \in {"matched", "kept", "calling", "sent", "changing"} => job[h].lead \in Lead
    /\ pc[h] = "sent" => job[h].mail \in Mail /\ mail[job[h].mail].to # None
    /\ pc[h] \in {"matched", "kept"} /\ job[h].barred =>
         Suppressed(job[h].to) \/ held[job[h].lead]
    /\ pc[h] = "calling" => ~job[h].barred

HandlerInv == \A h \in Handler : Fine(h)

\* The provider only sends notices of what happened.
ProviderInv ==
    /\ \A i \in Inbound : Received(i) \in outstanding => arrived[i] # None
    /\ \A m \in Mail, e \in Event : DeliveryOf(m, e) \in outstanding => e \in emitted[m]

\* There is a provider id for every handler that may send.
Composers == {h \in Handler : pc[h] \in Composing}
RoomInv == Cardinality(Composers) <= Cardinality(Unused)

\* Unless two servers had an inbound email at once, one that is about to store
\* it is the only one.
SingleInv ==
    \A i \in Inbound : ~overlapped[i] =>
        /\ stored[i] <= 1
        /\ \A s, t \in TakenBy(Received(i)) : s = t
        /\ \A s \in TakenBy(Received(i)) : pc[s] = "matched" => stored[i] = 0

\* Every row of an inbound email stands for one answer or for one server that
\* may still send one.
Answers(i) == {m \in Mail : mail[m].answers = i}
Answering(i) == {s \in TakenBy(Received(i)) : pc[s] \in {"kept", "calling"}}
ReplyInv ==
    \A i \in Inbound : Cardinality(Answers(i)) + Cardinality(Answering(i)) <= stored[i]

ChannelInv ==
    /\ TypeOK /\ HandlerInv /\ ProviderInv /\ RoomInv /\ SingleInv /\ ReplyInv
    /\ NothingToBarred /\ StatusAgrees /\ AnsweredSuppresses

-----------------------------------------------------------------------------
(* Types in three parts: rows, handlers, unused mails.                      *)

RowType ==
    /\ lead \in [Lead -> LeadRow]
    /\ held \in [Lead -> BOOLEAN]
    /\ suppression \in [Address -> Reason]
    /\ stored \in [Inbound -> Nat]
    /\ arrived \in [Inbound -> Address \cup {None}]
    /\ mail \in [Mail -> MailRow]
    /\ emitted \in [Mail -> SUBSET Event]
    /\ outstanding \in SUBSET Notice
    /\ faults \in 0 .. MaxFaults
    /\ crossed \in [Lead -> BOOLEAN]
    /\ overlapped \in [Inbound -> BOOLEAN]

HandlerType ==
    /\ pc \in [Handler -> Step]
    /\ job \in [Handler -> Job \cup {None}]
    /\ \A h \in Handler : pc[h] = "idle" <=> job[h] = None

UnusedType ==
    \A m \in Mail : mail[m].to = None => mail[m].shown = "none" /\ emitted[m] = {}

LEMMA TypeParts == TypeOK <=> RowType /\ HandlerType /\ UnusedType
  BY DEF TypeOK, RowType, HandlerType, UnusedType

\* A handler goes to a step, with a job or without one.
Sets(h, step, j) ==
    /\ h \in Handler /\ step \in Step
    /\ step = "idle" <=> j = None
    /\ j \in Job \cup {None}
    /\ pc' = [pc EXCEPT ![h] = step]
    /\ job' = [job EXCEPT ![h] = j]

Same(g) == pc'[g] = pc[g] /\ job'[g] = job[g]

LEMMA SetsHandler ==
  ASSUME HandlerType, NEW h, NEW step, NEW j, Sets(h, step, j)
  PROVE  /\ HandlerType'
         /\ pc'[h] = step /\ job'[h] = j
         /\ \A g \in Handler \ {h} : Same(g)
  BY DEF HandlerType, Sets, Same

LEMMA JobNotNone == \A j \in Job : j # None
  BY NoJobAssumption

LEMMA LeaveSets ==
  ASSUME HandlerType, NEW h \in Handler, Leave(h)
  PROVE  Sets(h, "idle", None)
  BY DEF Leave, Go, Sets, Step

LEMMA GoSets ==
  ASSUME HandlerType, NEW h \in Handler, NEW step \in Step \ {"idle"},
         pc[h] # "idle", Go(h, step), job' = job
  PROVE  Sets(h, step, job[h])
  <1>1. job[h] \in Job
    BY DEF HandlerType
  <1>2. job = [job EXCEPT ![h] = job[h]]
    BY DEF HandlerType
  <1> QED
    BY <1>1, <1>2, JobNotNone DEF Go, Sets

LEMMA BeginSets ==
  ASSUME NEW h \in Handler, NEW step \in Step \ {"idle"}, NEW read \in Job,
         Begin(h, step, read)
  PROVE  Sets(h, step, read)
  BY JobNotNone DEF Begin, Go, Sets

LEMMA ReadJob ==
  ASSUME RowType, NEW n, NEW a, NEW l, NEW m,
         n \in Notice \cup {None}, a \in Address \cup {None},
         l \in Lead \cup {None}, m \in Mail \cup {None}
  PROVE  /\ Read(n, a, l, m) \in Job
         /\ Read(n, a, l, m).notice = n /\ Read(n, a, l, m).to = a
         /\ Read(n, a, l, m).lead = l /\ Read(n, a, l, m).mail = m
         /\ a # None => Read(n, a, l, m).reason = suppression[a]
  <1>1. (IF a = None THEN "none" ELSE suppression[a]) \in Reason
    BY DEF RowType, Reason
  <1>2. (IF m = None THEN "none" ELSE mail[m].shown) \in {"none", "sent"} \cup Event
    BY DEF RowType, MailRow
  <1>3. lead \in [Lead -> LeadRow]
    BY DEF RowType
  <1>4. Suppressed(a) \in BOOLEAN
    BY DEF Suppressed
  <1> QED
    BY <1>1, <1>2, <1>3, <1>4 DEF Read, Job

-----------------------------------------------------------------------------
(* What a handler relies on stays as it was, but for its own step.          *)

Grows ==
    /\ \A a \in Address : suppression[a] # "none" => suppression'[a] # "none"
    /\ \A l \in Lead : held[l] => held'[l]
    /\ \A m \in Mail : mail[m].to # None => mail'[m].to = mail[m].to
    /\ \A m \in Mail : emitted[m] \subseteq emitted'[m]

LEMMA FineStays ==
  ASSUME HandlerType, RowType, Grows, NEW h \in Handler, Fine(h), Same(h)
  PROVE  Fine(h)'
  <1> USE DEF Same
  <1>1. pc[h] = "event" /\ OnEvent(h) => OnEvent(h)'
    <2> SUFFICES ASSUME OnEvent(h)
                 PROVE  OnEvent(h)'
      OBVIOUS
    <2>1. job[h].mail \in Mail /\ mail[job[h].mail].to # None
      BY ChannelAssumption DEF OnEvent
    <2>2. mail'[job[h].mail].to = mail[job[h].mail].to
      BY <2>1 DEF Grows
    <2>3. emitted[job[h].mail] \subseteq emitted'[job[h].mail]
      BY <2>1 DEF Grows
    <2>4. job[h].reason # "none" => suppression'[job[h].to] # "none"
      BY DEF OnEvent, Grows
    <2> QED
      BY <2>1, <2>2, <2>3, <2>4 DEF OnEvent, DeliveryOf
  <1>2. OnMail(h) => OnMail(h)'
    BY DEF OnMail, Received
  <1>3. job[h].mail \in Mail /\ mail[job[h].mail].to # None
          => mail'[job[h].mail].to # None
    BY DEF Grows
  <1>4. job[h].to \in Address /\ Suppressed(job[h].to) => Suppressed(job[h].to)'
    BY DEF Grows, Suppressed
  <1>5. job[h].lead \in Lead /\ held[job[h].lead] => held'[job[h].lead]
    BY DEF Grows
  <1>6. pc[h] \in Composing => job[h].to \in Address
    BY DEF Fine, OnMail
  <1>7. pc[h] \in {"matched", "kept"} => pc[h] \in Composing
    BY DEF Composing
  <1> QED
    BY <1>1, <1>2, <1>3, <1>4, <1>5, <1>6, <1>7 DEF Fine

LEMMA FineIdle ==
  ASSUME NEW h \in Handler, pc'[h] = "idle"
  PROVE  Fine(h)'
  BY DEF Fine, Composing

\* A step of a handler keeps the types, takes nothing from the others, and
\* leaves it with what its next step needs.
Sound(h) ==
    /\ \E step \in Step, j \in Job \cup {None} : Sets(h, step, j)
    /\ RowType' /\ UnusedType' /\ Grows
    /\ Fine(h)'

LEMMA SoundStep ==
  ASSUME TypeOK, HandlerInv, NEW h \in Handler, Sound(h)
  PROVE  TypeOK' /\ HandlerInv'
  <1>1. PICK step \in Step, j \in Job \cup {None} : Sets(h, step, j)
    BY DEF Sound
  <1>2. RowType /\ HandlerType
    BY TypeParts
  <1>3. HandlerType' /\ \A g \in Handler \ {h} : Same(g)
    BY <1>1, <1>2, SetsHandler
  <1>4. TypeOK'
    BY <1>3 DEF Sound, TypeOK, RowType, HandlerType, UnusedType
  <1>5. ASSUME NEW g \in Handler
        PROVE  Fine(g)'
    <2>1. CASE g = h
      BY <2>1 DEF Sound
    <2>2. CASE g # h
      BY <2>2, <1>2, <1>3, FineStays DEF Sound, HandlerInv
    <2> QED
      BY <2>1, <2>2
  <1> QED
    BY <1>4, <1>5 DEF HandlerInv

\* Nothing of what handlers rely on is touched.
LEMMA NothingGrows ==
  ASSUME RowType, UNCHANGED <<suppression, held, emitted>>,
         \A m \in Mail : mail'[m].to = mail[m].to
  PROVE  Grows
  BY DEF Grows

-----------------------------------------------------------------------------
(* Handlers that begin.                                                     *)

LEMMA BeginSound ==
  ASSUME TypeOK, NEW h \in Handler, NEW step \in Step \ {"idle"}, NEW read \in Job,
         Begin(h, step, read), UNCHANGED <<rowVars, mail, providerVars, crossed>>,
         faults' \in 0 .. MaxFaults, overlapped' \in [Inbound -> BOOLEAN],
         pc'[h] = step /\ job'[h] = read => Fine(h)'
  PROVE  Sound(h)
  <1>1. RowType /\ HandlerType /\ UnusedType
    BY TypeParts
  <1>2. Sets(h, step, read)
    BY BeginSets
  <1>3. pc'[h] = step /\ job'[h] = read
    BY <1>1, <1>2, SetsHandler
  <1>4. RowType' /\ UnusedType'
    BY <1>1 DEF RowType, UnusedType, rowVars, providerVars
  <1>5. Grows
    BY <1>1, NothingGrows DEF rowVars, providerVars
  <1> QED
    BY <1>2, <1>3, <1>4, <1>5 DEF Sound

LEMMA FaultType ==
  ASSUME RowType, Fault \/ UNCHANGED faults
  PROVE  faults' \in 0 .. MaxFaults
  BY ChannelAssumption DEF RowType, Fault

LEMMA TakeEventSound ==
  ASSUME TypeOK, HandlerInv, ProviderInv,
         NEW s \in Server, NEW m \in Mail, NEW e \in Event, TakeEvent(s, m, e)
  PROVE  Sound(s)
  <1> DEFINE n == DeliveryOf(m, e)
             read == Read(n, mail[m].to, None, m)
  <1>1. RowType /\ HandlerType /\ UnusedType
    BY TypeParts
  <1>2. e \in emitted[m] /\ mail[m].to # None /\ mail[m].to \in Address
    <2>1. e \in emitted[m]
      BY DEF TakeEvent, Take, ProviderInv
    <2> QED
      BY <2>1, <1>1 DEF UnusedType, RowType, MailRow
  <1>3. n \in Notice /\ n.event = e
    BY DEF DeliveryOf, Notice
  <1>4. /\ read \in Job /\ read.notice = n /\ read.to = mail[m].to /\ read.mail = m
        /\ read.reason = suppression[mail[m].to]
    <2>1. /\ n \in Notice \cup {None} /\ mail[m].to \in Address \cup {None}
          /\ None \in Lead \cup {None} /\ m \in Mail \cup {None}
      BY <1>2, <1>3
    <2> HIDE DEF n
    <2> QED
      BY <1>1, <1>2, <2>1, ReadJob
  <1>5. s \in Handler
    BY DEF Handler
  <1>6. faults' \in 0 .. MaxFaults
    BY <1>1, FaultType DEF TakeEvent, Take
  <1>7. UNCHANGED <<rowVars, mail, providerVars, crossed, overlapped>>
    BY DEF TakeEvent, ghostVars
  <1>8. pc'[s] = "event" /\ job'[s] = read => Fine(s)'
    BY <1>2, <1>3, <1>4, <1>7
       DEF Fine, OnEvent, Composing, DeliveryOf, rowVars, providerVars
  <1>9. Begin(s, "event", read)
    BY DEF TakeEvent, Take
  <1>10. overlapped' \in [Inbound -> BOOLEAN]
    BY <1>1, <1>7 DEF RowType
  <1> HIDE DEF n, read
  <1> QED
    BY <1>4, <1>5, <1>6, <1>7, <1>8, <1>9, <1>10, BeginSound DEF Step

LEMMA TakeInboundSound ==
  ASSUME TypeOK, HandlerInv, ProviderInv, NEW s \in Server, NEW i \in Inbound,
         TakeInbound(s, i)
  PROVE  Sound(s) /\ job'[s].notice = Received(i) /\ pc'[s] = "fetched"
  <1> DEFINE read == Read(Received(i), arrived[i], None, None)
  <1>1. RowType /\ HandlerType /\ UnusedType
    BY TypeParts
  <1>2. arrived[i] # None /\ arrived[i] \in Address
    <2>1. arrived[i] # None
      BY DEF TakeInbound, Take, ProviderInv
    <2> QED
      BY <2>1, <1>1 DEF RowType
  <1>3. Received(i) \in Notice
    BY DEF Received, Notice
  <1>4. read \in Job /\ read.notice = Received(i) /\ read.to = arrived[i]
    <2>1. /\ Received(i) \in Notice \cup {None} /\ arrived[i] \in Address \cup {None}
          /\ None \in Lead \cup {None} /\ None \in Mail \cup {None}
      BY <1>2, <1>3
    <2> QED
      BY <1>1, <2>1, ReadJob
  <1>5. s \in Handler /\ s \notin Thread
    BY ChannelAssumption DEF Handler
  <1>6. faults' \in 0 .. MaxFaults
    BY <1>1, FaultType DEF TakeInbound, Take
  <1>7. UNCHANGED <<rowVars, mail, providerVars, crossed>>
    BY DEF TakeInbound
  <1>8. overlapped' \in [Inbound -> BOOLEAN]
    BY <1>1 DEF RowType, TakeInbound
  <1>9. pc'[s] = "fetched" /\ job'[s] = read => Fine(s)'
    BY <1>2, <1>4, <1>5 DEF Fine, OnMail, Received
  <1>10. Begin(s, "fetched", read)
    BY DEF TakeInbound, Take
  <1> HIDE DEF read
  <1>11. "fetched" \in Step \ {"idle"}
    BY DEF Step, Composing
  <1>12. Sound(s)
    BY <1>4, <1>5, <1>6, <1>7, <1>8, <1>9, <1>10, <1>11, BeginSound
  <1>13. job'[s] = read /\ pc'[s] = "fetched"
    BY <1>1, <1>4, <1>5, <1>10, <1>11, BeginSets, SetsHandler
  <1> QED
    BY <1>4, <1>12, <1>13

LEMMA StartSendSound ==
  ASSUME TypeOK, NEW t \in Thread, NEW l \in Lead, StartSend(t, l)
  PROVE  Sound(t)
  <1> DEFINE read == Read(None, lead[l].address, l, None)
  <1>1. RowType /\ HandlerType /\ UnusedType
    BY TypeParts
  <1>2. lead[l].address \in Address
    BY <1>1 DEF StartSend, MayWrite, RowType, LeadRow
  <1>3. read \in Job /\ read.notice = None /\ read.to = lead[l].address /\ read.lead = l
    BY <1>1, <1>2, ReadJob
  <1>4. ~read.barred
    BY DEF StartSend, MayWrite, Read
  <1>5. t \in Handler /\ t \notin Server
    BY ChannelAssumption DEF Handler
  <1>6. UNCHANGED <<rowVars, mail, providerVars, crossed, faults, overlapped>>
    BY DEF StartSend, ghostVars
  <1>7. faults' \in 0 .. MaxFaults /\ overlapped' \in [Inbound -> BOOLEAN]
    BY <1>1, <1>6 DEF RowType
  <1>8. pc'[t] = "calling" /\ job'[t] = read => Fine(t)'
    BY <1>2, <1>3, <1>4, <1>5 DEF Fine, OnMail
  <1>9. Begin(t, "calling", read) /\ "calling" \in Step \ {"idle"}
    BY DEF StartSend, Step, Composing
  <1> HIDE DEF read
  <1> QED
    BY <1>3, <1>5, <1>6, <1>7, <1>8, <1>9, BeginSound

LEMMA StartChangeSound ==
  ASSUME TypeOK, NEW t \in Thread, NEW l \in Lead, NEW a \in Address \cup {None},
         StartChange(t, l, a)
  PROVE  Sound(t)
  <1> DEFINE read == Read(None, a, l, None)
  <1>1. RowType /\ HandlerType /\ UnusedType
    BY TypeParts
  <1>2. read \in Job /\ read.notice = None /\ read.lead = l
    BY <1>1, ReadJob
  <1>3. t \in Handler
    BY DEF Handler
  <1>4. UNCHANGED <<rowVars, mail, providerVars, crossed, overlapped>>
    BY DEF StartChange, ghostVars
  <1>5. faults' \in 0 .. MaxFaults /\ overlapped' \in [Inbound -> BOOLEAN]
    BY <1>1, <1>4, FaultType DEF RowType, StartChange
  <1>6. pc'[t] = "changing" /\ job'[t] = read => Fine(t)'
    BY <1>2 DEF Fine, Composing
  <1>7. Begin(t, "changing", read) /\ "changing" \in Step \ {"idle"}
    BY DEF StartChange, Step
  <1> HIDE DEF read
  <1> QED
    BY <1>2, <1>3, <1>4, <1>5, <1>6, <1>7, BeginSound

LEMMA OpenUnsubscribeSound ==
  ASSUME TypeOK, NEW t \in Thread, NEW a \in Address, OpenUnsubscribe(t, a)
  PROVE  Sound(t)
  <1> DEFINE read == Read(None, a, None, None)
  <1>1. RowType /\ HandlerType /\ UnusedType
    BY TypeParts
  <1>2. read \in Job /\ read.notice = None /\ read.to = a
    BY <1>1, ReadJob
  <1>3. t \in Handler
    BY DEF Handler
  <1>4. UNCHANGED <<rowVars, mail, providerVars, crossed, faults, overlapped>>
    BY DEF OpenUnsubscribe, ghostVars
  <1>5. faults' \in 0 .. MaxFaults /\ overlapped' \in [Inbound -> BOOLEAN]
    BY <1>1, <1>4 DEF RowType
  <1>6. pc'[t] = "unsubscribing" /\ job'[t] = read => Fine(t)'
    BY <1>2 DEF Fine, Composing
  <1>7. Begin(t, "unsubscribing", read) /\ "unsubscribing" \in Step \ {"idle"}
    BY DEF OpenUnsubscribe, Step
  <1> HIDE DEF read
  <1> QED
    BY <1>2, <1>3, <1>4, <1>5, <1>6, <1>7, BeginSound

-----------------------------------------------------------------------------
(* Handlers that are done.                                                  *)

LEMMA EndSound ==
  ASSUME TypeOK, NEW h \in Handler, Leave(h), RowType', UnusedType', Grows
  PROVE  Sound(h)
  <1>1. HandlerType
    BY TypeParts
  <1>2. Sets(h, "idle", None)
    BY <1>1, LeaveSets
  <1>3. "idle" \in Step /\ None \in Job \cup {None}
    BY DEF Step
  <1>4. Fine(h)'
    BY <1>1, <1>2, SetsHandler, FineIdle
  <1> QED
    BY <1>2, <1>3, <1>4 DEF Sound

LEMMA AnswerType ==
  ASSUME RowType, NEW h, Answer(h) \/ UNCHANGED outstanding
  PROVE  outstanding' \in SUBSET Notice
  BY DEF RowType, Answer

\* The steps that change no row.
LEMMA QuietEnd ==
  ASSUME TypeOK, NEW h \in Handler, Leave(h), Answer(h) \/ UNCHANGED outstanding,
         Fault \/ UNCHANGED faults,
         UNCHANGED <<lead, suppression, stored, mail, arrived, emitted, ghostVars>>,
         held' \in [Lead -> BOOLEAN], \A l \in Lead : held[l] => held'[l]
  PROVE  Sound(h)
  <1>1. RowType /\ HandlerType /\ UnusedType
    BY TypeParts
  <1>2. outstanding' \in SUBSET Notice /\ faults' \in 0 .. MaxFaults
    BY <1>1, AnswerType, FaultType
  <1>3. RowType' /\ UnusedType'
    BY <1>1, <1>2 DEF RowType, UnusedType, ghostVars
  <1>4. Grows
    BY DEF Grows
  <1> QED
    BY <1>3, <1>4, EndSound

LEMMA HandOver ==
  ASSUME RowType, NEW k, UNCHANGED held \/ held' = [held EXCEPT ![k] = TRUE]
  PROVE  held' \in [Lead -> BOOLEAN] /\ \A l \in Lead : held[l] => held'[l]
  BY DEF RowType

LEMMA LoseConflictSound ==
  ASSUME TypeOK, NEW h \in Handler, LoseConflict(h)
  PROVE  Sound(h)
  <1>1. RowType
    BY TypeParts
  <1>2. Leave(h) /\ UNCHANGED <<rowVars, mail, providerVars, faults, ghostVars>>
    BY DEF LoseConflict
  <1>3. UNCHANGED held /\ held' \in [Lead -> BOOLEAN]
    BY <1>1, <1>2 DEF RowType, rowVars
  <1> QED
    BY <1>2, <1>3, QuietEnd DEF rowVars, providerVars

LEMMA FetchFailsSound ==
  ASSUME TypeOK, NEW h \in Handler, FetchFails(h)
  PROVE  Sound(h)
  <1>1. RowType
    BY TypeParts
  <1>2. /\ Leave(h) /\ Answer(h) /\ Fault
        /\ UNCHANGED <<rowVars, mail, arrived, emitted, ghostVars>>
    BY DEF FetchFails, Dismiss
  <1>3. UNCHANGED held /\ held' \in [Lead -> BOOLEAN]
    BY <1>1, <1>2 DEF RowType, rowVars
  <1> QED
    BY <1>2, <1>3, QuietEnd DEF rowVars

LEMMA KeepOnlySound ==
  ASSUME TypeOK, NEW h \in Handler, KeepOnly(h)
  PROVE  Sound(h)
  <1>1. RowType
    BY TypeParts
  <1>2. /\ Leave(h) /\ Answer(h)
        /\ UNCHANGED <<lead, suppression, stored, mail, arrived, emitted, faults, ghostVars>>
    BY DEF KeepOnly, Dismiss
  <1>3. UNCHANGED held \/ held' = [held EXCEPT ![job[h].lead] = TRUE]
    BY DEF KeepOnly
  <1> QED
    BY <1>1, <1>2, <1>3, HandOver, QuietEnd

LEMMA DiscardReplySound ==
  ASSUME TypeOK, NEW h \in Handler, DiscardReply(h)
  PROVE  Sound(h)
  <1>1. RowType
    BY TypeParts
  <1>2. /\ Leave(h) /\ Answer(h)
        /\ UNCHANGED <<lead, suppression, stored, mail, arrived, emitted, faults, ghostVars>>
    BY DEF DiscardReply, Dismiss
  <1>3. UNCHANGED held \/ held' = [held EXCEPT ![job[h].lead] = TRUE]
    BY DEF DiscardReply
  <1> QED
    BY <1>1, <1>2, <1>3, HandOver, QuietEnd

-----------------------------------------------------------------------------
(* Handlers that go on with the same rows.                                  *)

LEMMA GoOnSound ==
  ASSUME TypeOK, NEW h \in Handler, NEW step \in Step \ {"idle"}, NEW j \in Job,
         Sets(h, step, j),
         UNCHANGED <<lead, held, suppression, mail, providerVars, faults, ghostVars>>,
         stored' \in [Inbound -> Nat],
         pc'[h] = step /\ job'[h] = j => Fine(h)'
  PROVE  Sound(h)
  <1>1. RowType /\ HandlerType /\ UnusedType
    BY TypeParts
  <1>2. pc'[h] = step /\ job'[h] = j
    BY <1>1, SetsHandler
  <1>3. RowType' /\ UnusedType'
    BY <1>1 DEF RowType, UnusedType, providerVars, ghostVars
  <1>4. Grows
    BY <1>1, NothingGrows DEF providerVars
  <1> QED
    BY <1>2, <1>3, <1>4 DEF Sound

\* The matched lead is the handler's from here on, and what bars it is known.
LEMMA MatchFound ==
  ASSUME TypeOK, HandlerInv, NEW s \in Handler, MatchInbound(s), ~Leave(s)
  PROVE  /\ Sound(s) /\ pc'[s] = "matched" /\ job'[s].notice = job[s].notice
         /\ ~Known(job[s].notice.of)
         /\ UNCHANGED <<rowVars, mail, providerVars, ghostVars>>
  <1> DEFINE found == Matching(job[s].to)
             l == CHOOSE x \in found : TRUE
             b == Suppressed(job[s].to) \/ held[l]
             j == [job[s] EXCEPT !.lead = l, !.barred = b]
  <1>1. RowType /\ HandlerType /\ UnusedType
    BY TypeParts
  <1>2. /\ pc[s] = "fetched" /\ ~Known(job[s].notice.of) /\ Cardinality(found) = 1
        /\ job' = [job EXCEPT ![s] = j] /\ Go(s, "matched")
        /\ UNCHANGED <<rowVars, mail, providerVars, faults, ghostVars>>
    BY DEF MatchInbound, Dismiss, providerVars
  <1>3. l \in Lead
    <2>1. found # {}
      BY <1>2, FS_EmptySet
    <2> QED
      BY <2>1 DEF Matching
  <1>4. job[s] \in Job
    BY <1>1, <1>2 DEF HandlerType
  <1>5. b \in BOOLEAN
    BY <1>1, <1>3 DEF Suppressed, RowType
  <1>6. /\ j \in Job /\ j.notice = job[s].notice /\ j.to = job[s].to
        /\ j.lead = l
    <2> HIDE DEF b, l
    <2> QED
      BY <1>3, <1>4, <1>5 DEF Job
  <1>7. j.barred <=> b
    <2> HIDE DEF b, l
    <2> QED
      BY <1>4 DEF Job
  <1>8. Sets(s, "matched", j)
    <2> HIDE DEF j
    <2> QED
      BY <1>2, <1>6, JobNotNone DEF Go, Sets, Step, Composing
  <1>9. pc'[s] = "matched" /\ job'[s] = j
    BY <1>1, <1>8, SetsHandler
  <1>10. OnMail(s) /\ s \in Server
    BY <1>2 DEF HandlerInv, Fine, Composing
  <1>11. OnMail(s)'
    BY <1>6, <1>9, <1>10 DEF OnMail
  <1>12. b => Suppressed(job[s].to)' \/ held'[l]
    <2>1. job'[s].to = job[s].to
      BY <1>6, <1>9
    <2>2. UNCHANGED <<held, suppression>>
      BY <1>2 DEF rowVars
    <2> QED
      BY <2>1, <2>2 DEF Suppressed
  <1>13. pc'[s] = "matched" /\ job'[s] = j => Fine(s)'
    <2> HIDE DEF j, b, l
    <2> QED
      BY <1>3, <1>6, <1>7, <1>9, <1>10, <1>11, <1>12 DEF Fine
  <1>14. "matched" \in Step \ {"idle"} /\ stored' \in [Inbound -> Nat]
    BY <1>1, <1>2 DEF Step, Composing, RowType, rowVars
  <1>15. UNCHANGED <<lead, held, suppression, mail, providerVars, faults, ghostVars>>
    BY <1>2 DEF rowVars
  <1> HIDE DEF j
  <1>16. Sound(s)
    BY <1>6, <1>8, <1>13, <1>14, <1>15, GoOnSound
  <1> QED
    BY <1>2, <1>6, <1>9, <1>16

LEMMA MatchInboundSound ==
  ASSUME TypeOK, HandlerInv, NEW s \in Handler, MatchInbound(s)
  PROVE  Sound(s)
  <1>1. CASE ~Leave(s)
    BY <1>1, MatchFound
  <1>2. CASE Leave(s)
    <2>1. RowType /\ HandlerType
      BY TypeParts
    <2>2. job' # [job EXCEPT ![s] = job'[s]] \/ job'[s] = None
      BY <1>2, <2>1 DEF Leave, HandlerType
    <2>3. /\ Answer(s) \/ UNCHANGED outstanding
          /\ UNCHANGED <<rowVars, mail, arrived, emitted, faults, ghostVars>>
      BY DEF MatchInbound, Dismiss
    <2>4. UNCHANGED held /\ held' \in [Lead -> BOOLEAN]
      BY <2>1, <2>3 DEF RowType, rowVars
    <2> QED
      BY <1>2, <2>3, <2>4, QuietEnd DEF rowVars
  <1> QED
    BY <1>1, <1>2

LEMMA StoreInboundSound ==
  ASSUME TypeOK, HandlerInv, NEW s \in Handler, StoreInbound(s)
  PROVE  Sound(s)
  <1>1. RowType /\ HandlerType /\ UnusedType
    BY TypeParts
  <1>2. pc[s] = "matched" /\ job' = job /\ Go(s, "kept") /\ Fine(s)
    BY DEF StoreInbound, HandlerInv
  <1>3. "kept" \in Step \ {"idle"}
    BY DEF Step, Composing
  <1>4. Sets(s, "kept", job[s]) /\ job[s] \in Job
    BY <1>1, <1>2, <1>3, GoSets DEF HandlerType
  <1>5. UNCHANGED <<lead, held, suppression, mail, providerVars, faults, ghostVars>>
    BY DEF StoreInbound
  <1>6. stored' \in [Inbound -> Nat]
    <2>1. PICK i \in Inbound : job[s].notice = Received(i)
      BY <1>2 DEF Fine, OnMail, Composing
    <2>2. stored' = [stored EXCEPT ![i] = @ + 1]
      BY <2>1 DEF StoreInbound, Received
    <2> QED
      BY <1>1, <2>2 DEF RowType
  <1>7. pc'[s] = "kept" /\ job'[s] = job[s] => Fine(s)'
    <2>1. OnMail(s) => OnMail(s)'
      BY <1>2 DEF OnMail
    <2>2. Suppressed(job[s].to) => Suppressed(job[s].to)'
      BY <1>2, <1>5 DEF Suppressed
    <2> QED
      BY <1>2, <1>5, <2>1, <2>2 DEF Fine, Composing
  <1> QED
    BY <1>3, <1>4, <1>5, <1>6, <1>7, GoOnSound

LEMMA AskModelSound ==
  ASSUME TypeOK, HandlerInv, NEW s \in Handler, AskModel(s)
  PROVE  Sound(s)
  <1>1. RowType /\ HandlerType /\ UnusedType
    BY TypeParts
  <1>2. pc[s] = "kept" /\ job' = job /\ Go(s, "calling") /\ Fine(s) /\ MayReply(s)
    BY DEF AskModel, HandlerInv
  <1>3. "calling" \in Step \ {"idle"}
    BY DEF Step, Composing
  <1>4. Sets(s, "calling", job[s]) /\ job[s] \in Job
    BY <1>1, <1>2, <1>3, GoSets DEF HandlerType
  <1>5. UNCHANGED <<rowVars, mail, providerVars, faults, ghostVars>>
    BY DEF AskModel
  <1>6. ~job[s].barred
    BY <1>2 DEF Fine, MayReply
  <1>7. pc'[s] = "calling" /\ job'[s] = job[s] => Fine(s)'
    <2>1. OnMail(s) => OnMail(s)'
      BY <1>2 DEF OnMail
    <2> QED
      BY <1>2, <1>6, <2>1 DEF Fine, Composing
  <1>8. UNCHANGED <<lead, held, suppression, mail, providerVars, faults, ghostVars>>
    BY <1>5 DEF rowVars
  <1>9. stored' \in [Inbound -> Nat]
    BY <1>1, <1>5 DEF rowVars, RowType
  <1> QED
    BY <1>3, <1>4, <1>7, <1>8, <1>9, GoOnSound

-----------------------------------------------------------------------------
(* Handlers that send.                                                      *)

LEMMA ComposersFinite == IsFiniteSet(Composers) /\ Cardinality(Composers) \in Nat
  <1>1. Composers \subseteq Handler /\ IsFiniteSet(Handler)
    BY ChannelAssumption DEF Composers, Handler
  <1> QED
    BY <1>1, FS_Subset, FS_CardinalityType

LEMMA UnusedFinite == IsFiniteSet(Unused) /\ Cardinality(Unused) \in Nat
  <1>1. Unused \subseteq Mail /\ IsFiniteSet(Mail)
    BY ChannelAssumption DEF Unused
  <1> QED
    BY <1>1, FS_Subset, FS_CardinalityType

\* Who may call the provider finds an id.
LEMMA RoomForMail ==
  ASSUME RoomInv, NEW h \in Handler, pc[h] = "calling"
  PROVE  NewMail \in Mail /\ mail[NewMail].to = None
  <1>1. h \in Composers
    BY DEF Composers, Composing
  <1>2. Cardinality(Composers) # 0
    BY <1>1, ComposersFinite, FS_EmptySet
  <1>3. Unused # {}
    <2>1. Cardinality(Unused) # 0
      BY <1>2, ComposersFinite, UnusedFinite DEF RoomInv
    <2> QED
      BY <2>1, FS_EmptySet
  <1>4. \E m \in Mail : m \in Unused
    BY <1>3 DEF Unused
  <1>5. NewMail \in Unused
    BY <1>4 DEF NewMail
  <1> QED
    BY <1>5 DEF Unused

\* The mail the provider takes is new, goes to the handler's address and is
\* not barred; a reply answers the handler's inbound email.
LEMMA NewMailTaken ==
  ASSUME TypeOK, HandlerInv, RoomInv, NEW h \in Handler, pc[h] = "calling",
         ProviderTakes(h, NewMail)
  PROVE  /\ NewMail \in Mail /\ mail[NewMail].to = None
         /\ mail'[NewMail].to \in Address
         /\ ~mail'[NewMail].barred
         /\ h \in Server => \E i \in Inbound : /\ job[h].notice = Received(i)
                                               /\ mail'[NewMail].answers = i
         /\ h \notin Server => mail'[NewMail].answers = None
         /\ \A m \in Mail \ {NewMail} : mail'[m] = mail[m]
         /\ mail' \in [Mail -> MailRow]
         /\ UnusedType /\ UNCHANGED emitted => UnusedType'
  <1>1. RowType /\ HandlerType /\ UnusedType
    BY TypeParts
  <1>2. NewMail \in Mail /\ mail[NewMail].to = None
    BY RoomForMail
  <1>3. PICK m : m = NewMail
    OBVIOUS
  <1> DEFINE a == IF h \in Server THEN job[h].notice.of ELSE None
             new == [to |-> job[h].to, shown |-> "none", barred |-> job[h].barred,
                     answers |-> a]
  <1>4. mail' = [mail EXCEPT ![m] = new]
    BY <1>3 DEF ProviderTakes
  <1>5. Fine(h) /\ OnMail(h)
    BY DEF HandlerInv, Fine, Composing
  <1>6. job[h] \in Job
    BY <1>1 DEF HandlerType
  <1>7. /\ h \in Server => \E i \in Inbound : job[h].notice = Received(i) /\ a = i
        /\ h \notin Server => a = None
    BY <1>5 DEF OnMail, Received
  <1>8. a \in Inbound \cup {None}
    BY <1>7
  <1>9. ~job[h].barred /\ job[h].barred \in BOOLEAN
    BY <1>5, <1>6 DEF Fine, Job
  <1>10. job[h].to \in Address
    BY <1>5 DEF OnMail
  <1> HIDE DEF a
  <1>11. new \in MailRow
    BY <1>8, <1>9, <1>10 DEF MailRow
  <1>12. mail'[m] = new /\ mail' \in [Mail -> MailRow]
         /\ \A x \in Mail \ {m} : mail'[x] = mail[x]
    <2> HIDE DEF new
    <2> QED
      BY <1>1, <1>2, <1>3, <1>4, <1>11 DEF RowType
  <1>13. UNCHANGED emitted => UnusedType'
    BY <1>1, <1>10, <1>12, ChannelAssumption DEF UnusedType
  <1>14. ~mail'[m].barred
    BY <1>9, <1>12
  <1> QED
    BY <1>2, <1>3, <1>7, <1>10, <1>12, <1>13, <1>14

LEMMA CallProviderSound ==
  ASSUME TypeOK, HandlerInv, RoomInv, NEW h \in Handler, CallProvider(h)
  PROVE  Sound(h)
  <1>1. RowType /\ HandlerType /\ UnusedType
    BY TypeParts
  <1>2. PICK m : m = NewMail
    OBVIOUS
  <1> DEFINE j == [job[h] EXCEPT !.mail = m]
  <1>3. /\ pc[h] = "calling" /\ ProviderTakes(h, NewMail)
        /\ job' = [job EXCEPT ![h] = j] /\ Go(h, "sent")
        /\ UNCHANGED <<rowVars, providerVars, faults, ghostVars>>
    BY <1>2 DEF CallProvider
  <1>4. /\ m \in Mail /\ mail[m].to = None /\ mail'[m].to \in Address
        /\ \A x \in Mail \ {m} : mail'[x] = mail[x]
        /\ mail' \in [Mail -> MailRow] /\ UnusedType'
    BY <1>1, <1>2, <1>3, NewMailTaken DEF providerVars
  <1>5. job[h] \in Job
    BY <1>1, <1>3 DEF HandlerType
  <1>6. /\ j \in Job /\ j.notice = job[h].notice /\ j.to = job[h].to
        /\ j.lead = job[h].lead /\ j.mail = m
    BY <1>4, <1>5 DEF Job
  <1> HIDE DEF j
  <1>7. Sets(h, "sent", j)
    BY <1>3, <1>6, JobNotNone DEF Go, Sets, Step
  <1>8. pc'[h] = "sent" /\ job'[h] = j
    BY <1>1, <1>7, SetsHandler
  <1>9. Fine(h)'
    <2>1. Fine(h) /\ OnMail(h)
      BY <1>3 DEF HandlerInv, Fine, Composing
    <2>2. OnMail(h)'
      BY <2>1, <1>6, <1>8 DEF OnMail
    <2>3. job'[h].lead \in Lead
      BY <2>1, <1>3, <1>6, <1>8 DEF Fine
    <2>4. job'[h].mail \in Mail /\ mail'[job'[h].mail].to # None
      BY <1>4, <1>6, <1>8, ChannelAssumption
    <2> QED
      BY <2>2, <2>3, <2>4, <1>8 DEF Fine
  <1>10. Grows
    BY <1>3, <1>4 DEF Grows, rowVars, providerVars
  <1>11. RowType'
    BY <1>1, <1>3, <1>4 DEF RowType, rowVars, providerVars, ghostVars
  <1>12. "sent" \in Step
    BY DEF Step
  <1> QED
    BY <1>4, <1>6, <1>7, <1>9, <1>10, <1>11, <1>12 DEF Sound

LEMMA CallFailsSound ==
  ASSUME TypeOK, HandlerInv, RoomInv, NEW h \in Handler, CallFails(h)
  PROVE  Sound(h)
  <1>1. RowType /\ HandlerType /\ UnusedType
    BY TypeParts
  <1>2. /\ pc[h] = "calling" /\ Leave(h) /\ Answer(h) /\ Fault
        /\ UNCHANGED <<rowVars, arrived, emitted, ghostVars>>
    BY DEF CallFails, Dismiss
  <1>3. outstanding' \in SUBSET Notice /\ faults' \in 0 .. MaxFaults
    BY <1>1, <1>2, AnswerType, FaultType
  <1>4. CASE UNCHANGED mail
    <2>1. UNCHANGED held /\ held' \in [Lead -> BOOLEAN]
      BY <1>1, <1>2 DEF RowType, rowVars
    <2> QED
      BY <1>2, <1>4, <2>1, QuietEnd DEF rowVars
  <1>5. CASE ProviderTakes(h, NewMail)
    <2>1. PICK m : m = NewMail
      OBVIOUS
    <2>2. /\ m \in Mail /\ mail[m].to = None
          /\ \A x \in Mail \ {m} : mail'[x] = mail[x]
          /\ mail' \in [Mail -> MailRow] /\ UnusedType'
      BY <1>1, <1>2, <1>5, <2>1, NewMailTaken
    <2>3. Grows
      BY <1>2, <2>2 DEF Grows, rowVars
    <2>4. RowType'
      BY <1>1, <1>2, <1>3, <2>2 DEF RowType, rowVars, ghostVars
    <2> QED
      BY <1>2, <2>2, <2>3, <2>4, EndSound
  <1> QED
    BY <1>4, <1>5 DEF CallFails

-----------------------------------------------------------------------------
(* Handlers that write what they know of a mail, an address or a lead.      *)

LEMMA RecordReplySound ==
  ASSUME TypeOK, HandlerInv, NEW s \in Handler, RecordReply(s)
  PROVE  Sound(s)
  <1>1. RowType /\ HandlerType /\ UnusedType
    BY TypeParts
  <1>2. PICK m : m = job[s].mail
    OBVIOUS
  <1>3. /\ pc[s] = "sent" /\ mail' = [mail EXCEPT ![m].shown = "sent"]
        /\ Leave(s) /\ Answer(s)
        /\ UNCHANGED <<rowVars, arrived, emitted, faults, ghostVars>>
    BY <1>2 DEF RecordReply, Dismiss
  <1>4. m \in Mail /\ mail[m].to # None
    BY <1>2, <1>3 DEF HandlerInv, Fine
  <1>5. mail' \in [Mail -> MailRow] /\ \A x \in Mail : mail'[x].to = mail[x].to
    BY <1>1, <1>3, <1>4 DEF RowType, MailRow
  <1>6. UnusedType'
    BY <1>1, <1>3, <1>4 DEF RowType, UnusedType
  <1>7. outstanding' \in SUBSET Notice
    BY <1>1, <1>3, AnswerType
  <1>8. RowType'
    BY <1>1, <1>3, <1>5, <1>7 DEF RowType, rowVars, ghostVars
  <1>9. Grows
    BY <1>3, <1>5 DEF Grows, rowVars
  <1> QED
    BY <1>3, <1>6, <1>8, <1>9, EndSound

LEMMA CrossingType ==
  ASSUME RowType, NEW h, NoteCrossing(h) \/ UNCHANGED crossed
  PROVE  crossed' \in [Lead -> BOOLEAN]
  <1>1. \A l \in Lead : (crossed[l] \/ Outdated(h, l)) \in BOOLEAN
    BY DEF RowType, Outdated
  <1> QED
    BY <1>1 DEF RowType, NoteCrossing

LEMMA RecordMailSound ==
  ASSUME TypeOK, HandlerInv, NEW t \in Handler, RecordMail(t)
  PROVE  Sound(t)
  <1>1. RowType /\ HandlerType /\ UnusedType
    BY TypeParts
  <1>2. PICK m, l : m = job[t].mail /\ l = job[t].lead
    OBVIOUS
  <1>3. /\ pc[t] = "sent" /\ mail' = [mail EXCEPT ![m].shown = "sent"]
        /\ Leave(t) /\ UNCHANGED <<held, suppression, stored, providerVars, faults, overlapped>>
        /\ \/ lead' = [lead EXCEPT ![l].status = "valid"]
           \/ UNCHANGED lead
        /\ NoteCrossing(t) \/ UNCHANGED crossed
    BY <1>2 DEF RecordMail
  <1>4. m \in Mail /\ mail[m].to # None /\ l \in Lead
    BY <1>2, <1>3 DEF HandlerInv, Fine
  <1>5. mail' \in [Mail -> MailRow] /\ \A x \in Mail : mail'[x].to = mail[x].to
    BY <1>1, <1>3, <1>4 DEF RowType, MailRow
  <1>6. UnusedType'
    BY <1>1, <1>3, <1>4 DEF RowType, UnusedType, providerVars
  <1>7. lead' \in [Lead -> LeadRow]
    BY <1>1, <1>3, <1>4 DEF RowType, LeadRow
  <1>8. crossed' \in [Lead -> BOOLEAN]
    BY <1>1, <1>3, CrossingType
  <1>9. RowType'
    BY <1>1, <1>3, <1>5, <1>7, <1>8 DEF RowType, providerVars
  <1>10. Grows
    BY <1>3, <1>5 DEF Grows, providerVars
  <1> QED
    BY <1>3, <1>6, <1>9, <1>10, EndSound

\* What a handler leaves of the leads it marks; an outdated read is noted.
LEMMA MarkedLeads ==
  ASSUME RowType, HandlerType, NEW h \in Handler, pc[h] # "idle",
         NEW status \in Blocked, MarkLeads(h, status)
  PROVE  /\ lead' \in [Lead -> LeadRow]
         /\ \A l \in Lead :
              /\ lead'[l].address = lead[l].address
              /\ lead[l] = job[h].leads[l] =>
                   IF lead[l].address = job[h].to THEN lead'[l].status \in Blocked
                   ELSE lead'[l] = lead[l]
  <1>1. job[h].leads \in [Lead -> LeadRow]
    BY DEF HandlerType, Job
  <1>2. status \in {"unset", "unknown", "valid"} \cup Blocked
    OBVIOUS
  <1>3. ASSUME NEW l \in Lead
        PROVE  /\ lead'[l] \in LeadRow /\ lead'[l].address = lead[l].address
               /\ lead[l] = job[h].leads[l] =>
                    IF lead[l].address = job[h].to THEN lead'[l].status \in Blocked
                    ELSE lead'[l] = lead[l]
    <2>1. lead[l] \in LeadRow
      BY DEF RowType
    <2>2. CASE l \in Having(h)
      <3>1. lead'[l] = [lead[l] EXCEPT !.status =
                          Flush(lead[l].status, job[h].leads[l].status, status)]
        BY <2>2 DEF MarkLeads
      <3>2. Flush(lead[l].status, job[h].leads[l].status, status) \in {lead[l].status, status}
        BY DEF Flush
      <3>3. lead[l] = job[h].leads[l] =>
              Flush(lead[l].status, job[h].leads[l].status, status) = status
        BY DEF Flush
      <3>4. lead[l] = job[h].leads[l] => lead[l].address = job[h].to
        BY <2>2 DEF Having
      <3> QED
        BY <1>2, <2>1, <3>1, <3>2, <3>3, <3>4 DEF LeadRow
    <2>3. CASE l \notin Having(h)
      <3>1. lead'[l] = lead[l]
        BY <2>3 DEF MarkLeads
      <3>2. lead[l] = job[h].leads[l] => lead[l].address # job[h].to
        BY <2>3 DEF Having
      <3> QED
        BY <2>1, <3>1, <3>2
    <2> QED
      BY <2>2, <2>3
  <1>4. lead' \in [Lead -> LeadRow]
    BY <1>3 DEF MarkLeads
  <1> QED
    BY <1>3, <1>4

\* What it leaves of an address; new is the reason it would write.
Lists(a, loaded, new) ==
    suppression' = [suppression EXCEPT ![a] = Flush(@, loaded, new)]

LEMMA ListedAddress ==
  ASSUME RowType, NEW a \in Address, NEW loaded \in Reason, NEW new \in Reason \ {"none"},
         Lists(a, loaded, new)
  PROVE  /\ suppression' \in [Address -> Reason]
         /\ suppression'[a] = IF new = loaded THEN suppression[a] ELSE new
         /\ \A b \in Address : suppression[b] # "none" => suppression'[b] # "none"
         /\ \A b \in Address \ {a} : suppression'[b] = suppression[b]
  <1>1. Flush(suppression[a], loaded, new) \in Reason
    BY DEF RowType, Flush
  <1>2. suppression[a] # "none" => Flush(suppression[a], loaded, new) # "none"
    BY DEF Flush
  <1> QED
    BY <1>1, <1>2 DEF Lists, RowType, Flush

\* An address stays on the list, and what the customer said stays there.
Stuck ==
    \A a \in Address :
        /\ suppression[a] # "none" => suppression'[a] # "none"
        /\ suppression[a] \in {"complaint", "unsubscribed"} =>
             suppression'[a] \in {"complaint", "unsubscribed"}

\* A list and leads that are marked together agree, where nothing was read too
\* early.
LEMMA MarkingAgrees ==
  ASSUME RowType, HandlerType, NEW h \in Handler, pc[h] # "idle",
         NEW status \in Blocked, MarkLeads(h, status), NoteCrossing(h), StatusAgrees,
         NEW a \in Address, NEW loaded \in Reason, NEW new \in Reason \ {"none"},
         a = job[h].to, loaded = job[h].reason,
         Lists(a, loaded, new)
  PROVE  StatusAgrees'
  <1>1. /\ suppression'[a] = IF new = loaded THEN suppression[a] ELSE new
        /\ \A b \in Address \ {a} : suppression'[b] = suppression[b]
    BY ListedAddress
  <1>2. SUFFICES ASSUME NEW l \in Lead, ~crossed'[l]
                 PROVE  lead'[l].status \in Blocked <=> Suppressed(lead[l].address)'
    BY DEF StatusAgrees
  <1>3. ~crossed[l] /\ ~Outdated(h, l)
    BY <1>2 DEF NoteCrossing
  <1>4. lead[l] = job[h].leads[l] /\ suppression[a] = loaded
    BY <1>3, ChannelAssumption DEF Outdated
  <1>5. /\ lead'[l].address = lead[l].address
        /\ lead[l].address = a => lead'[l].status \in Blocked
        /\ lead[l].address # a => lead'[l] = lead[l]
    <2>1. \A k \in Lead :
            /\ lead'[k].address = lead[k].address
            /\ lead[k] = job[h].leads[k] =>
                 IF lead[k].address = job[h].to THEN lead'[k].status \in Blocked
                 ELSE lead'[k] = lead[k]
      BY MarkedLeads
    <2> QED
      BY <1>4, <2>1
  <1>6. lead[l].status \in Blocked <=> Suppressed(lead[l].address)
    BY <1>3 DEF StatusAgrees
  <1>7. lead[l].address \in Address \cup {None}
    BY DEF RowType, LeadRow
  <1>8. suppression'[a] # "none"
    BY <1>1, <1>4
  <1>9. CASE lead[l].address = a
    BY <1>5, <1>8, <1>9, ChannelAssumption DEF Suppressed
  <1>10. CASE lead[l].address # a
    <2>1. Suppressed(lead[l].address)' <=> Suppressed(lead[l].address)
      BY <1>1, <1>5, <1>7, <1>10 DEF Suppressed
    <2> QED
      BY <1>5, <1>6, <1>10, <2>1
  <1> QED
    BY <1>9, <1>10

\* The event that is answered is dealt with.
LEMMA RecordedEvent ==
  ASSUME TypeOK, HandlerInv, NEW s \in Handler, RecordEvent(s)
  PROVE  /\ Sound(s) /\ Stuck
         /\ \E m \in Mail, e \in Event :
              /\ outstanding' = outstanding \ {DeliveryOf(m, e)}
              /\ e \in {"bounced", "complained"} => Suppressed(mail[m].to)'
         /\ StatusAgrees => StatusAgrees'
  <1>1. RowType /\ HandlerType /\ UnusedType
    BY TypeParts
  <1>2. pc[s] = "event" /\ Fine(s) /\ OnEvent(s)
    BY DEF RecordEvent, HandlerInv, Fine
  <1>3. PICK m \in Mail, a \in Address, e \in Event :
          /\ m = job[s].mail /\ a = job[s].to /\ e = job[s].notice.event
          /\ a = mail[m].to /\ job[s].notice = DeliveryOf(m, e)
    <2>1. job[s].notice.event \in Event
      BY <1>1, <1>2 DEF OnEvent, RowType
    <2> QED
      BY <1>2, <2>1 DEF OnEvent
  <1>4. job[s] \in Job
    BY <1>1, <1>2 DEF HandlerType
  <1>5. PICK loaded \in Reason, seen \in {"none", "sent"} \cup Event :
          loaded = job[s].reason /\ seen = job[s].shown
    BY <1>4 DEF Job
  <1>6. /\ mail' = [mail EXCEPT ![m].shown =
               IF seen = "none" THEN @ ELSE Flush(@, seen, StatusAfter(seen, e))]
        /\ Leave(s) /\ Answer(s)
        /\ UNCHANGED <<held, stored, arrived, emitted, faults, overlapped>>
    BY <1>3, <1>5 DEF RecordEvent, Dismiss
  <1>7. PICK new : new = IF seen = "none" THEN mail[m].shown
                         ELSE Flush(mail[m].shown, seen, StatusAfter(seen, e))
    OBVIOUS
  <1>8. /\ mail[m] \in MailRow /\ mail[m].to # None
        /\ new \in {"none", "sent"} \cup Event
    <2>1. mail[m] \in MailRow /\ mail[m].to # None
      BY <1>1, <1>3, ChannelAssumption DEF RowType
    <2>2. mail[m].shown \in {"none", "sent"} \cup Event
      BY <2>1 DEF MailRow
    <2> QED
      BY <1>7, <2>1, <2>2 DEF Flush, StatusAfter
  <1>9. mail' = [mail EXCEPT ![m].shown = new]
    BY <1>6, <1>7
  <1>10. mail' \in [Mail -> MailRow] /\ \A x \in Mail : mail'[x].to = mail[x].to
    BY <1>1, <1>8, <1>9 DEF RowType, MailRow
  <1>11. UnusedType'
    <2>1. \A x \in Mail \ {m} : mail'[x] = mail[x]
      BY <1>1, <1>9 DEF RowType
    <2> QED
      BY <1>1, <1>3, <1>6, <1>8, <1>10, <2>1 DEF UnusedType
  <1>12. outstanding' \in SUBSET Notice
    BY <1>1, <1>6, AnswerType
  <1>13. outstanding' = outstanding \ {DeliveryOf(m, e)}
    BY <1>3, <1>6 DEF Answer
  <1>14. CASE ~Suppresses(s)
    <2>1. UNCHANGED <<lead, suppression, crossed>>
      BY <1>14 DEF RecordEvent
    <2>2. RowType'
      BY <1>1, <1>6, <1>10, <1>12, <2>1 DEF RowType
    <2>3. Grows
      BY <1>6, <1>10, <2>1 DEF Grows
    <2>4. Stuck /\ (StatusAgrees => StatusAgrees')
      BY <2>1 DEF Stuck, StatusAgrees, Suppressed
    <2>5. e \notin {"bounced", "complained"}
      BY <1>3, <1>14 DEF Suppresses
    <2>6. Sound(s)
      BY <1>6, <1>11, <2>2, <2>3, EndSound
    <2> QED
      BY <1>13, <2>4, <2>5, <2>6
  <1>15. CASE Suppresses(s)
    <2>1. PICK r : r = SuppressionAfter(loaded, e)
      OBVIOUS
    <2>2. /\ Lists(a, loaded, r)
          /\ MarkLeads(s, e) /\ NoteCrossing(s)
          /\ loaded = "none" => suppression[a] = "none"
      BY <1>3, <1>5, <1>15, <2>1 DEF RecordEvent, Conflict, Lists
    <2>3. e \in {"bounced", "complained"} /\ e \in Blocked
      BY <1>3, <1>15 DEF Suppresses, Blocked
    <2>4. /\ r \in Reason \ {"none"}
          /\ e = "complained" => r = "complaint"
          /\ e = "bounced" /\ loaded # "none" => r = loaded
      BY <2>1, <2>3 DEF SuppressionAfter, Reason
    <2>5. /\ suppression' \in [Address -> Reason]
          /\ suppression'[a] = IF r = loaded THEN suppression[a] ELSE r
          /\ \A b \in Address : suppression[b] # "none" => suppression'[b] # "none"
          /\ \A b \in Address \ {a} : suppression'[b] = suppression[b]
      BY <1>1, <2>2, <2>4, ListedAddress
    <2>6. lead' \in [Lead -> LeadRow]
      BY <1>1, <1>2, <2>2, <2>3, MarkedLeads
    <2>7. crossed' \in [Lead -> BOOLEAN]
      BY <1>1, <2>2, CrossingType
    <2>8. RowType'
      BY <1>1, <1>6, <1>10, <1>12, <2>5, <2>6, <2>7 DEF RowType
    <2>9. Grows
      BY <1>6, <1>10, <2>5 DEF Grows
    <2>10. Stuck
      BY <2>2, <2>3, <2>4, <2>5 DEF Stuck
    <2>11. suppression'[a] # "none"
      <3>1. loaded # "none" => suppression[a] # "none"
        BY <1>2, <1>3, <1>5 DEF OnEvent
      <3> QED
        BY <2>4, <2>5, <3>1
    <2>12. Suppressed(mail[m].to)'
      BY <1>3, <1>10, <2>11, ChannelAssumption DEF Suppressed
    <2>13. Sound(s)
      BY <1>6, <1>11, <2>8, <2>9, EndSound
    <2>14. StatusAgrees => StatusAgrees'
      BY <1>1, <1>2, <1>3, <1>5, <2>2, <2>3, <2>4, MarkingAgrees
    <2> QED
      BY <1>13, <2>10, <2>12, <2>13, <2>14
  <1> QED
    BY <1>14, <1>15

LEMMA RecordMailAgrees ==
  ASSUME TypeOK, HandlerInv, StatusAgrees, NEW t \in Handler, RecordMail(t)
  PROVE  StatusAgrees'
  <1>1. RowType /\ HandlerType
    BY TypeParts
  <1>2. UNCHANGED suppression
    BY DEF RecordMail
  <1>3. CASE UNCHANGED <<lead, crossed>>
    BY <1>2, <1>3 DEF StatusAgrees, Suppressed
  <1>4. CASE ~UNCHANGED <<lead, crossed>>
    <2>1. PICK l : l = job[t].lead
      OBVIOUS
    <2>2. /\ pc[t] = "sent" /\ job[t].leads[l].status = "unset"
          /\ lead' = [lead EXCEPT ![l].status = "valid"] /\ NoteCrossing(t)
      BY <1>4, <2>1 DEF RecordMail
    <2>3. l \in Lead
      BY <2>1, <2>2 DEF HandlerInv, Fine
    <2>4. SUFFICES ASSUME NEW k \in Lead, ~crossed'[k]
                   PROVE  lead'[k].status \in Blocked <=> Suppressed(lead[k].address)'
      BY DEF StatusAgrees
    <2>5. ~crossed[k] /\ lead[k] = job[t].leads[k]
      BY <2>2, <2>4 DEF NoteCrossing, Outdated
    <2>6. lead[k].status \in Blocked <=> Suppressed(lead[k].address)
      BY <2>5 DEF StatusAgrees
    <2>7. CASE k # l
      <3>1. lead'[k] = lead[k]
        BY <1>1, <2>2, <2>7 DEF RowType
      <3> QED
        BY <1>2, <2>6, <3>1 DEF Suppressed
    <2>8. CASE k = l
      <3>1. lead[k] \in LeadRow
        BY <1>1 DEF RowType
      <3>2. lead'[k] = [lead[k] EXCEPT !.status = "valid"]
        BY <1>1, <2>2, <2>3, <2>8 DEF RowType
      <3>3. lead'[k].status = "valid" /\ lead'[k].address = lead[k].address
        BY <3>1, <3>2 DEF LeadRow
      <3>4. lead[k].status = "unset"
        BY <2>2, <2>5, <2>8
      <3> QED
        BY <1>2, <2>6, <3>3, <3>4 DEF Suppressed, Blocked
    <2> QED
      BY <2>7, <2>8
  <1> QED
    BY <1>3, <1>4

\* The status that goes with an address says whether it is on the list, if the
\* list was read and the old status said so.
LEMMA ChangedAddress ==
  ASSUME TypeOK, HandlerInv, NEW t \in Handler, ChangeAddress(t)
  PROVE  Sound(t) /\ (StatusAgrees => StatusAgrees')
  <1>1. RowType /\ HandlerType /\ UnusedType
    BY TypeParts
  <1>2. PICK l : l = job[t].lead
    OBVIOUS
  <1>3. PICK a, old, reason : /\ a = job[t].to /\ old = job[t].leads[l]
                              /\ reason = job[t].reason
    OBVIOUS
  <1>4. PICK status : status = StatusOf(t)
    OBVIOUS
  <1> DEFINE row == [address |-> Flush(lead[l].address, old.address, a),
                     status |-> Flush(lead[l].status, old.status, status)]
  <1>5. /\ pc[t] = "changing" /\ lead' = [lead EXCEPT ![l] = row] /\ NoteCrossing(t)
        /\ Leave(t)
        /\ UNCHANGED <<held, suppression, stored, mail, providerVars, faults, overlapped>>
    BY <1>2, <1>3, <1>4 DEF ChangeAddress
  <1>6. l \in Lead
    BY <1>2, <1>5 DEF HandlerInv, Fine
  <1>7. a \in Address \cup {None} /\ old \in LeadRow /\ reason \in Reason
    <2>1. job[t] \in Job
      BY <1>1, <1>5 DEF HandlerType
    <2> QED
      BY <1>3, <1>6, <2>1 DEF Job
  <1>8. status = IF a = None THEN "unset"
                 ELSE IF reason # "none" THEN StatusFor(reason)
                 ELSE IF old.address # a \/ old.status = "unset" THEN "unknown"
                 ELSE old.status
    BY <1>2, <1>3, <1>4 DEF StatusOf
  <1>9. reason # "none" => StatusFor(reason) \in Blocked
    BY <1>7 DEF StatusFor, Reason, Blocked
  <1>10. old.status \in {"unset", "unknown", "valid"} \cup Blocked
         /\ old.address \in Address \cup {None}
    BY <1>7 DEF LeadRow
  <1>11. status \in {"unset", "unknown", "valid"} \cup Blocked
    BY <1>8, <1>9, <1>10
  <1>12. lead[l] \in LeadRow
    BY <1>1, <1>6 DEF RowType
  <1>13. row \in LeadRow
    BY <1>7, <1>11, <1>12 DEF Flush, LeadRow
  <1>14. /\ lead' \in [Lead -> LeadRow] /\ lead'[l] = row
         /\ \A k \in Lead \ {l} : lead'[k] = lead[k]
    <2> HIDE DEF row
    <2> QED
      BY <1>1, <1>5, <1>6, <1>13 DEF RowType
  <1>15. crossed' \in [Lead -> BOOLEAN]
    BY <1>1, <1>5, CrossingType
  <1>16. RowType' /\ UnusedType'
    BY <1>1, <1>5, <1>14, <1>15 DEF RowType, UnusedType, providerVars
  <1>17. Grows
    BY <1>5 DEF Grows, providerVars
  <1>18. Sound(t)
    BY <1>5, <1>16, <1>17, EndSound
  <1>19. ASSUME StatusAgrees, NEW k \in Lead, ~crossed'[k]
         PROVE  lead'[k].status \in Blocked <=> Suppressed(lead[k].address)'
    <2>1. ~crossed[k] /\ ~Outdated(t, k)
      BY <1>5, <1>19 DEF NoteCrossing
    <2>2. lead[k].status \in Blocked <=> Suppressed(lead[k].address)
      BY <1>19, <2>1 DEF StatusAgrees
    <2>3. CASE k # l
      BY <1>5, <1>14, <2>2, <2>3 DEF Suppressed
    <2>4. CASE k = l
      <3>1. lead[l] = old /\ (a # None => suppression[a] = reason)
        BY <1>2, <1>3, <2>1, <2>4 DEF Outdated
      <3>2. lead'[l].address = a /\ lead'[l].status = status
        <4>1. row.address = a /\ row.status = status
          BY <3>1 DEF Flush
        <4> QED
          BY <1>14, <4>1
      <3>3. Suppressed(lead[k].address)' <=> a # None /\ suppression[a] # "none"
        BY <1>5, <2>4, <3>2 DEF Suppressed
      <3>4. CASE a = None
        BY <1>8, <2>4, <3>2, <3>3, <3>4 DEF Blocked
      <3>5. CASE a # None /\ reason # "none"
        BY <1>8, <1>9, <2>4, <3>1, <3>2, <3>3, <3>5
      <3>6. CASE a # None /\ reason = "none"
        <4>1. ~Suppressed(lead[k].address)'
          BY <3>1, <3>3, <3>6
        <4>2. old.address = a => old.status \notin Blocked
          BY <2>2, <2>4, <3>1, <3>6 DEF Suppressed
        <4>3. status \notin Blocked
          BY <1>8, <3>6, <4>2 DEF Blocked
        <4> QED
          BY <2>4, <3>2, <4>1, <4>3
      <3> QED
        BY <3>4, <3>5, <3>6
    <2> QED
      BY <2>3, <2>4
  <1> QED
    BY <1>18, <1>19 DEF StatusAgrees

LEMMA Unsubscribed ==
  ASSUME TypeOK, HandlerInv, NEW t \in Handler, Unsubscribe(t)
  PROVE  Sound(t) /\ Stuck /\ (StatusAgrees => StatusAgrees')
  <1>1. RowType /\ HandlerType /\ UnusedType
    BY TypeParts
  <1>2. pc[t] = "unsubscribing" /\ Fine(t) /\ job[t] \in Job
    BY <1>1 DEF Unsubscribe, HandlerInv, HandlerType
  <1>3. PICK a \in Address, loaded \in Reason : a = job[t].to /\ loaded = job[t].reason
    BY <1>2 DEF Fine, Job
  <1>4. /\ Lists(a, loaded, "unsubscribed") /\ MarkLeads(t, "unsubscribed")
        /\ NoteCrossing(t) /\ Leave(t)
        /\ UNCHANGED <<held, stored, mail, providerVars, faults, overlapped>>
    BY <1>3 DEF Unsubscribe, Lists
  <1>5. "unsubscribed" \in Reason \ {"none"} /\ "unsubscribed" \in Blocked
    BY DEF Reason, Blocked
  <1>6. /\ suppression' \in [Address -> Reason]
        /\ suppression'[a] = IF "unsubscribed" = loaded THEN suppression[a]
                             ELSE "unsubscribed"
        /\ \A b \in Address : suppression[b] # "none" => suppression'[b] # "none"
        /\ \A b \in Address \ {a} : suppression'[b] = suppression[b]
    BY <1>1, <1>4, <1>5, ListedAddress
  <1>7. lead' \in [Lead -> LeadRow]
    BY <1>1, <1>2, <1>4, <1>5, MarkedLeads
  <1>8. crossed' \in [Lead -> BOOLEAN]
    BY <1>1, <1>4, CrossingType
  <1>9. RowType' /\ UnusedType'
    BY <1>1, <1>4, <1>6, <1>7, <1>8 DEF RowType, UnusedType, providerVars
  <1>10. Grows
    BY <1>4, <1>6 DEF Grows, providerVars
  <1>11. Sound(t)
    BY <1>4, <1>9, <1>10, EndSound
  <1>12. Stuck
    BY <1>6 DEF Stuck
  <1>13. StatusAgrees => StatusAgrees'
    BY <1>1, <1>2, <1>3, <1>4, <1>5, MarkingAgrees
  <1> QED
    BY <1>11, <1>12, <1>13

-----------------------------------------------------------------------------
(* The counts: who has an inbound email, who may answer, which ids are left. *)

ReplyShrinks ==
    /\ UNCHANGED stored
    /\ \A i \in Inbound : /\ Answers(i)' \subseteq Answers(i)
                          /\ Answering(i)' \subseteq Answering(i)

SingleShrinks ==
    /\ UNCHANGED <<stored, overlapped>>
    /\ \A i \in Inbound : TakenBy(Received(i))' \subseteq TakenBy(Received(i))
    /\ \A s \in Server : pc'[s] = "matched" => pc[s] = "matched"

RoomShrinks == Composers' \subseteq Composers /\ Unused' = Unused

LEMMA AnswersFinite ==
  ASSUME NEW i \in Inbound
  PROVE  /\ IsFiniteSet(Answers(i)) /\ Cardinality(Answers(i)) \in Nat
         /\ IsFiniteSet(Answers(i)') /\ Cardinality(Answers(i)') \in Nat
         /\ IsFiniteSet(Answering(i)) /\ Cardinality(Answering(i)) \in Nat
         /\ IsFiniteSet(Answering(i)') /\ Cardinality(Answering(i)') \in Nat
  <1>1. /\ Answers(i) \subseteq Mail /\ Answers(i)' \subseteq Mail
        /\ Answering(i) \subseteq Server \cup Thread
        /\ Answering(i)' \subseteq Server \cup Thread
    BY DEF Answers, Answering, TakenBy
  <1>2. IsFiniteSet(Mail) /\ IsFiniteSet(Server \cup Thread)
    BY ChannelAssumption
  <1> QED
    BY <1>1, <1>2, FS_Subset, FS_CardinalityType

\* What a set has after at most one element more.
LEMMA OneMore ==
  ASSUME NEW S, IsFiniteSet(S), NEW x, NEW T, T \subseteq S \cup {x}
  PROVE  Cardinality(T) <= Cardinality(S) + 1
  <1>1. /\ IsFiniteSet(S \cup {x}) /\ Cardinality(S) \in Nat
        /\ Cardinality(S \cup {x}) = IF x \in S THEN Cardinality(S) ELSE Cardinality(S) + 1
    BY FS_AddElement, FS_CardinalityType
  <1>2. Cardinality(T) <= Cardinality(S \cup {x}) /\ Cardinality(T) \in Nat
    BY <1>1, FS_Subset, FS_CardinalityType
  <1> QED
    BY <1>1, <1>2

LEMMA ReplyKept ==
  ASSUME RowType, ReplyInv, ReplyShrinks
  PROVE  ReplyInv'
  <1>1. ASSUME NEW i \in Inbound
        PROVE  (Cardinality(Answers(i)) + Cardinality(Answering(i)) <= stored[i])'
    <2>1. Cardinality(Answers(i)) + Cardinality(Answering(i)) <= stored[i]
      BY DEF ReplyInv
    <2>2. Cardinality(Answers(i)') <= Cardinality(Answers(i))
      BY AnswersFinite, FS_Subset DEF ReplyShrinks
    <2>3. Cardinality(Answering(i)') <= Cardinality(Answering(i))
      BY AnswersFinite, FS_Subset DEF ReplyShrinks
    <2>4. stored[i] \in Nat /\ stored'[i] = stored[i]
      BY DEF RowType, ReplyShrinks
    <2> QED
      BY <2>1, <2>2, <2>3, <2>4, AnswersFinite
  <1> QED
    BY <1>1 DEF ReplyInv

LEMMA SingleKept ==
  ASSUME SingleInv, SingleShrinks
  PROVE  SingleInv'
  <1>1. ASSUME NEW i \in Inbound, ~overlapped'[i]
        PROVE  /\ stored'[i] <= 1
               /\ \A s, t \in TakenBy(Received(i))' : s = t
               /\ \A s \in TakenBy(Received(i))' : pc'[s] = "matched" => stored'[i] = 0
    <2>1. TakenBy(Received(i))' \subseteq TakenBy(Received(i))
      BY DEF SingleShrinks
    <2>2. \A s \in TakenBy(Received(i)) : s \in Server
      BY DEF TakenBy
    <2> QED
      BY <1>1, <2>1, <2>2 DEF SingleInv, SingleShrinks
  <1> QED
    BY <1>1 DEF SingleInv

LEMMA RoomKept ==
  ASSUME RoomInv, RoomShrinks
  PROVE  RoomInv'
  <1>1. /\ Cardinality(Composers') <= Cardinality(Composers)
        /\ Cardinality(Composers') \in Nat
    BY ComposersFinite, FS_Subset, FS_CardinalityType DEF RoomShrinks
  <1>2. Cardinality(Unused') = Cardinality(Unused)
    BY DEF RoomShrinks
  <1> QED
    BY <1>1, <1>2, ComposersFinite, UnusedFinite DEF RoomInv

\* Other handlers stay in the sets they are in.
LEMMA OthersStay ==
  ASSUME NEW h \in Handler, \A g \in Handler \ {h} : Same(g)
  PROVE  /\ Composers' \ {h} = Composers \ {h}
         /\ \A i \in Inbound :
              /\ TakenBy(Received(i))' \ {h} = TakenBy(Received(i)) \ {h}
              /\ Answering(i)' \ {h} = Answering(i) \ {h}
  <1>1. Composers' \ {h} = Composers \ {h}
    BY DEF Composers, Same
  <1>2. ASSUME NEW i \in Inbound
        PROVE  /\ TakenBy(Received(i))' \ {h} = TakenBy(Received(i)) \ {h}
               /\ Answering(i)' \ {h} = Answering(i) \ {h}
    <2>1. \A g \in Server : g \in Handler
      BY DEF Handler
    <2>2. TakenBy(Received(i))' \ {h} = TakenBy(Received(i)) \ {h}
      BY <2>1 DEF TakenBy, Received, Same
    <2>3. \A g \in Server \ {h} : g \in Answering(i)' <=> g \in Answering(i)
      BY <2>1, <2>2 DEF Answering, TakenBy, Same
    <2> QED
      BY <2>2, <2>3 DEF Answering, TakenBy
  <1> QED
    BY <1>1, <1>2

\* The mails keep what the properties look at.
MailKept ==
    \A m \in Mail : /\ mail'[m].to = mail[m].to
                    /\ mail'[m].answers = mail[m].answers
                    /\ mail'[m].barred = mail[m].barred

LEMMA MailKeptSame ==
  ASSUME MailKept
  PROVE  /\ Unused' = Unused
         /\ \A i \in Inbound : Answers(i)' = Answers(i)
         /\ NothingToBarred => NothingToBarred'
  BY DEF MailKept, Unused, Answers, NothingToBarred

\* A handler outside all three sets leaves them as they are or smaller.
LEMMA OutsiderShrinks ==
  ASSUME NEW h \in Handler, \A g \in Handler \ {h} : Same(g), MailKept,
         pc'[h] \notin Composing,
         \A i \in Inbound : h \notin TakenBy(Received(i))',
         UNCHANGED <<stored, overlapped>>
  PROVE  ReplyShrinks /\ SingleShrinks /\ RoomShrinks
  <1>1. h \notin Composers'
    BY DEF Composers
  <1>2. \A i \in Inbound : h \notin Answering(i)'
    BY DEF Answering
  <1>3. RoomShrinks
    BY <1>1, OthersStay, MailKeptSame DEF RoomShrinks
  <1>4. ReplyShrinks
    BY <1>2, OthersStay, MailKeptSame DEF ReplyShrinks
  <1>5. \A i \in Inbound : TakenBy(Received(i))' \subseteq TakenBy(Received(i))
    BY OthersStay
  <1>6. \A s \in Server : pc'[s] = "matched" => pc[s] = "matched"
    BY DEF Same, Composing, Handler
  <1> QED
    BY <1>3, <1>4, <1>5, <1>6 DEF SingleShrinks

-----------------------------------------------------------------------------
(* What a step leaves of the provider's notices and of those answered.       *)

ProviderCalm == UNCHANGED <<arrived, emitted>> /\ outstanding' \subseteq outstanding

LEMMA CalmKeeps ==
  ASSUME ProviderInv, ProviderCalm
  PROVE  ProviderInv'
  BY DEF ProviderInv, ProviderCalm, DeliveryOf, Received

\* Bounces and complaints still to be answered stay so.
EventsWait ==
    \A m \in Mail, e \in {"bounced", "complained"} :
        DeliveryOf(m, e) \in outstanding => DeliveryOf(m, e) \in outstanding'

LEMMA AnsweredStays ==
  ASSUME RowType, UnusedType, Grows, NEW m \in Mail, NEW e \in {"bounced", "complained"},
         e \in emitted[m], Suppressed(mail[m].to)
  PROVE  Suppressed(mail[m].to)'
  <1>1. mail[m].to # None /\ mail[m].to \in Address
    BY DEF UnusedType, RowType, MailRow
  <1>2. mail'[m].to = mail[m].to
    BY <1>1 DEF Grows
  <1> QED
    BY <1>1, <1>2 DEF Suppressed, Grows

LEMMA AnsweredKept ==
  ASSUME RowType, UnusedType, Grows, AnsweredSuppresses, UNCHANGED emitted, EventsWait
  PROVE  AnsweredSuppresses'
  <1>1. ASSUME NEW m \in Mail, NEW e \in {"bounced", "complained"},
               e \in emitted'[m], DeliveryOf(m, e) \notin outstanding'
        PROVE  Suppressed(mail[m].to)'
    <2>1. e \in emitted[m] /\ Suppressed(mail[m].to)
      BY <1>1 DEF AnsweredSuppresses, EventsWait
    <2> QED
      BY <2>1, AnsweredStays
  <1> QED
    BY <1>1 DEF AnsweredSuppresses, DeliveryOf

\* The notice of a handler on an inbound email is no event of a mail.
LEMMA MailAnswered ==
  ASSUME RowType, NEW h \in Handler, OnMail(h), Answer(h)
  PROVE  EventsWait
  <1>1. ASSUME NEW m \in Mail, NEW e \in {"bounced", "complained"},
               DeliveryOf(m, e) \in outstanding, job[h].notice = DeliveryOf(m, e)
        PROVE  FALSE
    <2>1. DeliveryOf(m, e) \in Notice /\ DeliveryOf(m, e) # None
      BY <1>1, NoJobAssumption DEF RowType
    <2>2. PICK i \in Inbound : job[h].notice = Received(i)
      BY <1>1, <2>1 DEF OnMail, Handler
    <2>3. DeliveryOf(m, e).event = e /\ Received(i).event = "received"
      BY DEF DeliveryOf, Received
    <2> QED
      BY <1>1, <2>2, <2>3
  <1> QED
    BY <1>1 DEF EventsWait, Answer

-----------------------------------------------------------------------------
(* Every step preserves the invariant, and what the customer said.          *)

Preserved == ChannelInv' /\ Stuck

LEMMA InvParts ==
  ASSUME ChannelInv
  PROVE  /\ TypeOK /\ HandlerInv /\ ProviderInv /\ RoomInv /\ SingleInv /\ ReplyInv
         /\ NothingToBarred /\ StatusAgrees /\ AnsweredSuppresses
         /\ RowType /\ HandlerType /\ UnusedType
  BY TypeParts DEF ChannelInv

LEMMA HandlerKeeps ==
  ASSUME ChannelInv, NEW h \in Handler, Sound(h), ProviderCalm, EventsWait,
         RoomInv', SingleInv', ReplyInv', NothingToBarred', StatusAgrees', Stuck
  PROVE  Preserved
  <1>1. TypeOK' /\ HandlerInv'
    BY InvParts, SoundStep
  <1>2. ProviderInv'
    BY InvParts, CalmKeeps
  <1>3. AnsweredSuppresses'
    BY InvParts, AnsweredKept DEF Sound, ProviderCalm
  <1> QED
    BY <1>1, <1>2, <1>3 DEF Preserved, ChannelInv

\* The list and the leads are left alone.
LEMMA RowsKept ==
  ASSUME ChannelInv, UNCHANGED <<lead, suppression, crossed>>
  PROVE  StatusAgrees' /\ Stuck
  <1>1. StatusAgrees
    BY InvParts
  <1> QED
    BY <1>1 DEF StatusAgrees, Stuck, Suppressed

LEMMA SoundOthers ==
  ASSUME TypeOK, NEW h \in Handler, Sound(h)
  PROVE  HandlerType' /\ \A g \in Handler \ {h} : Same(g)
  <1>1. PICK step \in Step, j \in Job \cup {None} : Sets(h, step, j)
    BY DEF Sound
  <1> QED
    BY <1>1, TypeParts, SetsHandler

LEMMA LeftIdle ==
  ASSUME HandlerType, NEW h \in Handler, Leave(h)
  PROVE  /\ pc'[h] = "idle" /\ job'[h] = None
         /\ pc'[h] \notin Composing
         /\ \A i \in Inbound : h \notin TakenBy(Received(i))'
  <1>1. pc'[h] = "idle" /\ job'[h] = None
    BY LeaveSets, SetsHandler
  <1> QED
    BY <1>1 DEF Composing, TakenBy

LEMMA EndKeeps ==
  ASSUME ChannelInv, NEW h \in Handler, Sound(h), Leave(h), MailKept,
         UNCHANGED <<stored, overlapped, arrived, emitted>>,
         outstanding' \subseteq outstanding, EventsWait, StatusAgrees', Stuck
  PROVE  Preserved
  <1>1. \A g \in Handler \ {h} : Same(g)
    BY InvParts, SoundOthers
  <1>2. pc'[h] \notin Composing /\ \A i \in Inbound : h \notin TakenBy(Received(i))'
    BY InvParts, LeftIdle
  <1>3. ReplyShrinks /\ SingleShrinks /\ RoomShrinks
    BY <1>1, <1>2, OutsiderShrinks
  <1>4. ReplyInv' /\ SingleInv' /\ RoomInv'
    BY <1>3, InvParts, ReplyKept, SingleKept, RoomKept
  <1>5. NothingToBarred'
    BY InvParts, MailKeptSame
  <1>6. ProviderCalm
    BY DEF ProviderCalm
  <1> QED
    BY <1>4, <1>5, <1>6, HandlerKeeps

LEMMA AnswerShrinks ==
  ASSUME NEW h, Answer(h) \/ UNCHANGED outstanding
  PROVE  outstanding' \subseteq outstanding
  BY DEF Answer

LEMMA NoAnswer ==
  ASSUME UNCHANGED outstanding
  PROVE  EventsWait
  BY DEF EventsWait, DeliveryOf

LEMMA SameMail ==
  ASSUME UNCHANGED mail
  PROVE  MailKept
  BY DEF MailKept

\* A handler on an inbound email that is done with it.
LEMMA MailEndKeeps ==
  ASSUME ChannelInv, NEW h \in Handler, Sound(h), pc[h] \in Composing \cup {"sent"},
         Leave(h), Answer(h), MailKept,
         UNCHANGED <<lead, suppression, crossed, stored, overlapped, arrived, emitted>>
  PROVE  Preserved
  <1>1. OnMail(h)
    BY InvParts DEF HandlerInv, Fine
  <1>2. EventsWait
    BY <1>1, InvParts, MailAnswered
  <1> QED
    BY <1>2, AnswerShrinks, RowsKept, EndKeeps

LEMMA FetchFailsKeeps ==
  ASSUME ChannelInv, NEW h \in Handler, FetchFails(h)
  PROVE  Preserved
  <1>1. Sound(h)
    BY InvParts, FetchFailsSound
  <1>2. pc[h] \in Composing \cup {"sent"} /\ Leave(h) /\ Answer(h)
    BY DEF FetchFails, Dismiss, Composing
  <1>3. UNCHANGED <<rowVars, mail, arrived, emitted, ghostVars>>
    BY DEF FetchFails
  <1> QED
    BY <1>1, <1>2, <1>3, SameMail, MailEndKeeps DEF rowVars, ghostVars

LEMMA KeepOnlyKeeps ==
  ASSUME ChannelInv, NEW h \in Handler, KeepOnly(h)
  PROVE  Preserved
  <1>1. Sound(h)
    BY InvParts, KeepOnlySound
  <1>2. pc[h] \in Composing \cup {"sent"} /\ Leave(h) /\ Answer(h)
    BY DEF KeepOnly, Dismiss, Composing
  <1>3. UNCHANGED <<lead, suppression, stored, mail, arrived, emitted, ghostVars>>
    BY DEF KeepOnly
  <1> QED
    BY <1>1, <1>2, <1>3, SameMail, MailEndKeeps DEF ghostVars

LEMMA DiscardReplyKeeps ==
  ASSUME ChannelInv, NEW h \in Handler, DiscardReply(h)
  PROVE  Preserved
  <1>1. Sound(h)
    BY InvParts, DiscardReplySound
  <1>2. pc[h] \in Composing \cup {"sent"} /\ Leave(h) /\ Answer(h)
    BY DEF DiscardReply, Dismiss, Composing
  <1>3. UNCHANGED <<lead, suppression, stored, mail, arrived, emitted, ghostVars>>
    BY DEF DiscardReply
  <1> QED
    BY <1>1, <1>2, <1>3, SameMail, MailEndKeeps DEF ghostVars

LEMMA RecordReplyKeeps ==
  ASSUME ChannelInv, NEW s \in Handler, RecordReply(s)
  PROVE  Preserved
  <1>1. Sound(s)
    BY InvParts, RecordReplySound
  <1>2. pc[s] \in Composing \cup {"sent"} /\ Leave(s) /\ Answer(s)
    BY DEF RecordReply, Dismiss
  <1>3. UNCHANGED <<rowVars, arrived, emitted, ghostVars>>
    BY DEF RecordReply
  <1>4. MailKept
    BY InvParts DEF RecordReply, MailKept, RowType, MailRow
  <1> QED
    BY <1>1, <1>2, <1>3, <1>4, MailEndKeeps DEF rowVars, ghostVars

LEMMA RecordMailKeeps ==
  ASSUME ChannelInv, NEW t \in Handler, RecordMail(t)
  PROVE  Preserved
  <1>1. Sound(t) /\ StatusAgrees'
    BY InvParts, RecordMailSound, RecordMailAgrees
  <1>2. /\ Leave(t)
        /\ UNCHANGED <<suppression, stored, providerVars, overlapped>>
    BY DEF RecordMail
  <1>3. MailKept
    BY InvParts DEF RecordMail, MailKept, RowType, MailRow
  <1>4. Stuck
    BY <1>2 DEF Stuck
  <1> QED
    BY <1>1, <1>2, <1>3, <1>4, NoAnswer, EndKeeps DEF providerVars

LEMMA LoseConflictKeeps ==
  ASSUME ChannelInv, NEW h \in Handler, LoseConflict(h)
  PROVE  Preserved
  <1>1. Sound(h)
    BY InvParts, LoseConflictSound
  <1>2. Leave(h) /\ UNCHANGED <<rowVars, mail, providerVars, ghostVars>>
    BY DEF LoseConflict
  <1>3. StatusAgrees' /\ Stuck
    BY <1>2, RowsKept DEF rowVars, ghostVars
  <1> QED
    BY <1>1, <1>2, <1>3, NoAnswer, SameMail, EndKeeps DEF rowVars, providerVars, ghostVars

LEMMA ChangeAddressKeeps ==
  ASSUME ChannelInv, NEW t \in Handler, ChangeAddress(t)
  PROVE  Preserved
  <1>1. Sound(t) /\ StatusAgrees'
    BY InvParts, ChangedAddress
  <1>2. Leave(t) /\ UNCHANGED <<suppression, stored, mail, providerVars, overlapped>>
    BY DEF ChangeAddress
  <1>3. Stuck
    BY <1>2 DEF Stuck
  <1> QED
    BY <1>1, <1>2, <1>3, NoAnswer, SameMail, EndKeeps DEF providerVars

LEMMA UnsubscribeKeeps ==
  ASSUME ChannelInv, NEW t \in Handler, Unsubscribe(t)
  PROVE  Preserved
  <1>1. Sound(t) /\ StatusAgrees' /\ Stuck
    BY InvParts, Unsubscribed
  <1>2. Leave(t) /\ UNCHANGED <<stored, mail, providerVars, overlapped>>
    BY DEF Unsubscribe
  <1> QED
    BY <1>1, <1>2, NoAnswer, SameMail, EndKeeps DEF providerVars

\* The one step that answers an event of a mail.
LEMMA RecordEventKeeps ==
  ASSUME ChannelInv, NEW s \in Handler, RecordEvent(s)
  PROVE  Preserved
  <1>1. Sound(s) /\ Stuck /\ StatusAgrees'
    BY InvParts, RecordedEvent
  <1>2. /\ Leave(s) /\ Answer(s)
        /\ UNCHANGED <<held, stored, arrived, emitted, faults, overlapped>>
    BY DEF RecordEvent, Dismiss
  <1>3. MailKept
    <2>1. PICK m, shown : mail' = [mail EXCEPT ![m].shown = shown]
      BY DEF RecordEvent
    <2> QED
      BY <2>1, InvParts DEF MailKept, RowType, MailRow
  <1>4. TypeOK' /\ HandlerInv'
    BY <1>1, InvParts, SoundStep
  <1>5. ReplyShrinks /\ SingleShrinks /\ RoomShrinks
    <2>1. \A g \in Handler \ {s} : Same(g)
      BY <1>1, InvParts, SoundOthers
    <2>2. pc'[s] \notin Composing /\ \A i \in Inbound : s \notin TakenBy(Received(i))'
      BY <1>2, InvParts, LeftIdle
    <2> QED
      BY <1>2, <1>3, <2>1, <2>2, OutsiderShrinks
  <1>6. ReplyInv' /\ SingleInv' /\ RoomInv'
    BY <1>5, InvParts, ReplyKept, SingleKept, RoomKept
  <1>7. ProviderInv' /\ NothingToBarred'
    BY <1>2, <1>3, InvParts, AnswerShrinks, CalmKeeps, MailKeptSame DEF ProviderCalm
  <1>8. AnsweredSuppresses'
    <2>1. PICK m \in Mail, e \in Event :
            /\ outstanding' = outstanding \ {DeliveryOf(m, e)}
            /\ e \in {"bounced", "complained"} => Suppressed(mail[m].to)'
      BY InvParts, RecordedEvent
    <2>2. ASSUME NEW x \in Mail, NEW d \in {"bounced", "complained"},
                 d \in emitted'[x], DeliveryOf(x, d) \notin outstanding'
          PROVE  Suppressed(mail[x].to)'
      <3>1. CASE DeliveryOf(x, d) \in outstanding
        <4>1. DeliveryOf(x, d) = DeliveryOf(m, e)
          BY <2>1, <2>2, <3>1
        <4>2. x = m /\ d = e
          BY <4>1 DEF DeliveryOf
        <4> QED
          BY <2>1, <2>2, <4>2
      <3>2. CASE DeliveryOf(x, d) \notin outstanding
        <4>1. d \in emitted[x] /\ Suppressed(mail[x].to)
          BY <1>2, <2>2, <3>2, InvParts DEF AnsweredSuppresses
        <4> QED
          BY <1>1, <2>2, <4>1, InvParts, AnsweredStays DEF Sound
      <3> QED
        BY <3>1, <3>2
    <2> QED
      BY <2>2 DEF AnsweredSuppresses, DeliveryOf
  <1> QED
    BY <1>1, <1>4, <1>6, <1>7, <1>8 DEF Preserved, ChannelInv

\* One that goes on has the notice it had and takes nobody's.
LEMMA SameNotice ==
  ASSUME HandlerType, HandlerType', NEW s \in Handler, \A g \in Handler \ {s} : Same(g),
         pc[s] # "idle", pc'[s] # "idle", job'[s].notice = job[s].notice
  PROVE  \A i \in Inbound : TakenBy(Received(i))' = TakenBy(Received(i))
  <1>1. job[s] # None /\ job'[s] # None
    BY DEF HandlerType
  <1> QED
    BY <1>1, OthersStay DEF TakenBy, Received

LEMMA MatchInboundKeeps ==
  ASSUME ChannelInv, NEW s \in Handler, MatchInbound(s)
  PROVE  Preserved
  <1>1. pc[s] = "fetched" /\ Sound(s)
    BY InvParts, MatchInboundSound DEF MatchInbound
  <1>2. CASE Leave(s)
    <2>1. UNCHANGED <<rowVars, mail, arrived, emitted, ghostVars>>
      BY DEF MatchInbound
    <2>2. OnMail(s)
      BY <1>1, InvParts DEF HandlerInv, Fine, Composing
    <2>3. Answer(s) \/ UNCHANGED outstanding
      BY DEF MatchInbound, Dismiss
    <2>4. EventsWait
      BY <2>2, <2>3, InvParts, MailAnswered, NoAnswer
    <2>5. StatusAgrees' /\ Stuck
      BY <2>1, RowsKept DEF rowVars, ghostVars
    <2> QED
      BY <1>1, <1>2, <2>1, <2>3, <2>4, <2>5, AnswerShrinks, SameMail, EndKeeps
         DEF rowVars, ghostVars
  <1>3. CASE ~Leave(s)
    <2>1. /\ pc'[s] = "matched" /\ job'[s].notice = job[s].notice
          /\ ~Known(job[s].notice.of)
          /\ UNCHANGED <<rowVars, mail, providerVars, ghostVars>>
      BY <1>3, InvParts, MatchFound
    <2>2. HandlerType' /\ \A g \in Handler \ {s} : Same(g)
      BY <1>1, InvParts, SoundOthers
    <2>3. \A i \in Inbound : TakenBy(Received(i))' = TakenBy(Received(i))
      BY <1>1, <2>1, <2>2, InvParts, SameNotice
    <2>4. MailKept /\ UNCHANGED <<stored, overlapped, lead, suppression, crossed>>
      BY <2>1, SameMail DEF rowVars, ghostVars
    <2>5. RoomInv'
      <3>1. s \in Composers
        BY <1>1 DEF Composers, Composing
      <3>2. RoomShrinks
        BY <2>2, <2>4, <3>1, OthersStay, MailKeptSame DEF RoomShrinks
      <3> QED
        BY <3>2, InvParts, RoomKept
    <2>6. ReplyInv'
      <3>1. \A i \in Inbound : s \notin Answering(i)'
        BY <2>1 DEF Answering
      <3>2. ReplyShrinks
        BY <2>2, <2>4, <3>1, OthersStay, MailKeptSame DEF ReplyShrinks
      <3> QED
        BY <3>2, InvParts, ReplyKept
    <2>7. SingleInv'
      <3>1. ASSUME NEW i \in Inbound, ~overlapped'[i]
            PROVE  /\ stored'[i] <= 1
                   /\ \A g, t \in TakenBy(Received(i))' : g = t
                   /\ \A g \in TakenBy(Received(i))' : pc'[g] = "matched" => stored'[i] = 0
        <4>1. /\ stored[i] <= 1 /\ \A g, t \in TakenBy(Received(i)) : g = t
              /\ \A g \in TakenBy(Received(i)) : pc[g] = "matched" => stored[i] = 0
          BY <2>4, <3>1, InvParts DEF SingleInv
        <4>2. ASSUME NEW g \in TakenBy(Received(i)), pc'[g] = "matched"
              PROVE  stored[i] = 0
          <5>1. CASE g # s
            <6>1. g \in Handler
              BY DEF TakenBy, Handler
            <6> QED
              BY <2>2, <4>1, <4>2, <5>1, <6>1 DEF Same
          <5>2. CASE g = s
            <6>1. job[s].notice = Received(i)
              BY <5>2 DEF TakenBy
            <6> QED
              BY <2>1, <6>1, InvParts DEF Received, Known, RowType
          <5> QED
            BY <5>1, <5>2
        <4> QED
          BY <2>3, <2>4, <4>1, <4>2
      <3> QED
        BY <3>1 DEF SingleInv
    <2>8. NothingToBarred' /\ StatusAgrees' /\ Stuck
      BY <2>4, InvParts, MailKeptSame, RowsKept
    <2>9. ProviderCalm /\ EventsWait
      BY <2>1, NoAnswer DEF ProviderCalm, providerVars
    <2> QED
      BY <1>1, <2>5, <2>6, <2>7, <2>8, <2>9, HandlerKeeps
  <1> QED
    BY <1>2, <1>3

LEMMA AskModelKeeps ==
  ASSUME ChannelInv, NEW s \in Handler, AskModel(s)
  PROVE  Preserved
  <1>1. Sound(s)
    BY InvParts, AskModelSound
  <1>2. /\ pc[s] = "kept" /\ Go(s, "calling")
        /\ UNCHANGED <<rowVars, mail, providerVars, job, ghostVars>>
    BY DEF AskModel
  <1>3. /\ HandlerType' /\ (\A g \in Handler \ {s} : Same(g))
        /\ pc'[s] = "calling" /\ job'[s] = job[s]
    BY <1>1, <1>2, InvParts, SoundOthers DEF Go, HandlerType
  <1>4. \A i \in Inbound : TakenBy(Received(i))' = TakenBy(Received(i))
    BY <1>2, <1>3, InvParts, SameNotice
  <1>5. MailKept /\ UNCHANGED <<stored, overlapped, lead, suppression, crossed>>
    BY <1>2, SameMail DEF rowVars, ghostVars
  <1>6. RoomShrinks
    <2>1. s \in Composers
      BY <1>2 DEF Composers, Composing
    <2> QED
      BY <1>3, <1>5, <2>1, OthersStay, MailKeptSame DEF RoomShrinks
  <1>7. ReplyShrinks
    <2>1. \A i \in Inbound : s \in Answering(i)' => s \in Answering(i)
      BY <1>2, <1>4 DEF Answering
    <2> QED
      BY <1>3, <1>5, <2>1, OthersStay, MailKeptSame DEF ReplyShrinks
  <1>8. SingleShrinks
    <2>1. \A g \in Server : pc'[g] = "matched" => pc[g] = "matched"
      BY <1>3 DEF Same, Handler
    <2> QED
      BY <1>4, <1>5, <2>1 DEF SingleShrinks
  <1>9. RoomInv' /\ ReplyInv' /\ SingleInv'
    BY <1>6, <1>7, <1>8, InvParts, RoomKept, ReplyKept, SingleKept
  <1>10. NothingToBarred' /\ StatusAgrees' /\ Stuck
    BY <1>5, InvParts, MailKeptSame, RowsKept
  <1>11. ProviderCalm /\ EventsWait
    BY <1>2, NoAnswer DEF ProviderCalm, providerVars
  <1> QED
    BY <1>1, <1>9, <1>10, <1>11, HandlerKeeps

\* The row that is added is the server's that may answer now.
LEMMA StoreInboundKeeps ==
  ASSUME ChannelInv, NEW s \in Handler, StoreInbound(s)
  PROVE  Preserved
  <1>1. Sound(s) /\ RowType
    BY InvParts, StoreInboundSound
  <1>2. /\ pc[s] = "matched" /\ Go(s, "kept")
        /\ UNCHANGED <<lead, held, suppression, mail, providerVars, job, faults, ghostVars>>
    BY DEF StoreInbound
  <1>3. /\ HandlerType' /\ (\A g \in Handler \ {s} : Same(g))
        /\ pc'[s] = "kept" /\ job'[s] = job[s] /\ job[s] # None
    BY <1>1, <1>2, InvParts, SoundOthers DEF Go, HandlerType
  <1>4. \A i \in Inbound : TakenBy(Received(i))' = TakenBy(Received(i))
    BY <1>2, <1>3, InvParts, SameNotice
  <1>5. PICK i \in Inbound : job[s].notice = Received(i)
    BY <1>2, InvParts DEF HandlerInv, Fine, OnMail, Composing
  <1>6. s \in Server /\ s \in TakenBy(Received(i))
    BY <1>2, <1>3, <1>5, InvParts DEF HandlerInv, Fine, TakenBy
  <1>7. \A k \in Inbound \ {i} : s \notin TakenBy(Received(k))
    BY <1>5 DEF TakenBy, Received
  <1>8. /\ stored'[i] = stored[i] + 1
        /\ \A k \in Inbound \ {i} : stored'[k] = stored[k]
    <2>1. stored' = [stored EXCEPT ![i] = @ + 1]
      BY <1>5 DEF StoreInbound, Received
    <2> QED
      BY <1>1, <2>1 DEF RowType
  <1>9. MailKept /\ UNCHANGED <<overlapped, lead, suppression, crossed>>
    BY <1>2, SameMail DEF ghostVars
  <1>10. RoomInv'
    <2>1. s \in Composers
      BY <1>2 DEF Composers, Composing
    <2>2. RoomShrinks
      BY <1>3, <1>9, <2>1, OthersStay, MailKeptSame DEF RoomShrinks
    <2> QED
      BY <2>2, InvParts, RoomKept
  <1>11. ReplyInv'
    <2>1. ASSUME NEW k \in Inbound
          PROVE  (Cardinality(Answers(k)) + Cardinality(Answering(k)) <= stored[k])'
      <3>1. /\ Cardinality(Answers(k)) + Cardinality(Answering(k)) <= stored[k]
            /\ Answers(k)' = Answers(k) /\ stored[k] \in Nat
        BY <1>1, <1>9, InvParts, MailKeptSame DEF ReplyInv, RowType
      <3>2. CASE k = i
        <4>1. Answering(k)' \subseteq Answering(k) \cup {s}
          BY <1>3, OthersStay
        <4>2. Cardinality(Answering(k)') <= Cardinality(Answering(k)) + 1
          BY <4>1, AnswersFinite, OneMore
        <4> QED
          BY <1>8, <3>1, <3>2, <4>2, AnswersFinite
      <3>3. CASE k # i
        <4>1. s \notin Answering(k)'
          BY <1>4, <1>7, <3>3 DEF Answering
        <4>2. Answering(k)' \subseteq Answering(k)
          BY <1>3, <4>1, OthersStay
        <4>3. Cardinality(Answering(k)') <= Cardinality(Answering(k))
          BY <4>2, AnswersFinite, FS_Subset
        <4>4. stored'[k] = stored[k]
          BY <1>8, <3>3
        <4> QED
          BY <3>1, <4>3, <4>4, AnswersFinite
      <3> QED
        BY <3>2, <3>3
    <2> QED
      BY <2>1 DEF ReplyInv
  <1>12. SingleInv'
    <2>1. ASSUME NEW k \in Inbound, ~overlapped'[k]
          PROVE  /\ stored'[k] <= 1
                 /\ \A g, t \in TakenBy(Received(k))' : g = t
                 /\ \A g \in TakenBy(Received(k))' : pc'[g] = "matched" => stored'[k] = 0
      <3>1. /\ stored[k] <= 1 /\ \A g, t \in TakenBy(Received(k)) : g = t
            /\ \A g \in TakenBy(Received(k)) : pc[g] = "matched" => stored[k] = 0
        BY <1>9, <2>1, InvParts DEF SingleInv
      <3>2. CASE k = i
        <4>1. stored'[k] = 1
          BY <1>2, <1>6, <1>8, <3>1, <3>2
        <4>2. \A g \in TakenBy(Received(k)) : g = s
          BY <1>6, <3>1, <3>2
        <4> QED
          BY <1>3, <1>4, <3>1, <4>1, <4>2
      <3>3. CASE k # i
        <4>1. stored'[k] = stored[k]
          BY <1>8, <3>3
        <4>2. \A g \in TakenBy(Received(k)) : g # s /\ g \in Handler
          BY <1>7, <3>3 DEF TakenBy, Handler
        <4>3. \A g \in TakenBy(Received(k)) : pc'[g] = pc[g]
          BY <1>3, <4>2 DEF Same
        <4> QED
          BY <1>4, <3>1, <4>1, <4>3
      <3> QED
        BY <3>2, <3>3
    <2> QED
      BY <2>1 DEF SingleInv
  <1>13. NothingToBarred' /\ StatusAgrees' /\ Stuck
    BY <1>9, InvParts, MailKeptSame, RowsKept
  <1>14. ProviderCalm /\ EventsWait
    BY <1>2, NoAnswer DEF ProviderCalm, providerVars
  <1> QED
    BY <1>1, <1>10, <1>11, <1>12, <1>13, <1>14, HandlerKeeps

\* A handler that has called the provider holds no id and no right to answer
\* any more; the mail has both.
LEMMA SentKeeps ==
  ASSUME ChannelInv, NEW h \in Handler, Sound(h), pc[h] = "calling",
         ProviderTakes(h, NewMail), pc'[h] \notin Composing,
         job'[h] # None => job'[h].notice = job[h].notice,
         UNCHANGED <<lead, suppression, crossed, stored, overlapped>>,
         ProviderCalm, EventsWait
  PROVE  Preserved
  <1>1. PICK m : m = NewMail
    OBVIOUS
  <1>2. /\ m \in Mail /\ mail[m].to = None /\ mail'[m].to \in Address /\ ~mail'[m].barred
        /\ h \in Server => \E i \in Inbound : /\ job[h].notice = Received(i)
                                              /\ mail'[m].answers = i
        /\ h \notin Server => mail'[m].answers = None
        /\ \A x \in Mail \ {m} : mail'[x] = mail[x]
    BY <1>1, InvParts, NewMailTaken
  <1>3. HandlerType' /\ \A g \in Handler \ {h} : Same(g)
    BY InvParts, SoundOthers
  <1>4. h \in Composers /\ h \notin Composers'
    BY DEF Composers, Composing
  <1>5. RoomInv'
    <2>1. Composers' = Composers \ {h}
      BY <1>3, <1>4, OthersStay
    <2>2. Unused' = Unused \ {m} /\ m \in Unused
      BY <1>2, ChannelAssumption DEF Unused
    <2>3. Cardinality(Composers') = Cardinality(Composers) - 1
      BY <1>4, <2>1, ComposersFinite, FS_RemoveElement
    <2>4. Cardinality(Unused') = Cardinality(Unused) - 1
      BY <2>2, UnusedFinite, FS_RemoveElement
    <2> QED
      BY <2>3, <2>4, ComposersFinite, UnusedFinite, InvParts DEF RoomInv
  <1>6. \A i \in Inbound : h \notin Answering(i)'
    BY DEF Answering, Composing
  <1>7. \A i \in Inbound : Answering(i)' = Answering(i) \ {h}
    BY <1>3, <1>6, OthersStay
  <1>8. ReplyInv'
    <2>1. ASSUME NEW i \in Inbound
          PROVE  (Cardinality(Answers(i)) + Cardinality(Answering(i)) <= stored[i])'
      <3>1. /\ Cardinality(Answers(i)) + Cardinality(Answering(i)) <= stored[i]
            /\ stored'[i] = stored[i] /\ stored[i] \in Nat
        BY InvParts DEF ReplyInv, RowType
      <3>2. CASE mail'[m].answers = i
        <4>1. h \in Server /\ job[h].notice = Received(i)
          BY <1>2, <3>2, ChannelAssumption
        <4>2. h \in Answering(i)
          BY <4>1, InvParts DEF Answering, TakenBy, HandlerType
        <4>3. Cardinality(Answering(i)') = Cardinality(Answering(i)) - 1
          BY <1>7, <4>2, AnswersFinite, FS_RemoveElement
        <4>4. Answers(i)' \subseteq Answers(i) \cup {m}
          BY <1>2 DEF Answers
        <4>5. Cardinality(Answers(i)') <= Cardinality(Answers(i)) + 1
          BY <4>4, AnswersFinite, OneMore
        <4> QED
          BY <3>1, <4>3, <4>5, AnswersFinite
      <3>3. CASE mail'[m].answers # i
        <4>1. Answers(i)' \subseteq Answers(i)
          BY <1>2, <3>3 DEF Answers
        <4>2. Cardinality(Answers(i)') <= Cardinality(Answers(i))
          BY <4>1, AnswersFinite, FS_Subset
        <4>3. Cardinality(Answering(i)') <= Cardinality(Answering(i))
          BY <1>7, AnswersFinite, FS_Subset
        <4> QED
          BY <3>1, <4>2, <4>3, AnswersFinite
      <3> QED
        BY <3>2, <3>3
    <2> QED
      BY <2>1 DEF ReplyInv
  <1>9. SingleInv'
    <2>1. \A i \in Inbound : h \in TakenBy(Received(i))' => h \in TakenBy(Received(i))
      BY InvParts DEF TakenBy, HandlerType
    <2>2. \A i \in Inbound : TakenBy(Received(i))' \subseteq TakenBy(Received(i))
      BY <1>3, <2>1, OthersStay
    <2>3. \A g \in Server : pc'[g] = "matched" => pc[g] = "matched"
      BY <1>3 DEF Same, Handler, Composing
    <2>4. SingleShrinks
      BY <2>2, <2>3 DEF SingleShrinks
    <2> QED
      BY <2>4, InvParts, SingleKept
  <1>10. NothingToBarred'
    BY <1>2, InvParts DEF NothingToBarred
  <1> QED
    BY <1>5, <1>8, <1>9, <1>10, RowsKept, HandlerKeeps

LEMMA CallProviderKeeps ==
  ASSUME ChannelInv, NEW h \in Handler, CallProvider(h)
  PROVE  Preserved
  <1>1. Sound(h)
    BY InvParts, CallProviderSound
  <1>2. PICK m : m = NewMail
    OBVIOUS
  <1>3. /\ pc[h] = "calling" /\ ProviderTakes(h, NewMail)
        /\ job' = [job EXCEPT ![h].mail = m] /\ Go(h, "sent")
        /\ UNCHANGED <<rowVars, providerVars, faults, ghostVars>>
    BY <1>2 DEF CallProvider
  <1>4. pc'[h] \notin Composing
    BY <1>3, InvParts DEF Go, Composing, HandlerType
  <1>5. job'[h].notice = job[h].notice
    <2>1. job[h] \in Job
      BY <1>3, InvParts DEF HandlerType
    <2>2. job'[h] = [job[h] EXCEPT !.mail = m]
      BY <1>3, InvParts DEF HandlerType
    <2> QED
      BY <2>1, <2>2 DEF Job
  <1>6. ProviderCalm /\ EventsWait
    BY <1>3, NoAnswer DEF ProviderCalm, providerVars
  <1>7. UNCHANGED <<lead, suppression, crossed, stored, overlapped>>
    BY <1>3 DEF rowVars, ghostVars
  <1> QED
    BY <1>1, <1>3, <1>4, <1>5, <1>6, <1>7, SentKeeps

LEMMA CallFailsKeeps ==
  ASSUME ChannelInv, NEW h \in Handler, CallFails(h)
  PROVE  Preserved
  <1>1. Sound(h)
    BY InvParts, CallFailsSound
  <1>2. /\ pc[h] = "calling" /\ Leave(h) /\ Answer(h)
        /\ UNCHANGED <<rowVars, arrived, emitted, ghostVars>>
    BY DEF CallFails, Dismiss
  <1>3. pc[h] \in Composing
    BY <1>2 DEF Composing
  <1>4. CASE UNCHANGED mail
    BY <1>1, <1>2, <1>3, <1>4, SameMail, MailEndKeeps DEF rowVars, ghostVars
  <1>5. CASE ProviderTakes(h, NewMail)
    <2>1. pc'[h] \notin Composing /\ job'[h] = None
      BY <1>2, InvParts, LeftIdle
    <2>2. EventsWait
      BY <1>2, <1>3, InvParts, MailAnswered DEF HandlerInv, Fine
    <2>3. ProviderCalm
      BY <1>2, AnswerShrinks DEF ProviderCalm
    <2>4. UNCHANGED <<lead, suppression, crossed, stored, overlapped>>
      BY <1>2 DEF rowVars, ghostVars
    <2> QED
      BY <1>1, <1>2, <1>5, <2>1, <2>2, <2>3, <2>4, SentKeeps
  <1> QED
    BY <1>4, <1>5 DEF CallFails

-----------------------------------------------------------------------------
(* Handlers that begin.                                                     *)

LEMMA Begun ==
  ASSUME HandlerType, NEW h \in Handler, NEW step, NEW read, Begin(h, step, read)
  PROVE  pc[h] = "idle" /\ pc'[h] = step /\ job'[h] = read
  BY DEF Begin, Go, HandlerType

LEMMA RequestKeeps ==
  ASSUME ChannelInv, NEW h \in Handler, Sound(h), pc'[h] \notin Composing,
         \A i \in Inbound : h \notin TakenBy(Received(i))',
         UNCHANGED <<rowVars, mail, providerVars, ghostVars>>
  PROVE  Preserved
  <1>1. \A g \in Handler \ {h} : Same(g)
    BY InvParts, SoundOthers
  <1>2. MailKept /\ UNCHANGED <<stored, overlapped, lead, suppression, crossed>>
    BY SameMail DEF rowVars, ghostVars
  <1>3. ReplyShrinks /\ SingleShrinks /\ RoomShrinks
    BY <1>1, <1>2, OutsiderShrinks
  <1>4. ReplyInv' /\ SingleInv' /\ RoomInv'
    BY <1>3, InvParts, ReplyKept, SingleKept, RoomKept
  <1>5. NothingToBarred' /\ StatusAgrees' /\ Stuck
    BY <1>2, InvParts, MailKeptSame, RowsKept
  <1>6. ProviderCalm /\ EventsWait
    BY NoAnswer DEF ProviderCalm, providerVars
  <1> QED
    BY <1>4, <1>5, <1>6, HandlerKeeps

LEMMA ThreadTakesNothing ==
  ASSUME NEW t \in Thread
  PROVE  t \in Handler /\ \A i \in Inbound : t \notin TakenBy(Received(i))'
  BY ChannelAssumption DEF TakenBy, Handler

LEMMA StartChangeKeeps ==
  ASSUME ChannelInv, NEW t \in Thread, NEW l \in Lead, NEW a \in Address \cup {None},
         StartChange(t, l, a)
  PROVE  Preserved
  <1>1. Sound(t)
    BY InvParts, StartChangeSound
  <1>2. pc'[t] \notin Composing
    BY InvParts, Begun, ThreadTakesNothing DEF StartChange, Composing
  <1>3. UNCHANGED <<rowVars, mail, providerVars, ghostVars>>
    BY DEF StartChange
  <1> QED
    BY <1>1, <1>2, <1>3, ThreadTakesNothing, RequestKeeps

LEMMA OpenUnsubscribeKeeps ==
  ASSUME ChannelInv, NEW t \in Thread, NEW a \in Address, OpenUnsubscribe(t, a)
  PROVE  Preserved
  <1>1. Sound(t)
    BY InvParts, OpenUnsubscribeSound
  <1>2. pc'[t] \notin Composing
    BY InvParts, Begun, ThreadTakesNothing DEF OpenUnsubscribe, Composing
  <1>3. UNCHANGED <<rowVars, mail, providerVars, ghostVars>>
    BY DEF OpenUnsubscribe
  <1> QED
    BY <1>1, <1>2, <1>3, ThreadTakesNothing, RequestKeeps

LEMMA TakeEventKeeps ==
  ASSUME ChannelInv, NEW s \in Server, NEW m \in Mail, NEW e \in Event, TakeEvent(s, m, e)
  PROVE  Preserved
  <1> DEFINE read == Read(DeliveryOf(m, e), mail[m].to, None, m)
  <1>1. Sound(s) /\ s \in Handler
    BY InvParts, TakeEventSound DEF Handler
  <1>2. Begin(s, "event", read)
    BY DEF TakeEvent, Take
  <1>3. read.notice.event = e
    BY DEF Read, DeliveryOf
  <1> HIDE DEF read
  <1>4. pc'[s] = "event" /\ job'[s] = read
    BY <1>1, <1>2, InvParts, Begun
  <1>5. \A i \in Inbound : s \notin TakenBy(Received(i))'
    BY <1>3, <1>4, ChannelAssumption DEF TakenBy, Received
  <1>6. UNCHANGED <<rowVars, mail, providerVars, ghostVars>>
    BY DEF TakeEvent
  <1> QED
    BY <1>1, <1>4, <1>5, <1>6, RequestKeeps DEF Composing

\* Who sets out to send finds room for one more.
LEMMA RoomStarts ==
  ASSUME NEW h \in Handler, \A g \in Handler \ {h} : Same(g), MaySend, Unused' = Unused
  PROVE  RoomInv'
  <1>1. Composers' \subseteq Composers \cup {h}
    BY OthersStay
  <1>2. Cardinality(Composers') <= Cardinality(Composers) + 1
    BY <1>1, ComposersFinite, OneMore
  <1>3. Cardinality(Unused) > Cardinality(Composers)
    BY DEF MaySend, Composers
  <1>4. Cardinality(Composers') \in Nat
    <2>1. Composers' \subseteq Server \cup Thread
      BY DEF Composers, Handler
    <2> QED
      BY <2>1, ChannelAssumption, FS_Subset, FS_CardinalityType
  <1> QED
    BY <1>2, <1>3, <1>4, ComposersFinite, UnusedFinite DEF RoomInv

LEMMA StartSendKeeps ==
  ASSUME ChannelInv, NEW t \in Thread, NEW l \in Lead, StartSend(t, l)
  PROVE  Preserved
  <1>1. Sound(t) /\ t \in Handler
    BY InvParts, StartSendSound DEF Handler
  <1>2. \A g \in Handler \ {t} : Same(g)
    BY <1>1, InvParts, SoundOthers
  <1>3. pc'[t] = "calling"
    BY <1>1, InvParts, Begun DEF StartSend
  <1>4. UNCHANGED <<rowVars, mail, providerVars, ghostVars>>
    BY DEF StartSend
  <1>5. MailKept /\ UNCHANGED <<stored, overlapped, lead, suppression, crossed>>
    BY <1>4, SameMail DEF rowVars, ghostVars
  <1>6. RoomInv'
    BY <1>1, <1>2, <1>5, MailKeptSame, RoomStarts DEF StartSend
  <1>7. \A i \in Inbound : t \notin TakenBy(Received(i))' /\ t \notin Answering(i)'
    BY ThreadTakesNothing DEF Answering
  <1>8. ReplyShrinks
    BY <1>1, <1>2, <1>5, <1>7, OthersStay, MailKeptSame DEF ReplyShrinks
  <1>9. SingleShrinks
    <2>1. \A s \in Server : pc'[s] = "matched" => pc[s] = "matched"
      BY <1>2, <1>3 DEF Same, Handler
    <2> QED
      BY <1>1, <1>2, <1>5, <1>7, <2>1, OthersStay DEF SingleShrinks
  <1>10. ReplyInv' /\ SingleInv'
    BY <1>8, <1>9, InvParts, ReplyKept, SingleKept
  <1>11. NothingToBarred' /\ StatusAgrees' /\ Stuck
    BY <1>5, InvParts, MailKeptSame, RowsKept
  <1>12. ProviderCalm /\ EventsWait
    BY <1>4, NoAnswer DEF ProviderCalm, providerVars
  <1> QED
    BY <1>1, <1>6, <1>10, <1>11, <1>12, HandlerKeeps

\* A second server on an email is noted.
LEMMA TakeInboundKeeps ==
  ASSUME ChannelInv, NEW s \in Server, NEW i \in Inbound, TakeInbound(s, i)
  PROVE  Preserved
  <1>1. Sound(s) /\ s \in Handler /\ job'[s].notice = Received(i) /\ pc'[s] = "fetched"
    BY InvParts, TakeInboundSound DEF Handler
  <1>2. \A g \in Handler \ {s} : Same(g)
    BY <1>1, InvParts, SoundOthers
  <1>3. UNCHANGED <<rowVars, mail, providerVars, crossed>>
    BY DEF TakeInbound
  <1>4. MailKept /\ UNCHANGED <<stored, lead, suppression, crossed>>
    BY <1>3, SameMail DEF rowVars
  <1>5. RoomInv'
    BY <1>1, <1>2, <1>4, MailKeptSame, RoomStarts DEF TakeInbound
  <1>6. ReplyInv'
    <2>1. \A k \in Inbound : s \notin Answering(k)'
      BY <1>1 DEF Answering
    <2>2. ReplyShrinks
      BY <1>1, <1>2, <1>4, <2>1, OthersStay, MailKeptSame DEF ReplyShrinks
    <2> QED
      BY <2>2, InvParts, ReplyKept
  <1>7. SingleInv'
    <2>1. ASSUME NEW k \in Inbound, ~overlapped'[k]
          PROVE  /\ stored'[k] <= 1
                 /\ \A g, t \in TakenBy(Received(k))' : g = t
                 /\ \A g \in TakenBy(Received(k))' : pc'[g] = "matched" => stored'[k] = 0
      <3>1. ~overlapped[k] /\ (k = i => TakenBy(Received(k)) = {})
        BY <2>1, InvParts DEF TakeInbound, RowType
      <3>2. /\ stored[k] <= 1 /\ \A g, t \in TakenBy(Received(k)) : g = t
            /\ \A g \in TakenBy(Received(k)) : pc[g] = "matched" => stored[k] = 0
        BY <3>1, InvParts DEF SingleInv
      <3>3. CASE k = i
        <4>1. TakenBy(Received(k))' \subseteq {s}
          BY <1>1, <1>2, <3>1, <3>3, OthersStay
        <4> QED
          BY <1>1, <1>4, <3>2, <4>1
      <3>4. CASE k # i
        <4>1. s \notin TakenBy(Received(k))'
          BY <1>1, <3>4 DEF TakenBy, Received
        <4>2. TakenBy(Received(k))' \subseteq TakenBy(Received(k))
          BY <1>1, <1>2, <4>1, OthersStay
        <4>3. \A g \in TakenBy(Received(k))' : pc'[g] = pc[g]
          BY <1>2, <4>1 DEF TakenBy, Same, Handler
        <4> QED
          BY <1>4, <3>2, <4>2, <4>3
      <3> QED
        BY <3>3, <3>4
    <2> QED
      BY <2>1 DEF SingleInv
  <1>8. NothingToBarred' /\ StatusAgrees' /\ Stuck
    BY <1>4, InvParts, MailKeptSame, RowsKept
  <1>9. ProviderCalm /\ EventsWait
    BY <1>3, NoAnswer DEF ProviderCalm, providerVars
  <1> QED
    BY <1>1, <1>5, <1>6, <1>7, <1>8, <1>9, HandlerKeeps

-----------------------------------------------------------------------------
(* Steps of nobody's handler.                                               *)

LEMMA NobodyKeeps ==
  ASSUME ChannelInv, UNCHANGED <<lead, suppression, stored, mail, pc, job, ghostVars>>,
         RowType', UnusedType', Grows, ProviderInv', AnsweredSuppresses'
  PROVE  Preserved
  <1>1. HandlerType' /\ \A h \in Handler : Same(h)
    BY InvParts DEF HandlerType, Same
  <1>2. TypeOK'
    BY <1>1 DEF TypeOK, RowType, HandlerType, UnusedType
  <1>3. HandlerInv'
    BY <1>1, InvParts, FineStays DEF HandlerInv
  <1>4. RoomInv'
    BY InvParts DEF RoomInv, Composers, Unused
  <1>5. SingleInv' /\ ReplyInv'
    <2>1. \A i \in Inbound : /\ TakenBy(Received(i))' = TakenBy(Received(i))
                             /\ Answers(i)' = Answers(i)
      BY DEF TakenBy, Received, Answers
    <2>2. \A i \in Inbound : Answering(i)' = Answering(i)
      BY <2>1 DEF Answering
    <2>3. ReplyShrinks /\ SingleShrinks
      BY <2>1, <2>2 DEF ReplyShrinks, SingleShrinks, ghostVars
    <2> QED
      BY <2>3, InvParts, ReplyKept, SingleKept
  <1>6. NothingToBarred' /\ StatusAgrees' /\ Stuck
    BY InvParts, SameMail, MailKeptSame, RowsKept DEF ghostVars
  <1> QED
    BY <1>2, <1>3, <1>4, <1>5, <1>6 DEF Preserved, ChannelInv

LEMMA EmailArrivesKeeps ==
  ASSUME ChannelInv, NEW i \in Inbound, EmailArrives(i)
  PROVE  Preserved
  <1>1. PICK a \in Address : arrived' = [arrived EXCEPT ![i] = a]
    BY DEF EmailArrives
  <1>2. /\ outstanding' = outstanding \cup {Received(i)}
        /\ UNCHANGED <<rowVars, mail, emitted, pc, job, faults, ghostVars>>
    BY DEF EmailArrives
  <1>3. Received(i) \in Notice
    BY DEF Received, Notice
  <1>4. RowType' /\ UnusedType'
    BY <1>1, <1>2, <1>3, InvParts DEF RowType, UnusedType, rowVars, ghostVars
  <1>5. Grows
    BY <1>2 DEF Grows, rowVars
  <1>6. ProviderInv'
    <2>1. \A k \in Inbound : arrived'[k] = IF k = i THEN a ELSE arrived[k]
      BY <1>1, InvParts DEF RowType
    <2>2. \A k \in Inbound : Received(k) = Received(i) => k = i
      BY DEF Received
    <2>3. \A m \in Mail, e \in Event : DeliveryOf(m, e) # Received(i)
      BY ChannelAssumption DEF DeliveryOf, Received
    <2>4. \A k \in Inbound : (Received(k) \in outstanding)' => (arrived[k] # None)'
      BY <1>2, <2>1, <2>2, InvParts, ChannelAssumption DEF ProviderInv, Received
    <2>5. \A m \in Mail, e \in Event :
            (DeliveryOf(m, e) \in outstanding)' => (e \in emitted[m])'
      BY <1>2, <2>3, InvParts DEF ProviderInv, DeliveryOf
    <2> QED
      BY <2>4, <2>5 DEF ProviderInv
  <1>7. EventsWait
    BY <1>2 DEF EventsWait
  <1>8. AnsweredSuppresses'
    BY <1>2, <1>5, <1>7, InvParts, AnsweredKept
  <1> QED
    BY <1>2, <1>4, <1>5, <1>6, <1>8, NobodyKeeps DEF rowVars

LEMMA EmitKeeps ==
  ASSUME ChannelInv, NEW m \in Mail, NEW e \in Event, Emit(m, e)
  PROVE  Preserved
  <1>1. /\ mail[m].to # None
        /\ emitted' = [emitted EXCEPT ![m] = @ \cup {e}]
        /\ outstanding' = outstanding \cup {DeliveryOf(m, e)}
        /\ UNCHANGED <<rowVars, mail, arrived, pc, job, faults, ghostVars>>
    BY DEF Emit
  <1>2. DeliveryOf(m, e) \in Notice
    BY DEF DeliveryOf, Notice
  <1>3. \A x \in Mail : emitted'[x] = IF x = m THEN emitted[x] \cup {e} ELSE emitted[x]
    BY <1>1, InvParts DEF RowType
  <1>4. emitted' \in [Mail -> SUBSET Event]
    BY <1>1, InvParts DEF RowType
  <1>5. RowType'
    BY <1>1, <1>2, <1>4, InvParts DEF RowType, rowVars, ghostVars
  <1>6. UnusedType'
    BY <1>1, <1>3, InvParts DEF UnusedType
  <1>7. Grows
    BY <1>1, <1>3 DEF Grows, rowVars
  <1>8. \A x \in Mail : \A d : DeliveryOf(x, d) = DeliveryOf(m, e) => x = m /\ d = e
    BY DEF DeliveryOf
  <1>9. ProviderInv'
    <2>1. \A k \in Inbound : Received(k) # DeliveryOf(m, e)
      BY ChannelAssumption DEF DeliveryOf, Received
    <2>2. \A k \in Inbound : (Received(k) \in outstanding)' => (arrived[k] # None)'
      BY <1>1, <2>1, InvParts DEF ProviderInv, Received
    <2>3. \A x \in Mail, d \in Event :
            (DeliveryOf(x, d) \in outstanding)' => (d \in emitted[x])'
      BY <1>1, <1>3, <1>8, InvParts DEF ProviderInv, DeliveryOf
    <2> QED
      BY <2>2, <2>3 DEF ProviderInv
  <1>10. AnsweredSuppresses'
    <2>1. ASSUME NEW x \in Mail, NEW d \in {"bounced", "complained"},
                 d \in emitted'[x], DeliveryOf(x, d) \notin outstanding'
          PROVE  Suppressed(mail[x].to)'
      <3>1. d \in emitted[x] /\ DeliveryOf(x, d) \notin outstanding
        BY <1>1, <1>3, <2>1
      <3>2. Suppressed(mail[x].to)
        BY <3>1, InvParts DEF AnsweredSuppresses
      <3> QED
        BY <1>7, <3>1, <3>2, InvParts, AnsweredStays
    <2> QED
      BY <2>1 DEF AnsweredSuppresses, DeliveryOf
  <1> QED
    BY <1>1, <1>5, <1>6, <1>7, <1>9, <1>10, NobodyKeeps DEF rowVars

LEMMA RedeliverKeeps ==
  ASSUME ChannelInv, NEW n \in Notice, Redeliver(n)
  PROVE  Preserved
  <1>1. /\ Fault /\ outstanding' = outstanding \cup {n}
        /\ \/ n.of \in Inbound /\ arrived[n.of] # None
           \/ n.of \in Mail /\ n.event \in emitted[n.of]
        /\ UNCHANGED <<rowVars, mail, arrived, emitted, pc, job, ghostVars>>
    BY DEF Redeliver
  <1>2. faults' \in 0 .. MaxFaults
    BY <1>1, InvParts, FaultType
  <1>3. RowType' /\ UnusedType'
    BY <1>1, <1>2, InvParts DEF RowType, UnusedType, rowVars, ghostVars
  <1>4. Grows
    BY <1>1 DEF Grows, rowVars
  <1>5. \A i \in Inbound : n = Received(i) => arrived[i] # None
    BY <1>1, ChannelAssumption DEF Received
  <1>6. \A m \in Mail, e \in Event : n = DeliveryOf(m, e) => e \in emitted[m]
    BY <1>1, ChannelAssumption DEF DeliveryOf
  <1>7. ProviderInv'
    <2>1. \A k \in Inbound : (Received(k) \in outstanding)' => (arrived[k] # None)'
      BY <1>1, <1>5, InvParts DEF ProviderInv, Received
    <2>2. \A x \in Mail, d \in Event :
            (DeliveryOf(x, d) \in outstanding)' => (d \in emitted[x])'
      BY <1>1, <1>6, InvParts DEF ProviderInv, DeliveryOf
    <2> QED
      BY <2>1, <2>2 DEF ProviderInv
  <1>8. EventsWait
    BY <1>1 DEF EventsWait
  <1>9. AnsweredSuppresses'
    BY <1>1, <1>4, <1>8, InvParts, AnsweredKept
  <1> QED
    BY <1>1, <1>3, <1>4, <1>7, <1>9, NobodyKeeps DEF rowVars

LEMMA TakeOverKeeps ==
  ASSUME ChannelInv, NEW l \in Lead, TakeOver(l)
  PROVE  Preserved
  <1>1. /\ held' = [held EXCEPT ![l] = TRUE]
        /\ UNCHANGED <<lead, suppression, stored, mail, providerVars, pc, job, faults, ghostVars>>
    BY DEF TakeOver
  <1>2. held' \in [Lead -> BOOLEAN] /\ \A k \in Lead : held[k] => held'[k]
    BY <1>1, InvParts DEF RowType
  <1>3. RowType' /\ UnusedType'
    BY <1>1, <1>2, InvParts DEF RowType, UnusedType, providerVars, ghostVars
  <1>4. Grows
    BY <1>1, <1>2 DEF Grows, providerVars
  <1>5. ProviderInv'
    BY <1>1, InvParts, CalmKeeps DEF ProviderCalm, providerVars
  <1>6. AnsweredSuppresses'
    BY <1>1, <1>4, InvParts, NoAnswer, AnsweredKept DEF providerVars
  <1> QED
    BY <1>1, <1>3, <1>4, <1>5, <1>6, NobodyKeeps

\* Giving a lead back frees the replies that only the takeover barred.
LEMMA GivenBack ==
  ASSUME TypeOK, HandlerInv, NEW l \in Lead, GiveBack(l), NEW h \in Handler
  PROVE  /\ job'[h].notice = job[h].notice
         /\ job'[h] = None <=> job[h] = None
         /\ job'[h] \in Job \cup {None}
         /\ Fine(h)'
  <1>1. /\ held' = [held EXCEPT ![l] = FALSE]
        /\ UNCHANGED <<lead, suppression, mail, emitted, pc>>
    BY DEF GiveBack, providerVars
  <1>2. job[h] \in Job \cup {None} /\ pc[h] \in Step /\ (pc[h] = "idle" <=> job[h] = None)
    BY DEF TypeOK
  <1>3. Fine(h)
    BY DEF HandlerInv
  <1>4. CASE pc[h] \in {"matched", "kept"} /\ job[h].lead = l
    <2>1. job[h] \in Job
      BY <1>2, <1>4
    <2>2. PICK b \in BOOLEAN : b = (job[h].barred /\ Suppressed(job[h].to))
      OBVIOUS
    <2>3. job'[h] = [job[h] EXCEPT !.barred = b]
      BY <1>4, <2>2 DEF GiveBack
    <2>4. /\ job'[h] \in Job /\ job'[h].barred = b
          /\ job'[h].to = job[h].to /\ job'[h].lead = job[h].lead
          /\ job'[h].notice = job[h].notice
      BY <2>1, <2>3 DEF Job
    <2>5. OnMail(h)'
      BY <1>3, <1>4, <2>4 DEF Fine, OnMail, Composing, Received
    <2>6. h \in Server /\ job'[h].lead \in Lead
      BY <1>3, <1>4, <2>4 DEF Fine
    <2>7. b => Suppressed(job[h].to)'
      BY <1>1, <2>2, <2>4 DEF Suppressed
    <2>8. Fine(h)'
      BY <1>1, <1>4, <2>4, <2>5, <2>6, <2>7 DEF Fine
    <2> QED
      BY <2>1, <2>4, <2>8, NoJobAssumption
  <1>5. CASE ~(pc[h] \in {"matched", "kept"} /\ job[h].lead = l)
    <2>1. job'[h] = job[h]
      BY <1>5 DEF GiveBack
    <2>2. OnEvent(h) => OnEvent(h)'
      BY <1>1, <2>1 DEF OnEvent, DeliveryOf
    <2>3. OnMail(h) => OnMail(h)'
      BY <1>1, <2>1 DEF OnMail, Received
    <2>4. Suppressed(job[h].to) => Suppressed(job[h].to)'
      BY <1>1, <2>1 DEF Suppressed
    <2>5. pc[h] \in {"matched", "kept"} /\ held[job[h].lead] => held'[job[h].lead]
      BY <1>1, <1>3, <1>5 DEF Fine, TypeOK
    <2>6. Fine(h)'
      BY <1>1, <1>3, <2>1, <2>2, <2>3, <2>4, <2>5 DEF Fine
    <2> QED
      BY <1>2, <2>1, <2>6
  <1> QED
    BY <1>4, <1>5

LEMMA GiveBackKeeps ==
  ASSUME ChannelInv, NEW l \in Lead, GiveBack(l)
  PROVE  Preserved
  <1>1. /\ held' = [held EXCEPT ![l] = FALSE]
        /\ UNCHANGED <<lead, suppression, stored, mail, arrived, emitted, outstanding, pc,
                       faults, overlapped, crossed>>
    BY DEF GiveBack, providerVars, ghostVars
  <1>2. \A h \in Handler : /\ job'[h].notice = job[h].notice
                           /\ job'[h] = None <=> job[h] = None
                           /\ job'[h] \in Job \cup {None}
                           /\ Fine(h)'
    BY InvParts, GivenBack
  <1>3. HandlerInv'
    BY <1>2 DEF HandlerInv
  <1>4. RowType' /\ UnusedType'
    BY <1>1, InvParts DEF RowType, UnusedType
  <1>5. HandlerType'
    <2>1. job' \in [Handler -> Job \cup {None}]
      BY <1>2 DEF GiveBack
    <2> QED
      BY <1>1, <1>2, <2>1, InvParts DEF HandlerType
  <1>6. TypeOK'
    BY <1>4, <1>5 DEF TypeOK, RowType, HandlerType, UnusedType
  <1>7. ProviderInv'
    BY <1>1, InvParts, CalmKeeps DEF ProviderCalm
  <1>8. RoomInv'
    BY <1>1, InvParts DEF RoomInv, Composers, Unused
  <1>9. SingleInv' /\ ReplyInv'
    <2>1. \A h \in Server : h \in Handler
      BY DEF Handler
    <2>2. \A i \in Inbound : /\ TakenBy(Received(i))' = TakenBy(Received(i))
                             /\ Answers(i)' = Answers(i)
      BY <1>1, <1>2, <2>1 DEF TakenBy, Received, Answers
    <2>3. \A i \in Inbound : Answering(i)' = Answering(i)
      BY <1>1, <2>2 DEF Answering
    <2>4. ReplyShrinks /\ SingleShrinks
      BY <1>1, <2>2, <2>3 DEF ReplyShrinks, SingleShrinks
    <2> QED
      BY <2>4, InvParts, ReplyKept, SingleKept
  <1>10. NothingToBarred' /\ StatusAgrees' /\ Stuck
    BY <1>1, InvParts, SameMail, MailKeptSame, RowsKept
  <1>11. AnsweredSuppresses'
    BY <1>1, InvParts DEF AnsweredSuppresses, DeliveryOf, Suppressed
  <1> QED
    BY <1>3, <1>6, <1>7, <1>8, <1>9, <1>10, <1>11 DEF Preserved, ChannelInv

LEMMA CrashKeeps ==
  ASSUME ChannelInv, Crash
  PROVE  Preserved
  <1>1. /\ Fault
        /\ pc' = [h \in Handler |-> "idle"] /\ job' = [h \in Handler |-> None]
        /\ UNCHANGED <<rowVars, mail, providerVars, ghostVars>>
    BY DEF Crash
  <1>2. faults' \in 0 .. MaxFaults
    BY <1>1, InvParts, FaultType
  <1>3. RowType' /\ UnusedType'
    BY <1>1, <1>2, InvParts DEF RowType, UnusedType, rowVars, providerVars, ghostVars
  <1>4. HandlerType'
    BY <1>1 DEF HandlerType, Step
  <1>5. TypeOK'
    BY <1>3, <1>4 DEF TypeOK, RowType, HandlerType, UnusedType
  <1>6. HandlerInv'
    BY <1>1, FineIdle DEF HandlerInv
  <1>7. Grows
    BY <1>1 DEF Grows, rowVars, providerVars
  <1>8. MailKept /\ UNCHANGED <<lead, suppression, crossed, stored, overlapped>>
    BY <1>1, SameMail DEF rowVars, ghostVars
  <1>9. /\ \A i \in Inbound : TakenBy(Received(i))' = {} /\ Answering(i)' = {}
        /\ Composers' = {}
    BY <1>1 DEF TakenBy, Answering, Composers, Composing, Handler
  <1>10. RoomShrinks /\ ReplyShrinks /\ SingleShrinks
    <2>1. \A s \in Server : pc'[s] # "matched"
      BY <1>1 DEF Handler
    <2> QED
      BY <1>8, <1>9, <2>1, MailKeptSame DEF RoomShrinks, ReplyShrinks, SingleShrinks
  <1>11. RoomInv' /\ ReplyInv' /\ SingleInv'
    BY <1>10, InvParts, RoomKept, ReplyKept, SingleKept
  <1>12. NothingToBarred' /\ StatusAgrees' /\ Stuck
    BY <1>8, InvParts, MailKeptSame, RowsKept
  <1>13. ProviderInv' /\ AnsweredSuppresses'
    BY <1>1, <1>7, InvParts, CalmKeeps, NoAnswer, AnsweredKept DEF ProviderCalm, providerVars
  <1> QED
    BY <1>5, <1>6, <1>11, <1>12, <1>13 DEF Preserved, ChannelInv

-----------------------------------------------------------------------------
(* The invariant, and what follows from it.                                 *)

LEMMA InitInv ==
  ASSUME Init
  PROVE  ChannelInv
  <1>1. TypeOK
    <2>1. lead \in [Lead -> LeadRow]
      BY DEF Init, LeadRow
    <2>2. mail \in [Mail -> MailRow]
      BY DEF Init, MailRow
    <2>3. suppression \in [Address -> Reason]
      BY DEF Init, Reason
    <2>4. faults \in 0 .. MaxFaults /\ stored \in [Inbound -> Nat]
      BY ChannelAssumption DEF Init
    <2>5. RowType
      BY <2>1, <2>2, <2>3, <2>4 DEF Init, RowType
    <2>6. HandlerType
      BY DEF Init, HandlerType, Step
    <2>7. UnusedType
      BY DEF Init, UnusedType
    <2> QED
      BY <2>5, <2>6, <2>7, TypeParts
  <1>2. HandlerInv
    BY DEF Init, HandlerInv, Fine, Composing
  <1>3. ProviderInv
    BY DEF Init, ProviderInv
  <1>4. RoomInv
    <2>1. Composers = {}
      BY DEF Init, Composers, Composing
    <2> QED
      BY <2>1, FS_EmptySet, UnusedFinite DEF RoomInv
  <1>5. \A i \in Inbound : TakenBy(Received(i)) = {} /\ Answers(i) = {}
    BY ChannelAssumption DEF Init, TakenBy, Answers, Handler
  <1>6. SingleInv
    BY <1>5 DEF Init, SingleInv
  <1>7. ReplyInv
    <2>1. \A i \in Inbound : Answering(i) = {} /\ Answers(i) = {}
      BY <1>5 DEF Answering
    <2>2. \A i \in Inbound :
            Cardinality(Answering(i)) = 0 /\ Cardinality(Answers(i)) = 0 /\ stored[i] = 0
      BY <2>1, FS_EmptySet DEF Init
    <2> QED
      BY <2>2 DEF ReplyInv
  <1>8. NothingToBarred
    BY DEF Init, NothingToBarred
  <1>9. StatusAgrees
    BY DEF Init, StatusAgrees, Suppressed, Blocked
  <1>10. AnsweredSuppresses
    BY DEF Init, AnsweredSuppresses
  <1> QED
    BY <1>1, <1>2, <1>3, <1>4, <1>6, <1>7, <1>8, <1>9, <1>10 DEF ChannelInv

LEMMA StepInv ==
  ASSUME ChannelInv, [Next]_vars
  PROVE  Preserved
  <1>1. CASE UNCHANGED vars
    <2>1. UNCHANGED <<lead, suppression, stored, mail, pc, job, ghostVars>>
      BY <1>1 DEF vars, rowVars, ghostVars
    <2>2. RowType' /\ UnusedType' /\ Grows
      BY <1>1, InvParts DEF RowType, UnusedType, Grows, vars, rowVars, providerVars, ghostVars
    <2>3. ProviderInv' /\ AnsweredSuppresses'
      BY <1>1, <2>2, InvParts, CalmKeeps, NoAnswer, AnsweredKept
         DEF ProviderCalm, vars, providerVars
    <2> QED
      BY <2>1, <2>2, <2>3, NobodyKeeps
  <1>2. CASE ProviderStep
    BY <1>2, EmailArrivesKeeps, EmitKeeps, RedeliverKeeps DEF ProviderStep
  <1>3. CASE TakeNotice
    BY <1>3, TakeEventKeeps, TakeInboundKeeps DEF TakeNotice
  <1>4. CASE Request
    BY <1>4, StartSendKeeps, StartChangeKeeps, OpenUnsubscribeKeeps DEF Request
  <1>5. ASSUME NEW h \in Handler, Continue(h) \/ FetchFails(h) \/ CallFails(h)
        PROVE  Preserved
    <2>1. CASE RecordEvent(h) \/ LoseConflict(h) \/ MatchInbound(h) \/ StoreInbound(h)
      BY <2>1, RecordEventKeeps, LoseConflictKeeps, MatchInboundKeeps, StoreInboundKeeps
    <2>2. CASE KeepOnly(h) \/ AskModel(h) \/ DiscardReply(h)
      BY <2>2, KeepOnlyKeeps, AskModelKeeps, DiscardReplyKeeps
    <2>3. CASE CallProvider(h) \/ RecordReply(h) \/ RecordMail(h)
      BY <2>3, CallProviderKeeps, RecordReplyKeeps, RecordMailKeeps
    <2>4. CASE ChangeAddress(h) \/ Unsubscribe(h)
      BY <2>4, ChangeAddressKeeps, UnsubscribeKeeps
    <2>5. CASE FetchFails(h) \/ CallFails(h)
      BY <2>5, FetchFailsKeeps, CallFailsKeeps
    <2> QED
      BY <1>5, <2>1, <2>2, <2>3, <2>4, <2>5 DEF Continue
  <1>6. CASE Crash
    BY <1>6, CrashKeeps
  <1>7. CASE \E l \in Lead : TakeOver(l) \/ GiveBack(l)
    BY <1>7, TakeOverKeeps, GiveBackKeeps
  <1> QED
    BY <1>1, <1>2, <1>3, <1>4, <1>5, <1>6, <1>7 DEF Next

\* The rows, and what every handler has in memory, stay consistent.
THEOREM ChannelInvariant == Spec => []ChannelInv
  <1>1. ChannelInv /\ [Next]_vars => ChannelInv'
    BY StepInv DEF Preserved
  <1> QED
    BY <1>1, InitInv, PTL DEF Spec

\* However often an inbound email is announced, its server dies or its answer
\* is lost: it is stored once and answered at most once, unless two servers had
\* it at the same time (process_inbound_email_event).
THEOREM RepliesOnce == Spec => []OneReply
  <1>1. ChannelInv => OneReply
    <2>1. ASSUME ChannelInv, NEW i \in Inbound
          PROVE  /\ Cardinality(Answers(i)) <= stored[i]
                 /\ ~overlapped[i] => stored[i] <= 1
      BY <2>1, InvParts, AnswersFinite DEF ReplyInv, SingleInv, RowType
    <2> QED
      BY <2>1, InvParts DEF OneReply, Answers
  <1> QED
    BY <1>1, ChannelInvariant, PTL

\* Nobody on the do-not-email list when a sender began is sent a mail, and no
\* lead that was taken over then, and not given back since, is sent a reply.
THEOREM BarredGetNothing == Spec => []NothingToBarred
  <1>1. ChannelInv => NothingToBarred
    BY DEF ChannelInv
  <1> QED
    BY <1>1, ChannelInvariant, PTL

\* The status of a lead and the do-not-email list agree, in any order of the
\* events that write them, but for writes from an outdated read.
THEOREM StatusesAgree == Spec => []StatusAgrees
  <1>1. ChannelInv => StatusAgrees
    BY DEF ChannelInv
  <1> QED
    BY <1>1, ChannelInvariant, PTL

\* A bounce or complaint that was answered is on the list, however the notice
\* was repeated and whoever died over it (handle_resend_event).
THEOREM AnsweredAreSuppressed == Spec => []AnsweredSuppresses
  <1>1. ChannelInv => AnsweredSuppresses
    BY DEF ChannelInv
  <1> QED
    BY <1>1, ChannelInvariant, PTL

\* No step takes an address off the list or replaces what its customer said by
\* a bounce.
THEOREM SuppressionsStick == Spec => SuppressionSticks
  <1> DEFINE Kept == \A a \in Address :
                        LET old == suppression[a]  new == suppression'[a] IN
                        /\ old # "none" => new # "none"
                        /\ old \in {"complaint", "unsubscribed"} =>
                               new \in {"complaint", "unsubscribed"}
  <1>1. ASSUME ChannelInv, [Next]_vars
        PROVE  Kept
    <2>1. Stuck
      BY <1>1, StepInv DEF Preserved
    <2> QED
      BY <2>1 DEF Stuck
  <1> QED
    BY <1>1, ChannelInvariant, PTL DEF Spec, SuppressionSticks

=============================================================================
