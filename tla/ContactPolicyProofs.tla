------------------------- MODULE ContactPolicyProofs -------------------------
(***************************************************************************)
(* Proofs about the contact policy for any number of phones, senders and    *)
(* identities at Meta, and for all caps.                                    *)
(*                                                                          *)
(* Everything rests on the lock of the tenant's row: one sender at a time    *)
(* is between its decision and its answer, and what its decision read is     *)
(* then as it was, but for the counters, which a decision that was rolled    *)
(* back may raise from a transaction of its own.                            *)
(***************************************************************************)
EXTENDS ContactPolicy, FiniteSetTheorems, TLAPS

\* The tenant's row is locked by one sender at most.
OneCaller ==
    \A s, t \in Sender : pc[s] = "calling" /\ pc[t] = "calling" => s = t

\* What the decision of a sender that is calling has read still holds.
DecisionStands ==
    \A s \in Sender : pc[s] = "calling" =>
        LET p == job[s].phone IN
        /\ consent[p] = "active" /\ ~optedOut[p] /\ outbound
        /\ held[p] => p \in Operator \/ job[s].kind = "manual"

\* Decisions that are not in the count yet although the provider took the
\* message.
Uncounted ==
    {s \in Sender : pc[s] = "persisting" /\ job[s].accepted /\ job[s].today}

\* Messages are counted with their decision, are late, or wait to be written
\* again; and a sender whose decision found room still has it.
CountInv ==
    /\ delivered <= DailyCap + late
    /\ delivered <= allowed + late
    /\ delivered <= allowed + lost + Cardinality(Uncounted)
    /\ \A s \in Sender :
         pc[s] = "calling" /\ job[s].today => delivered < DailyCap + late

\* A template's identity is pinned once, before it is sent; only the first pin
\* may be lost with the send that made it.
IdentityInv ==
    /\ \A sent \in sentAs : sent[2] \/ sent[1] = template.pinned
    /\ \A s \in Sender : pc[s] = "calling" /\ job[s].kind = "template" =>
         /\ job[s].template.pinned # None
         /\ template.pinned \in {None, job[s].template.pinned}

PolicyInv == TypeOK /\ OneCaller /\ DecisionStands /\ CountInv /\ IdentityInv

-----------------------------------------------------------------------------
(* What verifying a template leaves.                                        *)

\* An approved template is pinned, a pinned one stays as it is pinned.
LEMMA VerifiedKeeps ==
  ASSUME NEW row \in Template, row.approved => row.pinned # None,
         meta \in MetaId,
         NEW new \in Verified(row)
  PROVE  /\ new \in Template
         /\ new.approved => new.pinned # None
         /\ row.pinned # None => new.pinned = row.pinned
  <1>1. CASE row.retired
    BY <1>1 DEF Verified
  <1>2. CASE new = [row EXCEPT !.approved = FALSE]
    BY <1>2 DEF Template
  <1>3. CASE ~row.retired /\ new = Refreshed(row)
    BY <1>3, PolicyAssumption DEF Refreshed, Template
  <1> QED
    BY <1>1, <1>2, <1>3 DEF Verified

-----------------------------------------------------------------------------
(* Type correctness.                                                        *)

LEMMA InitType == Init => TypeOK
  BY PolicyAssumption DEF Init, TypeOK, Template

LEMMA FaultType ==
  ASSUME faults \in 0 .. MaxFaults, Fault
  PROVE  faults' \in 0 .. MaxFaults
  BY PolicyAssumption DEF Fault

LEMMA DecidedType ==
  ASSUME NEW p \in Phone, NEW kind \in Kind, NEW row \in Template
  PROVE  [phone |-> p, kind |-> kind, template |-> row,
          today |-> TRUE, recent |-> TRUE, accepted |-> FALSE] \in Job
  BY DEF Job

LEMMA StartType ==
  ASSUME TypeOK, NEW s \in Sender, NEW p \in Phone, NEW kind \in Kind,
         StartSend(s, p, kind)
  PROVE  TypeOK'
  <1>1. PICK row \in IF kind = "template" THEN Verified(template) ELSE {template},
             inStore \in BOOLEAN, clock \in Clock :
          IF Allowed(p, kind, row, inStore, clock)
          THEN /\ pc' = [pc EXCEPT ![s] = "calling"]
               /\ job' = [job EXCEPT ![s] =
                     [phone |-> p, kind |-> kind, template |-> row,
                      today |-> TRUE, recent |-> TRUE, accepted |-> FALSE]]
               /\ UNCHANGED template
          ELSE template' = row /\ UNCHANGED <<pc, job>>
    BY DEF StartSend
  <1>2. row \in Template /\ (row.approved => row.pinned # None)
    BY VerifiedKeeps DEF TypeOK
  <1>3. UNCHANGED <<contactVars, outbound, meta, countVars, faults, ghostVars>>
    BY DEF StartSend
  <1>4. CASE Allowed(p, kind, row, inStore, clock)
    BY <1>1, <1>2, <1>3, <1>4, DecidedType
    DEF TypeOK, contactVars, countVars, ghostVars
  <1>5. CASE ~Allowed(p, kind, row, inStore, clock)
    BY <1>1, <1>2, <1>3, <1>5 DEF TypeOK, contactVars, countVars, ghostVars
  <1> QED
    BY <1>4, <1>5

LEMMA SendType ==
  ASSUME TypeOK, IdentityInv, NEW s \in Sender,
         \/ Accept(s) \/ RollBack(s, TRUE) \/ RollBack(s, FALSE)
         \/ PersistDecision(s) \/ Crash(s)
  PROVE  TypeOK'
  <1> USE DEF TypeOK
  <1>1. pc[s] # "idle" /\ job[s] \in Job
    BY DEF Accept, RollBack, PersistDecision, Crash
  <1>2. /\ job[s].phone \in Phone /\ job[s].template \in Template
        /\ job[s].today \in BOOLEAN /\ job[s].recent \in BOOLEAN /\ job[s].kind \in Kind
    BY <1>1 DEF Job
  <1>3. ASSUME CountDecision(s)
        PROVE  allowed' \in Nat /\ window' \in [Phone -> Nat]
    BY <1>2, <1>3 DEF CountDecision
  <1>4. ASSUME NEW isLate \in BOOLEAN, NEW isLost \in BOOLEAN, pc[s] = "calling",
               NoteDelivery(s, isLate, isLost)
        PROVE  /\ delivered' \in Nat /\ late' \in Nat /\ lost' \in Nat
               /\ sentAs' \in SUBSET (MetaId \X BOOLEAN)
    <2>1. delivered' \in Nat /\ late' \in Nat /\ lost' \in Nat
      BY <1>4 DEF NoteDelivery
    <2>2. job[s].kind = "template" => job[s].template.pinned \in MetaId
      BY <1>2, <1>4 DEF IdentityInv, Template
    <2>3. (isLate /\ template.pinned = None) \in BOOLEAN
      OBVIOUS
    <2>4. job[s].kind = "template" =>
            <<job[s].template.pinned, isLate /\ template.pinned = None>> \in MetaId \X BOOLEAN
      BY <2>2, <2>3
    <2>5. sentAs' \in SUBSET (MetaId \X BOOLEAN)
      BY <1>4, <2>4 DEF NoteDelivery
    <2> QED
      BY <2>1, <2>5
  <1>5. ASSUME Accept(s)
        PROVE  TypeOK'
    <2>1. template' \in Template /\ (template'.approved => template'.pinned # None)
      BY <1>2, <1>5 DEF Accept, IdentityInv
    <2>3. allowed' \in Nat /\ window' \in [Phone -> Nat]
      BY <1>3, <1>5 DEF Accept
    <2>4. /\ delivered' \in Nat /\ late' \in Nat /\ lost' \in Nat
          /\ sentAs' \in SUBSET (MetaId \X BOOLEAN)
      BY <1>4, <1>5 DEF Accept
    <2> QED
      BY <1>5, <2>1, <2>3, <2>4 DEF Accept, Leave, contactVars
  <1>6. ASSUME NEW b \in BOOLEAN, RollBack(s, b)
        PROVE  TypeOK'
    <2>1. /\ delivered' \in Nat /\ late' \in Nat /\ lost' \in Nat
          /\ sentAs' \in SUBSET (MetaId \X BOOLEAN)
      BY <1>4, <1>6 DEF RollBack, ghostVars
    <2>2. [job[s] EXCEPT !.accepted = b] \in Job
      BY <1>1 DEF Job
    <2> QED
      BY <1>6, <2>1, <2>2, FaultType DEF RollBack, contactVars, tenantVars, countVars
  <1>7. ASSUME PersistDecision(s)
        PROVE  TypeOK'
    <2>1. allowed' \in Nat /\ window' \in [Phone -> Nat]
      BY <1>3, <1>7 DEF PersistDecision
    <2> QED
      BY <1>7, <2>1 DEF PersistDecision, Leave, contactVars, tenantVars, ghostVars
  <1>8. ASSUME Crash(s)
        PROVE  TypeOK'
    <2>1. /\ delivered' \in Nat /\ late' \in Nat /\ lost' \in Nat
          /\ sentAs' \in SUBSET (MetaId \X BOOLEAN)
      <3>1. CASE pc[s] = "calling"
        BY <1>4, <1>8, <3>1 DEF Crash, ghostVars
      <3>2. CASE pc[s] # "calling"
        <4>1. /\ lost' = lost + (IF job[s].today /\ job[s].accepted THEN 1 ELSE 0)
              /\ UNCHANGED <<delivered, late, sentAs>>
          BY <1>8, <3>2 DEF Crash
        <4>2. lost' \in Nat
          BY <4>1
        <4> QED
          BY <4>1, <4>2
      <3> QED
        BY <3>1, <3>2
    <2> QED
      BY <1>8, <2>1, FaultType DEF Crash, Leave, contactVars, tenantVars, countVars
  <1> QED
    BY <1>5, <1>6, <1>7, <1>8

LEMMA RowsType ==
  ASSUME TypeOK,
         \/ \E p \in Phone : Contact(p)
         \/ Tenant
  PROVE  TypeOK'
  <1> USE DEF TypeOK
  <1>1. ASSUME NEW p \in Phone, NEW when \in {"future", "active"}, RecordConsent(p, when)
        PROVE  TypeOK'
    BY <1>1 DEF RecordConsent, Consent, tenantVars, countVars, ghostVars
  <1>2. ASSUME NEW p \in Phone, ConsentTakesEffect(p)
        PROVE  TypeOK'
    BY <1>2 DEF ConsentTakesEffect, tenantVars, countVars, ghostVars
  <1>3. ASSUME NEW p \in Phone, RecordOptOut(p)
        PROVE  TypeOK'
    BY <1>3 DEF RecordOptOut, tenantVars, countVars, ghostVars
  <1>4. ASSUME NEW p \in Phone, WindowPasses(p)
        PROVE  TypeOK'
    <2>1. \A s \in Sender : job[s] \in Job => job'[s] \in Job
      BY <1>4 DEF WindowPasses, Job
    <2>2. \A s \in Sender : job[s] = None => job'[s] \in {None} \cup Job
      BY <1>4 DEF WindowPasses
    <2>3. job' \in [Sender -> Job \cup {None}]
      BY <1>4, <2>1, <2>2 DEF WindowPasses
    <2>4. \A s \in Sender : pc[s] = "idle" => job'[s] = None
      BY <1>4 DEF WindowPasses
    <2> QED
      BY <1>4, <2>1, <2>3, <2>4 DEF WindowPasses, contactVars, tenantVars, ghostVars
  <1>5. ASSUME NEW p \in Phone, SetTakeover(p)
        PROVE  TypeOK'
    BY <1>5 DEF SetTakeover, tenantVars, countVars, ghostVars
  <1>6. ASSUME UpdatePolicy
        PROVE  TypeOK'
    BY <1>6 DEF UpdatePolicy, contactVars, countVars, ghostVars
  <1>7. ASSUME NewDay
        PROVE  TypeOK'
    <2>1. \A s \in Sender : job[s] \in Job => job'[s] \in Job
      BY <1>7 DEF NewDay, Job
    <2> QED
      BY <1>7, <2>1, FaultType DEF NewDay, contactVars, tenantVars
  <1>8. ASSUME MetaChanges
        PROVE  TypeOK'
    BY <1>8, FaultType DEF MetaChanges, contactVars, countVars, ghostVars
  <1>9. ASSUME NEW b \in BOOLEAN, UpsertTemplate(b)
        PROVE  TypeOK'
    <2>1. template' \in Template /\ (template'.approved => template'.pinned # None)
      <3> DEFINE row == [template EXCEPT !.retired = @ \/ b]
      <3>1. row \in Template /\ (row.approved => row.pinned # None)
        BY DEF Template
      <3> QED
        BY <1>9, <3>1, VerifiedKeeps DEF UpsertTemplate
    <2> QED
      BY <1>9, <2>1 DEF UpsertTemplate, contactVars, countVars, ghostVars
  <1> QED
    BY <1>1, <1>2, <1>3, <1>4, <1>5, <1>6, <1>7, <1>8, <1>9 DEF Contact, Tenant

LEMMA TypeNext ==
  ASSUME TypeOK, IdentityInv, [Next]_vars
  PROVE  TypeOK'
  <1>1. CASE UNCHANGED vars
    BY <1>1 DEF TypeOK, vars, contactVars, tenantVars, countVars, ghostVars
  <1> QED
    BY <1>1, RowsType, StartType, SendType DEF Next, Send

-----------------------------------------------------------------------------
(* The tenant's lock and what it protects.                                  *)

\* Only StartSend begins a call, and only where there is none.
LEMMA CallerNext ==
  ASSUME TypeOK, OneCaller, [Next]_vars
  PROVE  OneCaller'
  <1> USE DEF TypeOK, OneCaller
  <1>1. ASSUME NEW s \in Sender, NEW p \in Phone, NEW kind \in Kind, StartSend(s, p, kind)
        PROVE  OneCaller'
    BY <1>1 DEF StartSend, TenantFree
  <1>2. ASSUME NEW s \in Sender,
               \/ Accept(s) \/ RollBack(s, TRUE) \/ RollBack(s, FALSE)
               \/ PersistDecision(s) \/ Crash(s)
        PROVE  OneCaller'
    BY <1>2 DEF Accept, RollBack, PersistDecision, Crash, Leave
  <1>3. ASSUME (\E p \in Phone : Contact(p)) \/ Tenant \/ UNCHANGED vars
        PROVE  OneCaller'
    BY <1>3 DEF Contact, Tenant, RecordConsent, ConsentTakesEffect, RecordOptOut,
                WindowPasses, SetTakeover, UpdatePolicy, NewDay, MetaChanges,
                UpsertTemplate, vars
  <1> QED
    BY <1>1, <1>2, <1>3 DEF Next, Send

\* Whoever writes a consent, an opt-out, the policy or the flag of the lead
\* waits for the call that has read it.
LEMMA DecisionNext ==
  ASSUME TypeOK, OneCaller, DecisionStands, [Next]_vars
  PROVE  DecisionStands'
  <1> USE DEF TypeOK, DecisionStands
  <1>1. ASSUME NEW s \in Sender, NEW p \in Phone, NEW kind \in Kind, StartSend(s, p, kind)
        PROVE  DecisionStands'
    <2>1. PICK row \in IF kind = "template" THEN Verified(template) ELSE {template},
               inStore \in BOOLEAN, clock \in Clock :
            IF Allowed(p, kind, row, inStore, clock)
            THEN /\ pc' = [pc EXCEPT ![s] = "calling"]
                 /\ job' = [job EXCEPT ![s] =
                       [phone |-> p, kind |-> kind, template |-> row,
                        today |-> TRUE, recent |-> TRUE, accepted |-> FALSE]]
                 /\ UNCHANGED template
            ELSE template' = row /\ UNCHANGED <<pc, job>>
      BY <1>1 DEF StartSend
    <2>2. UNCHANGED <<consent, optedOut, held, outbound>>
      BY <1>1 DEF StartSend, contactVars
    <2>3. CASE Allowed(p, kind, row, inStore, clock)
      BY <1>1, <2>1, <2>2, <2>3 DEF StartSend, TenantFree, Allowed, TakenOver, MayContact
    <2>4. CASE ~Allowed(p, kind, row, inStore, clock)
      BY <2>1, <2>2, <2>4
    <2> QED
      BY <2>3, <2>4
  <1>2. ASSUME NEW s \in Sender,
               \/ Accept(s) \/ RollBack(s, TRUE) \/ RollBack(s, FALSE)
               \/ PersistDecision(s) \/ Crash(s)
        PROVE  DecisionStands'
    <2>1. UNCHANGED <<consent, optedOut, held, outbound>>
      BY <1>2 DEF Accept, RollBack, PersistDecision, Crash, contactVars, tenantVars
    <2>2. \A t \in Sender : pc'[t] = "calling" =>
            pc[t] = "calling" /\ job'[t] = job[t]
      BY <1>2 DEF Accept, RollBack, PersistDecision, Crash, Leave
    <2> QED
      BY <2>1, <2>2
  <1>3. ASSUME NEW p \in Phone, NEW when \in {"future", "active"}, RecordConsent(p, when)
        PROVE  DecisionStands'
    BY <1>3 DEF RecordConsent, TenantFree
  <1>4. ASSUME NEW p \in Phone, ConsentTakesEffect(p)
        PROVE  DecisionStands'
    BY <1>4 DEF ConsentTakesEffect, tenantVars
  <1>5. ASSUME NEW p \in Phone, RecordOptOut(p)
        PROVE  DecisionStands'
    BY <1>5 DEF RecordOptOut, TenantFree
  <1>6. ASSUME NEW p \in Phone, WindowPasses(p)
        PROVE  DecisionStands'
    <2>1. \A s \in Sender : pc[s] = "calling" =>
            job'[s].phone = job[s].phone /\ job'[s].kind = job[s].kind
      BY <1>6 DEF WindowPasses, Job
    <2> QED
      BY <1>6, <2>1 DEF WindowPasses, contactVars, tenantVars
  <1>7. ASSUME NEW p \in Phone, SetTakeover(p)
        PROVE  DecisionStands'
    BY <1>7 DEF SetTakeover, LeadFree, tenantVars
  <1>8. ASSUME UpdatePolicy
        PROVE  DecisionStands'
    <2>1. \A s \in Sender : pc[s] = "calling" => job[s].phone \in Phone
      BY DEF Job
    <2> QED
      BY <1>8, <2>1 DEF UpdatePolicy, TenantFree
  <1>9. ASSUME NewDay
        PROVE  DecisionStands'
    <2>1. \A s \in Sender : pc[s] = "calling" =>
            job'[s].phone = job[s].phone /\ job'[s].kind = job[s].kind
      BY <1>9 DEF NewDay, Job
    <2> QED
      <3>1. UNCHANGED <<pc, consent, optedOut, held, outbound>>
        BY <1>9 DEF NewDay, contactVars, tenantVars
      <3> QED
        BY <2>1, <3>1
  <1>10. ASSUME MetaChanges \/ UpsertTemplate(TRUE) \/ UpsertTemplate(FALSE) \/ UNCHANGED vars
         PROVE  DecisionStands'
    BY <1>10 DEF MetaChanges, UpsertTemplate, vars, contactVars, tenantVars
  <1> QED
    BY <1>1, <1>2, <1>3, <1>4, <1>5, <1>6, <1>7, <1>8, <1>9, <1>10
    DEF Next, Send, Contact, Tenant

-----------------------------------------------------------------------------
(* The daily cap.                                                           *)

LEMMA UncountedFinite == IsFiniteSet(Uncounted) /\ Cardinality(Uncounted) \in Nat
  <1>1. Uncounted \in SUBSET Sender /\ IsFiniteSet(Sender)
    BY PolicyAssumption DEF Uncounted
  <1> QED
    BY <1>1, FS_Subset, FS_CardinalityType

\* What the ghosts count of a step is at most one message.
LEMMA CountNext ==
  ASSUME TypeOK, OneCaller, CountInv, [Next]_vars
  PROVE  CountInv'
  <1> USE PolicyAssumption DEF TypeOK
  <1>a. IsFiniteSet(Uncounted) /\ Cardinality(Uncounted) \in Nat
    BY UncountedFinite
  <1>b. Cardinality(Uncounted') \in Nat
    <2>1. Uncounted' \in SUBSET Sender
      BY DEF Uncounted
    <2> QED
      BY <2>1, FS_Subset, FS_CardinalityType
  <1>1. ASSUME NEW s \in Sender, NEW p \in Phone, NEW kind \in Kind, StartSend(s, p, kind)
        PROVE  CountInv'
    <2>1. PICK row \in IF kind = "template" THEN Verified(template) ELSE {template},
               inStore \in BOOLEAN, clock \in Clock :
            IF Allowed(p, kind, row, inStore, clock)
            THEN /\ pc' = [pc EXCEPT ![s] = "calling"]
                 /\ job' = [job EXCEPT ![s] =
                       [phone |-> p, kind |-> kind, template |-> row,
                        today |-> TRUE, recent |-> TRUE, accepted |-> FALSE]]
                 /\ UNCHANGED template
            ELSE template' = row /\ UNCHANGED <<pc, job>>
      BY <1>1 DEF StartSend
    <2>2. UNCHANGED <<allowed, delivered, late, lost>> /\ pc[s] = "idle"
      BY <1>1 DEF StartSend, countVars, ghostVars
    <2>3. Uncounted' = Uncounted
      BY <2>1, <2>2 DEF Uncounted
    <2>4. CASE Allowed(p, kind, row, inStore, clock)
      <3>1. allowed < DailyCap
        BY <2>4 DEF Allowed, WithinCaps
      <3>2. delivered < DailyCap + late
        BY <3>1 DEF CountInv
      <3> QED
        BY <2>1, <2>2, <2>3, <2>4, <3>2 DEF CountInv
    <2>5. CASE ~Allowed(p, kind, row, inStore, clock)
      BY <2>1, <2>2, <2>3, <2>5 DEF CountInv
    <2> QED
      BY <2>4, <2>5
  \* A decision that is counted at once, or whose message nobody counts.
  <1>2. ASSUME NEW s \in Sender, Accept(s)
        PROVE  CountInv'
    <2>1. /\ pc[s] = "calling" /\ pc' = [pc EXCEPT ![s] = "idle"]
          /\ job' = [job EXCEPT ![s] = None]
          /\ job[s].today \in BOOLEAN /\ late' = late /\ lost' = lost
          /\ delivered' = delivered + (IF job[s].today THEN 1 ELSE 0)
          /\ allowed' = allowed + (IF job[s].today THEN 1 ELSE 0)
      BY <1>2 DEF Accept, Leave, NoteDelivery, CountDecision, Job
    <2>2. Uncounted' = Uncounted
      BY <2>1 DEF Uncounted
    <2>3. \A t \in Sender : pc'[t] # "calling"
      BY <2>1 DEF OneCaller
    <2> QED
      BY <1>a, <2>1, <2>2, <2>3 DEF CountInv
  <1>3. ASSUME NEW s \in Sender, NEW b \in BOOLEAN, RollBack(s, b)
        PROVE  CountInv'
    <2>1. /\ pc[s] = "calling" /\ pc' = [pc EXCEPT ![s] = "persisting"]
          /\ job' = [job EXCEPT ![s] = [job[s] EXCEPT !.accepted = b]]
          /\ job[s].today \in BOOLEAN /\ lost' = lost /\ allowed' = allowed
      BY <1>3 DEF RollBack, NoteDelivery, countVars, ghostVars, Job
    <2>2. /\ delivered' = delivered + (IF b /\ job[s].today THEN 1 ELSE 0)
          /\ late' = late + (IF b /\ job[s].today THEN 1 ELSE 0)
      BY <1>3 DEF RollBack, NoteDelivery, ghostVars
    <2>3. /\ job'[s].accepted = b /\ job'[s].today = job[s].today
          /\ \A t \in Sender \ {s} : job'[t] = job[t] /\ pc'[t] = pc[t]
      BY <2>1 DEF Job
    <2>4. s \notin Uncounted
      BY <2>1 DEF Uncounted
    <2>5. Uncounted' = IF b /\ job[s].today THEN Uncounted \cup {s} ELSE Uncounted
      BY <2>1, <2>3, <2>4 DEF Uncounted
    <2>6. Cardinality(Uncounted') =
            Cardinality(Uncounted) + (IF b /\ job[s].today THEN 1 ELSE 0)
      <3>1. Cardinality(Uncounted \cup {s}) = Cardinality(Uncounted) + 1
        BY <1>a, <2>4, FS_AddElement
      <3> QED
        BY <2>1, <2>5, <3>1, <1>a
    <2>7. \A t \in Sender : pc'[t] # "calling"
      BY <2>1 DEF OneCaller
    <2> QED
      BY <1>a, <2>1, <2>2, <2>6, <2>7 DEF CountInv
  <1>4. ASSUME NEW s \in Sender, PersistDecision(s)
        PROVE  CountInv'
    <2>1. /\ pc[s] = "persisting" /\ pc' = [pc EXCEPT ![s] = "idle"]
          /\ job' = [job EXCEPT ![s] = None] /\ job[s].today \in BOOLEAN
          /\ UNCHANGED <<delivered, late, lost>>
          /\ allowed' = allowed + (IF job[s].today THEN 1 ELSE 0)
      BY <1>4 DEF PersistDecision, CountDecision, Leave, ghostVars, Job
    <2>2. Uncounted' = Uncounted \ {s}
      BY <2>1 DEF Uncounted
    <2>3. s \in Uncounted => job[s].today
      BY DEF Uncounted
    <2>4. Cardinality(Uncounted') =
            Cardinality(Uncounted) - (IF s \in Uncounted THEN 1 ELSE 0)
      <3>1. Cardinality(Uncounted \ {s}) =
              IF s \in Uncounted THEN Cardinality(Uncounted) - 1 ELSE Cardinality(Uncounted)
        BY <1>a, FS_RemoveElement
      <3> QED
        BY <1>a, <2>2, <3>1
    <2> QED
      BY <1>a, <2>1, <2>3, <2>4 DEF CountInv
  <1>5. ASSUME NEW s \in Sender, Crash(s)
        PROVE  CountInv'
    <2>1. /\ pc' = [pc EXCEPT ![s] = "idle"] /\ job' = [job EXCEPT ![s] = None]
          /\ pc[s] # "idle" /\ job[s].today \in BOOLEAN /\ allowed' = allowed
      BY <1>5 DEF Crash, Leave, countVars, Job
    <2>2. Uncounted' = Uncounted \ {s}
      BY <2>1 DEF Uncounted
    <2>3. Cardinality(Uncounted') =
            Cardinality(Uncounted) - (IF s \in Uncounted THEN 1 ELSE 0)
      <3>1. Cardinality(Uncounted \ {s}) =
              IF s \in Uncounted THEN Cardinality(Uncounted) - 1 ELSE Cardinality(Uncounted)
        BY <1>a, FS_RemoveElement
      <3> QED
        BY <1>a, <2>2, <3>1
    <2>4. CASE pc[s] = "calling"
      <3>1. \/ /\ delivered' = delivered + (IF job[s].today THEN 1 ELSE 0)
               /\ late' = late + (IF job[s].today THEN 1 ELSE 0)
               /\ lost' = lost + (IF job[s].today THEN 1 ELSE 0)
            \/ UNCHANGED <<delivered, late, lost>>
        BY <1>5, <2>4 DEF Crash, NoteDelivery, ghostVars
      <3>2. s \notin Uncounted
        BY <2>4 DEF Uncounted
      <3>3. \A t \in Sender : pc'[t] # "calling"
        BY <2>1, <2>4 DEF OneCaller
      <3> QED
        BY <1>a, <2>1, <2>3, <3>1, <3>2, <3>3 DEF CountInv
    <2>5. CASE pc[s] = "persisting"
      <3>1. /\ UNCHANGED <<delivered, late>>
            /\ lost' = lost + (IF job[s].today /\ job[s].accepted THEN 1 ELSE 0)
        BY <1>5, <2>5 DEF Crash
      <3>2. s \in Uncounted <=> job[s].today /\ job[s].accepted
        BY <2>5 DEF Uncounted
      <3> QED
        BY <1>a, <2>1, <2>3, <3>1, <3>2 DEF CountInv
    <2> QED
      BY <2>1, <2>4, <2>5
  <1>6. ASSUME NEW p \in Phone, WindowPasses(p)
        PROVE  CountInv'
    <2>1. \A s \in Sender : pc[s] # "idle" =>
            job'[s].accepted = job[s].accepted /\ job'[s].today = job[s].today
      BY <1>6 DEF WindowPasses, Job
    <2>2. UNCHANGED <<pc, allowed, delivered, late, lost>>
      BY <1>6 DEF WindowPasses, ghostVars
    <2>3. Uncounted' = Uncounted
      BY <2>1, <2>2 DEF Uncounted
    <2> QED
      BY <2>1, <2>2, <2>3 DEF CountInv
  <1>7. ASSUME NewDay
        PROVE  CountInv'
    <2>1. delivered' = 0 /\ late' = 0 /\ lost' = 0 /\ allowed' = 0
      BY <1>7 DEF NewDay
    <2> QED
      BY <1>b, <2>1 DEF CountInv
  <1>8. ASSUME UNCHANGED <<pc, job, allowed, delivered, late, lost>>
        PROVE  CountInv'
    BY <1>8 DEF CountInv, Uncounted
  <1>9. ASSUME \/ \E p \in Phone : \/ RecordConsent(p, "future") \/ RecordConsent(p, "active")
                                   \/ ConsentTakesEffect(p) \/ RecordOptOut(p)
                                   \/ SetTakeover(p)
               \/ UpdatePolicy \/ MetaChanges \/ UpsertTemplate(TRUE)
               \/ UpsertTemplate(FALSE) \/ UNCHANGED vars
        PROVE  UNCHANGED <<pc, job, allowed, delivered, late, lost>>
    BY <1>9 DEF RecordConsent, ConsentTakesEffect, RecordOptOut, SetTakeover, UpdatePolicy,
                MetaChanges, UpsertTemplate, vars, countVars, ghostVars
  <1> QED
    BY <1>1, <1>2, <1>3, <1>4, <1>5, <1>6, <1>7, <1>8, <1>9 DEF Next, Send, Contact, Tenant

-----------------------------------------------------------------------------
(* The template's identity.                                                 *)

\* What is pinned stays pinned, and only the pinned identity is sent.
LEMMA IdentityNext ==
  ASSUME TypeOK, OneCaller, IdentityInv, [Next]_vars
  PROVE  IdentityInv'
  <1> USE DEF TypeOK
  <1>a. \A sent \in sentAs : sent[1] # None
    BY PolicyAssumption
  \* What the provider takes of the sender has the identity pinned, or the first.
  <1>b. ASSUME NEW s \in Sender, NEW isLate \in BOOLEAN, NEW isLost \in BOOLEAN,
               pc[s] = "calling", NoteDelivery(s, isLate, isLost),
               \/ isLate /\ template' = template
               \/ template' = IF job[s].kind = "template" THEN job[s].template ELSE template
        PROVE  \A sent \in sentAs' : sent[2] \/ sent[1] = template'.pinned
    <2>1. CASE job[s].kind = "template"
      <3> DEFINE took == <<job[s].template.pinned, isLate /\ template.pinned = None>>
      <3>1. sentAs' = sentAs \cup {took}
        BY <1>b, <2>1 DEF NoteDelivery
      <3>2. template.pinned \in {None, job[s].template.pinned}
        BY <1>b, <2>1 DEF IdentityInv
      <3>3. took[2] \/ took[1] = template'.pinned
        BY <1>b, <2>1, <3>2
      <3>4. \A sent \in sentAs : sent[2] \/ sent[1] = template'.pinned
        BY <1>a, <1>b, <2>1, <3>2 DEF IdentityInv
      <3> QED
        BY <3>1, <3>3, <3>4
    <2>2. CASE job[s].kind # "template"
      BY <1>b, <2>2 DEF NoteDelivery, IdentityInv
    <2> QED
      BY <2>1, <2>2
  <1>1. ASSUME NEW s \in Sender, NEW p \in Phone, NEW kind \in Kind, StartSend(s, p, kind)
        PROVE  IdentityInv'
    <2>1. PICK row \in IF kind = "template" THEN Verified(template) ELSE {template},
               inStore \in BOOLEAN, clock \in Clock :
            IF Allowed(p, kind, row, inStore, clock)
            THEN /\ pc' = [pc EXCEPT ![s] = "calling"]
                 /\ job' = [job EXCEPT ![s] =
                       [phone |-> p, kind |-> kind, template |-> row,
                        today |-> TRUE, recent |-> TRUE, accepted |-> FALSE]]
                 /\ UNCHANGED template
            ELSE template' = row /\ UNCHANGED <<pc, job>>
      BY <1>1 DEF StartSend
    <2>2. /\ UNCHANGED sentAs
          /\ \A t \in Sender : pc[t] # "calling"
      BY <1>1 DEF StartSend, TenantFree, ghostVars
    <2>3. /\ row.approved => row.pinned # None
          /\ template.pinned # None => row.pinned = template.pinned
      BY <2>1, VerifiedKeeps
    <2>4. CASE Allowed(p, kind, row, inStore, clock)
      <3>1. kind = "template" => row.pinned # None
        BY <2>3, <2>4 DEF Allowed
      <3> QED
        BY <2>1, <2>2, <2>3, <2>4, <3>1 DEF IdentityInv
    <2>5. CASE ~Allowed(p, kind, row, inStore, clock)
      BY <1>a, <2>1, <2>2, <2>3, <2>5 DEF IdentityInv
    <2> QED
      BY <2>4, <2>5
  <1>2. ASSUME NEW s \in Sender, Accept(s)
        PROVE  IdentityInv'
    <2>1. \A t \in Sender : pc'[t] # "calling"
      BY <1>2 DEF Accept, Leave, OneCaller
    <2>2. \A sent \in sentAs' : sent[2] \/ sent[1] = template'.pinned
      BY <1>2, <1>b DEF Accept
    <2> QED
      BY <2>1, <2>2 DEF IdentityInv
  <1>3. ASSUME NEW s \in Sender,
               \/ RollBack(s, TRUE) \/ RollBack(s, FALSE)
               \/ PersistDecision(s) \/ Crash(s)
        PROVE  IdentityInv'
    <2>1. template' = template
      BY <1>3 DEF RollBack, PersistDecision, Crash, tenantVars
    <2>2. \A t \in Sender : pc'[t] = "calling" => pc[t] = "calling" /\ job'[t] = job[t]
      BY <1>3 DEF RollBack, PersistDecision, Crash, Leave
    <2>3. \/ pc[s] = "calling" /\ \E isLost \in BOOLEAN : NoteDelivery(s, TRUE, isLost)
          \/ UNCHANGED sentAs
      BY <1>3 DEF RollBack, PersistDecision, Crash, ghostVars
    <2>4. \A sent \in sentAs' : sent[2] \/ sent[1] = template'.pinned
      BY <1>b, <2>1, <2>3 DEF IdentityInv
    <2> QED
      BY <2>1, <2>2, <2>4 DEF IdentityInv
  <1>4. ASSUME NewDay \/ \E p \in Phone : WindowPasses(p)
        PROVE  IdentityInv'
    <2>1. UNCHANGED <<pc, template, sentAs>>
      BY <1>4 DEF NewDay, WindowPasses, tenantVars, ghostVars
    <2>2. \A s \in Sender : pc[s] # "idle" =>
            job'[s].kind = job[s].kind /\ job'[s].template = job[s].template
      <3>1. CASE NewDay
        BY <3>1 DEF NewDay, Job
      <3>2. ASSUME NEW p \in Phone, WindowPasses(p)
            PROVE  \A s \in Sender : pc[s] # "idle" =>
                     job'[s].kind = job[s].kind /\ job'[s].template = job[s].template
        BY <3>2 DEF WindowPasses, Job
      <3> QED
        BY <1>4, <3>1, <3>2
    <2> QED
      BY <2>1, <2>2 DEF IdentityInv
  <1>5. ASSUME NEW b \in BOOLEAN, UpsertTemplate(b)
        PROVE  IdentityInv'
    <2> DEFINE row == [template EXCEPT !.retired = @ \/ b]
    <2>1. row \in Template /\ row.pinned = template.pinned /\ row.approved = template.approved
      BY DEF Template
    <2>2. template.pinned # None => template'.pinned = template.pinned
      BY <1>5, <2>1, VerifiedKeeps DEF UpsertTemplate
    <2>3. \A s \in Sender : pc[s] # "calling"
      <3>1. \A s \in Sender : pc[s] = "calling" => job[s].phone \in Phone
        BY DEF Job
      <3> QED
        BY <1>5, <3>1 DEF UpsertTemplate, TenantFree
    <2> QED
      BY <1>a, <1>5, <2>2, <2>3 DEF UpsertTemplate, IdentityInv, ghostVars
  <1>6. ASSUME \/ \E p \in Phone : \/ RecordConsent(p, "future") \/ RecordConsent(p, "active")
                                   \/ ConsentTakesEffect(p) \/ RecordOptOut(p)
                                   \/ SetTakeover(p)
               \/ UpdatePolicy \/ MetaChanges \/ UNCHANGED vars
        PROVE  IdentityInv'
    <2>1. UNCHANGED <<pc, job, template, sentAs>>
      BY <1>6 DEF RecordConsent, ConsentTakesEffect, RecordOptOut, SetTakeover,
                  UpdatePolicy, MetaChanges, vars, tenantVars, ghostVars
    <2> QED
      BY <2>1 DEF IdentityInv
  <1> QED
    BY <1>1, <1>2, <1>3, <1>4, <1>5, <1>6 DEF Next, Send, Contact, Tenant

-----------------------------------------------------------------------------
(* The theorems.                                                            *)

LEMMA PolicyInductive == Spec => []PolicyInv
  <1>1. Init => PolicyInv
    <2> SUFFICES ASSUME Init PROVE PolicyInv
      OBVIOUS
    <2>1. TypeOK /\ OneCaller /\ DecisionStands /\ IdentityInv
      BY InitType DEF Init, OneCaller, DecisionStands, IdentityInv
    <2>2. CountInv
      BY UncountedFinite, PolicyAssumption DEF Init, CountInv
    <2> QED
      BY <2>1, <2>2 DEF PolicyInv
  <1>2. PolicyInv /\ [Next]_vars => PolicyInv'
    BY TypeNext, CallerNext, DecisionNext, CountNext, IdentityNext DEF PolicyInv
  <1> QED
    BY <1>1, <1>2, PTL DEF Spec

\* While the provider is called the consent, the opt-out, the takeover and the
\* tenant's policy permit the message, whoever writes them at the same time
\* (evaluate_locked); all rows keep their types.
THEOREM CallsArePermitted == Spec => []CallIsPermitted
  <1>1. PolicyInv => CallIsPermitted
    BY DEF PolicyInv, DecisionStands, CallIsPermitted
  <1> QED
    BY <1>1, PolicyInductive, PTL

\* The daily cap is passed by no more messages than had their decision rolled
\* back or lost, and every message is in the count, waits to be written into it,
\* or was lost with its process (_daily_send_count).
THEOREM DailyCapHolds == Spec => []CapHolds
  <1>1. PolicyInv => CapHolds
    BY DEF PolicyInv, CountInv, CapHolds, Uncounted
  <1> QED
    BY <1>1, PolicyInductive, PTL

\* Every template the provider took under a registration, also in a transaction
\* that was rolled back or lost, has the identity that is pinned now, whatever
\* became of the template at Meta and of its approval; except what it took before
\* an identity was ever committed (_refresh_template_locked).
THEOREM TemplateKeepsIdentity == Spec => []OneTemplateIdentity
  <1>1. PolicyInv => OneTemplateIdentity
    BY DEF PolicyInv, IdentityInv, OneTemplateIdentity
  <1> QED
    BY <1>1, PolicyInductive, PTL

=============================================================================
