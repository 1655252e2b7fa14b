---------------------------- MODULE ContactPolicy ----------------------------
(***************************************************************************)
(* The contact policy of one tenant: consents and opt-outs, the template    *)
(* registry, the caps, and the sends that are decided and made under the    *)
(* lock of the tenant's row.                                                *)
(*                                                                          *)
(* A sender locks the tenant and the recipient, verifies the template with  *)
(* Meta, decides, calls the provider and commits its decision: nothing but  *)
(* the clock, Meta and the store's copy of the takeover moves while it      *)
(* calls.  When the transaction fails its decision is rolled back with the  *)
(* locks, and written again in a transaction of its own.                    *)
(***************************************************************************)
EXTENDS Integers, FiniteSets

CONSTANTS
    Phone,
    Operator,   \* the phone of the tenant's own operator
    Sender,     \* processes that may send
    MetaId,     \* identities Meta gives a template
    None,       \* not pinned, nothing to do
    DailyCap, PerWindow,
    MaxFaults   \* crashes, refusals, lost answers, new days

ASSUME PolicyAssumption ==
    /\ Operator \subseteq Phone
    /\ IsFiniteSet(Sender)
    /\ None \notin MetaId
    /\ DailyCap \in Nat \ {0} /\ PerWindow \in Nat \ {0} /\ MaxFaults \in Nat

Kind == {"reply", "manual", "template"}

VARIABLES
    consent,     \* the consent of a phone
    optedOut,    \* a row in whatsapp_opt_outs
    held,        \* lead.is_human_takeover
    outbound,    \* policy.outbound_enabled of the tenant
    template,    \* approval, pinned Meta identity and retirement
    meta,        \* the identity of the template that Meta has under that name
    allowed,     \* allowed send decisions of the tenant today
    window,      \* allowed send decisions of a phone within the window
    pc, job,     \* each sender's step, and what it has in memory
    faults,      \* faults left
    delivered,   \* ghost: messages decided today that the provider took
    late,        \* ghost: of those, the decisions rolled back or lost
    lost,        \* ghost: of those, the decisions lost to a crash
    sentAs       \* ghost: Meta identities of the templates the provider took, and
                 \* whether in a transaction lost before one was pinned

contactVars == <<consent, optedOut, held>>
tenantVars == <<outbound, template, meta>>
countVars == <<allowed, window>>
ghostVars == <<delivered, late, lost, sentAs>>
vars == <<contactVars, tenantVars, countVars, pc, job, faults, ghostVars>>

Template == [approved : BOOLEAN, pinned : MetaId \cup {None}, retired : BOOLEAN]
\* ghost: accepted, whether the provider took the message.
Job == [phone : Phone, kind : Kind, template : Template,
        today : BOOLEAN, recent : BOOLEAN, accepted : BOOLEAN]

\* Rows and senders keep their types, and an approved template is pinned.
TypeOK ==
    /\ consent \in [Phone -> {"absent", "future", "active", "revoked"}]
    /\ optedOut \in [Phone -> BOOLEAN]
    /\ held \in [Phone -> BOOLEAN] /\ outbound \in BOOLEAN
    /\ template \in Template
    /\ meta \in MetaId
    /\ allowed \in Nat /\ window \in [Phone -> Nat]
    /\ pc \in [Sender -> {"idle", "calling", "persisting"}]
    /\ faults \in 0 .. MaxFaults
    /\ delivered \in Nat /\ late \in Nat /\ lost \in Nat
    /\ sentAs \in SUBSET (MetaId \X BOOLEAN)
    /\ job \in [Sender -> Job \cup {None}]
    /\ \A s \in Sender : IF pc[s] = "idle" THEN job[s] = None ELSE job[s] \in Job
    /\ template.approved => template.pinned # None

Init ==
    /\ consent = [p \in Phone |-> "absent"]
    /\ optedOut = [p \in Phone |-> FALSE]
    /\ held = [p \in Phone |-> FALSE] /\ outbound = TRUE
    /\ template = [approved |-> FALSE, pinned |-> None, retired |-> FALSE]
    /\ meta \in MetaId
    /\ allowed = 0 /\ window = [p \in Phone |-> 0]
    /\ pc = [s \in Sender |-> "idle"]
    /\ job = [s \in Sender |-> None]
    /\ faults = MaxFaults
    /\ delivered = 0 /\ late = 0 /\ lost = 0
    /\ sentAs = {}

-----------------------------------------------------------------------------
(* Locks.                                                                   *)

Fault == faults > 0 /\ faults' = faults - 1

\* Slip: only the recipient is locked.
TenantFreeRecipient(p) == \A s \in Sender : pc[s] = "calling" => job[s].phone # p

\* The tenant's row, which a sender keeps locked while it calls.
TenantFree(p) == \A s \in Sender : pc[s] # "calling"

LeadFree(p) == \A s \in Sender : pc[s] = "calling" => job[s].phone # p

-----------------------------------------------------------------------------
(* Consents, opt-outs and the rest of what decides.                         *)

\* A new consent clears the revocation, never the opt-out.
Consent(p, when) ==
    /\ consent' = [consent EXCEPT ![p] = when]
    /\ UNCHANGED optedOut

RecordConsent(p, when) ==
    /\ TenantFree(p)
    /\ when \in {"future", "active"}
    /\ Consent(p, when)
    /\ UNCHANGED <<held, tenantVars, countVars, pc, job, faults, ghostVars>>

ConsentTakesEffect(p) ==
    /\ consent[p] = "future"
    /\ consent' = [consent EXCEPT ![p] = "active"]
    /\ UNCHANGED <<optedOut, held, tenantVars, countVars, pc, job, faults, ghostVars>>

\* By an operator, or by a message of the customer that asks for it.
RecordOptOut(p) ==
    /\ TenantFree(p)
    /\ optedOut' = [optedOut EXCEPT ![p] = TRUE]
    /\ consent' = [consent EXCEPT ![p] = IF @ = "absent" THEN @ ELSE "revoked"]
    /\ UNCHANGED <<held, tenantVars, countVars, pc, job, faults, ghostVars>>

\* MODULE Takeover has the protocol.
SetTakeover(p) ==
    /\ p \notin Operator /\ LeadFree(p)
    /\ held' = [held EXCEPT ![p] = ~@]
    /\ UNCHANGED <<consent, optedOut, tenantVars, countVars, pc, job, faults, ghostVars>>

UpdatePolicy ==
    /\ \A p \in Phone : TenantFree(p)
    /\ outbound' = ~outbound
    /\ UNCHANGED <<contactVars, template, meta, countVars, pc, job, faults, ghostVars>>

\* The window of a phone, or the day and every window, is over.
WindowPasses(p) ==
    /\ window[p] > 0
    /\ window' = [window EXCEPT ![p] = 0]
    /\ job' = [s \in Sender |-> IF job[s] # None /\ job[s].phone = p
                                THEN [job[s] EXCEPT !.recent = FALSE] ELSE job[s]]
    /\ UNCHANGED <<contactVars, tenantVars, allowed, pc, faults, ghostVars>>

NewDay ==
    /\ Fault
    /\ allowed' = 0
    /\ window' = [p \in Phone |-> 0]
    /\ job' = [s \in Sender |-> IF job[s] # None
                 THEN [job[s] EXCEPT !.today = FALSE, !.recent = FALSE] ELSE None]
    /\ delivered' = 0 /\ late' = 0 /\ lost' = 0
    /\ UNCHANGED <<contactVars, tenantVars, pc, sentAs>>

-----------------------------------------------------------------------------
(* Templates.                                                               *)

\* A template is deleted at Meta and another is made under the same name.
MetaChanges ==
    /\ meta' \in MetaId \ {meta}
    /\ UNCHANGED <<contactVars, outbound, template, countVars, pc, job, faults, ghostVars>>

\* Slip: the identity Meta answers with is pinned anew.
RefreshedAnew(row) == [row EXCEPT !.approved = TRUE, !.pinned = meta]

\* What an approval at Meta leaves: approved for the pinned identity only.
Refreshed(row) ==
    IF row.pinned \in {None, meta}
    THEN [row EXCEPT !.approved = TRUE, !.pinned = meta]
    ELSE [row EXCEPT !.approved = FALSE]

\* A verification that fails, or finds the template paused or rejected, takes
\* the approval back.
Verified(row) ==
    IF row.retired THEN {row} ELSE {Refreshed(row), [row EXCEPT !.approved = FALSE]}

UpsertTemplate(retired) ==
    /\ \A p \in Phone : TenantFree(p)
    /\ template' \in Verified([template EXCEPT !.retired = @ \/ retired])
    /\ UNCHANGED <<contactVars, outbound, meta, countVars, pc, job, faults, ghostVars>>

-----------------------------------------------------------------------------
(* Sends.                                                                   *)

\* Slip: the store's copy alone is read.
TakenOverInStore(p, kind, inStore) ==
    p \notin Operator /\ kind # "manual" /\ inStore

\* In dual mode the store's own copy of the flag is read as well.
TakenOver(p, kind, inStore) ==
    p \notin Operator /\ kind # "manual" /\ (held[p] \/ inStore)

WithinCaps(p) == allowed < DailyCap /\ window[p] < PerWindow

MayContact(p) == ~optedOut[p] /\ consent[p] = "active"

\* What the clock decides: the tenant's quiet hours, the customer's session.
Clock == [quiet : BOOLEAN, open : BOOLEAN]

Allowed(p, kind, row, inStore, clock) ==
    /\ outbound /\ ~TakenOver(p, kind, inStore) /\ MayContact(p) /\ ~clock.quiet
    /\ IF kind = "template" THEN row.approved /\ ~row.retired ELSE clock.open
    /\ WithinCaps(p)

\* Locked, verified and decided: blocked, which commits, or on to the call.
StartSend(s, p, kind) ==
    /\ pc[s] = "idle" /\ TenantFree(p)
    /\ p \in Operator => kind = "template"
    /\ \E row \in IF kind = "template" THEN Verified(template) ELSE {template},
          inStore \in BOOLEAN, clock \in Clock :
         IF Allowed(p, kind, row, inStore, clock)
         THEN /\ pc' = [pc EXCEPT ![s] = "calling"]
              /\ job' = [job EXCEPT ![s] =
                    [phone |-> p, kind |-> kind, template |-> row,
                     today |-> TRUE, recent |-> TRUE, accepted |-> FALSE]]
              /\ UNCHANGED template
         ELSE template' = row /\ UNCHANGED <<pc, job>>
    /\ UNCHANGED <<contactVars, outbound, meta, countVars, faults, ghostVars>>

\* The decision's row, with the time of the decision.
CountDecision(s) ==
    /\ allowed' = allowed + (IF job[s].today THEN 1 ELSE 0)
    /\ window' = [window EXCEPT ![job[s].phone] = @ + (IF job[s].recent THEN 1 ELSE 0)]

Leave(s) ==
    /\ pc' = [pc EXCEPT ![s] = "idle"]
    /\ job' = [job EXCEPT ![s] = None]

NoteDelivery(s, isLate, isLost) ==
    LET n == IF job[s].today THEN 1 ELSE 0 IN
    /\ delivered' = delivered + n
    /\ late' = late + (IF isLate THEN n ELSE 0)
    /\ lost' = lost + (IF isLost THEN n ELSE 0)
    /\ sentAs' = IF job[s].kind = "template"
                 THEN sentAs \cup {<<job[s].template.pinned, isLate /\ template.pinned = None>>}
                 ELSE sentAs

Accept(s) ==
    /\ pc[s] = "calling"
    /\ NoteDelivery(s, FALSE, FALSE)
    /\ template' = IF job[s].kind = "template" THEN job[s].template ELSE template
    /\ CountDecision(s)
    /\ Leave(s)
    /\ UNCHANGED <<contactVars, outbound, meta, faults>>

\* The provider refuses, or accepts and the transaction fails: all of it is
\* rolled back, the verification of the template too.
RollBack(s, accepted) ==
    /\ pc[s] = "calling"
    /\ Fault
    /\ IF accepted THEN NoteDelivery(s, TRUE, FALSE) ELSE UNCHANGED ghostVars
    /\ pc' = [pc EXCEPT ![s] = "persisting"]
    /\ job' = [job EXCEPT ![s].accepted = accepted]
    /\ UNCHANGED <<contactVars, tenantVars, countVars>>

\* The decision is written on its own, no longer under the tenant's lock.
PersistDecision(s) ==
    /\ pc[s] = "persisting"
    /\ CountDecision(s)
    /\ Leave(s)
    /\ UNCHANGED <<contactVars, tenantVars, faults, ghostVars>>

Crash(s) ==
    /\ pc[s] # "idle"
    /\ Fault
    /\ \/ pc[s] = "calling" /\ (NoteDelivery(s, TRUE, TRUE) \/ UNCHANGED ghostVars)
       \/ /\ pc[s] = "persisting"
          /\ lost' = lost + (IF job[s].today /\ job[s].accepted THEN 1 ELSE 0)
          /\ UNCHANGED <<delivered, late, sentAs>>
    /\ Leave(s)
    /\ UNCHANGED <<contactVars, tenantVars, countVars>>

-----------------------------------------------------------------------------
Contact(p) ==
    \/ RecordConsent(p, "future") \/ RecordConsent(p, "active")
    \/ ConsentTakesEffect(p) \/ RecordOptOut(p)
    \/ WindowPasses(p) \/ SetTakeover(p)

Tenant ==
    \/ UpdatePolicy \/ NewDay \/ MetaChanges
    \/ UpsertTemplate(TRUE) \/ UpsertTemplate(FALSE)

Send(s) ==
    \/ \E p \in Phone, kind \in Kind : StartSend(s, p, kind)
    \/ Accept(s) \/ RollBack(s, TRUE) \/ RollBack(s, FALSE)
    \/ PersistDecision(s) \/ Crash(s)

Next ==
    \/ \E p \in Phone : Contact(p)
    \/ Tenant
    \/ \E s \in Sender : Send(s)

Spec == Init /\ [][Next]_vars

-----------------------------------------------------------------------------
\* While the provider is called the recipient still has an effective consent,
\* no opt-out and no takeover of the lead, and the tenant sends: nobody could
\* change them since the decision, because each writer takes a lock the sender
\* holds (evaluate_locked).  All rows keep their types.
CallIsPermitted ==
    /\ TypeOK
    /\ \A s \in Sender : pc[s] = "calling" =>
         LET p == job[s].phone IN
         /\ consent[p] = "active" /\ ~optedOut[p] /\ outbound
         /\ held[p] => p \in Operator \/ job[s].kind = "manual"

\* No more messages decided today reach customers than the daily cap, except
\* as many as had their decision rolled back or lost after the provider took
\* them; and each is among the decisions that count, unless its sender is about
\* to write it again or died (_daily_send_count).
CapHolds ==
    /\ delivered <= DailyCap + late
    /\ delivered <= allowed + lost
         + Cardinality({s \in Sender : /\ pc[s] = "persisting"
                                       /\ job[s].accepted /\ job[s].today})

\* Every template the provider ever took under a registration has the identity
\* that is pinned now: one that was deleted at Meta and made again is not sent in
\* its place.  Except before the first pin: made by the send itself, it is lost
\* when that transaction fails, and what the provider took then may differ.
OneTemplateIdentity == \A sent \in sentAs : sent[2] \/ sent[1] = template.pinned

=============================================================================
