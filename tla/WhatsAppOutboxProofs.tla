------------------------ MODULE WhatsAppOutboxProofs ------------------------
(***************************************************************************)
(* Proofs about the outbox for any number of intents and workers.           *)
(*                                                                          *)
(* Nothing in dispatch_intent looks at the intent's state again once its    *)
(* first transaction has committed "sending", and another worker may turn   *)
(* that claim into "unknown" meanwhile.  What makes the second transaction  *)
(* safe is that the claim has exactly one owner: no path leads from         *)
(* "sending" or "unknown" back to "generating" except through that owner,   *)
(* and only when it knows that Meta refused.  OutboxInv spells that out.    *)
(***************************************************************************)
EXTENDS WhatsAppOutbox, TLAPS

\* A worker has an intent exactly while it is busy.
JobInv == \A w \in Worker : pc[w] # "idle" => job[w] \in Intent

\* The row locks belong to the worker whose second transaction is open.
LockInv == \A w \in Worker : Locking(w) <=> holder = w

\* The claim of a worker in flight is still there, possibly doubted by another.
ClaimInv ==
    \A w \in Worker : InFlight(w) => state[job[w]] \in {"sending", "unknown", "sent"}

\* A claim has one owner.
OwnerInv ==
    \A v, w \in Worker : InFlight(v) /\ InFlight(w) /\ job[v] = job[w] => v = w

\* What the owner knows: nothing is delivered before the call, nor after a
\* failure it takes for certain.
FreshInv ==
    \A w \in Worker :
        \/ pc[w] \in {"claimed", "calling"}
        \/ pc[w] = "failing" /\ ~uncertain[w]
        => accepted[job[w]] = 0

\* A delivered message keeps its claim for good.
DeliveredInv ==
    \A i \in Intent :
        /\ accepted[i] \in {0, 1}
        /\ accepted[i] = 1 => state[i] \in {"sending", "unknown", "sent"}

\* While the locks are held, nothing that would have blocked the send changes.
GuardInv == \A w \in Worker : Locking(w) => ~MustBlock(job[w])

OutboxInv ==
    /\ TypeOK
    /\ JobInv /\ LockInv /\ ClaimInv /\ OwnerInv /\ FreshInv /\ DeliveredInv
    /\ GuardInv

-----------------------------------------------------------------------------
(* Type correctness.                                                        *)

LEMMA InitType == Init => TypeOK
  <1> SUFFICES ASSUME Init PROVE TypeOK
    OBVIOUS
  <1>1. TakeoverTypeOK
    <2> USE DEF Init, TakeoverInit
    <2>1. version \in 0 .. MaxVersion
      BY TakeoverAssumption
    <2>2. task \in [1 .. MaxVersion -> TaskStatus]
      BY DEF TaskStatus
    <2> QED
      BY <2>1, <2>2 DEF TakeoverTypeOK
  <1>2. RowTypeOK
    BY TakeoverAssumption, OutboxAssumption DEF Init, RowTypeOK, IntentState, MessageStatus
  <1>3. WorkerTypeOK
    BY DEF Init, WorkerTypeOK, Steps
  <1> QED
    BY <1>1, <1>2, <1>3 DEF Init, TypeOK

\* The joint write of intent, timeline row and operator action keeps the types.
LEMMA FinishType ==
  ASSUME RowTypeOK, NEW i, NEW outcome \in {"blocked", "failed", "sent", "unknown"},
         Finish(i, outcome)
  PROVE  RowTypeOK'
  <1>1. /\ outcome \in IntentState /\ outcome \in MessageStatus
    BY DEF IntentState, MessageStatus
  <1>2. state' \in [Intent -> IntentState]
    BY <1>1 DEF Finish, RowTypeOK
  <1>3. message' \in [Intent -> MessageStatus]
    BY <1>1 DEF Finish, Follow, RowTypeOK
  <1>4. action' \in [Intent -> MessageStatus]
    BY <1>1 DEF Finish, FollowAction, RowTypeOK
  <1> QED
    BY <1>2, <1>3, <1>4 DEF Finish, RowTypeOK

LEMMA OwnerType ==
  ASSUME TakeoverTypeOK, NEW enabled \in BOOLEAN, NEW worker \in BOOLEAN,
         SwitchTakeover(enabled, worker)
  PROVE  TakeoverTypeOK'
  <1> USE DEF TakeoverTypeOK, SwitchTakeover
  <1>1. version' \in 0 .. MaxVersion
    BY TakeoverAssumption
  <1>2. task' \in [1 .. MaxVersion -> TaskStatus]
    BY TakeoverAssumption DEF ReleasedTasks, TaskStatus
  <1> QED
    BY <1>1, <1>2

LEMMA NextType == TypeOK /\ JobInv /\ [Next]_vars => TypeOK'
  <1> SUFFICES ASSUME TypeOK, JobInv, [Next]_vars PROVE TypeOK'
    OBVIOUS
  <1> USE DEF TypeOK
  <1>1. CASE \E i \in Intent : CreateIntent(i)
    <2> PICK i \in Intent : CreateIntent(i)
      BY <1>1
    <2>1. TakeoverTypeOK'
      BY DEF CreateIntent, TakeoverTypeOK, takeoverVars
    <2>2. RowTypeOK'
      BY TakeoverAssumption DEF CreateIntent, RowTypeOK, TakeoverTypeOK, IntentState, MessageStatus
    <2>3. WorkerTypeOK'
      BY DEF CreateIntent, WorkerTypeOK, workerVars, Steps, Go, Start, Leave, Fail
    <2> QED
      BY <2>1, <2>2, <2>3 DEF CreateIntent
  <1>2. CASE \E i \in Intent : CreateManualIntent(i)
    <2> PICK i \in Intent : CreateManualIntent(i)
      BY <1>2
    <2>1. TakeoverTypeOK'
      BY DEF CreateManualIntent, TakeoverTypeOK, takeoverVars
    <2>2. RowTypeOK'
      BY TakeoverAssumption DEF CreateManualIntent, RowTypeOK, TakeoverTypeOK, IntentState, MessageStatus
    <2>3. WorkerTypeOK'
      BY DEF CreateManualIntent, WorkerTypeOK, workerVars, Steps, Go, Start, Leave, Fail
    <2> QED
      BY <2>1, <2>2, <2>3 DEF CreateManualIntent
  <1>3. CASE \E i \in Intent : ReplayIntent(i)
    <2> PICK i \in Intent : ReplayIntent(i)
      BY <1>3
    <2>1. TakeoverTypeOK'
      BY DEF ReplayIntent, TakeoverTypeOK, takeoverVars
    <2>2. RowTypeOK'
      BY TakeoverAssumption DEF ReplayIntent, RowTypeOK, TakeoverTypeOK, IntentState, MessageStatus
    <2>3. WorkerTypeOK'
      BY DEF ReplayIntent, WorkerTypeOK, workerVars, Steps, Go, Start, Leave, Fail
    <2> QED
      BY <2>1, <2>2, <2>3 DEF ReplayIntent
  <1>4. CASE \E w \in Worker, i \in Intent : ClaimForGeneration(w, i)
    <2> PICK w \in Worker, i \in Intent : ClaimForGeneration(w, i)
      BY <1>4
    <2>1. TakeoverTypeOK'
      BY DEF ClaimForGeneration, TakeoverTypeOK, takeoverVars
    <2>2. RowTypeOK'
      BY DEF ClaimForGeneration, RowTypeOK, rowVars, IntentState
    <2>3. WorkerTypeOK'
      BY DEF ClaimForGeneration, WorkerTypeOK, workerVars, Steps, Go, Start, Leave, Fail
    <2> QED
      BY <2>1, <2>2, <2>3 DEF ClaimForGeneration
  <1>5. CASE \E w \in Worker, i \in Intent : ProcessOutboundIntent(w, i)
    <2> PICK w \in Worker, i \in Intent : ProcessOutboundIntent(w, i)
      BY <1>5
    <2>1. TakeoverTypeOK'
      BY DEF ProcessOutboundIntent, TakeoverTypeOK, takeoverVars
    <2>2. RowTypeOK'
      BY DEF ProcessOutboundIntent, RowTypeOK, rowVars, IntentState
    <2>3. WorkerTypeOK'
      BY DEF ProcessOutboundIntent, WorkerTypeOK, workerVars, Steps, Go, Start, Leave, Fail
    <2> QED
      BY <2>1, <2>2, <2>3 DEF ProcessOutboundIntent
  <1>6. CASE \E w \in Worker : QueueReply(w)
    <2> PICK w \in Worker : QueueReply(w)
      BY <1>6
    <2>1. TakeoverTypeOK'
      BY DEF QueueReply, TakeoverTypeOK, takeoverVars
    <2>2. RowTypeOK'
      BY OutboxAssumption DEF QueueReply, RowTypeOK, IntentState, MessageStatus
    <2>3. WorkerTypeOK'
      BY DEF QueueReply, WorkerTypeOK, workerVars, Steps, Go, Start, Leave, Fail
    <2> QED
      BY <2>1, <2>2, <2>3 DEF QueueReply
  <1>7. CASE \E w \in Worker : FinalizeNonReply(w)
    <2> PICK w \in Worker : FinalizeNonReply(w)
      BY <1>7
    <2>1. TakeoverTypeOK'
      BY DEF FinalizeNonReply, TakeoverTypeOK, takeoverVars
    <2>2. RowTypeOK'
      BY OutboxAssumption DEF FinalizeNonReply, RowTypeOK, IntentState, MessageStatus
    <2>3. WorkerTypeOK'
      BY DEF FinalizeNonReply, WorkerTypeOK, workerVars, Steps, Go, Start, Leave, Fail
    <2> QED
      BY <2>1, <2>2, <2>3 DEF FinalizeNonReply
  <1>8. CASE \E w \in Worker : ClaimSend(w)
    <2> PICK w \in Worker : ClaimSend(w)
      BY <1>8
    <2>1. TakeoverTypeOK'
      BY DEF ClaimSend, TakeoverTypeOK, takeoverVars
    <2>2. RowTypeOK'
      <3>1. state' \in [Intent -> IntentState]
        BY DEF ClaimSend, RowTypeOK, IntentState
      <3>2. attempts' \in [Intent -> 0 .. MaxAttempts]
        <4>1. /\ job[w] \in Intent
              /\ attempts[job[w]] + 1 \in 0 .. MaxAttempts
          BY OutboxAssumption DEF ClaimSend, RowTypeOK, JobInv
        <4> QED
          BY <4>1 DEF ClaimSend, RowTypeOK
      <3> QED
        BY <3>1, <3>2 DEF ClaimSend, RowTypeOK
    <2>3. WorkerTypeOK'
      BY DEF ClaimSend, WorkerTypeOK, workerVars, Steps, Go, Start, Leave, Fail
    <2> QED
      BY <2>1, <2>2, <2>3 DEF ClaimSend
  <1>9. CASE \E w \in Worker : ReportOnly(w)
    <2> PICK w \in Worker : ReportOnly(w)
      BY <1>9
    <2>1. TakeoverTypeOK'
      BY DEF ReportOnly, TakeoverTypeOK, takeoverVars
    <2>2. RowTypeOK'
      BY OutboxAssumption DEF ReportOnly, RowTypeOK, IntentState, MessageStatus
    <2>3. WorkerTypeOK'
      BY DEF ReportOnly, WorkerTypeOK, workerVars, Steps, Go, Start, Leave, Fail
    <2> QED
      BY <2>1, <2>2, <2>3 DEF ReportOnly
  <1>10. CASE \E w \in Worker : BlockSend(w)
    <2> PICK w \in Worker : BlockSend(w)
      BY <1>10
    <2>1. TakeoverTypeOK'
      BY DEF BlockSend, TakeoverTypeOK, takeoverVars
    <2>2. RowTypeOK'
      BY FinishType DEF BlockSend
    <2>3. WorkerTypeOK'
      BY DEF BlockSend, WorkerTypeOK, workerVars, Steps, Go, Start, Leave, Fail
    <2> QED
      BY <2>1, <2>2, <2>3 DEF BlockSend
  <1>11. CASE \E w \in Worker : StartCall(w)
    <2> PICK w \in Worker : StartCall(w)
      BY <1>11
    <2>1. TakeoverTypeOK'
      BY DEF StartCall, TakeoverTypeOK, takeoverVars
    <2>2. RowTypeOK'
      BY DEF StartCall, RowTypeOK, rowVars
    <2>3. WorkerTypeOK'
      BY DEF StartCall, WorkerTypeOK, workerVars, Steps, Go, Start, Leave, Fail
    <2> QED
      BY <2>1, <2>2, <2>3 DEF StartCall
  <1>12. CASE \E w \in Worker : ProviderAccepts(w)
    <2> PICK w \in Worker : ProviderAccepts(w)
      BY <1>12
    <2>1. TakeoverTypeOK'
      BY DEF ProviderAccepts, TakeoverTypeOK, takeoverVars
    <2>2. RowTypeOK'
      BY DEF ProviderAccepts, RowTypeOK, rowVars
    <2>3. WorkerTypeOK'
      BY DEF ProviderAccepts, WorkerTypeOK, workerVars, Steps, Go, Start, Leave, Fail
    <2>4. accepted' \in [Intent -> Nat]
      BY DEF ProviderAccepts, JobInv
    <2> QED
      BY <2>1, <2>2, <2>3, <2>4 DEF ProviderAccepts
  <1>13. CASE \E w \in Worker : CallRefused(w)
    <2> PICK w \in Worker : CallRefused(w)
      BY <1>13
    <2>1. TakeoverTypeOK'
      BY DEF CallRefused, TakeoverTypeOK, takeoverVars
    <2>2. RowTypeOK'
      BY DEF CallRefused, RowTypeOK, rowVars
    <2>3. WorkerTypeOK'
      BY DEF CallRefused, WorkerTypeOK, workerVars, Steps, Go, Start, Leave, Fail
    <2> QED
      BY <2>1, <2>2, <2>3 DEF CallRefused
  <1>14. CASE \E w \in Worker : CallUncertain(w)
    <2> PICK w \in Worker : CallUncertain(w)
      BY <1>14
    <2>1. TakeoverTypeOK'
      BY DEF CallUncertain, TakeoverTypeOK, takeoverVars
    <2>2. RowTypeOK'
      BY DEF CallUncertain, RowTypeOK, rowVars
    <2>3. WorkerTypeOK'
      BY DEF CallUncertain, WorkerTypeOK, workerVars, Steps, Go, Start, Leave, Fail
    <2> QED
      BY <2>1, <2>2, <2>3 DEF CallUncertain
  <1>15. CASE \E w \in Worker : CommitSent(w)
    <2> PICK w \in Worker : CommitSent(w)
      BY <1>15
    <2>1. TakeoverTypeOK'
      BY DEF CommitSent, TakeoverTypeOK, takeoverVars
    <2>2. RowTypeOK'
      BY FinishType DEF CommitSent
    <2>3. WorkerTypeOK'
      BY DEF CommitSent, WorkerTypeOK, workerVars, Steps, Go, Start, Leave, Fail
    <2> QED
      BY <2>1, <2>2, <2>3 DEF CommitSent
  <1>16. CASE \E w \in Worker : CommitUnacknowledged(w)
    <2> PICK w \in Worker : CommitUnacknowledged(w)
      BY <1>16
    <2>1. TakeoverTypeOK'
      BY DEF CommitUnacknowledged, TakeoverTypeOK, takeoverVars
    <2>2. RowTypeOK'
      BY FinishType DEF CommitUnacknowledged
    <2>3. WorkerTypeOK'
      BY DEF CommitUnacknowledged, WorkerTypeOK, workerVars, Steps, Go, Start, Leave, Fail
    <2> QED
      BY <2>1, <2>2, <2>3 DEF CommitUnacknowledged
  <1>17. CASE \E w \in Worker : RecordSendFailure(w)
    <2> PICK w \in Worker : RecordSendFailure(w)
      BY <1>17
    <2>1. TakeoverTypeOK'
      BY DEF RecordSendFailure, TakeoverTypeOK, takeoverVars
    <2>2. RowTypeOK'
      BY FinishType DEF RecordSendFailure
    <2>3. WorkerTypeOK'
      BY DEF RecordSendFailure, WorkerTypeOK, workerVars, Steps, Go, Start, Leave, Fail
    <2> QED
      BY <2>1, <2>2, <2>3 DEF RecordSendFailure
  <1>18. CASE \E w \in Worker : Crash(w)
    <2> PICK w \in Worker : Crash(w)
      BY <1>18
    <2>1. TakeoverTypeOK'
      BY DEF Crash, TakeoverTypeOK, takeoverVars
    <2>2. RowTypeOK'
      BY DEF Crash, RowTypeOK, rowVars
    <2>3. WorkerTypeOK'
      BY DEF Crash, WorkerTypeOK, workerVars, Steps, Go, Start, Leave, Fail
    <2> QED
      BY <2>1, <2>2, <2>3 DEF Crash
  <1>19. CASE \E enabled, worker \in BOOLEAN : ChangeOwner(enabled, worker)
    <2> PICK enabled \in BOOLEAN, worker \in BOOLEAN : ChangeOwner(enabled, worker)
      BY <1>19
    <2>1. TakeoverTypeOK'
      BY OwnerType DEF ChangeOwner
    <2>2. RowTypeOK'
      BY DEF ChangeOwner, RowTypeOK, IntentState, MessageStatus
    <2>3. WorkerTypeOK'
      BY DEF ChangeOwner, WorkerTypeOK, workerVars, Steps, Go, Start, Leave, Fail
    <2> QED
      BY <2>1, <2>2, <2>3 DEF ChangeOwner
  <1>20. CASE RewriteOwner
    <2>1. TakeoverTypeOK'
      BY <1>20 DEF RewriteOwner, RepeatTakeover, MirrorTakeover, TakeoverTypeOK
    <2>2. RowTypeOK'
      BY <1>20 DEF RewriteOwner, outboxVars, RowTypeOK, rowVars
    <2>3. WorkerTypeOK'
      BY <1>20 DEF RewriteOwner, outboxVars, WorkerTypeOK, workerVars, Steps, Go, Start, Leave, Fail
    <2> QED
      BY <1>20, <2>1, <2>2, <2>3 DEF RewriteOwner, outboxVars
  <1>21. CASE WorkOnTask
    <2>1. TakeoverTypeOK'
      BY <1>21 DEF WorkOnTask, UpdateTask, TakeoverTypeOK, TaskStatus
    <2>2. RowTypeOK'
      BY <1>21 DEF WorkOnTask, outboxVars, RowTypeOK, rowVars
    <2>3. WorkerTypeOK'
      BY <1>21 DEF WorkOnTask, outboxVars, WorkerTypeOK, workerVars, Steps, Go, Start, Leave, Fail
    <2> QED
      BY <1>21, <2>1, <2>2, <2>3 DEF WorkOnTask, outboxVars
  <1>22. CASE OptOut
    <2>1. TakeoverTypeOK'
      BY <1>22 DEF OptOut, TakeoverTypeOK, takeoverVars
    <2>2. RowTypeOK'
      BY <1>22 DEF OptOut, RowTypeOK, rowVars
    <2>3. WorkerTypeOK'
      BY <1>22 DEF OptOut, WorkerTypeOK, workerVars, Steps, Go, Start, Leave, Fail
    <2> QED
      BY <1>22, <2>1, <2>2, <2>3 DEF OptOut
  <1>23. CASE SetAutoReply
    <2>1. TakeoverTypeOK'
      BY <1>23 DEF SetAutoReply, TakeoverTypeOK, takeoverVars
    <2>2. RowTypeOK'
      BY <1>23 DEF SetAutoReply, RowTypeOK, rowVars
    <2>3. WorkerTypeOK'
      BY <1>23 DEF SetAutoReply, WorkerTypeOK, workerVars, Steps, Go, Start, Leave, Fail
    <2> QED
      BY <1>23, <2>1, <2>2, <2>3 DEF SetAutoReply
  <1>24. CASE UNCHANGED vars
    <2>1. TakeoverTypeOK'
      BY <1>24 DEF vars, outboxVars, TakeoverTypeOK, takeoverVars
    <2>2. RowTypeOK'
      BY <1>24 DEF vars, outboxVars, RowTypeOK, rowVars
    <2>3. WorkerTypeOK'
      BY <1>24 DEF vars, outboxVars, WorkerTypeOK, workerVars, Steps, Go, Start, Leave, Fail
    <2> QED
      BY <1>24, <2>1, <2>2, <2>3 DEF vars, outboxVars
  <1> QED
    BY <1>1, <1>2, <1>3, <1>4, <1>5, <1>6, <1>7, <1>8, <1>9, <1>10, <1>11, <1>12, <1>13, <1>14, <1>15, <1>16, <1>17, <1>18, <1>19, <1>20, <1>21, <1>22, <1>23, <1>24 DEF Next, Generation, Dispatch

-----------------------------------------------------------------------------
(* Claims.                                                                  *)

Claimed == {"sending", "unknown", "sent"}

\* Everything that happens outside the workers.
Environment ==
    \/ \E i \in Intent : CreateIntent(i) \/ CreateManualIntent(i) \/ ReplayIntent(i)
    \/ \E enabled, worker \in BOOLEAN : ChangeOwner(enabled, worker)
    \/ RewriteOwner \/ WorkOnTask \/ OptOut \/ SetAutoReply
    \/ UNCHANGED vars

LEMMA EnvironmentKeepsClaims ==
  ASSUME TypeOK, Environment
  PROVE  /\ UNCHANGED <<pc, job, holder, uncertain, accepted>>
         /\ \A i \in Intent : state[i] \in Claimed => state'[i] = state[i]
  <1> USE DEF TypeOK, RowTypeOK, workerVars, Claimed
  <1>1. ASSUME NEW i \in Intent, CreateIntent(i) \/ CreateManualIntent(i) \/ ReplayIntent(i)
        PROVE  /\ UNCHANGED <<pc, job, holder, uncertain, accepted>>
               /\ \A j \in Intent : state[j] \in Claimed => state'[j] = state[j]
    BY <1>1 DEF CreateIntent, CreateManualIntent, ReplayIntent
  <1>2. ASSUME NEW enabled \in BOOLEAN, NEW worker \in BOOLEAN, ChangeOwner(enabled, worker)
        PROVE  /\ UNCHANGED <<pc, job, holder, uncertain, accepted>>
               /\ \A j \in Intent : state[j] \in Claimed => state'[j] = state[j]
    BY <1>2 DEF ChangeOwner
  <1>3. CASE RewriteOwner \/ WorkOnTask \/ OptOut \/ SetAutoReply \/ UNCHANGED vars
    BY <1>3 DEF RewriteOwner, WorkOnTask, OptOut, SetAutoReply, vars, outboxVars, rowVars
  <1> QED
    BY <1>1, <1>2, <1>3 DEF Environment

\* The parts of OutboxInv about claims, as one step of the induction.
ClaimsInv == JobInv /\ LockInv /\ ClaimInv /\ OwnerInv /\ FreshInv /\ DeliveredInv

LEMMA NextClaims == TypeOK /\ ClaimsInv /\ [Next]_vars => ClaimsInv'
  <1> SUFFICES ASSUME TypeOK, ClaimsInv, [Next]_vars PROVE ClaimsInv'
    OBVIOUS
  <1> USE OutboxAssumption
      DEF TypeOK, RowTypeOK, WorkerTypeOK, ClaimsInv, Locking, InFlight, InFlightSteps
  <1>1. CASE Environment
    <2>1. (JobInv /\ LockInv /\ OwnerInv /\ FreshInv)'
      BY <1>1, EnvironmentKeepsClaims DEF JobInv, LockInv, OwnerInv, FreshInv
    <2>2. (ClaimInv /\ DeliveredInv)'
      BY <1>1, EnvironmentKeepsClaims DEF JobInv, ClaimInv, DeliveredInv, Claimed
    <2> QED
      BY <2>1, <2>2
  <1>2. CASE \E w \in Worker, i \in Intent : ClaimForGeneration(w, i)
    <2> PICK w \in Worker, i \in Intent : ClaimForGeneration(w, i)
      BY <1>2
    <2> USE DEF ClaimForGeneration, Go, Start, Leave, Fail, Finish, LeadFree, IntentFree, rowVars
    <2>1. JobInv'
      BY DEF JobInv
    <2>2. LockInv'
      BY DEF LockInv
    <2>3. ClaimInv'
      BY DEF ClaimInv, JobInv, OwnerInv
    <2>4. OwnerInv'
      BY DEF OwnerInv, ClaimInv, JobInv
    <2>5. FreshInv'
      BY DEF FreshInv, JobInv, OwnerInv, DeliveredInv, ClaimInv
    <2>6. DeliveredInv'
      BY DEF DeliveredInv, JobInv, ClaimInv, FreshInv
    <2> QED
      BY <2>1, <2>2, <2>3, <2>4, <2>5, <2>6
  <1>3. CASE \E w \in Worker, i \in Intent : ProcessOutboundIntent(w, i)
    <2> PICK w \in Worker, i \in Intent : ProcessOutboundIntent(w, i)
      BY <1>3
    <2> USE DEF ProcessOutboundIntent, Go, Start, Leave, Fail, Finish, LeadFree, IntentFree, rowVars
    <2>1. JobInv'
      BY DEF JobInv
    <2>2. LockInv'
      BY DEF LockInv
    <2>3. ClaimInv'
      BY DEF ClaimInv, JobInv, OwnerInv
    <2>4. OwnerInv'
      BY DEF OwnerInv, ClaimInv, JobInv
    <2>5. FreshInv'
      BY DEF FreshInv, JobInv, OwnerInv, DeliveredInv, ClaimInv
    <2>6. DeliveredInv'
      BY DEF DeliveredInv, JobInv, ClaimInv, FreshInv
    <2> QED
      BY <2>1, <2>2, <2>3, <2>4, <2>5, <2>6
  <1>4. CASE \E w \in Worker : QueueReply(w)
    <2> PICK w \in Worker : QueueReply(w)
      BY <1>4
    <2> USE DEF QueueReply, Go, Start, Leave, Fail, Finish, LeadFree, IntentFree, rowVars
    <2>1. JobInv'
      BY DEF JobInv
    <2>2. LockInv'
      BY DEF LockInv
    <2>3. ClaimInv'
      BY DEF ClaimInv, JobInv, OwnerInv
    <2>4. OwnerInv'
      BY DEF OwnerInv, ClaimInv, JobInv
    <2>5. FreshInv'
      BY DEF FreshInv, JobInv, OwnerInv, DeliveredInv, ClaimInv
    <2>6. DeliveredInv'
      BY DEF DeliveredInv, JobInv, ClaimInv, FreshInv
    <2> QED
      BY <2>1, <2>2, <2>3, <2>4, <2>5, <2>6
  <1>5. CASE \E w \in Worker : FinalizeNonReply(w)
    <2> PICK w \in Worker : FinalizeNonReply(w)
      BY <1>5
    <2> USE DEF FinalizeNonReply, Go, Start, Leave, Fail, Finish, LeadFree, IntentFree, rowVars
    <2>1. JobInv'
      BY DEF JobInv
    <2>2. LockInv'
      BY DEF LockInv
    <2>3. ClaimInv'
      BY DEF ClaimInv, JobInv, OwnerInv
    <2>4. OwnerInv'
      BY DEF OwnerInv, ClaimInv, JobInv
    <2>5. FreshInv'
      BY DEF FreshInv, JobInv, OwnerInv, DeliveredInv, ClaimInv
    <2>6. DeliveredInv'
      BY DEF DeliveredInv, JobInv, ClaimInv, FreshInv
    <2> QED
      BY <2>1, <2>2, <2>3, <2>4, <2>5, <2>6
  <1>6. CASE \E w \in Worker : ClaimSend(w)
    <2> PICK w \in Worker : ClaimSend(w)
      BY <1>6
    <2> USE DEF ClaimSend, Go, Start, Leave, Fail, Finish, LeadFree, IntentFree, rowVars
    <2>1. JobInv'
      BY DEF JobInv
    <2>2. LockInv'
      BY DEF LockInv
    <2>3. ClaimInv'
      BY DEF ClaimInv, JobInv, OwnerInv
    <2>4. OwnerInv'
      BY DEF OwnerInv, ClaimInv, JobInv
    <2>5. FreshInv'
      BY DEF FreshInv, JobInv, OwnerInv, DeliveredInv, ClaimInv
    <2>6. DeliveredInv'
      BY DEF DeliveredInv, JobInv, ClaimInv, FreshInv
    <2> QED
      BY <2>1, <2>2, <2>3, <2>4, <2>5, <2>6
  <1>7. CASE \E w \in Worker : ReportOnly(w)
    <2> PICK w \in Worker : ReportOnly(w)
      BY <1>7
    <2> USE DEF ReportOnly, Go, Start, Leave, Fail, Finish, LeadFree, IntentFree, rowVars
    <2>1. JobInv'
      BY DEF JobInv
    <2>2. LockInv'
      BY DEF LockInv
    <2>3. ClaimInv'
      BY DEF ClaimInv, JobInv, OwnerInv
    <2>4. OwnerInv'
      BY DEF OwnerInv, ClaimInv, JobInv
    <2>5. FreshInv'
      BY DEF FreshInv, JobInv, OwnerInv, DeliveredInv, ClaimInv
    <2>6. DeliveredInv'
      BY DEF DeliveredInv, JobInv, ClaimInv, FreshInv
    <2> QED
      BY <2>1, <2>2, <2>3, <2>4, <2>5, <2>6
  <1>8. CASE \E w \in Worker : BlockSend(w)
    <2> PICK w \in Worker : BlockSend(w)
      BY <1>8
    <2> USE DEF BlockSend, Go, Start, Leave, Fail, Finish, LeadFree, IntentFree, rowVars
    <2>1. JobInv'
      BY DEF JobInv
    <2>2. LockInv'
      BY DEF LockInv
    <2>3. ClaimInv'
      BY DEF ClaimInv, JobInv, OwnerInv
    <2>4. OwnerInv'
      BY DEF OwnerInv, ClaimInv, JobInv
    <2>5. FreshInv'
      BY DEF FreshInv, JobInv, OwnerInv, DeliveredInv, ClaimInv
    <2>6. DeliveredInv'
      BY DEF DeliveredInv, JobInv, ClaimInv, FreshInv
    <2> QED
      BY <2>1, <2>2, <2>3, <2>4, <2>5, <2>6
  <1>9. CASE \E w \in Worker : StartCall(w)
    <2> PICK w \in Worker : StartCall(w)
      BY <1>9
    <2> USE DEF StartCall, Go, Start, Leave, Fail, Finish, LeadFree, IntentFree, rowVars
    <2>1. JobInv'
      BY DEF JobInv
    <2>2. LockInv'
      BY DEF LockInv
    <2>3. ClaimInv'
      BY DEF ClaimInv, JobInv, OwnerInv
    <2>4. OwnerInv'
      BY DEF OwnerInv, ClaimInv, JobInv
    <2>5. FreshInv'
      BY DEF FreshInv, JobInv, OwnerInv, DeliveredInv, ClaimInv
    <2>6. DeliveredInv'
      BY DEF DeliveredInv, JobInv, ClaimInv, FreshInv
    <2> QED
      BY <2>1, <2>2, <2>3, <2>4, <2>5, <2>6
  <1>10. CASE \E w \in Worker : ProviderAccepts(w)
    <2> PICK w \in Worker : ProviderAccepts(w)
      BY <1>10
    <2> USE DEF ProviderAccepts, Go, Start, Leave, Fail, Finish, LeadFree, IntentFree, rowVars
    <2>1. JobInv'
      BY DEF JobInv
    <2>2. LockInv'
      BY DEF LockInv
    <2>3. ClaimInv'
      BY DEF ClaimInv, JobInv, OwnerInv
    <2>4. OwnerInv'
      BY DEF OwnerInv, ClaimInv, JobInv
    <2>5. FreshInv'
      BY DEF FreshInv, JobInv, OwnerInv, DeliveredInv, ClaimInv
    <2>6. DeliveredInv'
      BY DEF DeliveredInv, JobInv, ClaimInv, FreshInv
    <2> QED
      BY <2>1, <2>2, <2>3, <2>4, <2>5, <2>6
  <1>11. CASE \E w \in Worker : CallRefused(w)
    <2> PICK w \in Worker : CallRefused(w)
      BY <1>11
    <2> USE DEF CallRefused, Go, Start, Leave, Fail, Finish, LeadFree, IntentFree, rowVars
    <2>1. JobInv'
      BY DEF JobInv
    <2>2. LockInv'
      BY DEF LockInv
    <2>3. ClaimInv'
      BY DEF ClaimInv, JobInv, OwnerInv
    <2>4. OwnerInv'
      BY DEF OwnerInv, ClaimInv, JobInv
    <2>5. FreshInv'
      BY DEF FreshInv, JobInv, OwnerInv, DeliveredInv, ClaimInv
    <2>6. DeliveredInv'
      BY DEF DeliveredInv, JobInv, ClaimInv, FreshInv
    <2> QED
      BY <2>1, <2>2, <2>3, <2>4, <2>5, <2>6
  <1>12. CASE \E w \in Worker : CallUncertain(w)
    <2> PICK w \in Worker : CallUncertain(w)
      BY <1>12
    <2> USE DEF CallUncertain, Go, Start, Leave, Fail, Finish, LeadFree, IntentFree, rowVars
    <2>1. JobInv'
      BY DEF JobInv
    <2>2. LockInv'
      BY DEF LockInv
    <2>3. ClaimInv'
      BY DEF ClaimInv, JobInv, OwnerInv
    <2>4. OwnerInv'
      BY DEF OwnerInv, ClaimInv, JobInv
    <2>5. FreshInv'
      BY DEF FreshInv, JobInv, OwnerInv, DeliveredInv, ClaimInv
    <2>6. DeliveredInv'
      BY DEF DeliveredInv, JobInv, ClaimInv, FreshInv
    <2> QED
      BY <2>1, <2>2, <2>3, <2>4, <2>5, <2>6
  <1>13. CASE \E w \in Worker : CommitSent(w)
    <2> PICK w \in Worker : CommitSent(w)
      BY <1>13
    <2> USE DEF CommitSent, Go, Start, Leave, Fail, Finish, LeadFree, IntentFree, rowVars
    <2>1. JobInv'
      BY DEF JobInv
    <2>2. LockInv'
      BY DEF LockInv
    <2>3. ClaimInv'
      BY DEF ClaimInv, JobInv, OwnerInv
    <2>4. OwnerInv'
      BY DEF OwnerInv, ClaimInv, JobInv
    <2>5. FreshInv'
      BY DEF FreshInv, JobInv, OwnerInv, DeliveredInv, ClaimInv
    <2>6. DeliveredInv'
      BY DEF DeliveredInv, JobInv, ClaimInv, FreshInv
    <2> QED
      BY <2>1, <2>2, <2>3, <2>4, <2>5, <2>6
  <1>14. CASE \E w \in Worker : CommitUnacknowledged(w)
    <2> PICK w \in Worker : CommitUnacknowledged(w)
      BY <1>14
    <2> USE DEF CommitUnacknowledged, Go, Start, Leave, Fail, Finish, LeadFree, IntentFree, rowVars
    <2>1. JobInv'
      BY DEF JobInv
    <2>2. LockInv'
      BY DEF LockInv
    <2>3. ClaimInv'
      BY DEF ClaimInv, JobInv, OwnerInv
    <2>4. OwnerInv'
      BY DEF OwnerInv, ClaimInv, JobInv
    <2>5. FreshInv'
      BY DEF FreshInv, JobInv, OwnerInv, DeliveredInv, ClaimInv
    <2>6. DeliveredInv'
      BY DEF DeliveredInv, JobInv, ClaimInv, FreshInv
    <2> QED
      BY <2>1, <2>2, <2>3, <2>4, <2>5, <2>6
  <1>15. CASE \E w \in Worker : RecordSendFailure(w)
    <2> PICK w \in Worker : RecordSendFailure(w)
      BY <1>15
    <2> USE DEF RecordSendFailure, Go, Start, Leave, Fail, Finish, LeadFree, IntentFree, rowVars
    <2>1. JobInv'
      BY DEF JobInv
    <2>2. LockInv'
      BY DEF LockInv
    <2>3. ClaimInv'
      BY DEF ClaimInv, JobInv, OwnerInv
    <2>4. OwnerInv'
      BY DEF OwnerInv, ClaimInv, JobInv
    <2>5. FreshInv'
      BY DEF FreshInv, JobInv, OwnerInv, DeliveredInv, ClaimInv
    <2>6. DeliveredInv'
      BY DEF DeliveredInv, JobInv, ClaimInv, FreshInv
    <2> QED
      BY <2>1, <2>2, <2>3, <2>4, <2>5, <2>6
  <1>16. CASE \E w \in Worker : Crash(w)
    <2> PICK w \in Worker : Crash(w)
      BY <1>16
    <2> USE DEF Crash, Go, Start, Leave, Fail, Finish, LeadFree, IntentFree, rowVars
    <2>1. JobInv'
      BY DEF JobInv
    <2>2. LockInv'
      BY DEF LockInv
    <2>3. ClaimInv'
      BY DEF ClaimInv, JobInv, OwnerInv
    <2>4. OwnerInv'
      BY DEF OwnerInv, ClaimInv, JobInv
    <2>5. FreshInv'
      BY DEF FreshInv, JobInv, OwnerInv, DeliveredInv, ClaimInv
    <2>6. DeliveredInv'
      BY DEF DeliveredInv, JobInv, ClaimInv, FreshInv
    <2> QED
      BY <2>1, <2>2, <2>3, <2>4, <2>5, <2>6
  <1> QED
    BY <1>1, <1>2, <1>3, <1>4, <1>5, <1>6, <1>7, <1>8, <1>9, <1>10, <1>11, <1>12, <1>13, <1>14, <1>15, <1>16 DEF Next, Generation, Dispatch, Environment

-----------------------------------------------------------------------------
(* What the row locks protect.                                              *)

LEMMA NextGuard == TypeOK /\ ClaimsInv /\ GuardInv /\ [Next]_vars => GuardInv'
  <1> SUFFICES ASSUME TypeOK, ClaimsInv, GuardInv, [Next]_vars, NEW v \in Worker, Locking(v)'
               PROVE  ~MustBlock(job[v])'
    BY DEF GuardInv
  <1> USE OutboxAssumption
      DEF TypeOK, RowTypeOK, WorkerTypeOK, ClaimsInv, LockInv, GuardInv, Locking, MustBlock
  \* A worker that already held the locks kept everybody else out.
  <1>1. CASE Environment
    <2>1. /\ Locking(v) /\ job'[v] = job[v] /\ ~LeadFree /\ job[v] \in Intent
      BY <1>1, EnvironmentKeepsClaims DEF LeadFree, JobInv
    <2>2. ASSUME NEW i \in Intent, CreateIntent(i) \/ CreateManualIntent(i) \/ ReplayIntent(i)
          PROVE  ~MustBlock(job[v])'
      BY <2>1, <2>2 DEF CreateIntent, CreateManualIntent, ReplayIntent, takeoverVars
    <2>3. ASSUME NEW enabled \in BOOLEAN, NEW worker \in BOOLEAN, ChangeOwner(enabled, worker)
          PROVE  ~MustBlock(job[v])'
      BY <2>1, <2>3 DEF ChangeOwner
    <2>4. CASE RewriteOwner \/ OptOut
      BY <2>1, <2>4 DEF RewriteOwner, OptOut
    <2>5. CASE WorkOnTask
      BY <2>1, <2>5 DEF WorkOnTask, UpdateTask, outboxVars, rowVars
    <2>6. CASE SetAutoReply
      BY <2>1, <2>6 DEF SetAutoReply, takeoverVars, rowVars
    <2>7. CASE UNCHANGED vars
      BY <2>1, <2>7 DEF vars, takeoverVars, outboxVars, rowVars
    <2> QED
      BY <1>1, <2>2, <2>3, <2>4, <2>5, <2>6, <2>7 DEF Environment
  <1>2. CASE \E w \in Worker, i \in Intent : ClaimForGeneration(w, i)
    <2> PICK w \in Worker, i \in Intent : ClaimForGeneration(w, i)
      BY <1>2
    <2> QED
      BY DEF ClaimForGeneration, Go, Start, Leave, Fail, Finish, takeoverVars, rowVars, LeadFree
  <1>3. CASE \E w \in Worker, i \in Intent : ProcessOutboundIntent(w, i)
    <2> PICK w \in Worker, i \in Intent : ProcessOutboundIntent(w, i)
      BY <1>3
    <2> QED
      BY DEF ProcessOutboundIntent, Go, Start, Leave, Fail, Finish, takeoverVars, rowVars, LeadFree
  <1>4. CASE \E w \in Worker : QueueReply(w)
    <2> PICK w \in Worker : QueueReply(w)
      BY <1>4
    <2> QED
      BY DEF QueueReply, Go, Start, Leave, Fail, Finish, takeoverVars, rowVars, LeadFree
  <1>5. CASE \E w \in Worker : FinalizeNonReply(w)
    <2> PICK w \in Worker : FinalizeNonReply(w)
      BY <1>5
    <2> QED
      BY DEF FinalizeNonReply, Go, Start, Leave, Fail, Finish, takeoverVars, rowVars, LeadFree
  <1>6. CASE \E w \in Worker : ClaimSend(w)
    <2> PICK w \in Worker : ClaimSend(w)
      BY <1>6
    <2> QED
      BY DEF ClaimSend, Go, Start, Leave, Fail, Finish, takeoverVars, rowVars, LeadFree
  <1>7. CASE \E w \in Worker : ReportOnly(w)
    <2> PICK w \in Worker : ReportOnly(w)
      BY <1>7
    <2> QED
      BY DEF ReportOnly, Go, Start, Leave, Fail, Finish, takeoverVars, rowVars, LeadFree
  <1>8. CASE \E w \in Worker : BlockSend(w)
    <2> PICK w \in Worker : BlockSend(w)
      BY <1>8
    <2> QED
      BY DEF BlockSend, Go, Start, Leave, Fail, Finish, takeoverVars, rowVars, LeadFree
  <1>9. CASE \E w \in Worker : StartCall(w)
    <2> PICK w \in Worker : StartCall(w)
      BY <1>9
    <2> QED
      BY DEF StartCall, Go, Start, Leave, Fail, Finish, takeoverVars, rowVars, LeadFree
  <1>10. CASE \E w \in Worker : ProviderAccepts(w)
    <2> PICK w \in Worker : ProviderAccepts(w)
      BY <1>10
    <2> QED
      BY DEF ProviderAccepts, Go, Start, Leave, Fail, Finish, takeoverVars, rowVars, LeadFree
  <1>11. CASE \E w \in Worker : CallRefused(w)
    <2> PICK w \in Worker : CallRefused(w)
      BY <1>11
    <2> QED
      BY DEF CallRefused, Go, Start, Leave, Fail, Finish, takeoverVars, rowVars, LeadFree
  <1>12. CASE \E w \in Worker : CallUncertain(w)
    <2> PICK w \in Worker : CallUncertain(w)
      BY <1>12
    <2> QED
      BY DEF CallUncertain, Go, Start, Leave, Fail, Finish, takeoverVars, rowVars, LeadFree
  <1>13. CASE \E w \in Worker : CommitSent(w)
    <2> PICK w \in Worker : CommitSent(w)
      BY <1>13
    <2> QED
      BY DEF CommitSent, Go, Start, Leave, Fail, Finish, takeoverVars, rowVars, LeadFree
  <1>14. CASE \E w \in Worker : CommitUnacknowledged(w)
    <2> PICK w \in Worker : CommitUnacknowledged(w)
      BY <1>14
    <2> QED
      BY DEF CommitUnacknowledged, Go, Start, Leave, Fail, Finish, takeoverVars, rowVars, LeadFree
  <1>15. CASE \E w \in Worker : RecordSendFailure(w)
    <2> PICK w \in Worker : RecordSendFailure(w)
      BY <1>15
    <2> QED
      BY DEF RecordSendFailure, Go, Start, Leave, Fail, Finish, takeoverVars, rowVars, LeadFree
  <1>16. CASE \E w \in Worker : Crash(w)
    <2> PICK w \in Worker : Crash(w)
      BY <1>16
    <2> QED
      BY DEF Crash, Go, Start, Leave, Fail, Finish, takeoverVars, rowVars, LeadFree
  <1> QED
    BY <1>1, <1>2, <1>3, <1>4, <1>5, <1>6, <1>7, <1>8, <1>9, <1>10, <1>11, <1>12, <1>13, <1>14, <1>15, <1>16 DEF Next, Generation, Dispatch, Environment

-----------------------------------------------------------------------------
(* The theorems.                                                            *)

LEMMA Invariance == Spec => []OutboxInv
  <1>1. Init => OutboxInv
    <2> SUFFICES ASSUME Init PROVE OutboxInv
      OBVIOUS
    <2>1. TypeOK
      BY InitType
    <2>2. JobInv /\ LockInv /\ ClaimInv /\ OwnerInv /\ FreshInv /\ DeliveredInv /\ GuardInv
      BY OutboxAssumption
      DEF Init, JobInv, LockInv, ClaimInv, OwnerInv, FreshInv, DeliveredInv, GuardInv,
          Locking, InFlight, InFlightSteps
    <2> QED
      BY <2>1, <2>2 DEF OutboxInv
  <1>2. OutboxInv /\ [Next]_vars => OutboxInv'
    BY NextType, NextClaims, NextGuard DEF OutboxInv, ClaimsInv
  <1> QED
    BY <1>1, <1>2, PTL DEF Spec

\* The rows and the workers keep their types: an intent is always bound to an
\* ownership version, and no attempt counter passes its bound.
THEOREM TypeCorrect == Spec => []TypeOK
  BY Invariance, PTL DEF OutboxInv

\* dispatch_intent never sends twice: whatever the number of workers, crashes,
\* timeouts and replays, Meta accepts an intent's message at most once.
THEOREM DeliveredOnce == Spec => []AtMostOneAcceptance
  <1>1. OutboxInv => AtMostOneAcceptance
    BY DEF OutboxInv, DeliveredInv, AtMostOneAcceptance
  <1> QED
    BY <1>1, Invariance, PTL

\* Every acceptance happens while the conversation allows the send: the row
\* locks of the second transaction hold off takeover, opt-out and control.
THEOREM ConversationRespected == Spec => SendRespectsConversation
  <1> DEFINE Respects == \A i \in Intent : accepted'[i] # accepted[i] =>
                /\ ~optedOut
                /\ bound[i] = version
                /\ i \in AiReply => ~takeover /\ autoReply
                /\ i \in Manual => takeover
  <1>1. OutboxInv /\ [Next]_vars => [Respects]_vars
    <2> SUFFICES ASSUME OutboxInv, [Next]_vars PROVE Respects
      OBVIOUS
    <2> SUFFICES ASSUME NEW i \in Intent, accepted'[i] # accepted[i]
                 PROVE  ~MustBlock(i)
      BY DEF MustBlock, OutboxInv, TypeOK, TakeoverTypeOK
    <2>1. ~Environment
      BY EnvironmentKeepsClaims DEF OutboxInv
    <2>2. PICK w \in Worker : ProviderAccepts(w)
      BY <2>1
      DEF Next, Generation, Dispatch, Environment, ClaimForGeneration, ProcessOutboundIntent,
          QueueReply, FinalizeNonReply, ClaimSend, ReportOnly, BlockSend, StartCall,
          CallRefused, CallUncertain, CommitSent, CommitUnacknowledged, RecordSendFailure, Crash
    <2>3. i = job[w] /\ Locking(w)
      BY <2>2 DEF ProviderAccepts, Locking, OutboxInv, TypeOK
    <2> QED
      BY <2>3 DEF OutboxInv, GuardInv
  <1> QED
    BY <1>1, Invariance, PTL DEF Spec, SendRespectsConversation

-----------------------------------------------------------------------------
(* The dispatch implements the at-most-once promise.                        *)

Status == [i \in Intent |-> Abstraction(state[i])]

\* Moving one intent moves its abstract status and no other.
LEMMA StatusOfOne ==
  ASSUME RowTypeOK, NEW i \in Intent, NEW s, state' = [state EXCEPT ![i] = s]
  PROVE  Status' = [Status EXCEPT ![i] = Abstraction(s)]
  BY DEF RowTypeOK, Status

LEMMA StatusPointwise ==
  ASSUME \A i \in Intent : Abstraction(state'[i]) = Abstraction(state[i])
  PROVE  UNCHANGED Status
  BY DEF Status

LEMMA StatusInFlight ==
  ASSUME TypeOK, ClaimsInv, NEW w \in Worker, InFlight(w)
  PROVE  job[w] \in Intent /\ Status[job[w]] = "claimed"
  BY DEF TypeOK, WorkerTypeOK, ClaimsInv, JobInv, ClaimInv, InFlight, InFlightSteps, Status,
     Abstraction

LEMMA EnvironmentStep ==
  ASSUME TypeOK, Environment
  PROVE  AtMostOnce!Next \/ UNCHANGED <<Status, accepted>>
  <1> USE DEF TypeOK, RowTypeOK
  <1>1. UNCHANGED accepted
    BY EnvironmentKeepsClaims
  <1>2. ASSUME NEW i \in Intent, CreateIntent(i) \/ CreateManualIntent(i) \/ ReplayIntent(i)
        PROVE  UNCHANGED Status
    <2>1. \/ state[i] = "none" /\ state' = [state EXCEPT ![i] = "pending"]
          \/ state[i] = "none" /\ state' = [state EXCEPT ![i] = "generating"]
          \/ state[i] = "failed" /\ state' = [state EXCEPT ![i] = "generating"]
      BY <1>2 DEF CreateIntent, CreateManualIntent, ReplayIntent
    <2>2. \A j \in Intent : Abstraction(state'[j]) = Abstraction(state[j])
      BY <2>1 DEF Abstraction
    <2> QED
      BY <2>2, StatusPointwise
  <1>3. ASSUME NEW enabled \in BOOLEAN, NEW worker \in BOOLEAN, ChangeOwner(enabled, worker)
        PROVE  AtMostOnce!Next \/ UNCHANGED Status
    <2> DEFINE overtaken == {i \in AiReply : state[i] \in {"pending", "generating"}}
    <2>1. CASE enabled
      <3>1. state' = [i \in Intent |-> IF i \in overtaken THEN "blocked" ELSE state[i]]
        BY <1>3, <2>1 DEF ChangeOwner
      <3>2. overtaken \in SUBSET Intent
        BY DEF Intent
      <3>3. \A i \in overtaken : Status[i] = "open"
        BY <3>2 DEF Status, Abstraction
      <3>4. Status' = [i \in Intent |-> IF i \in overtaken THEN "closed" ELSE Status[i]]
        <4>1. \A i \in Intent : Abstraction(state'[i]) =
                  IF i \in overtaken THEN "closed" ELSE Abstraction(state[i])
          BY <3>1 DEF Abstraction
        <4> QED
          BY <4>1 DEF Status
      <3>5. AtMostOnce!Withdraw(overtaken)
        BY <1>1, <3>3, <3>4 DEF AtMostOnce!Withdraw, Status
      <3> QED
        BY <3>2, <3>5 DEF AtMostOnce!Next
    <2>2. CASE ~enabled
      BY <1>3, <2>2 DEF ChangeOwner, Status
    <2> QED
      BY <2>1, <2>2
  <1>4. CASE RewriteOwner \/ WorkOnTask \/ OptOut \/ SetAutoReply \/ UNCHANGED vars
    BY <1>4 DEF RewriteOwner, WorkOnTask, OptOut, SetAutoReply, vars, outboxVars, rowVars, Status
  <1> QED
    BY <1>1, <1>2, <1>3, <1>4 DEF Environment

LEMMA RefinementStep ==
  ASSUME TypeOK, ClaimsInv, [Next]_vars
  PROVE  AtMostOnce!Next \/ UNCHANGED <<Status, accepted>>
  <1> USE DEF TypeOK, RowTypeOK
  <1>1. CASE Environment
    BY <1>1, EnvironmentStep
  \* Steps that leave the rows alone, or only move within a class.
  <1>2. ASSUME NEW w \in Worker, NEW i \in Intent, ClaimForGeneration(w, i)
        PROVE  UNCHANGED <<Status, accepted>>
    <2>1. \/ UNCHANGED state
          \/ state[i] \in {"pending", "generating"} /\ state' = [state EXCEPT ![i] = "generating"]
      BY <1>2 DEF ClaimForGeneration
    <2>2. \A j \in Intent : Abstraction(state'[j]) = Abstraction(state[j])
      BY <2>1 DEF Abstraction
    <2>3. UNCHANGED Status
      BY <2>2, StatusPointwise
    <2> QED
      BY <1>2, <2>3 DEF ClaimForGeneration
  <1>3. ASSUME NEW w \in Worker,
               \/ \E i \in Intent : ProcessOutboundIntent(w, i)
               \/ QueueReply(w) \/ StartCall(w) \/ CallRefused(w) \/ CallUncertain(w) \/ Crash(w)
        PROVE  UNCHANGED <<Status, accepted>>
    BY <1>3
    DEF ProcessOutboundIntent, QueueReply, StartCall, CallRefused, CallUncertain, Crash, rowVars,
        Status
  <1>4. ASSUME NEW w \in Worker, ReportOnly(w)
        PROVE  UNCHANGED <<Status, accepted>>
    <2>1. \/ UNCHANGED state
          \/ state[job[w]] = "sending" /\ state' = [state EXCEPT ![job[w]] = "unknown"]
      BY <1>4 DEF ReportOnly
    <2>2. \A j \in Intent : Abstraction(state'[j]) = Abstraction(state[j])
      BY <2>1 DEF Abstraction
    <2>3. UNCHANGED Status
      BY <2>2, StatusPointwise
    <2> QED
      BY <1>4, <2>3 DEF ReportOnly
  <1>5. ASSUME NEW w \in Worker, FinalizeNonReply(w)
        PROVE  AtMostOnce!Next
    <2>1. job[w] \in Intent
      BY <1>5 DEF FinalizeNonReply, ClaimsInv, JobInv
    <2>2. Status[job[w]] = "open" /\ Status' = [Status EXCEPT ![job[w]] = "closed"]
      BY <1>5, <2>1, StatusOfOne DEF FinalizeNonReply, Status, Abstraction
    <2>3. AtMostOnce!Withdraw({job[w]})
      BY <1>5, <2>1, <2>2 DEF FinalizeNonReply, AtMostOnce!Withdraw, Status
    <2> QED
      BY <2>1, <2>3 DEF AtMostOnce!Next
  <1>6. ASSUME NEW w \in Worker, ClaimSend(w)
        PROVE  AtMostOnce!Next
    <2>1. job[w] \in Intent
      BY <1>6 DEF ClaimSend, ClaimsInv, JobInv
    <2>2. Status[job[w]] = "open" /\ Status' = [Status EXCEPT ![job[w]] = "claimed"]
      BY <1>6, <2>1, StatusOfOne DEF ClaimSend, Status, Abstraction
    <2>3. AtMostOnce!Claim(job[w])
      BY <1>6, <2>1, <2>2 DEF ClaimSend, AtMostOnce!Claim, Status
    <2> QED
      BY <2>1, <2>3 DEF AtMostOnce!Next
  <1>7. ASSUME NEW w \in Worker, ProviderAccepts(w)
        PROVE  AtMostOnce!Next
    <2>1. job[w] \in Intent /\ Status[job[w]] = "claimed"
      BY <1>7, StatusInFlight DEF ProviderAccepts, InFlight, InFlightSteps
    <2>2. accepted[job[w]] = 0
      BY <1>7 DEF ProviderAccepts, ClaimsInv, FreshInv
    <2>3. AtMostOnce!Deliver(job[w])
      BY <1>7, <2>1, <2>2 DEF ProviderAccepts, AtMostOnce!Deliver, rowVars, Status
    <2> QED
      BY <2>1, <2>3 DEF AtMostOnce!Next
  \* Steps that settle the claim.
  <1>8. ASSUME NEW w \in Worker, BlockSend(w)
        PROVE  AtMostOnce!Next
    <2>1. job[w] \in Intent /\ Status[job[w]] = "claimed"
      BY <1>8, StatusInFlight DEF BlockSend, InFlight, InFlightSteps
    <2>2. accepted[job[w]] = 0
      BY <1>8 DEF BlockSend, ClaimsInv, FreshInv
    <2>3. Status' = [Status EXCEPT ![job[w]] = "closed"]
      BY <1>8, <2>1, StatusOfOne DEF BlockSend, Finish, Abstraction
    <2>4. AtMostOnce!GiveBack(job[w], "closed")
      BY <1>8, <2>1, <2>2, <2>3 DEF BlockSend, AtMostOnce!GiveBack, Status
    <2> QED
      BY <2>1, <2>4 DEF AtMostOnce!Next
  <1>9. ASSUME NEW w \in Worker, CommitSent(w) \/ CommitUnacknowledged(w)
        PROVE  UNCHANGED <<Status, accepted>>
    <2>1. job[w] \in Intent /\ Status[job[w]] = "claimed"
      BY <1>9, StatusInFlight DEF CommitSent, CommitUnacknowledged, InFlight, InFlightSteps
    <2>2. Status' = [Status EXCEPT ![job[w]] = "claimed"]
      BY <1>9, <2>1, StatusOfOne DEF CommitSent, CommitUnacknowledged, Finish, Abstraction
    <2> QED
      BY <1>9, <2>1, <2>2 DEF CommitSent, CommitUnacknowledged, Status
  <1>10. ASSUME NEW w \in Worker, RecordSendFailure(w)
         PROVE  AtMostOnce!Next \/ UNCHANGED <<Status, accepted>>
    <2>1. job[w] \in Intent /\ Status[job[w]] = "claimed" /\ UNCHANGED accepted
      BY <1>10, StatusInFlight DEF RecordSendFailure, InFlight, InFlightSteps
    <2>2. CASE uncertain[w]
      <3>1. Status' = [Status EXCEPT ![job[w]] = "claimed"]
        BY <1>10, <2>1, <2>2, StatusOfOne DEF RecordSendFailure, Finish, Abstraction
      <3> QED
        BY <2>1, <3>1 DEF Status
    <2>3. CASE ~uncertain[w]
      <3>1. Status' = [Status EXCEPT ![job[w]] = "open"]
        <4>1. state' = [state EXCEPT ![job[w]] = "failed"]
          BY <1>10, <2>3 DEF RecordSendFailure, Finish
        <4>2. Abstraction("failed") = "open"
          BY DEF Abstraction
        <4> QED
          BY <2>1, <4>1, <4>2, StatusOfOne
      <3>2. accepted[job[w]] = 0
        BY <1>10, <2>3 DEF RecordSendFailure, ClaimsInv, FreshInv
      <3>3. AtMostOnce!GiveBack(job[w], "open")
        BY <2>1, <3>1, <3>2 DEF AtMostOnce!GiveBack, Status
      <3> QED
        BY <2>1, <3>3 DEF AtMostOnce!Next
    <2> QED
      BY <2>2, <2>3
  <1> QED
    BY <1>1, <1>2, <1>3, <1>4, <1>5, <1>6, <1>7, <1>8, <1>9, <1>10
    DEF Next, Generation, Dispatch, Environment

\* Every behaviour of the outbox is a behaviour of AtMostOnceSend: deliveries
\* happen under a claim, and a claim is given back only when Meta has nothing.
THEOREM OutboxImplementsAtMostOnce == Spec => ImplementsAtMostOnce
  <1>1. Init => AtMostOnce!Init
    BY DEF Init, AtMostOnce!Init, Abstraction
  <1>2. OutboxInv /\ [Next]_vars => [AtMostOnce!Next]_<<Status, accepted>>
    BY RefinementStep DEF OutboxInv, ClaimsInv
  <1>3. OutboxInv /\ [Next]_vars => 
          [AtMostOnce!Next]_<<[i \in Intent |-> Abstraction(state[i])], accepted>>
    BY <1>2 DEF Status
  <1> QED
    BY <1>1, <1>3, Invariance, PTL DEF Spec, ImplementsAtMostOnce, AtMostOnce!Spec

-----------------------------------------------------------------------------
(* What an operator reads: the timeline and the tasks.                      *)

\* A timeline row and a claim come after the text, and what is generated is an
\* AI reply.
MessageInv == \A i \in Intent : message[i] # "none" => body[i]
ReadyInv ==
    \A w \in Worker :
        /\ InFlight(w) => body[job[w]]
        /\ pc[w] = "generating" => job[w] \in AiReply

TimelineInv == TimelineAgrees /\ MessageInv /\ ReadyInv

\* The three records move together.
LEMMA FinishTogether ==
  ASSUME TypeOK, TimelineAgrees, MessageInv, NEW i \in Intent, body[i],
         NEW outcome \in {"blocked", "failed", "sent", "unknown"}, Finish(i, outcome)
  PROVE  TimelineAgrees' /\ MessageInv'
  BY DEF TypeOK, RowTypeOK, Finish, Follow, FollowAction, TimelineAgrees, MessageInv

\* The text of an intent stays.
LEMMA TextStays ==
  ASSUME TypeOK, JobInv, Next
  PROVE  \A i \in Intent : body[i] => body'[i]
  <1> USE DEF TypeOK, RowTypeOK
  <1>1. CASE Environment
    <2>1. ASSUME NEW j \in Intent, CreateIntent(j) \/ CreateManualIntent(j) \/ ReplayIntent(j)
          PROVE  \A i \in Intent : body[i] => body'[i]
      BY <2>1 DEF CreateIntent, CreateManualIntent, ReplayIntent
    <2>2. ASSUME NEW enabled \in BOOLEAN, NEW worker \in BOOLEAN, ChangeOwner(enabled, worker)
          PROVE  \A i \in Intent : body[i] => body'[i]
      BY <2>2 DEF ChangeOwner
    <2>3. CASE RewriteOwner \/ WorkOnTask \/ OptOut \/ SetAutoReply \/ UNCHANGED vars
      BY <2>3 DEF RewriteOwner, WorkOnTask, OptOut, SetAutoReply, vars, outboxVars, rowVars
    <2> QED
      BY <1>1, <2>1, <2>2, <2>3 DEF Environment
  <1>2. ASSUME NEW w \in Worker, QueueReply(w)
        PROVE  \A i \in Intent : body[i] => body'[i]
    BY <1>2 DEF QueueReply
  <1>3. ASSUME NEW w \in Worker, Generation(w) \/ Dispatch(w) \/ Crash(w), ~QueueReply(w)
        PROVE  body' = body
    BY <1>3
    DEF Generation, Dispatch, ClaimForGeneration, ProcessOutboundIntent, FinalizeNonReply,
        ClaimSend, ReportOnly, BlockSend, StartCall, ProviderAccepts, CallRefused,
        CallUncertain, CommitSent, CommitUnacknowledged, RecordSendFailure, Crash, Finish,
        rowVars
  <1> QED
    BY <1>1, <1>2, <1>3 DEF Next, Environment

\* A worker goes on with what it has claimed, claims a text that is there, or
\* starts over.
Moves(w) ==
    /\ \A v \in Worker \ {w} : pc'[v] = pc[v] /\ job'[v] = job[v]
    /\ \/ pc'[w] \in {"idle", "dispatch"}
       \/ pc'[w] = "generating" /\ job'[w] \in AiReply
       \/ pc'[w] \in InFlightSteps /\ job'[w] = job[w] /\ (InFlight(w) \/ body[job[w]])

LEMMA WorkersMove ==
  ASSUME TypeOK, NEW w \in Worker, Generation(w) \/ Dispatch(w) \/ Crash(w)
  PROVE  Moves(w)
  <1> USE DEF TypeOK, WorkerTypeOK, Moves, InFlight, InFlightSteps
  <1>1. ASSUME NEW i \in Intent, ClaimForGeneration(w, i) \/ ProcessOutboundIntent(w, i)
        PROVE  Moves(w)
    BY <1>1 DEF ClaimForGeneration, ProcessOutboundIntent, Start
  <1>2. CASE QueueReply(w) \/ FinalizeNonReply(w) \/ ReportOnly(w) \/ Crash(w)
    BY <1>2 DEF QueueReply, FinalizeNonReply, ReportOnly, Crash, Go, Leave
  <1>3. CASE ClaimSend(w)
    BY <1>3 DEF ClaimSend, Go
  <1>4. CASE StartCall(w) \/ ProviderAccepts(w)
    BY <1>4 DEF StartCall, ProviderAccepts, Go
  <1>5. CASE CallRefused(w) \/ CallUncertain(w) \/ CommitUnacknowledged(w)
    BY <1>5 DEF CallRefused, CallUncertain, CommitUnacknowledged, Locking, Fail
  <1>6. CASE BlockSend(w) \/ CommitSent(w) \/ RecordSendFailure(w)
    BY <1>6 DEF BlockSend, CommitSent, RecordSendFailure, Leave
  <1> QED
    BY <1>1, <1>2, <1>3, <1>4, <1>5, <1>6 DEF Generation, Dispatch

LEMMA NextReady ==
  ASSUME TypeOK, JobInv, ReadyInv, [Next]_vars
  PROVE  ReadyInv'
  <1>1. \A i \in Intent : body[i] => body'[i]
    BY TextStays DEF vars, outboxVars, rowVars
  <1>2. CASE Environment
    <2>1. UNCHANGED <<pc, job>>
      BY <1>2, EnvironmentKeepsClaims
    <2>2. ASSUME NEW v \in Worker, InFlight(v)
          PROVE  job[v] \in Intent
      BY <2>2 DEF InFlight, InFlightSteps, JobInv
    <2> QED
      BY <1>1, <2>1, <2>2 DEF ReadyInv, InFlight
  <1>3. ASSUME NEW w \in Worker, Generation(w) \/ Dispatch(w) \/ Crash(w)
        PROVE  ReadyInv'
    <2>1. Moves(w)
      BY <1>3, WorkersMove
    <2>2. Dispatch(w) => pc[w] # "idle"
      BY DEF Dispatch, ClaimSend, ReportOnly, BlockSend, StartCall, ProviderAccepts,
         CallRefused, CallUncertain, CommitSent, CommitUnacknowledged, RecordSendFailure,
         Locking
    <2>3. Generation(w) => pc'[w] \notin InFlightSteps
      BY DEF TypeOK, WorkerTypeOK, Generation, ClaimForGeneration, ProcessOutboundIntent,
         QueueReply, FinalizeNonReply, Start, Go, Leave, InFlightSteps
    <2>4. Crash(w) => pc'[w] \notin InFlightSteps
      BY DEF TypeOK, WorkerTypeOK, Crash, Leave, InFlightSteps
    <2>5. ASSUME NEW v \in Worker
          PROVE  /\ pc'[v] \in InFlightSteps => body'[job'[v]]
                 /\ pc'[v] = "generating" => job'[v] \in AiReply
      <3>1. CASE v = w
        <4>1. pc'[w] \in InFlightSteps => job[w] \in Intent /\ job'[w] = job[w] /\ body[job[w]]
          BY <1>3, <2>1, <2>2, <2>3, <2>4 DEF Moves, ReadyInv, JobInv, InFlightSteps
        <4>2. pc'[w] \in InFlightSteps => body'[job'[w]]
          BY <1>1, <4>1
        <4>3. pc'[w] = "generating" => job'[w] \in AiReply
          BY <2>1 DEF Moves, InFlightSteps
        <4> QED
          BY <3>1, <4>2, <4>3
      <3>2. CASE v # w
        <4>1. pc'[v] = pc[v] /\ job'[v] = job[v]
          BY <2>1, <3>2 DEF Moves
        <4>2. pc[v] \in InFlightSteps => job[v] \in Intent
          BY DEF JobInv, InFlightSteps
        <4> QED
          BY <1>1, <4>1, <4>2 DEF ReadyInv, InFlight
      <3> QED
        BY <3>1, <3>2
    <2> QED
      BY <2>5 DEF ReadyInv, InFlight
  <1> QED
    BY <1>2, <1>3 DEF Next, Environment

LEMMA NextTimeline ==
  ASSUME TypeOK, JobInv, TimelineInv, [Next]_vars
  PROVE  TimelineInv'
  <1> USE DEF TimelineInv
  <1>1. ReadyInv'
    BY NextReady
  <1>2. CASE Environment
    <2> USE DEF TypeOK, RowTypeOK, TimelineAgrees, MessageInv
    <2>1. ASSUME NEW i \in Intent, CreateIntent(i) \/ CreateManualIntent(i) \/ ReplayIntent(i)
          PROVE  TimelineAgrees' /\ MessageInv'
      BY <2>1 DEF CreateIntent, CreateManualIntent, ReplayIntent
    <2>2. ASSUME NEW enabled \in BOOLEAN, NEW worker \in BOOLEAN, ChangeOwner(enabled, worker)
          PROVE  TimelineAgrees' /\ MessageInv'
      BY <2>2, OutboxAssumption DEF ChangeOwner, Intent
    <2>3. CASE RewriteOwner \/ WorkOnTask \/ OptOut \/ SetAutoReply \/ UNCHANGED vars
      BY <1>1, <2>3 DEF RewriteOwner, WorkOnTask, OptOut, SetAutoReply, vars, outboxVars, rowVars
    <2> QED
      BY <1>1, <1>2, <2>1, <2>2, <2>3 DEF Environment
  <1>3. ASSUME NEW w \in Worker, Generation(w)
        PROVE  TimelineAgrees' /\ MessageInv'
    <2> USE DEF TypeOK, RowTypeOK, TimelineAgrees, MessageInv
    <2>1. ASSUME NEW i \in Intent, ClaimForGeneration(w, i)
          PROVE  TimelineAgrees' /\ MessageInv'
      BY <2>1 DEF ClaimForGeneration
    <2>2. ASSUME NEW i \in Intent, ProcessOutboundIntent(w, i)
          PROVE  TimelineAgrees' /\ MessageInv'
      BY <2>2 DEF ProcessOutboundIntent, rowVars
    <2>3. CASE QueueReply(w)
      BY <2>3 DEF QueueReply, JobInv
    <2>4. CASE FinalizeNonReply(w)
      <3>1. job[w] \in AiReply /\ job[w] \in Intent
        BY <2>4 DEF FinalizeNonReply, ReadyInv, Intent
      <3> QED
        BY <2>4, <3>1, OutboxAssumption DEF FinalizeNonReply
    <2> QED
      BY <1>3, <2>1, <2>2, <2>3, <2>4 DEF Generation
  <1>4. ASSUME NEW w \in Worker, Dispatch(w) \/ Crash(w)
        PROVE  TimelineAgrees' /\ MessageInv'
    <2>1. CASE ClaimSend(w) \/ ReportOnly(w)
      BY <2>1 DEF ClaimSend, ReportOnly, TypeOK, RowTypeOK, TimelineAgrees, MessageInv
    <2>2. CASE StartCall(w) \/ ProviderAccepts(w) \/ CallRefused(w) \/ CallUncertain(w) \/ Crash(w)
      BY <2>2 DEF StartCall, ProviderAccepts, CallRefused, CallUncertain, Crash, rowVars,
         TimelineAgrees, MessageInv
    <2>3. CASE \/ BlockSend(w) \/ CommitSent(w) \/ CommitUnacknowledged(w)
               \/ RecordSendFailure(w)
      <3>1. job[w] \in Intent /\ body[job[w]]
        BY <2>3 DEF BlockSend, CommitSent, CommitUnacknowledged, RecordSendFailure, JobInv,
           ReadyInv, InFlight, InFlightSteps
      <3>2. \E outcome \in {"blocked", "failed", "sent", "unknown"} : Finish(job[w], outcome)
        BY <2>3 DEF BlockSend, CommitSent, CommitUnacknowledged, RecordSendFailure
      <3>3. PICK i \in Intent : i = job[w]
        BY <3>1
      <3> QED
        BY <3>1, <3>2, <3>3, FinishTogether
    <2> QED
      BY <1>4, <2>1, <2>2, <2>3 DEF Dispatch
  <1> QED
    BY <1>1, <1>2, <1>3, <1>4 DEF Next, Environment

\* In a single store only the worker of a takeover writes the flag a second
\* time, so a conversation without an operator has nothing waiting.
TaskInv ==
    ~DualStore =>
        /\ mirror \subseteq {TRUE}
        /\ \A v \in 1 .. MaxVersion : task[v] \in Unresolved => takeover /\ v = version

LEMMA NextTasks ==
  ASSUME TypeOK, TaskInv, [Next]_vars
  PROVE  TaskInv'
  <1> SUFFICES ASSUME ~DualStore
               PROVE  /\ mirror' \subseteq {TRUE}
                      /\ \A v \in 1 .. MaxVersion :
                           task'[v] \in Unresolved => takeover' /\ v = version'
    BY DEF TaskInv
  <1>1. /\ mirror \subseteq {TRUE}
        /\ \A v \in 1 .. MaxVersion : task[v] \in Unresolved => takeover /\ v = version
    BY DEF TaskInv
  <1>2. version \in 0 .. MaxVersion /\ task \in [1 .. MaxVersion -> TaskStatus] /\ takeover \in BOOLEAN
    BY DEF TypeOK, TakeoverTypeOK
  <1>3. ASSUME NEW enabled \in BOOLEAN, NEW worker \in BOOLEAN, SwitchTakeover(enabled, worker)
        PROVE  /\ mirror' \subseteq {TRUE}
               /\ \A v \in 1 .. MaxVersion :
                    task'[v] \in Unresolved => takeover' /\ v = version'
    <2>1. mirror' \subseteq {TRUE}
      BY <1>1, <1>3 DEF SwitchTakeover
    <2>2. CASE enabled
      <3>1. \A v \in 1 .. MaxVersion : task[v] \notin Unresolved
        BY <1>1, <1>2, <1>3, <2>2 DEF SwitchTakeover
      <3> QED
        BY <1>2, <1>3, <2>1, <2>2, <3>1 DEF SwitchTakeover
    <2>3. CASE ~enabled
      <3>1. \A v \in 1 .. MaxVersion : task'[v] \notin Unresolved
        BY <1>2, <1>3, <2>3 DEF SwitchTakeover, ReleasedTasks, Unresolved, TaskStatus
      <3> QED
        BY <2>1, <3>1
    <2> QED
      BY <2>2, <2>3
  <1>4. ASSUME NEW worker \in BOOLEAN, RepeatTakeover(worker)
        PROVE  /\ mirror' \subseteq {TRUE}
               /\ \A v \in 1 .. MaxVersion :
                    task'[v] \in Unresolved => takeover' /\ v = version'
    BY <1>1, <1>2, <1>4 DEF RepeatTakeover
  <1>5. ASSUME NEW enabled \in BOOLEAN, MirrorTakeover(enabled)
        PROVE  /\ mirror' \subseteq {TRUE}
               /\ \A v \in 1 .. MaxVersion :
                    task'[v] \in Unresolved => takeover' /\ v = version'
    BY <1>1, <1>5 DEF MirrorTakeover
  <1>6. ASSUME NEW u \in 1 .. MaxVersion, NEW resolve \in BOOLEAN, UpdateTask(u, resolve)
        PROVE  /\ mirror' \subseteq {TRUE}
               /\ \A v \in 1 .. MaxVersion :
                    task'[v] \in Unresolved => takeover' /\ v = version'
    BY <1>1, <1>2, <1>6 DEF UpdateTask, Unresolved
  <1>7. CASE UNCHANGED takeoverVars
    BY <1>1, <1>7 DEF takeoverVars
  <1>8. \/ UNCHANGED takeoverVars
        \/ \E enabled, worker \in BOOLEAN : SwitchTakeover(enabled, worker)
        \/ \E worker \in BOOLEAN : RepeatTakeover(worker)
        \/ \E enabled \in BOOLEAN : MirrorTakeover(enabled)
        \/ \E u \in 1 .. MaxVersion, resolve \in BOOLEAN : UpdateTask(u, resolve)
    <2>1. CASE Environment
      BY <2>1
      DEF Environment, CreateIntent, CreateManualIntent, ReplayIntent, ChangeOwner,
          RewriteOwner, WorkOnTask, OptOut, SetAutoReply, vars
    <2>2. ASSUME NEW w \in Worker, Generation(w) \/ Dispatch(w) \/ Crash(w)
          PROVE  UNCHANGED takeoverVars
      BY <2>2
      DEF Generation, Dispatch, ClaimForGeneration, ProcessOutboundIntent, QueueReply,
          FinalizeNonReply, ClaimSend, ReportOnly, BlockSend, StartCall, ProviderAccepts,
          CallRefused, CallUncertain, CommitSent, CommitUnacknowledged, RecordSendFailure,
          Crash
    <2> QED
      BY <2>1, <2>2 DEF Next, Environment
  <1> QED
    BY <1>3, <1>4, <1>5, <1>6, <1>7, <1>8

\* A settled intent, its timeline row and the audited action of a manual send
\* say the same (_mark_blocked_locked, _record_send_failure, dispatch_intent,
\* finalize_non_reply, transition_takeover).
THEOREM RecordsAgree == Spec => []TimelineAgrees
  <1>1. Init => TimelineInv
    BY DEF Init, TimelineInv, TimelineAgrees, MessageInv, ReadyInv, InFlight, InFlightSteps
  <1>2. OutboxInv /\ TimelineInv /\ [Next]_vars => TimelineInv'
    BY NextTimeline DEF OutboxInv
  <1>3. TimelineInv => TimelineAgrees
    BY DEF TimelineInv
  <1> QED
    BY <1>1, <1>2, <1>3, Invariance, PTL DEF Spec

\* With a single store at most one takeover task waits for an operator, the one
\* of the current version, however often the conversation changed hands
\* (transition_takeover, update_task).
THEOREM OneTaskWaits == Spec => []OneWaitingTask
  <1>1. Init => TaskInv
    BY DEF Init, TakeoverInit, TaskInv, Unresolved
  <1>2. OutboxInv /\ TaskInv /\ [Next]_vars => TaskInv'
    BY NextTasks DEF OutboxInv
  <1>3. TaskInv => OneWaitingTask
    BY DEF TaskInv, OneWaitingTask
  <1> QED
    BY <1>1, <1>2, <1>3, Invariance, PTL DEF Spec

=============================================================================
