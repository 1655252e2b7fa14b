------------------------ MODULE WhatsAppInboundProofs ------------------------
(***************************************************************************)
(* Proofs about the pipeline that answers a message, about the queue that   *)
(* runs it, and about the two together, for any number of workers and runs. *)
(*                                                                          *)
(* A run that resumes an attempt cannot know whether the run that asked the *)
(* model is dead or still waiting.  What keeps the two apart is the order   *)
(* of three commits under the intent's row lock: the audit is bound before  *)
(* the model is asked, a text is stored only while the intent waits, and    *)
(* the intent is closed without reply only while it has no text.            *)
(*                                                                          *)
(* The queue keeps an audit of its replays, and the composition is a step   *)
(* of the pipeline and a step of the queue, each of which may stutter.      *)
(***************************************************************************)
EXTENDS WhatsAppInbound, TLAPS

\* The right to ask is given once: to the run that has bound the audit.
AskInv ==
    /\ asked \in {0, 1}
    /\ \A w \in Worker : pc[w] = "asking" => audit # "none" /\ asked = 0
    /\ \A v, w \in Worker : pc[v] = "asking" /\ pc[w] = "asking" => v = w
    /\ audit = "none" => asked = 0

\* A run that is about to record a decision has one.
ResultInv ==
    \A w \in Worker : pc[w] \in {"answered", "decided", "record"} => result[w] # "none"

\* Whatever belongs to a send belongs to an intent with a text.
TextInv ==
    /\ \A w \in Worker : pc[w] \in {"sending", "refused", "unsure"} => body
    /\ intent \in {"sending", "sent", "unknown", "failed"} => body
    /\ delivered # 0 => body

PipelineInv == TypeOK /\ AskInv /\ ResultInv /\ TextInv /\ ConcludedOneWay

-----------------------------------------------------------------------------
(* Type correctness.                                                        *)

LEMMA InitType == Init => TypeOK
  <1> SUFFICES ASSUME Init PROVE TypeOK
    OBVIOUS
  <1>1. TakeoverTypeOK
    <2>1. version \in 0 .. MaxVersion
      BY TakeoverAssumption DEF Init, TakeoverInit
    <2>2. task \in [1 .. MaxVersion -> TaskStatus]
      BY DEF Init, TakeoverInit, TaskStatus
    <2>3. takeover \in BOOLEAN
      BY DEF Init, TakeoverInit
    <2>4. mirror \subseteq BOOLEAN
      BY DEF Init, TakeoverInit
    <2> QED
      BY <2>1, <2>2, <2>3, <2>4 DEF TakeoverTypeOK
  <1>2. RowTypeOK
    <2>1. bound \in 0 .. MaxVersion
      BY TakeoverAssumption DEF Init
    <2>2. body \in BOOLEAN
      BY DEF Init
    <2> QED
      BY <2>1, <2>2 DEF Init, RowTypeOK, IntentState
  <1>3. WorkerTypeOK
    BY DEF Init, WorkerTypeOK, Steps
  <1>4. asked \in Nat /\ delivered \in Nat
    BY DEF Init
  <1>5. optedOut \in BOOLEAN /\ autoReply \in BOOLEAN
    BY DEF Init
  <1> QED
    BY <1>1, <1>2, <1>3, <1>4, <1>5 DEF Init, TypeOK

LEMMA OwnerType ==
  ASSUME TakeoverTypeOK, NEW enabled \in BOOLEAN, NEW worker \in BOOLEAN,
         SwitchTakeover(enabled, worker)
  PROVE  TakeoverTypeOK'
  <1> USE DEF TakeoverTypeOK, SwitchTakeover
  <1>1. version' \in 0 .. MaxVersion
    BY TakeoverAssumption
  <1>2. task' \in [1 .. MaxVersion -> TaskStatus]
    BY TakeoverAssumption DEF ReleasedTasks, TaskStatus
  <1> QED
    BY <1>1, <1>2

LEMMA TakeType ==
  ASSUME TakeoverTypeOK, intent \in IntentState,
         NEW enabled \in BOOLEAN, NEW worker \in BOOLEAN, Take(enabled, worker)
  PROVE  TakeoverTypeOK' /\ intent' \in IntentState
  BY OwnerType DEF Take, IntentState

LEMMA HandType ==
  ASSUME TakeoverTypeOK, intent \in IntentState, HandToOperator
  PROVE  TakeoverTypeOK' /\ intent' \in IntentState
  <1>1. CASE Take(TRUE, TRUE)
    BY <1>1, TakeType
  <1>2. CASE RepeatTakeover(TRUE) /\ UNCHANGED intent
    BY <1>2 DEF RepeatTakeover, TakeoverTypeOK
  <1> QED
    BY <1>1, <1>2 DEF HandToOperator

\* What any step of a run may do to the rows and to the worker itself.
RunShape(w) ==
    /\ intent' \in IntentState
    /\ category' \in {category, "ai_non_reply"} /\ body' \in {body, TRUE}
    /\ bound' \in {bound, version}
    /\ audit' \in {audit, "started", "REPLY"} \cup ({result[w]} \ {"none"})
    /\ \E s \in Steps : pc' = [pc EXCEPT ![w] = s]
    /\ \E b \in BOOLEAN : seen' = seen \/ seen' = [seen EXCEPT ![w] = b]
    /\ \E d \in Decision \cup {"none"} : result' = result \/ result' = [result EXCEPT ![w] = d]
    /\ asked' \in {asked, asked + 1} /\ delivered' \in {delivered, delivered + 1}
    /\ \E e \in {"no", "done", "dropped"} :
         returned' = returned \/ returned' = [returned EXCEPT ![w] = e]
    /\ text' = text
    /\ optedOut' \in {optedOut, TRUE} /\ autoReply' = autoReply

LEMMA RunKeepsShape ==
  ASSUME TypeOK, ResultInv, NEW w \in Worker, Receive(w) \/ Reason(w) \/ Dispatch(w) \/ Crash(w)
  PROVE  RunShape(w) /\ TakeoverTypeOK'
  <1> USE DEF RunShape, Steps
  <1>a. /\ pc \in [Worker -> Steps] /\ seen \in [Worker -> BOOLEAN]
        /\ result \in [Worker -> Decision \cup {"none"}]
        /\ intent \in IntentState /\ audit \in Decision \cup {"none", "started"}
        /\ takeover \in BOOLEAN
    BY DEF TypeOK, RowTypeOK, WorkerTypeOK, TakeoverTypeOK
  <1>1. ASSUME StartRun(w)
        PROVE  RunShape(w) /\ TakeoverTypeOK'
    <2>1. TakeoverTypeOK'
      BY <1>1 DEF StartRun, takeoverVars, TypeOK, TakeoverTypeOK
    <2> QED
      BY <1>1, <1>a, <2>1 DEF StartRun, rowVars, settingVars, IntentState
  <1>2. ASSUME RecordOptOut(w)
        PROVE  RunShape(w) /\ TakeoverTypeOK'
    <2>1. TakeoverTypeOK'
      BY <1>2 DEF RecordOptOut, takeoverVars, TypeOK, TakeoverTypeOK
    <2> QED
      BY <1>2, <1>a, <2>1 DEF RecordOptOut, Return, EndRun, rowVars, IntentState
  <1>3. ASSUME HandOverUnanswered(w)
        PROVE  RunShape(w) /\ TakeoverTypeOK'
    <2>1. TakeoverTypeOK' /\ intent' \in IntentState
      BY <1>3, HandType DEF HandOverUnanswered, TypeOK, RowTypeOK
    <2> QED
      BY <1>3, <1>a, <2>1 DEF HandOverUnanswered, Return, EndRun, settingVars
  <1>4. ASSUME Suppress(w)
        PROVE  RunShape(w) /\ TakeoverTypeOK'
    <2>1. TakeoverTypeOK'
      BY <1>4 DEF Suppress, takeoverVars, TypeOK, TakeoverTypeOK
    <2> QED
      BY <1>4, <1>a, <2>1 DEF Suppress, Return, EndRun, rowVars, settingVars,
                              IntentState
  <1>5. ASSUME PassGates(w)
        PROVE  RunShape(w) /\ TakeoverTypeOK'
    <2>1. TakeoverTypeOK'
      BY <1>5 DEF PassGates, takeoverVars, TypeOK, TakeoverTypeOK
    <2> QED
      BY <1>5, <1>a, <2>1 DEF PassGates, Go, rowVars, settingVars, IntentState
  <1>6. ASSUME CreateIntent(w)
        PROVE  RunShape(w) /\ TakeoverTypeOK'
    <2>1. TakeoverTypeOK'
      BY <1>6 DEF CreateIntent, takeoverVars, TypeOK, TakeoverTypeOK
    <2> QED
      BY <1>6, <1>a, <2>1 DEF CreateIntent, Go, settingVars, IntentState
  <1>7. ASSUME ClaimToGenerate(w)
        PROVE  RunShape(w) /\ TakeoverTypeOK'
    <2>1. TakeoverTypeOK'
      BY <1>7 DEF ClaimToGenerate, takeoverVars, TypeOK, TakeoverTypeOK
    <2> QED
      BY <1>7, <1>a, <2>1 DEF ClaimToGenerate, Go, settingVars, IntentState
  <1>8. ASSUME ClaimToDispatch(w)
        PROVE  RunShape(w) /\ TakeoverTypeOK'
    <2>1. TakeoverTypeOK'
      BY <1>8 DEF ClaimToDispatch, takeoverVars, TypeOK, TakeoverTypeOK
    <2> QED
      BY <1>8, <1>a, <2>1 DEF ClaimToDispatch, Go, rowVars, settingVars, IntentState
  <1>9. ASSUME ClaimSkips(w)
        PROVE  RunShape(w) /\ TakeoverTypeOK'
    <2>1. TakeoverTypeOK'
      BY <1>9 DEF ClaimSkips, takeoverVars, TypeOK, TakeoverTypeOK
    <2> QED
      BY <1>9, <1>a, <2>1 DEF ClaimSkips, Return, EndRun, rowVars, settingVars,
                              IntentState
  <1>10. ASSUME BindAudit(w)
        PROVE  RunShape(w) /\ TakeoverTypeOK'
    <2>1. TakeoverTypeOK'
      BY <1>10 DEF BindAudit, takeoverVars, TypeOK, TakeoverTypeOK
    <2> QED
      BY <1>10, <1>a, <2>1 DEF BindAudit, Go, settingVars, IntentState
  <1>11. ASSUME Decide(w)
        PROVE  RunShape(w) /\ TakeoverTypeOK'
    <2>1. TakeoverTypeOK'
      BY <1>11 DEF Decide, takeoverVars, TypeOK, TakeoverTypeOK
    <2> QED
      BY <1>11, <1>a, <2>1 DEF Decide, Go, rowVars, settingVars, IntentState, Decision,
                               NonReply
  <1>12. ASSUME ResumeAudit(w)
        PROVE  RunShape(w) /\ TakeoverTypeOK'
    <2>1. TakeoverTypeOK'
      BY <1>12 DEF ResumeAudit, takeoverVars, TypeOK, TakeoverTypeOK
    <2> QED
      BY <1>12, <1>a, <2>1 DEF ResumeAudit, Go, rowVars, settingVars, IntentState,
                               Decision, NonReply
  <1>13. ASSUME RecordDecision(w)
        PROVE  RunShape(w) /\ TakeoverTypeOK'
    <2>1. TakeoverTypeOK'
      BY <1>13 DEF RecordDecision, takeoverVars, TypeOK, TakeoverTypeOK
    <2> QED
      BY <1>13, <1>a, <2>1 DEF RecordDecision, Go, settingVars, IntentState, ResultInv
  <1>14. ASSUME FinalizeNonReply(w)
        PROVE  RunShape(w) /\ TakeoverTypeOK'
    <2>1. TakeoverTypeOK'
      BY <1>14 DEF FinalizeNonReply, takeoverVars, TypeOK, TakeoverTypeOK, CloseWithoutReply
    <2> QED
      BY <1>14, <1>a, <2>1 DEF FinalizeNonReply, Go, Return, EndRun, CloseWithoutReply,
                               settingVars, IntentState, Decision, NonReply
  <1>15. ASSUME Escalate(w)
        PROVE  RunShape(w) /\ TakeoverTypeOK'
    <2>1. TakeoverTypeOK' /\ intent' \in IntentState
      BY <1>15, HandType DEF Escalate, TypeOK, RowTypeOK
    <2> QED
      BY <1>15, <1>a, <2>1 DEF Escalate, Return, EndRun, settingVars
  <1>16. ASSUME QueueReply(w)
        PROVE  RunShape(w) /\ TakeoverTypeOK'
    <2>1. TakeoverTypeOK'
      BY <1>16 DEF QueueReply, takeoverVars, TypeOK, TakeoverTypeOK
    <2> QED
      BY <1>16, <1>a, <2>1 DEF QueueReply, Go, settingVars, IntentState
  <1>17. ASSUME QueueRefused(w)
        PROVE  RunShape(w) /\ TakeoverTypeOK'
    <2>1. TakeoverTypeOK'
      BY <1>17 DEF QueueRefused, takeoverVars, TypeOK, TakeoverTypeOK
    <2> QED
      BY <1>17, <1>a, <2>1 DEF QueueRefused, Raise, EndRun, settingVars, IntentState
  <1>18. ASSUME ClaimSend(w)
        PROVE  RunShape(w) /\ TakeoverTypeOK'
    <2>1. TakeoverTypeOK'
      BY <1>18 DEF ClaimSend, takeoverVars, TypeOK, TakeoverTypeOK
    <2> QED
      BY <1>18, <1>a, <2>1 DEF ClaimSend, Go, settingVars, IntentState
  <1>19. ASSUME ReportOnly(w)
        PROVE  RunShape(w) /\ TakeoverTypeOK'
    <2>1. TakeoverTypeOK'
      BY <1>19 DEF ReportOnly, takeoverVars, TypeOK, TakeoverTypeOK
    <2> QED
      BY <1>19, <1>a, <2>1 DEF ReportOnly, Go, Return, EndRun, Settle, settingVars,
                               IntentState
  <1>20. ASSUME BlockSend(w)
        PROVE  RunShape(w) /\ TakeoverTypeOK'
    <2>1. TakeoverTypeOK'
      BY <1>20 DEF BlockSend, takeoverVars, TypeOK, TakeoverTypeOK
    <2> QED
      BY <1>20, <1>a, <2>1 DEF BlockSend, Go, Return, EndRun, Settle, settingVars,
                               IntentState
  <1>21. ASSUME SendReply(w)
        PROVE  RunShape(w) /\ TakeoverTypeOK'
    <2>1. TakeoverTypeOK'
      BY <1>21 DEF SendReply, takeoverVars, TypeOK, TakeoverTypeOK
    <2> QED
      BY <1>21, <1>a, <2>1 DEF SendReply, Go, Return, EndRun, Settle, settingVars,
                               IntentState
  <1>22. ASSUME LoseAnswer(w)
        PROVE  RunShape(w) /\ TakeoverTypeOK'
    <2>1. TakeoverTypeOK'
      BY <1>22 DEF LoseAnswer, takeoverVars, TypeOK, TakeoverTypeOK
    <2> QED
      BY <1>22, <1>a, <2>1 DEF LoseAnswer, Go, settingVars, IntentState
  <1>23. ASSUME FailSend(w)
        PROVE  RunShape(w) /\ TakeoverTypeOK'
    <2>1. TakeoverTypeOK'
      BY <1>23 DEF FailSend, takeoverVars, TypeOK, TakeoverTypeOK
    <2> QED
      BY <1>23, <1>a, <2>1 DEF FailSend, Go, rowVars, settingVars, IntentState
  <1>24. ASSUME RecordFailure(w)
        PROVE  RunShape(w) /\ TakeoverTypeOK'
    <2>1. TakeoverTypeOK'
      BY <1>24 DEF RecordFailure, takeoverVars, TypeOK, TakeoverTypeOK
    <2> QED
      BY <1>24, <1>a, <2>1 DEF RecordFailure, Raise, EndRun, settingVars, IntentState
  <1>25. ASSUME RecordOutcome(w)
        PROVE  RunShape(w) /\ TakeoverTypeOK'
    <2>1. TakeoverTypeOK'
      BY <1>25 DEF RecordOutcome, takeoverVars, TypeOK, TakeoverTypeOK
    <2> QED
      BY <1>25, <1>a, <2>1 DEF RecordOutcome, Return, EndRun, settingVars, IntentState,
                               ResultInv
  <1>26. ASSUME Crash(w)
        PROVE  RunShape(w) /\ TakeoverTypeOK'
    <2>1. TakeoverTypeOK'
      BY <1>26 DEF Crash, takeoverVars, TypeOK, TakeoverTypeOK
    <2> QED
      BY <1>26, <1>a, <2>1 DEF Crash, Raise, EndRun, rowVars, settingVars, IntentState
  <1>28. ASSUME DropMessage(w)
        PROVE  RunShape(w) /\ TakeoverTypeOK'
    <2>1. TakeoverTypeOK'
      BY <1>28 DEF DropMessage, takeoverVars, TypeOK, TakeoverTypeOK
    <2> QED
      BY <1>28, <1>a, <2>1 DEF DropMessage, EndRun, rowVars, settingVars, IntentState
  <1>27. ASSUME ReplayIntent(w)
        PROVE  RunShape(w) /\ TakeoverTypeOK'
    <2>1. TakeoverTypeOK'
      BY <1>27 DEF ReplayIntent, takeoverVars, TypeOK, TakeoverTypeOK
    <2> QED
      BY <1>27, <1>a, <2>1 DEF ReplayIntent, Go, settingVars, IntentState
  <1> QED
    BY <1>1, <1>2, <1>3, <1>4, <1>5, <1>6, <1>7, <1>8, <1>9, <1>10, <1>11, <1>12, <1>13,
       <1>14, <1>15, <1>16, <1>17, <1>18, <1>19, <1>20, <1>21, <1>22, <1>23, <1>24,
       <1>25, <1>26, <1>27, <1>28
    DEF Receive, Reason, Dispatch

LEMMA NextType ==
  ASSUME TypeOK, ResultInv, [Next]_vars
  PROVE  TypeOK'
  <1> USE DEF TypeOK
  <1>1. ASSUME NEW w \in Worker, Receive(w) \/ Reason(w) \/ Dispatch(w) \/ Crash(w)
        PROVE  TypeOK'
    <2>1. RunShape(w) /\ TakeoverTypeOK'
      BY <1>1, RunKeepsShape
    <2>2. RowTypeOK'
      BY <2>1 DEF RunShape, RowTypeOK, WorkerTypeOK, TakeoverTypeOK, Decision, NonReply
    <2>3. WorkerTypeOK'
      BY <2>1 DEF RunShape, WorkerTypeOK
    <2>4. asked' \in Nat /\ delivered' \in Nat
      BY <2>1 DEF RunShape
    <2>5. /\ optedOut' \in BOOLEAN /\ autoReply' \in BOOLEAN
          /\ text' \in {"question", "injection", "stop"}
      BY <2>1 DEF RunShape
    <2> QED
      BY <2>1, <2>2, <2>3, <2>4, <2>5
  <1>2. ASSUME NEW enabled \in BOOLEAN, ChangeOwner(enabled)
        PROVE  TypeOK'
    <2>1. TakeoverTypeOK' /\ intent' \in IntentState
      BY <1>2, TakeType DEF ChangeOwner, RowTypeOK
    <2> QED
      BY <1>2, <2>1 DEF ChangeOwner, RowTypeOK, WorkerTypeOK, workerVars, settingVars
  <1>3. CASE RewriteOwner
    <2>1. TakeoverTypeOK'
      <3>1. CASE RepeatTakeover(FALSE)
        BY <3>1 DEF RepeatTakeover, TakeoverTypeOK
      <3>2. CASE \E enabled \in BOOLEAN : MirrorTakeover(enabled)
        BY <3>2 DEF MirrorTakeover, TakeoverTypeOK
      <3>3. CASE \E v \in 1 .. MaxVersion, resolve \in BOOLEAN : UpdateTask(v, resolve)
        BY <3>3 DEF UpdateTask, TakeoverTypeOK, TaskStatus
      <3> QED
        BY <1>3, <3>1, <3>2, <3>3 DEF RewriteOwner
    <2> QED
      BY <1>3, <2>1 DEF RewriteOwner, RowTypeOK, WorkerTypeOK, rowVars, workerVars, settingVars
  <1>4. CASE OptOut \/ SetAutoReply \/ UNCHANGED vars
    BY <1>4 DEF OptOut, SetAutoReply, vars, takeoverVars, settingVars, rowVars, workerVars,
                TakeoverTypeOK, RowTypeOK, WorkerTypeOK
  <1> QED
    BY <1>1, <1>2, <1>3, <1>4 DEF Next

-----------------------------------------------------------------------------
(* The order of the three commits.  Each conjunct has a lemma; in it, the   *)
(* actions that can disturb the conjunct have a step each.                  *)

\* A step of the rest of the system touches no run; of the rows it can only
\* block an intent that waits.
Elsewhere == (\E enabled \in BOOLEAN : ChangeOwner(enabled))
             \/ RewriteOwner \/ OptOut \/ SetAutoReply \/ UNCHANGED vars

LEMMA ElsewhereKeeps ==
  ASSUME Elsewhere
  PROVE  /\ UNCHANGED <<category, body, bound, audit, workerVars, asked, delivered>>
         /\ \/ intent' = intent
            \/ intent \in {"pending", "generating"} /\ intent' = "blocked"
  BY DEF Elsewhere, ChangeOwner, Take, RewriteOwner, OptOut, SetAutoReply, vars, rowVars

\* So does a run that hands the conversation over.
LEMMA HandKeeps ==
  ASSUME HandToOperator
  PROVE  \/ intent' = intent
         \/ intent \in {"pending", "generating"} /\ intent' = "blocked"
  BY DEF HandToOperator, Take

LEMMA AskNext ==
  ASSUME TypeOK, AskInv, ResultInv, [Next]_vars
  PROVE  AskInv'
  <1>a. pc \in [Worker -> Steps]
    BY DEF TypeOK, WorkerTypeOK
  \* A step not to "asking" that unbinds no audit.
  <1>1. ASSUME NEW w \in Worker, NEW s, s # "asking", pc' = [pc EXCEPT ![w] = s],
               asked' = asked, audit' = audit \/ audit' # "none"
        PROVE  AskInv'
    BY <1>1, <1>a DEF AskInv
  <1>2. ASSUME NEW w \in Worker,
               StartRun(w) \/ RecordOptOut(w) \/ HandOverUnanswered(w) \/
                  DropMessage(w) \/ Suppress(w) \/ PassGates(w) \/ CreateIntent(w) \/
                  ClaimToGenerate(w) \/ ClaimToDispatch(w) \/ ClaimSkips(w) \/
                  ResumeAudit(w) \/ FinalizeNonReply(w) \/ Escalate(w) \/
                  QueueReply(w) \/ Crash(w)
        PROVE  /\ asked' = asked /\ audit' = audit
               /\ \E s : s # "asking" /\ pc' = [pc EXCEPT ![w] = s]
    BY <1>2, <1>a DEF StartRun, RecordOptOut, Return, EndRun, HandOverUnanswered,
                      DropMessage, Suppress, PassGates, Go, CreateIntent, ClaimToGenerate,
                      ClaimToDispatch, ClaimSkips, ResumeAudit, FinalizeNonReply,
                      CloseWithoutReply, Escalate, QueueReply, Crash, Raise, rowVars
  <1>3. ASSUME NEW w \in Worker,
               ClaimSend(w) \/ ReportOnly(w) \/ BlockSend(w) \/ SendReply(w) \/
                  LoseAnswer(w) \/ FailSend(w) \/ ReplayIntent(w)
        PROVE  /\ asked' = asked /\ audit' = audit
               /\ \E s : s # "asking" /\ pc' = [pc EXCEPT ![w] = s]
    BY <1>3, <1>a DEF ClaimSend, Go, ReportOnly, Return, EndRun, Settle, BlockSend,
                      SendReply, LoseAnswer, FailSend, ReplayIntent, rowVars
  <1>4. ASSUME NEW w \in Worker,
               RecordDecision(w) \/ QueueRefused(w) \/ RecordFailure(w) \/
                  RecordOutcome(w)
        PROVE  /\ asked' = asked /\ (audit' = audit \/ audit' # "none")
               /\ \E s : s # "asking" /\ pc' = [pc EXCEPT ![w] = s]
    BY <1>4, <1>a DEF RecordDecision, Go, QueueRefused, Raise, EndRun, RecordFailure,
                      RecordOutcome, Return, ResultInv
  <1>5. ASSUME NEW w \in Worker, BindAudit(w)
        PROVE  AskInv'
    BY <1>5, <1>a DEF BindAudit, Go, AskInv
  <1>6. ASSUME NEW w \in Worker, Decide(w)
        PROVE  AskInv'
    BY <1>6, <1>a DEF Decide, Go, rowVars, AskInv
  <1>7. CASE Elsewhere
    BY <1>7, ElsewhereKeeps DEF workerVars, AskInv
  <1> QED
    BY <1>1, <1>2, <1>3, <1>4, <1>5, <1>6, <1>7
    DEF Next, Receive, Reason, Dispatch, Elsewhere

LEMMA ResultNext ==
  ASSUME TypeOK, ResultInv, [Next]_vars
  PROVE  ResultInv'
  <1>a. pc \in [Worker -> Steps] /\ result \in [Worker -> Decision \cup {"none"}]
    BY DEF TypeOK, WorkerTypeOK
  \* A run that ends, or goes where no decision is needed.
  <1>1. ASSUME NEW w \in Worker, NEW s, s \notin {"answered", "decided", "record"},
               pc' = [pc EXCEPT ![w] = s], \A v \in Worker \ {w} : result'[v] = result[v]
        PROVE  ResultInv'
    BY <1>1, <1>a DEF ResultInv
  <1>2. ASSUME NEW w \in Worker,
               StartRun(w) \/ RecordOptOut(w) \/ HandOverUnanswered(w) \/
                  DropMessage(w) \/ Suppress(w) \/ PassGates(w) \/ CreateIntent(w) \/
                  ClaimToGenerate(w) \/ ClaimToDispatch(w) \/ ClaimSkips(w) \/
                  BindAudit(w) \/ FinalizeNonReply(w) \/ Escalate(w) \/
                  QueueReply(w) \/ QueueRefused(w)
        PROVE  /\ \A v \in Worker \ {w} : result'[v] = result[v]
               /\ \E s : /\ s \notin {"answered", "decided", "record"}
                        /\ pc' = [pc EXCEPT ![w] = s]
    BY <1>2, <1>a DEF StartRun, RecordOptOut, Return, EndRun, HandOverUnanswered,
                      DropMessage, Suppress, PassGates, Go, CreateIntent, ClaimToGenerate,
                      ClaimToDispatch, ClaimSkips, BindAudit, FinalizeNonReply,
                      CloseWithoutReply, Escalate, QueueReply, QueueRefused, Raise
  <1>3. ASSUME NEW w \in Worker,
               ClaimSend(w) \/ LoseAnswer(w) \/ FailSend(w) \/ RecordFailure(w) \/
                  RecordOutcome(w) \/ Crash(w) \/ ReplayIntent(w)
        PROVE  /\ \A v \in Worker \ {w} : result'[v] = result[v]
               /\ \E s : /\ s \notin {"answered", "decided", "record"}
                        /\ pc' = [pc EXCEPT ![w] = s]
    BY <1>3, <1>a DEF ClaimSend, Go, LoseAnswer, FailSend, RecordFailure, Raise, EndRun,
                      RecordOutcome, Return, Crash, ReplayIntent
  <1>4. ASSUME NEW w \in Worker, Decide(w) \/ ResumeAudit(w)
        PROVE  ResultInv'
    BY <1>4, <1>a DEF Decide, ResumeAudit, Go, ResultInv, Decision, NonReply
  <1>5. ASSUME NEW w \in Worker, RecordDecision(w)
        PROVE  ResultInv'
    BY <1>5, <1>a DEF RecordDecision, Go, ResultInv
  \* Settle records only where there is a decision.
  <1>6. ASSUME NEW w \in Worker, ReportOnly(w) \/ BlockSend(w) \/ SendReply(w)
        PROVE  ResultInv'
    BY <1>6, <1>a DEF ReportOnly, BlockSend, SendReply, Settle, Go, Return, EndRun, ResultInv
  <1>7. CASE Elsewhere
    BY <1>7, ElsewhereKeeps DEF workerVars, ResultInv
  <1> QED
    BY <1>1, <1>2, <1>3, <1>4, <1>5, <1>6, <1>7
    DEF Next, Receive, Reason, Dispatch, Elsewhere

\* TextInv and ConcludedOneWay belong together: a text is stored only while the
\* intent waits, and the intent is closed without reply only while it has none.
LEMMA TextNext ==
  ASSUME TypeOK, TextInv, ConcludedOneWay, [Next]_vars
  PROVE  TextInv' /\ ConcludedOneWay'
  <1> USE DEF TextInv, ConcludedOneWay
  <1>a. pc \in [Worker -> Steps]
    BY DEF TypeOK, WorkerTypeOK
  \* A step that enters no step of the send and leaves the row alone.
  <1>1. ASSUME NEW w \in Worker, NEW s, s \notin {"sending", "refused", "unsure"},
               pc' = [pc EXCEPT ![w] = s], UNCHANGED <<category, body, delivered>>,
               \/ intent' = intent
               \/ intent \in {"none", "pending", "generating"}
                  /\ intent' \in {"pending", "generating", "blocked"}
        PROVE  TextInv' /\ ConcludedOneWay'
    BY <1>1, <1>a
  <1>2. ASSUME NEW w \in Worker,
               StartRun(w) \/ RecordOptOut(w) \/ DropMessage(w) \/ Suppress(w) \/ PassGates(w) \/
                  ClaimToDispatch(w) \/ ClaimSkips(w) \/ BindAudit(w) \/ Decide(w) \/
                  ResumeAudit(w) \/ RecordDecision(w) \/ QueueRefused(w) \/
                  RecordOutcome(w) \/ Crash(w)
        PROVE  /\ UNCHANGED <<intent, category, body, delivered>>
               /\ \E s : /\ s \notin {"sending", "refused", "unsure"}
                        /\ pc' = [pc EXCEPT ![w] = s]
    BY <1>2, <1>a DEF StartRun, RecordOptOut, Return, EndRun, DropMessage, Suppress, PassGates, Go,
                      ClaimToDispatch, ClaimSkips, BindAudit, Decide, ResumeAudit,
                      RecordDecision, QueueRefused, Raise, RecordOutcome, Crash, rowVars
  <1>3. ASSUME NEW w \in Worker, CreateIntent(w) \/ ClaimToGenerate(w)
        PROVE  TextInv' /\ ConcludedOneWay'
    BY <1>3, <1>1 DEF CreateIntent, ClaimToGenerate, Go
  <1>4. ASSUME NEW w \in Worker, HandOverUnanswered(w) \/ Escalate(w)
        PROVE  TextInv' /\ ConcludedOneWay'
    BY <1>4, <1>1, HandKeeps DEF HandOverUnanswered, Escalate, Return, EndRun
  \* The two conclusions exclude each other.
  <1>5. ASSUME NEW w \in Worker, QueueReply(w)
        PROVE  TextInv' /\ ConcludedOneWay'
    BY <1>5, <1>a DEF QueueReply, Go
  <1>6. ASSUME NEW w \in Worker, FinalizeNonReply(w)
        PROVE  TextInv' /\ ConcludedOneWay'
    BY <1>6, <1>a DEF FinalizeNonReply, CloseWithoutReply, Evaluable, Go, Return, EndRun
  \* The send needs a text.
  <1>7. ASSUME NEW w \in Worker, ClaimSend(w) \/ ReplayIntent(w)
        PROVE  TextInv' /\ ConcludedOneWay'
    BY <1>7, <1>a DEF ClaimSend, ReplayIntent, Go
  <1>8. ASSUME NEW w \in Worker, ReportOnly(w)
        PROVE  TextInv' /\ ConcludedOneWay'
    BY <1>8, <1>a DEF ReportOnly, Settle, Go, Return, EndRun
  <1>9. ASSUME NEW w \in Worker, BlockSend(w) \/ SendReply(w)
        PROVE  TextInv' /\ ConcludedOneWay'
    BY <1>9, <1>a DEF BlockSend, SendReply, Settle, Go, Return, EndRun
  <1>10. ASSUME NEW w \in Worker, LoseAnswer(w) \/ FailSend(w) \/ RecordFailure(w)
         PROVE  TextInv' /\ ConcludedOneWay'
    BY <1>10, <1>a DEF LoseAnswer, FailSend, RecordFailure, Go, Raise, EndRun, rowVars
  <1>11. CASE Elsewhere
    BY <1>11, ElsewhereKeeps DEF workerVars
  <1> QED
    BY <1>1, <1>2, <1>3, <1>4, <1>5, <1>6, <1>7, <1>8, <1>9, <1>10, <1>11
    DEF Next, Receive, Reason, Dispatch, Elsewhere

LEMMA InitInv == Init => PipelineInv
  <1> SUFFICES ASSUME Init PROVE PipelineInv
    OBVIOUS
  <1>1. TypeOK
    BY InitType
  <1>2. AskInv /\ ResultInv
    BY DEF Init, AskInv, ResultInv
  <1>3. TextInv /\ ConcludedOneWay
    BY DEF Init, TextInv, ConcludedOneWay
  <1> QED
    BY <1>1, <1>2, <1>3 DEF PipelineInv

LEMMA NextInv == PipelineInv /\ [Next]_vars => PipelineInv'
  BY NextType, AskNext, ResultNext, TextNext DEF PipelineInv

LEMMA Inductive == Spec => []PipelineInv
  BY InitInv, NextInv, PTL DEF Spec

-----------------------------------------------------------------------------
\* Every variable keeps its type; in particular no run creates an intent that is
\* not tied to an ownership version.
THEOREM PipelineTypeCorrect == Spec => []TypeOK
  <1>1. PipelineInv => TypeOK
    BY DEF PipelineInv
  <1> QED
    BY Inductive, <1>1, PTL

\* However many runs an event's job has and wherever they die, the model is
\* asked at most once ("Bind one audit to the intent before any model call").
THEOREM AskedOnce == Spec => []ModelAskedOnce
  <1>1. PipelineInv => ModelAskedOnce
    BY DEF PipelineInv, AskInv, ModelAskedOnce
  <1> QED
    BY Inductive, <1>1, PTL

\* An intent closed as a decision not to reply has no text and was not
\* delivered, whichever runs raced to conclude it.
THEOREM OneConclusion == Spec => []ConcludedOneWay
  <1>1. PipelineInv => ConcludedOneWay
    BY DEF PipelineInv
  <1> QED
    BY Inductive, <1>1, PTL

-----------------------------------------------------------------------------
(* Refinement.  A claim has one owner, and only the owner gives it back.    *)

AtSend(w) == pc[w] \in {"sending", "refused", "unsure"}
ClaimedState == {"sending", "unknown", "sent"}

OwnerInv ==
    /\ \A v, w \in Worker : AtSend(v) /\ AtSend(w) => v = w
    /\ \A w \in Worker : AtSend(w) => intent \in ClaimedState
    /\ \A w \in Worker : pc[w] \in {"sending", "refused"} => delivered = 0
    /\ delivered \in {0, 1}
    /\ delivered = 1 => intent \in ClaimedState

LEMMA OwnerInit == Init => OwnerInv
  BY DEF Init, OwnerInv, AtSend

LEMMA OwnerNext ==
  ASSUME PipelineInv, OwnerInv, [Next]_vars
  PROVE  OwnerInv'
  <1> USE DEF OwnerInv, AtSend, ClaimedState
  <1>a. pc \in [Worker -> Steps]
    BY DEF PipelineInv, TypeOK, WorkerTypeOK
  \* A step that ends before the send and loses no claim.
  <1>1. ASSUME NEW w \in Worker, NEW s, s \notin {"sending", "refused", "unsure"},
               pc' = [pc EXCEPT ![w] = s], delivered' = delivered,
               intent \in ClaimedState => intent' \in ClaimedState
        PROVE  OwnerInv'
    BY <1>1, <1>a
  <1>2. ASSUME NEW w \in Worker,
               StartRun(w) \/ RecordOptOut(w) \/ DropMessage(w) \/ Suppress(w) \/ PassGates(w) \/
                  CreateIntent(w) \/ ClaimToGenerate(w) \/ ClaimToDispatch(w) \/
                  ClaimSkips(w) \/ BindAudit(w) \/ Decide(w) \/ ResumeAudit(w) \/
                  RecordDecision(w)
        PROVE  /\ delivered' = delivered
               /\ intent \in ClaimedState => intent' \in ClaimedState
               /\ \E s : /\ s \notin {"sending", "refused", "unsure"}
                        /\ pc' = [pc EXCEPT ![w] = s]
    BY <1>2, <1>a DEF StartRun, RecordOptOut, Return, EndRun, DropMessage, Suppress, PassGates, Go,
                      CreateIntent, ClaimToGenerate, ClaimToDispatch, ClaimSkips,
                      BindAudit, Decide, ResumeAudit, RecordDecision, rowVars
  <1>3. ASSUME NEW w \in Worker,
               FinalizeNonReply(w) \/ QueueReply(w) \/ QueueRefused(w) \/
                  ReportOnly(w) \/ RecordOutcome(w) \/ Crash(w) \/ ReplayIntent(w)
        PROVE  /\ delivered' = delivered
               /\ intent \in ClaimedState => intent' \in ClaimedState
               /\ \E s : /\ s \notin {"sending", "refused", "unsure"}
                        /\ pc' = [pc EXCEPT ![w] = s]
    BY <1>3, <1>a DEF FinalizeNonReply, Go, Return, EndRun, CloseWithoutReply,
                      QueueReply, QueueRefused, Raise, ReportOnly, Settle,
                      RecordOutcome, Crash, ReplayIntent, Evaluable, rowVars
  <1>4. ASSUME NEW w \in Worker, HandOverUnanswered(w) \/ Escalate(w)
        PROVE  OwnerInv'
    BY <1>4, <1>1, HandKeeps DEF HandOverUnanswered, Escalate, Return, EndRun
  \* The claim finds no other owner, since the intent was still waiting.
  <1>5. ASSUME NEW w \in Worker, ClaimSend(w)
        PROVE  OwnerInv'
    BY <1>5, <1>a DEF ClaimSend, Go
  \* From then on the owner's steps are the only ones of the send.
  <1>6. ASSUME NEW w \in Worker, BlockSend(w)
        PROVE  OwnerInv'
    BY <1>6, <1>a DEF BlockSend, Settle, Go, Return, EndRun
  <1>7. ASSUME NEW w \in Worker, SendReply(w)
        PROVE  OwnerInv'
    BY <1>7, <1>a DEF SendReply, Settle, Go, Return, EndRun
  <1>8. ASSUME NEW w \in Worker, LoseAnswer(w)
        PROVE  OwnerInv'
    BY <1>8, <1>a DEF LoseAnswer, Go
  <1>9. ASSUME NEW w \in Worker, FailSend(w)
        PROVE  OwnerInv'
    BY <1>9, <1>a DEF FailSend, Go, rowVars
  <1>10. ASSUME NEW w \in Worker, RecordFailure(w)
         PROVE  OwnerInv'
    BY <1>10, <1>a DEF RecordFailure, Raise, EndRun
  <1>11. CASE Elsewhere
    BY <1>11, ElsewhereKeeps DEF workerVars
  <1> QED
    BY <1>1, <1>2, <1>3, <1>4, <1>5, <1>6, <1>7, <1>8, <1>9, <1>10, <1>11
    DEF Next, Receive, Reason, Dispatch, Elsewhere

\* What a step may do to the one message AtMostOnceSend is about.
MappedStep ==
    \/ Abstraction' = Abstraction /\ delivered' = delivered
    \/ Abstraction = "open" /\ Abstraction' \in {"claimed", "closed"} /\ delivered' = delivered
    \/ Abstraction = "claimed" /\ Abstraction' = Abstraction /\ delivered = 0 /\ delivered' = 1
    \/ /\ Abstraction = "claimed" /\ Abstraction' \in {"open", "closed"}
       /\ delivered = 0 /\ delivered' = 0

LEMMA MappedSteps ==
  ASSUME MappedStep
  PROVE  AtMostOnce!Next \/ UNCHANGED <<[m \in {"reply"} |-> Abstraction],
                                       [m \in {"reply"} |-> delivered]>>
  <1> DEFINE S == [m \in {"reply"} |-> Abstraction]
             D == [m \in {"reply"} |-> delivered]
  <1>1. CASE Abstraction' = Abstraction /\ delivered' = delivered
    BY <1>1
  <1>2. CASE Abstraction = "open" /\ Abstraction' = "claimed" /\ delivered' = delivered
    <2>1. S["reply"] = "open" /\ S' = [S EXCEPT !["reply"] = "claimed"] /\ D' = D
      BY <1>2
    <2> QED
      BY <2>1 DEF AtMostOnce!Next, AtMostOnce!Claim
  <1>3. CASE Abstraction = "open" /\ Abstraction' = "closed" /\ delivered' = delivered
    <2>1. /\ \A m \in {"reply"} : S[m] = "open"
          /\ S' = [m \in {"reply"} |-> IF m \in {"reply"} THEN "closed" ELSE S[m]]
          /\ D' = D
      BY <1>3
    <2>2. AtMostOnce!Withdraw({"reply"})
      BY <2>1 DEF AtMostOnce!Withdraw
    <2> QED
      BY <2>2 DEF AtMostOnce!Next
  <1>4. CASE /\ Abstraction = "claimed" /\ Abstraction' = Abstraction
             /\ delivered = 0 /\ delivered' = 1
    <2>1. /\ S["reply"] = "claimed" /\ D["reply"] = 0 /\ S' = S
          /\ D' = [D EXCEPT !["reply"] = 1]
      BY <1>4
    <2> QED
      BY <2>1 DEF AtMostOnce!Next, AtMostOnce!Deliver
  <1>5. ASSUME NEW next \in {"open", "closed"}, Abstraction = "claimed", Abstraction' = next,
               delivered = 0, delivered' = 0
        PROVE  AtMostOnce!Next
    <2>1. /\ S["reply"] = "claimed" /\ D["reply"] = 0 /\ D' = D
          /\ S' = [S EXCEPT !["reply"] = next]
      BY <1>5
    <2>2. AtMostOnce!GiveBack("reply", next)
      BY <2>1 DEF AtMostOnce!GiveBack
    <2> QED
      BY <2>2 DEF AtMostOnce!Next
  <1> QED
    BY <1>1, <1>2, <1>3, <1>4, <1>5 DEF MappedStep

LEMMA RefinementStep ==
  ASSUME PipelineInv, OwnerInv, [Next]_vars
  PROVE  MappedStep
  <1>a. intent \in IntentState
    BY DEF PipelineInv, TypeOK, RowTypeOK
  <1> USE DEF Abstraction
  \* Steps that leave the intent alone.
  <1>1. ASSUME UNCHANGED <<intent, delivered>>
        PROVE  MappedStep
    BY <1>1 DEF MappedStep
  <1>2. ASSUME NEW w \in Worker,
               \/ StartRun(w) \/ RecordOptOut(w) \/ DropMessage(w) \/ Suppress(w) \/ PassGates(w)
               \/ ClaimToDispatch(w) \/ ClaimSkips(w) \/ BindAudit(w) \/ Decide(w)
               \/ ResumeAudit(w) \/ RecordDecision(w) \/ QueueReply(w) \/ QueueRefused(w)
               \/ FailSend(w) \/ RecordOutcome(w) \/ Crash(w)
        PROVE  UNCHANGED <<intent, delivered>>
    BY <1>2 DEF StartRun, RecordOptOut, DropMessage, Suppress, PassGates, ClaimToDispatch, ClaimSkips,
                BindAudit, Decide, ResumeAudit, RecordDecision, QueueReply, QueueRefused,
                FailSend, RecordOutcome, Crash, rowVars
  \* Steps among the open states, or from one claimed state to another.
  <1>3. ASSUME NEW w \in Worker,
               CreateIntent(w) \/ ClaimToGenerate(w) \/ ReportOnly(w) \/ ReplayIntent(w)
        PROVE  MappedStep
    BY <1>3, <1>a DEF CreateIntent, ClaimToGenerate, ReportOnly, ReplayIntent, MappedStep
  \* A takeover, or a decision not to reply, withdraws what nobody has claimed.
  <1>4. ASSUME UNCHANGED delivered, intent' = "blocked", intent \in {"pending", "generating"}
        PROVE  MappedStep
    BY <1>4 DEF MappedStep
  <1>5. ASSUME NEW w \in Worker, FinalizeNonReply(w)
        PROVE  MappedStep
    BY <1>5, <1>4 DEF FinalizeNonReply, CloseWithoutReply, Evaluable
  <1>6. ASSUME Elsewhere \/ \E w \in Worker : HandOverUnanswered(w) \/ Escalate(w)
        PROVE  MappedStep
    <2>1. /\ UNCHANGED delivered
          /\ UNCHANGED intent \/ (intent' = "blocked" /\ intent \in {"pending", "generating"})
      BY <1>6, ElsewhereKeeps, HandKeeps DEF HandOverUnanswered, Escalate
    <2> QED
      BY <2>1, <1>1, <1>4
  \* The send.
  <1>7. ASSUME NEW w \in Worker, ClaimSend(w)
        PROVE  MappedStep
    BY <1>7 DEF ClaimSend, MappedStep
  <1>8. ASSUME NEW w \in Worker, SendReply(w) \/ LoseAnswer(w)
        PROVE  MappedStep
    <2>1. intent \in ClaimedState /\ delivered = 0
      BY <1>8 DEF SendReply, LoseAnswer, OwnerInv, AtSend
    <2> QED
      BY <1>8, <2>1 DEF SendReply, LoseAnswer, ClaimedState, MappedStep
  <1>9. ASSUME NEW w \in Worker, BlockSend(w)
        PROVE  MappedStep
    <2>1. intent \in ClaimedState /\ delivered = 0
      BY <1>9 DEF BlockSend, OwnerInv, AtSend
    <2> QED
      BY <1>9, <2>1 DEF BlockSend, ClaimedState, MappedStep
  <1>10. ASSUME NEW w \in Worker, RecordFailure(w)
        PROVE  MappedStep
    <2>1. intent \in ClaimedState /\ (pc[w] = "refused" => delivered = 0)
      BY <1>10 DEF RecordFailure, OwnerInv, AtSend
    <2> QED
      BY <1>10, <2>1 DEF RecordFailure, ClaimedState, MappedStep
  <1> QED
    BY <1>1, <1>2, <1>3, <1>5, <1>6, <1>7, <1>8, <1>9, <1>10
    DEF Next, Receive, Reason, Dispatch, Elsewhere

\* The pipeline keeps the promise of AtMostOnceSend about its one reply: claimed
\* before it is delivered, delivered at most once, and never closed as a
\* decision not to reply, or given back for another attempt, once delivered.
THEOREM PipelineImplementsAtMostOnce == Spec => ImplementsAtMostOnce
  <1>1. Init => AtMostOnce!Init
    BY DEF Init, AtMostOnce!Init, Abstraction
  <1>2. PipelineInv /\ OwnerInv /\ [Next]_vars => OwnerInv'
    BY OwnerNext
  <1>3. PipelineInv /\ OwnerInv /\ [Next]_vars =>
          [AtMostOnce!Next]_<<[m \in {"reply"} |-> Abstraction],
                             [m \in {"reply"} |-> delivered]>>
    BY RefinementStep, MappedSteps
  <1> QED
    BY <1>1, <1>2, <1>3, OwnerInit, Inductive, PTL
    DEF Spec, ImplementsAtMostOnce, AtMostOnce!Spec

-----------------------------------------------------------------------------
(* The queue that starts the runs, for any number of deliveries, requests,  *)
(* retries and crashes.                                                     *)

\* A request past its first transaction has its action row, and one about to
\* record success has a job that was handed over, by it or by an earlier one.
Replaying(r) == operator[r] \in {"requested", "missing", "submitted", "failing"}
ReplayInv ==
    /\ ReplaysAudited
    /\ known \subseteq handed
    /\ \A r \in Request : Replaying(r) => replay[target[r]] # "none"
    /\ \A r \in Request : operator[r] = "submitted" => target[r] \in handed

QueueInv == QueueTypeOK /\ ReplayInv

LEMMA ReplayTypes ==
  ASSUME QueueTypeOK
  PROVE  /\ attemptCount \in Attempts
         /\ known \subseteq Attempts /\ handed \subseteq Attempts
         /\ replay \in [Attempts -> {"none", "requested", "queued", "failed"}]
         /\ operator \in [Request -> {"idle", "requested", "missing", "submitted",
                                      "failing", "done"}]
         /\ target \in [Request -> Attempts]
  BY DEF QueueTypeOK

\* Handing a job over, again or for the first time.
LEMMA PushTypes ==
  ASSUME QueueTypeOK, NEW j \in Job, Push(j)
  PROVE  /\ entries' \in [Job -> Nat] /\ left' \in [Job -> 0 .. MaxRetries]
         /\ known' \subseteq Attempts /\ handed' \subseteq Attempts
  BY QueueAssumption DEF QueueTypeOK, Push

\* A retry of RQ, whatever is retried.
LEMMA RescheduleTypes ==
  ASSUME QueueTypeOK, NEW w \in Worker,
         Reschedule(running[w], budget[w])
  PROVE  /\ entries' \in [Job -> Nat] /\ left' \in [Job -> 0 .. MaxRetries]
         /\ UNCHANGED <<known, handed>>
  <1>1. PICK n \in 0 .. MaxRetries : n = budget[w]
    BY DEF QueueTypeOK
  <1>2. PICK j \in Job \cup {NoJob} : j = running[w]
    BY DEF QueueTypeOK
  <1>3. n > 0 => n - 1 \in 0 .. MaxRetries
    BY <1>1, QueueAssumption
  <1>4. /\ entries' = [entries EXCEPT ![j] = IF n > 0 THEN @ + 1 ELSE @]
        /\ left' = [left EXCEPT ![j] = IF n > 0 THEN n - 1 ELSE 0]
        /\ UNCHANGED <<known, handed>>
    BY <1>1, <1>2 DEF Reschedule
  <1>5. PICK k \in 0 .. MaxRetries : k = IF n > 0 THEN n - 1 ELSE 0
    BY <1>3, QueueAssumption
  <1>6. left' = [left EXCEPT ![j] = k]
    BY <1>4, <1>5
  <1>7. left' \in [Job -> 0 .. MaxRetries]
    BY <1>6 DEF QueueTypeOK
  <1>8. entries' \in [Job -> Nat]
    <2>1. entries \in [Job -> Nat]
      BY DEF QueueTypeOK
    <2>2. CASE n > 0
      <3>1. entries' = [i \in Job |-> IF i = j THEN entries[i] + 1 ELSE entries[i]]
        BY <1>4, <2>1, <2>2
      <3>2. \A i \in Job : entries[i] + 1 \in Nat /\ entries[i] \in Nat
        BY <2>1
      <3> QED
        BY <3>1, <3>2
    <2>3. CASE ~(n > 0)
      <3>1. entries' = [entries EXCEPT ![j] = @]
        BY <1>4, <2>3
      <3> QED
        BY <2>1, <3>1
    <2> QED
      BY <2>2, <2>3
  <1> QED
    BY <1>4, <1>7, <1>8

LEMMA ReleaseTypes ==
  ASSUME QueueTypeOK, NEW w \in Worker, Release(w)
  PROVE  /\ work' \in [Worker -> {"idle", "business"}]
         /\ running' \in [Worker -> Job \cup {NoJob}]
         /\ budget' \in [Worker -> 0 .. MaxRetries]
  BY QueueAssumption DEF QueueTypeOK, Release

LEMMA IngressTypes ==
  ASSUME QueueTypeOK, NEW d \in Delivery,
         ReadReceipt(d) \/ Ingress(d) \/ WebCrash(d)
  PROVE  QueueTypeOK'
  <1> USE DEF QueueTypeOK, ReceiptState, receiptVars, redisVars,
              rqVars, operatorVars, Web, Close
  <1>1. CASE ReadReceipt(d)
    <2>1. CASE receipt \in Accepted
      BY <1>1, <2>1 DEF ReadReceipt
    <2>2. CASE receipt \notin Accepted
      BY <1>1, <2>2 DEF ReadReceipt
    <2> QED
      BY <2>1, <2>2
  <1>2. CASE SaveReceipt(d)
    BY <1>2 DEF SaveReceipt
  <1>3. CASE RejectConcurrent(d) \/ Reject(d) \/ MarkQueued(d)
             \/ WebCrash(d)
    BY <1>3 DEF RejectConcurrent, Reject, MarkQueued, WebCrash
  <1>4. CASE Enqueue(d)
    BY <1>4, PushTypes DEF Enqueue, Reload, Job
  <1>5. CASE EnqueueFails(d)
    BY <1>5, PushTypes DEF EnqueueFails, Reload, Job
  <1> QED
    BY <1>1, <1>2, <1>3, <1>4, <1>5 DEF Ingress

LEMMA RunTypes ==
  ASSUME QueueTypeOK, NEW w \in Worker,
         Run(w) \/ WorkerCrash(w)
  PROVE  QueueTypeOK'
  <1> USE DEF receiptVars, webVars, redisVars, operatorVars
  <1>1. ASSUME NEW j \in Job, StartJob(w, j)
        PROVE  QueueTypeOK'
    <2>1. PICK n \in 0 .. MaxRetries : n = left[j]
      BY DEF QueueTypeOK
    <2>2. MaxRetries - n + 1 \in Attempts
      BY QueueAssumption DEF Attempts
    <2>3. attemptCount' \in Attempts
      BY <1>1, <2>1, <2>2 DEF StartJob, RetryAttempt, QueueTypeOK
    <2>4. entries' \in [Job -> Nat]
      BY <1>1 DEF StartJob, QueueTypeOK
    <2>5. left' \in [Job -> 0 .. MaxRetries]
      BY <1>1, QueueAssumption DEF StartJob, QueueTypeOK
    <2>6. runs' \in 0 .. MaxExecutions
      BY <1>1, QueueAssumption DEF StartJob, QueueTypeOK
    <2>7. /\ work' \in [Worker -> {"idle", "business"}]
          /\ running' \in [Worker -> Job \cup {NoJob}]
          /\ budget' \in [Worker -> 0 .. MaxRetries]
      BY <1>1, <2>1 DEF StartJob, QueueTypeOK
    <2> QED
      BY <1>1, <2>3, <2>4, <2>5, <2>6, <2>7
         DEF StartJob, QueueTypeOK, ReceiptState
  <1>2. CASE Succeed(w)
    BY <1>2, ReleaseTypes DEF Succeed, QueueTypeOK, ReceiptState
  <1>3. CASE FailRetryable(w) \/ FailPermanently(w)
    BY <1>3, ReleaseTypes, RescheduleTypes
       DEF FailRetryable, FailPermanently, QueueTypeOK, ReceiptState
  <1>4. CASE WorkerCrash(w)
    BY <1>4, ReleaseTypes, RescheduleTypes DEF WorkerCrash, QueueTypeOK
  <1> QED
    BY <1>1, <1>2, <1>3, <1>4 DEF Run

LEMMA RedisTypes ==
  ASSUME QueueTypeOK,
         \/ \E w \in Worker, j \in Job : Postpone(w, j) \/ FailUnmarked(w, j)
         \/ \E n \in Attempts : Expire(n)
         \/ SetConsumption
  PROVE  QueueTypeOK'
  <1> USE DEF receiptVars, webVars, redisVars, rqVars,
              operatorVars
  <1>1. ASSUME NEW w \in Worker, NEW j \in Job, Postpone(w, j)
        PROVE  QueueTypeOK'
    BY <1>1, QueueAssumption DEF Postpone, QueueTypeOK
  <1>2. ASSUME NEW w \in Worker, NEW j \in Job, FailUnmarked(w, j)
        PROVE  QueueTypeOK'
    <2>1. PICK n \in 0 .. MaxRetries : n = left[j]
      BY DEF QueueTypeOK
    <2>2. n > 0 => n - 1 \in 0 .. MaxRetries
      BY QueueAssumption
    <2>3. PICK k \in Nat : k = entries[j] /\ k > 0
      BY <1>2 DEF QueueTypeOK, FailUnmarked
    <2>4. left' = [left EXCEPT ![j] = IF n > 0 THEN n - 1 ELSE 0]
      BY <1>2, <2>1 DEF FailUnmarked
    <2>5. left' \in [Job -> 0 .. MaxRetries]
      BY <2>2, <2>4, QueueAssumption DEF QueueTypeOK
    <2>6. entries' = [entries EXCEPT ![j] = IF n > 0 THEN k ELSE k - 1]
      BY <1>2, <2>1, <2>3 DEF FailUnmarked
    <2>7. entries' \in [Job -> Nat]
      BY <2>3, <2>6 DEF QueueTypeOK
    <2> QED
      BY <1>2, <2>5, <2>7 DEF FailUnmarked, QueueTypeOK
  <1>3. CASE (\E n \in Attempts : Expire(n)) \/ SetConsumption
    BY <1>3 DEF Expire, SetConsumption, QueueTypeOK
  <1> QED
    BY <1>1, <1>2, <1>3

LEMMA OperatorTypes ==
  ASSUME QueueTypeOK, NEW r \in Request,
         Operate(r) \/ OperatorCrash(r)
  PROVE  QueueTypeOK'
  <1> USE DEF receiptVars, webVars, redisVars, rqVars,
              Operator, Answer
  <1>1. 0 \in Attempts
    BY QueueAssumption DEF Attempts
  <1>2. CASE AlreadyQueued(r) \/ OperatorCrash(r)
    BY <1>1, <1>2 DEF AlreadyQueued, OperatorCrash, QueueTypeOK
  <1>3. CASE RequestReplay(r)
    BY <1>3 DEF RequestReplay, QueueTypeOK, ReceiptState
  <1>4. CASE FetchReplayJob(r) \/ SubmitFails(r)
    BY <1>4 DEF FetchReplayJob, SubmitFails, QueueTypeOK
  <1>5. CASE SubmitReplay(r)
    <2>1. target[r] \in Job
      BY ReplayTypes DEF Job
    <2> QED
      BY <1>5, <2>1, PushTypes DEF SubmitReplay, QueueTypeOK
  <1>6. CASE AbandonReplay(r) \/ FinishReplay(r)
    BY <1>1, <1>6 DEF AbandonReplay, FinishReplay, QueueTypeOK, ReceiptState
  <1> QED
    BY <1>2, <1>3, <1>4, <1>5, <1>6 DEF Operate

\* What leaves the replays' rows alone may still drop a finished job.
LEMMA ReplaysStay ==
  ASSUME ReplayInv, known' \subseteq known, UNCHANGED <<handed, replay, operator, target>>
  PROVE  ReplayInv'
  BY DEF ReplayInv, Replaying, ReplaysAudited

\* A delivery's own job is no replay.
LEMMA DeliveryPushed ==
  ASSUME NEW d \in Delivery, Push(d)
  PROVE  UNCHANGED <<known, handed>>
  BY QueueAssumption DEF Push

\* What a step of a request leaves of the other requests.
LEMMA RequestMoves ==
  ASSUME QueueTypeOK, ReplayInv, NEW r \in Request,
         \A q \in Request \ {r} : operator'[q] = operator[q] /\ target'[q] = target[q],
         \A n \in Attempts : replay[n] # "none" => replay'[n] # "none",
         handed \subseteq handed', known' \subseteq handed', ReplaysAudited',
         Replaying(r)' => replay'[target'[r]] # "none",
         operator'[r] = "submitted" => target'[r] \in handed'
  PROVE  ReplayInv'
  <1>1. ASSUME NEW q \in Request
        PROVE  /\ Replaying(q)' => replay'[target'[q]] # "none"
               /\ operator'[q] = "submitted" => target'[q] \in handed'
    <2>1. CASE q = r
      BY <2>1
    <2>2. CASE q # r
      <3>1. target[q] \in Attempts
        BY ReplayTypes
      <3> QED
        BY <2>2, <3>1 DEF ReplayInv, Replaying
    <2> QED
      BY <2>1, <2>2
  <1> QED
    BY <1>1 DEF ReplayInv, Replaying

LEMMA OperatorKeeps ==
  ASSUME QueueTypeOK, ReplayInv, NEW r \in Request,
         Operate(r) \/ OperatorCrash(r)
  PROVE  ReplayInv'
  <1> USE DEF redisVars, Operator, Answer
  <1>1. PICK n \in Attempts : n = target[r]
    BY ReplayTypes
  <1>2. CASE AlreadyQueued(r) \/ OperatorCrash(r)
    <2>1. /\ \A q \in Request \ {r} : operator'[q] = operator[q] /\ target'[q] = target[q]
          /\ operator'[r] = "done"
      BY <1>2, ReplayTypes DEF AlreadyQueued, OperatorCrash
    <2>2. UNCHANGED <<replay, handed, known>>
      BY <1>2 DEF AlreadyQueued, OperatorCrash
    <2> QED
      BY <2>1, <2>2, RequestMoves DEF ReplayInv, Replaying, ReplaysAudited
  <1>3. CASE RequestReplay(r)
    <2>1. /\ \A q \in Request \ {r} : operator'[q] = operator[q] /\ target'[q] = target[q]
          /\ operator'[r] = "requested" /\ target'[r] = attemptCount
      BY <1>3, ReplayTypes DEF RequestReplay
    <2>2. /\ UNCHANGED <<handed, known>>
          /\ \A k \in Attempts :
               replay'[k] = IF k = attemptCount THEN "requested" ELSE replay[k]
      BY <1>3, ReplayTypes DEF RequestReplay
    <2> QED
      BY <2>1, <2>2, ReplayTypes, RequestMoves DEF ReplayInv, ReplaysAudited
  <1>4. CASE FetchReplayJob(r) \/ SubmitFails(r)
    <2>1. /\ UNCHANGED <<replay, target, handed, known>>
          /\ \A q \in Request \ {r} : operator'[q] = operator[q]
          /\ operator'[r] = "submitted" => n \in known
          /\ Replaying(r)
      BY <1>1, <1>4, ReplayTypes DEF FetchReplayJob, SubmitFails, Replaying
    <2> QED
      BY <1>1, <2>1, RequestMoves DEF ReplayInv, ReplaysAudited
  <1>5. CASE SubmitReplay(r)
    <2>1. /\ UNCHANGED <<replay, target>>
          /\ \A q \in Request \ {r} : operator'[q] = operator[q]
          /\ Replaying(r) /\ replay[n] # "none"
      BY <1>1, <1>5, ReplayTypes DEF SubmitReplay, Replaying, ReplayInv
    <2>2. handed' = handed \cup {n} /\ known' = known \cup {n}
      BY <1>1, <1>5 DEF SubmitReplay, Push
    <2> QED
      BY <1>1, <2>1, <2>2, RequestMoves DEF ReplayInv, ReplaysAudited
  <1>6. CASE AbandonReplay(r) \/ FinishReplay(r)
    <2>1. /\ \A q \in Request \ {r} : operator'[q] = operator[q] /\ target'[q] = target[q]
          /\ operator'[r] = "done" /\ UNCHANGED <<handed, known>>
      BY <1>6, ReplayTypes DEF AbandonReplay, FinishReplay
    <2>2. PICK o \in {"failed", "queued"} :
            /\ \A k \in Attempts : replay'[k] = IF k = n THEN o ELSE replay[k]
            /\ o = "queued" => operator[r] = "submitted"
      BY <1>1, <1>6, ReplayTypes DEF AbandonReplay, FinishReplay
    <2>3. o = "queued" => n \in handed
      BY <1>1, <2>2 DEF ReplayInv
    <2> QED
      BY <2>1, <2>2, <2>3, RequestMoves DEF ReplayInv, Replaying, ReplaysAudited
  <1> QED
    BY <1>2, <1>3, <1>4, <1>5, <1>6 DEF Operate

LEMMA QueueStep ==
  ASSUME QueueInv, [QueueNext]_queueVars
  PROVE  QueueInv'
  <1> USE DEF redisVars, operatorVars
  <1>1. QueueTypeOK /\ ReplayInv
    BY DEF QueueInv
  <1>2. CASE UNCHANGED queueVars
    <2>1. QueueTypeOK'
      BY <1>1, <1>2 DEF queueVars, receiptVars, webVars, rqVars,
                        QueueTypeOK
    <2> QED
      BY <1>1, <1>2, <2>1, ReplaysStay DEF queueVars, QueueInv
  <1>3. ASSUME NEW d \in Delivery, ReadReceipt(d) \/ Ingress(d) \/ WebCrash(d)
        PROVE  QueueInv'
    <2>1. UNCHANGED <<known, handed, replay, operator, target>>
      BY <1>3, DeliveryPushed
         DEF ReadReceipt, Ingress, WebCrash, SaveReceipt,
             RejectConcurrent, Enqueue, EnqueueFails, Reject,
             MarkQueued
    <2> QED
      BY <1>1, <1>3, <2>1, IngressTypes, ReplaysStay DEF QueueInv
  <1>4. ASSUME NEW w \in Worker, Run(w) \/ WorkerCrash(w)
        PROVE  QueueInv'
    <2>1. UNCHANGED <<known, handed, replay, operator, target>>
      BY <1>4 DEF Run, WorkerCrash, StartJob, Succeed,
                  FailRetryable, FailPermanently, Reschedule
    <2> QED
      BY <1>1, <1>4, <2>1, RunTypes, ReplaysStay DEF QueueInv
  <1>5. CASE \/ \E w \in Worker, j \in Job :
                  Postpone(w, j) \/ FailUnmarked(w, j)
             \/ \E n \in Attempts : Expire(n)
             \/ SetConsumption
    <2>1. known' \subseteq known /\ UNCHANGED <<handed, replay, operator, target>>
      BY <1>5 DEF Postpone, FailUnmarked, Expire, SetConsumption
    <2> QED
      BY <1>1, <1>5, <2>1, RedisTypes, ReplaysStay DEF QueueInv
  <1>6. ASSUME NEW r \in Request, Operate(r) \/ OperatorCrash(r)
        PROVE  QueueInv'
    BY <1>1, <1>6, OperatorTypes, OperatorKeeps DEF QueueInv
  <1> QED
    BY <1>2, <1>3, <1>4, <1>5, <1>6 DEF QueueNext

LEMMA QueueStarts ==
  ASSUME QueueInit
  PROVE  QueueInv
  <1>1. /\ 0 \in Attempts /\ 0 \in 0 .. MaxRetries /\ 0 \in 0 .. MaxExecutions /\ 0 \in Nat
        /\ "absent" \in ReceiptState
    BY QueueAssumption DEF Attempts, ReceiptState
  <1>2. QueueTypeOK
    BY <1>1 DEF QueueInit, QueueTypeOK
  <1>3. ReplayInv
    BY DEF QueueInit, ReplayInv, Replaying, ReplaysAudited
  <1> QED
    BY <1>2, <1>3 DEF QueueInv

\* The receipt, the jobs in Redis and the rows of the replays keep their types.
THEOREM QueueTyped ==
  QueueSpec => []QueueTypeOK
  <1>1. QueueInv /\ [QueueNext]_queueVars => QueueInv'
    BY QueueStep
  <1>2. QueueInit => QueueInv
    BY QueueStarts
  <1>3. QueueInv => QueueTypeOK
    BY DEF QueueInv
  <1> QED
    BY <1>1, <1>2, <1>3, PTL DEF QueueSpec

\* A replay job exists only under an action row of its attempt count, and an
\* action says "queued" only once its job was handed to Redis, however many
\* requests race and wherever they die (_replay_one, enqueue_persisted_receipt).
THEOREM ReplaysAreAudited ==
  QueueSpec => []ReplaysAudited
  <1>1. QueueInv /\ [QueueNext]_queueVars => QueueInv'
    BY QueueStep
  <1>2. QueueInit => QueueInv
    BY QueueStarts
  <1>3. QueueInv => ReplaysAudited
    BY DEF QueueInv, ReplayInv
  <1> QED
    BY <1>1, <1>2, <1>3, PTL DEF QueueSpec

\* The evidence of a failure survives every replay and every run: only a
\* redelivery by Meta clears it (enqueue_event).
THEOREM EvidenceStays ==
  QueueSpec => EvidenceRemains
  <1> DEFINE Cleared == letter /\ ~letter' => \E d \in Delivery : web[d] = "read" /\ web'[d] = "saved"
  <1>1. ASSUME QueueInv, [QueueNext]_queueVars
        PROVE  [Cleared]_queueVars
    <2> USE DEF receiptVars
    <2>1. web \in [Delivery -> {"idle", "read", "saved", "enqueued", "failing",
                                "acked", "rejected"}]
      BY <1>1 DEF QueueInv, QueueTypeOK
    <2>2. ASSUME NEW d \in Delivery, ReadReceipt(d) \/ Ingress(d) \/ WebCrash(d)
          PROVE  Cleared
      <3>1. CASE SaveReceipt(d)
        BY <2>1, <3>1 DEF SaveReceipt, Web
      <3>2. CASE ~SaveReceipt(d)
        <4>1. letter' \in {letter, TRUE}
          BY <2>2, <3>2
             DEF ReadReceipt, Ingress, WebCrash, RejectConcurrent,
                 Enqueue, EnqueueFails, Reject, MarkQueued
        <4> QED
          BY <4>1
      <3> QED
        BY <3>1, <3>2
    <2>3. ASSUME NEW w \in Worker,
                 \/ Run(w) \/ WorkerCrash(w)
                 \/ \E j \in Job : Postpone(w, j) \/ FailUnmarked(w, j)
          PROVE  letter' \in {letter, TRUE}
      BY <2>3 DEF Run, WorkerCrash, StartJob, Succeed,
                  FailRetryable, FailPermanently, Postpone,
                  FailUnmarked
    <2>4. ASSUME NEW r \in Request, Operate(r) \/ OperatorCrash(r)
          PROVE  letter' = letter
      BY <2>4 DEF Operate, OperatorCrash, AlreadyQueued,
                  RequestReplay, FetchReplayJob, SubmitReplay,
                  SubmitFails, AbandonReplay, FinishReplay
    <2>5. CASE (\E n \in Attempts : Expire(n)) \/ SetConsumption
      BY <2>5 DEF Expire, SetConsumption
    <2> QED
      BY <1>1, <2>2, <2>3, <2>4, <2>5 DEF QueueNext
  <1>2. QueueInv /\ [QueueNext]_queueVars => QueueInv'
    BY QueueStep
  <1>3. QueueInit => QueueInv
    BY QueueStarts
  <1> QED
    BY <1>1, <1>2, <1>3, PTL DEF QueueSpec, EvidenceRemains

-----------------------------------------------------------------------------
(* Queue and pipeline together.                                             *)

\* Every step of the composition is one of the queue, one of the pipeline, or one
\* of both.
LEMMA InboundSteps ==
  ASSUME [InboundNext]_<<vars, queueVars>>
  PROVE  [Next]_vars /\ [QueueNext]_queueVars
  <1>1. ASSUME NEW w \in Worker, Proceed(w)
        PROVE  Next /\ UNCHANGED queueVars
    BY <1>1 DEF Proceed, Next, Dispatch
  <1>2. ASSUME NEW w \in Worker, Conclude(w)
        PROVE  UNCHANGED vars /\ QueueNext
    BY <1>2 DEF Conclude, QueueNext, Run
  <1>3. ASSUME NEW w \in Worker, Die(w)
        PROVE  [Next]_vars /\ QueueNext
    BY <1>3 DEF Die, Next, QueueNext
  <1>4. ASSUME NEW w \in Worker, NEW j \in Job, TakeJob(w, j)
        PROVE  Next /\ QueueNext
    BY <1>4 DEF TakeJob, Next, Receive, QueueNext, Run
  <1>5. ASSUME NEW w \in Worker, NEW j \in Job, PassOver(w, j)
        PROVE  UNCHANGED vars /\ QueueNext
    BY <1>5 DEF PassOver, QueueNext
  <1>6. CASE AroundQueue
    BY <1>6 DEF AroundQueue, QueueNext
  <1>7. CASE AroundConversation
    BY <1>7 DEF AroundConversation, Next
  <1>8. CASE UNCHANGED <<vars, queueVars>>
    BY <1>8
  <1> QED
    BY <1>1, <1>2, <1>3, <1>4, <1>5, <1>6, <1>7, <1>8 DEF InboundNext

\* What the pipeline assumes of the queue, that a run may start whenever a worker
\* is free, allows every run the queue starts (process_webhook_event).
THEOREM InboundRunsThePipeline == InboundSpec => Spec
  <1>1. [InboundNext]_<<vars, queueVars>> => [Next]_vars
    BY InboundSteps
  <1>2. InboundInit => Init
    BY DEF InboundInit
  <1> QED
    BY <1>1, <1>2, PTL DEF InboundSpec, Spec

\* The runs of the pipeline are among those the queue allows for: each takes a job,
\* and its receipt is marked once, or its worker dies (process_webhook_event).
THEOREM InboundImplementsQueue == InboundSpec => QueueSpec
  <1>1. [InboundNext]_<<vars, queueVars>> => [QueueNext]_queueVars
    BY InboundSteps
  <1>2. InboundInit => QueueInit
    BY DEF InboundInit
  <1> QED
    BY <1>1, <1>2, PTL DEF InboundSpec, QueueSpec

\* However an event is delivered, retried and replayed: the model is asked at most
\* once for its message, the message is concluded one way, its reply is delivered
\* at most once, and every replay that led there is audited.
THEOREM InboundKeepsPromises ==
  InboundSpec => /\ []ModelAskedOnce /\ []ConcludedOneWay /\ ImplementsAtMostOnce
                 /\ []ReplaysAudited /\ EvidenceRemains
  BY InboundRunsThePipeline, InboundImplementsQueue, AskedOnce, OneConclusion,
     PipelineImplementsAtMostOnce, ReplaysAreAudited, EvidenceStays, PTL

-----------------------------------------------------------------------------
(* A STOP is in force before its receipt says processed.                    *)

\* A run about a STOP goes no further than its first transaction, and returns only
\* from the one that records the opt-out.
StopInv ==
    text = "stop" =>
        /\ intent = "none"
        /\ \A w \in Worker : pc[w] = "idle" \/ (pc[w] = "received" /\ returned[w] = "no")
        /\ \A w \in Worker : returned[w] = "done" => optedOut
        /\ receipt = "processed" => optedOut \/ \E w \in Worker : returned[w] = "dropped"

\* What a run about a STOP may do.
LEMMA StopRun ==
  ASSUME TypeOK, StopInv, text = "stop", NEW w \in Worker,
         Receive(w) \/ Reason(w) \/ Dispatch(w) \/ Crash(w)
  PROVE  /\ UNCHANGED <<text, intent>> /\ (optedOut => optedOut')
         /\ pc[w] \in {"idle", "received"}
         /\ \/ /\ pc[w] = "idle" /\ pc' = [pc EXCEPT ![w] = "received"]
               /\ returned' = [returned EXCEPT ![w] = "no"]
            \/ /\ pc[w] = "received" /\ pc' = [pc EXCEPT ![w] = "idle"]
               /\ \/ returned' = [returned EXCEPT ![w] = "done"] /\ optedOut'
                  \/ returned' = [returned EXCEPT ![w] = "dropped"]
                  \/ returned' = returned
  <1> USE DEF StopInv, settingVars, rowVars
  <1>1. StartRun(w) \/ RecordOptOut(w) \/ DropMessage(w) \/ Crash(w)
    BY DEF Receive, Reason, Dispatch, HandOverUnanswered, Suppress, PassGates,
           CreateIntent, ClaimToGenerate, ClaimToDispatch, ClaimSkips, BindAudit,
           Decide, ResumeAudit, RecordDecision, FinalizeNonReply, Escalate,
           QueueReply, QueueRefused, ClaimSend, ReportOnly, BlockSend, SendReply,
           LoseAnswer, FailSend, RecordFailure, RecordOutcome, ReplayIntent
  <1>2. CASE StartRun(w)
    BY <1>2 DEF StartRun
  <1>3. CASE RecordOptOut(w)
    BY <1>3 DEF RecordOptOut, Return, EndRun
  <1>4. CASE DropMessage(w)
    BY <1>4 DEF DropMessage, EndRun
  <1>5. CASE Crash(w)
    BY <1>5 DEF Crash, Raise, EndRun
  <1> QED
    BY <1>1, <1>2, <1>3, <1>4, <1>5

LEMMA StopElsewhere ==
  ASSUME StopInv, text = "stop", Elsewhere
  PROVE  UNCHANGED <<text, intent, pc, returned>> /\ (optedOut => optedOut')
  <1> USE DEF StopInv, settingVars, rowVars, workerVars
  <1>1. CASE \E enabled \in BOOLEAN : ChangeOwner(enabled)
    <2>1. PICK enabled \in BOOLEAN : ChangeOwner(enabled)
      BY <1>1
    <2>2. UNCHANGED <<text, pc, returned>> /\ optedOut' = optedOut
      BY <2>1 DEF ChangeOwner
    <2>3. intent' = intent
      BY <2>1 DEF ChangeOwner, Take
    <2> QED
      BY <2>2, <2>3
  <1>2. CASE RewriteOwner
    <2>1. UNCHANGED <<text, pc, returned, intent>> /\ optedOut' = optedOut
      BY <1>2 DEF RewriteOwner
    <2> QED
      BY <2>1
  <1>3. CASE OptOut
    BY <1>3 DEF OptOut
  <1>4. CASE SetAutoReply
    BY <1>4 DEF SetAutoReply
  <1>5. CASE UNCHANGED vars
    BY <1>5 DEF vars
  <1> QED
    BY <1>1, <1>2, <1>3, <1>4, <1>5 DEF Elsewhere

\* The pipeline's part of the invariant.
LEMMA StopKeptByRuns ==
  ASSUME TypeOK, StopInv, [Next]_vars, text = "stop"
  PROVE  /\ text' = "stop" /\ intent' = "none" /\ (optedOut => optedOut')
         /\ \A w \in Worker : pc'[w] = "idle" \/ (pc'[w] = "received" /\ returned'[w] = "no")
         /\ \A w \in Worker : returned'[w] = "done" => optedOut'
  <1> USE DEF StopInv
  <1>a. /\ pc \in [Worker -> Steps]
        /\ returned \in [Worker -> {"no", "done", "dropped"}]
    BY DEF TypeOK, WorkerTypeOK
  <1>1. ASSUME NEW v \in Worker, Receive(v) \/ Reason(v) \/ Dispatch(v) \/ Crash(v)
        PROVE  /\ text' = "stop" /\ intent' = "none" /\ (optedOut => optedOut')
               /\ \A w \in Worker : pc'[w] = "idle"
                                     \/ (pc'[w] = "received" /\ returned'[w] = "no")
               /\ \A w \in Worker : returned'[w] = "done" => optedOut'
    BY <1>a, <1>1, StopRun
  <1>2. CASE Elsewhere
    BY <1>2, StopElsewhere
  <1> QED
    BY <1>1, <1>2 DEF Next, Elsewhere

\* That a run has dropped the message is forgotten only when the job is taken again.
LEMMA DropsStay ==
  ASSUME TypeOK, StopInv, text = "stop", [InboundNext]_<<vars, queueVars>>,
         NEW w \in Worker, returned[w] = "dropped"
  PROVE  returned'[w] = "dropped" \/ receipt' = "processing"
  <1> USE DEF StopInv
  <1>a. returned \in [Worker -> {"no", "done", "dropped"}]
    BY DEF TypeOK, WorkerTypeOK
  <1>1. ASSUME NEW v \in Worker, Proceed(v)
        PROVE  returned'[w] = "dropped"
    <2>1. pc[v] = "received"
      BY <1>1 DEF Proceed, ReplayIntent
    <2>2. v # w
      BY <2>1
    <2>3. Receive(v) \/ Reason(v) \/ Dispatch(v) \/ Crash(v)
      BY <1>1 DEF Proceed, Dispatch
    <2> QED
      BY <1>a, <2>1, <2>2, <2>3, StopRun
  <1>2. ASSUME NEW v \in Worker, Die(v)
        PROVE  returned'[w] = "dropped"
    BY <1>2 DEF Die, Crash, Raise, vars
  <1>3. ASSUME NEW v \in Worker, NEW j \in Job, TakeJob(v, j)
        PROVE  receipt' = "processing"
    BY <1>3 DEF TakeJob, StartJob
  <1>4. CASE AroundConversation
    BY <1>4, StopElsewhere DEF AroundConversation, Elsewhere
  <1>5. CASE UNCHANGED vars
    BY <1>5 DEF vars
  <1> QED
    BY <1>1, <1>2, <1>3, <1>4, <1>5 DEF InboundNext, Conclude, PassOver, AroundQueue

\* What the message says never changes.
LEMMA TextStays ==
  ASSUME [Next]_vars
  PROVE  text' = text
  <1> USE DEF settingVars
  <1>1. ASSUME NEW w \in Worker, Receive(w) \/ Crash(w)
        PROVE  text' = text
    BY <1>1 DEF Receive, Crash, StartRun, RecordOptOut, HandOverUnanswered, DropMessage, Suppress,
                PassGates, CreateIntent, ClaimToGenerate, ClaimToDispatch, ClaimSkips
  <1>2. ASSUME NEW w \in Worker, Reason(w)
        PROVE  text' = text
    BY <1>2 DEF Reason, BindAudit, Decide, ResumeAudit, RecordDecision, FinalizeNonReply,
                CloseWithoutReply, Escalate, QueueReply, QueueRefused
  <1>3. ASSUME NEW w \in Worker, Dispatch(w)
        PROVE  text' = text
    BY <1>3 DEF Dispatch, ClaimSend, ReportOnly, BlockSend, SendReply, LoseAnswer, FailSend,
                RecordFailure, RecordOutcome, ReplayIntent
  <1>4. CASE Elsewhere
    BY <1>4 DEF Elsewhere, ChangeOwner, RewriteOwner, OptOut, SetAutoReply, vars
  <1> QED
    BY <1>1, <1>2, <1>3, <1>4 DEF Next, Elsewhere

LEMMA StopKept ==
  ASSUME TypeOK, StopInv, [InboundNext]_<<vars, queueVars>>
  PROVE  StopInv'
  <1>1. [Next]_vars
    BY InboundSteps
  <1>2. text' = "stop" => text = "stop"
    BY <1>1, TextStays
  <1> SUFFICES ASSUME text = "stop", receipt' = "processed"
               PROVE  optedOut' \/ \E w \in Worker : returned'[w] = "dropped"
    BY <1>1, <1>2, StopKeptByRuns DEF StopInv
  <1>3. optedOut => optedOut'
    BY <1>1, StopKeptByRuns
  <1>4. ASSUME NEW w \in Worker, Conclude(w)
        PROVE  optedOut' \/ returned'[w] = "dropped"
    <2>1. returned[w] # "no" /\ UNCHANGED vars
      BY <1>4 DEF Conclude, FailRetryable, FailPermanently
    <2>2. returned[w] \in {"no", "done", "dropped"} /\ UNCHANGED returned
      BY <2>1 DEF TypeOK, WorkerTypeOK, vars
    <2> QED
      BY <1>3, <2>1, <2>2 DEF StopInv
  <1>5. CASE ~ \E w \in Worker : Conclude(w)
    <2>1. receipt = "processed"
      BY <1>5 DEF InboundNext, Proceed, Die, WorkerCrash, TakeJob, StartJob, PassOver,
                  Postpone, FailUnmarked, AroundQueue, ReadReceipt, Ingress, WebCrash,
                  SaveReceipt, RejectConcurrent, Enqueue, EnqueueFails, Reject, MarkQueued,
                  Operate, OperatorCrash, AlreadyQueued, RequestReplay, FetchReplayJob,
                  SubmitReplay, SubmitFails, AbandonReplay, FinishReplay, Expire,
                  SetConsumption, AroundConversation, queueVars, receiptVars
    <2> QED
      BY <1>3, <2>1, DropsStay DEF StopInv
  <1> QED
    BY <1>4, <1>5

\* A customer's STOP whose event is marked processed is in force, for any number of
\* deliveries, replays and dying runs, unless the marked run dropped the message
\* (process_webhook_event marks the receipt only when process_webhook_message has
\* returned).
THEOREM StopTakesEffect == InboundSpec => []StopIsInForce
  <1>1. InboundInit => StopInv
    BY DEF InboundInit, Init, QueueInit, StopInv
  <1>2. TypeOK /\ StopInv /\ [InboundNext]_<<vars, queueVars>> => StopInv'
    BY StopKept
  <1>3. StopInv => StopIsInForce
    BY DEF StopInv, StopIsInForce
  <1>4. InboundSpec => []TypeOK
    BY InboundRunsThePipeline, PipelineTypeCorrect, PTL
  <1> QED
    BY <1>1, <1>2, <1>3, <1>4, PTL DEF InboundSpec

=============================================================================
