-------------------------- MODULE ReconcileProofs --------------------------
(***************************************************************************)
(* Type correctness and money safety of the pipeline beside its resolvers, *)
(* for any number of requests, authorizations, mandates and resolvers, any *)
(* orders and any number of faults.                                        *)
(***************************************************************************)
EXTENDS Reconcile, StoreProofs

-----------------------------------------------------------------------------
(* Types.                                                                  *)

\* What a request buys is one of the offered orders' shape.
LEMMA OrderFields ==
    ASSUME PipelineTypeOK, NEW r \in Request
    PROVE  /\ KeyOf(r) \in Key
           /\ MandateOf(r) \in Mandate \cup {NoMandate}
           /\ order[r].rail \in Rail
           /\ ReusesRejected(r) \in BOOLEAN
BY DEF PipelineTypeOK, Order, KeyOf, MandateOf, ReusesRejected

\* A reservation of a hold writes a row of the schema's shape.
LEMMA ReserveHoldKeepsType ==
    ASSUME HoldTypeOK, NEW m \in Mandate, NEW r \in Request, ReserveHold(m, r)
    PROVE  HoldTypeOK'
BY DEF HoldTypeOK, ReserveHold, Hold, HoldState

\* So does a transition, also one for no mandate, which changes nothing.
LEMMA TransitionHoldKeepsType ==
    ASSUME HoldTypeOK, NEW m \in Mandate \cup {NoMandate}, NEW r, NEW to \in HoldTarget,
           TransitionHold(m, to, r)
    PROVE  HoldTypeOK'
<1>1. CASE m \in Mandate
  BY <1>1 DEF HoldTypeOK, TransitionHold, Hold, HoldState, HoldTarget
<1>2. CASE m = NoMandate
  BY <1>2, PipelineConstants DEF HoldTypeOK, TransitionHold
<1> QED
  BY <1>1, <1>2

\* The steps before a payment attempt exists, and the last ones, keep the types.
LEMMA AdmissionTypes ==
    ASSUME PipelineTypeOK, NEW r \in Request,
           \/ Refuse(r) \/ Verify(r) \/ VerifyRefused(r) \/ Authorize(r)
           \/ AuthorizeRefused(r) \/ Reserve(r) \/ ReserveRefused(r) \/ ReleaseUnused(r)
    PROVE  PipelineTypeOK'
<1> USE OrderFields, PipelineConstants
<1> USE DEF PipelineTypeOK, Goto, Answer, storeVars, worldVars, PC, Active, Outcome
<1>1. CASE Refuse(r)
  BY <1>1 DEF Refuse, AttemptTypeOK, HoldTypeOK
<1>2. CASE Verify(r)
  BY <1>2 DEF Verify, AttemptTypeOK, HoldTypeOK
<1>3. CASE VerifyRefused(r)
  BY <1>3 DEF VerifyRefused, AttemptTypeOK, HoldTypeOK, ReplayAnswer, Fault, NoFault
<1>4. CASE Authorize(r)
  <2>1. HoldTypeOK'
    BY <1>4, ReserveHoldKeepsType DEF Authorize, Authorized, HoldTypeOK
  <2> QED
    BY <1>4, <2>1 DEF Authorize, AttemptTypeOK
<1>5. CASE AuthorizeRefused(r)
  BY <1>5 DEF AuthorizeRefused, AttemptTypeOK, HoldTypeOK
<1>6. CASE Reserve(r)
  <2>1. AttemptTypeOK'
    BY <1>6, ReserveKeepsType DEF Reserve
  <2>2. journal' \in [Request -> JournalRow]
    BY <1>6 DEF Reserve, JournalRow, HoldState
  <2> QED
    BY <1>6, <2>1, <2>2 DEF Reserve, HoldTypeOK
<1>7. CASE ReserveRefused(r)
  BY <1>7 DEF ReserveRefused, AttemptTypeOK, HoldTypeOK, ReplayAnswer, Fault, NoFault
<1>8. CASE ReleaseUnused(r)
  <2>1. HoldTypeOK'
    BY <1>8, TransitionHoldKeepsType DEF ReleaseUnused, HoldTypeOK, HoldTarget
  <2> QED
    BY <1>8, <2>1 DEF ReleaseUnused, AttemptTypeOK, Fault, NoFault
<1> QED
  BY <1>1, <1>2, <1>3, <1>4, <1>5, <1>6, <1>7, <1>8

\* What a verdict makes of the hold, the attempt and the answer.
LEMMA VerdictMaps ==
    ASSUME NEW v \in Verdict
    PROVE  /\ HoldFor(v) \in HoldTarget
           /\ StatusFor(v) \in UpdateStatus
           /\ OutcomeFor(v) \in Outcome
BY DEF Verdict, HoldFor, HoldTarget, StatusFor, UpdateStatus, AttemptStatus, OutcomeFor, Outcome

\* Settlement keeps the types.
LEMMA SettlementTypes ==
    ASSUME PipelineTypeOK, NEW r \in Request,
           \/ Settle(r) \/ AnswerSettled(r) \/ AnswerRefused(r) \/ AnswerLost(r)
           \/ FinalizeHold(r) \/ JournalHold(r) \/ Update(r)
    PROVE  PipelineTypeOK'
<1> USE OrderFields, PipelineConstants
<1> USE DEF PipelineTypeOK, Goto, storeVars, worldVars, PC, Active
<1>v. verdict[r] \in Verdict
  OBVIOUS
<1>1. CASE Settle(r)
  BY <1>1 DEF Settle, AttemptTypeOK, HoldTypeOK, Transfer
<1>2. CASE AnswerSettled(r)
  BY <1>2 DEF AnswerSettled, Verdicted, Verdict, AttemptTypeOK, HoldTypeOK
<1>3. CASE AnswerRefused(r)
  <2>1. chain' \in [Key -> Transfer]
    BY <1>3 DEF AnswerRefused, Transfer, Unused
  <2> QED
    BY <1>3, <2>1 DEF AnswerRefused, Verdicted, Verdict, AttemptTypeOK, HoldTypeOK
<1>4. CASE AnswerLost(r)
  BY <1>4 DEF AnswerLost, Verdicted, Verdict, AttemptTypeOK, HoldTypeOK
<1>5. CASE FinalizeHold(r)
  <2>1. HoldTypeOK'
    BY <1>5, <1>v, TransitionHoldKeepsType, VerdictMaps DEF FinalizeHold, HoldTypeOK
  <2> QED
    BY <1>5, <2>1 DEF FinalizeHold, AttemptTypeOK, Fault, NoFault
<1>6. CASE JournalHold(r)
  <2>1. HoldFor(verdict[r]) \in HoldState
    BY <1>v, VerdictMaps DEF HoldTarget, HoldState
  <2>2. journal' \in [Request -> JournalRow]
    BY <1>6, <2>1 DEF JournalHold, JournalRow
  <2>3. faults' \in 0..MaxFaults
    BY <1>6 DEF JournalHold, Fault, NoFault
  <2>4. pc' \in [Request -> PC] /\ UNCHANGED <<attempts, history, holds, receipts, order, verdict, outcome, chain, expired>>
    BY <1>6 DEF JournalHold
  <2> QED
    BY <2>2, <2>3, <2>4 DEF AttemptTypeOK, HoldTypeOK
<1>7. CASE Update(r)
  <2>1. AttemptTypeOK'
    BY <1>7, <1>v, VerdictMaps, UpdateKeepsType DEF Update, UpdateStatus, AttemptTypeOK
  <2>2. outcome' \in [Request -> Outcome]
    BY <1>7, <1>v, VerdictMaps DEF Update, Answer
  <2>3. faults' \in 0..MaxFaults
    BY <1>7 DEF Update, Fault, NoFault
  <2>4. pc' \in [Request -> PC] /\ UNCHANGED <<holds, journal, receipts, order, verdict, chain, expired>>
    BY <1>7 DEF Update
  <2> QED
    BY <2>1, <2>2, <2>3, <2>4 DEF AttemptTypeOK, HoldTypeOK
<1> QED
  BY <1>1, <1>2, <1>3, <1>4, <1>5, <1>6, <1>7

\* So do the backend call, the receipt and the completion.
LEMMA DeliveryTypes ==
    ASSUME PipelineTypeOK, NEW r \in Request,
           Dispatch(r) \/ BackendOk(r) \/ BackendFailed(r) \/ SaveReceipt(r) \/ Complete(r)
    PROVE  PipelineTypeOK'
<1> USE PipelineConstants
<1> USE DEF PipelineTypeOK, Goto, Answer, worldVars, PC, Active, AttemptTypeOK, HoldTypeOK,
            Fault, NoFault, Outcome
<1>1. CASE Dispatch(r)
  <2>1. journal' \in [Request -> JournalRow]
    BY <1>1 DEF Dispatch, JournalRow, BackendFact
  <2>3. faults' \in 0..MaxFaults
    BY <1>1 DEF Dispatch, Fault, NoFault
  <2>4. pc' \in [Request -> PC] /\ UNCHANGED <<attempts, history, holds, receipts, order, verdict, outcome, chain, expired>>
    BY <1>1 DEF Dispatch
  <2> QED
    BY <2>1, <2>3, <2>4 DEF AttemptTypeOK, HoldTypeOK
<1>2. CASE BackendOk(r)
  <2>1. journal' \in [Request -> JournalRow]
    BY <1>2 DEF BackendOk, RecordResult, JournalRow, BackendFact
  <2>3. faults' \in 0..MaxFaults
    BY <1>2 DEF BackendOk, Fault, NoFault, RecordResult
  <2>4. pc' \in [Request -> PC] /\ UNCHANGED <<attempts, history, holds, receipts, order, verdict, outcome, chain, expired>>
    BY <1>2 DEF BackendOk
  <2> QED
    BY <2>1, <2>3, <2>4 DEF AttemptTypeOK, HoldTypeOK
<1>3. CASE BackendFailed(r)
  <2> PICK fact \in {"error", "zero"} : RecordResult(r, fact)
    BY <1>3 DEF BackendFailed
  <2>1. journal' \in [Request -> JournalRow]
    BY DEF RecordResult, JournalRow, BackendFact
  <2>2. verdict' \in [Request -> Verdict]
    BY <1>3 DEF BackendFailed, Verdict
  <2>3. outcome' \in [Request -> Outcome]
    BY <1>3 DEF BackendFailed
  <2>4. faults' \in 0..MaxFaults
    BY DEF RecordResult
  <2> QED
    BY <1>3, <2>1, <2>2, <2>3, <2>4 DEF BackendFailed
<1>4. CASE SaveReceipt(r)
  BY <1>4 DEF SaveReceipt
<1>5. CASE Complete(r)
  <2>1. journal' \in [Request -> JournalRow]
    <3>1. journal[r] \in JournalRow
      OBVIOUS
    <3>2. [journal[r] EXCEPT !.completed = TRUE] \in JournalRow
      BY <3>1, Zenon DEF JournalRow
    <3>3. \/ journal' = journal
          \/ journal' = [journal EXCEPT ![r] = [journal[r] EXCEPT !.completed = TRUE]]
      BY <1>5 DEF Complete
    <3> QED
      BY <3>2, <3>3
  <2>3. faults' \in 0..MaxFaults
    BY <1>5 DEF Complete, Fault, NoFault
  <2>4. pc' \in [Request -> PC] /\ UNCHANGED <<attempts, history, holds, receipts, order, verdict, outcome, chain, expired>>
    BY <1>5 DEF Complete
  <2> QED
    BY <2>1, <2>3, <2>4 DEF AttemptTypeOK, HoldTypeOK
<1> QED
  BY <1>1, <1>2, <1>3, <1>4, <1>5

\* And so do crashes, the chain and the clock.
LEMMA PipelineTypes ==
    ASSUME PipelineTypeOK, PipelineNext
    PROVE  PipelineTypeOK'
<1>1. ASSUME NEW r \in Request, RequestStep(r) PROVE PipelineTypeOK'
  BY <1>1, AdmissionTypes, SettlementTypes, DeliveryTypes DEF RequestStep
<1>2. CASE Crash
  BY <1>2, PipelineConstants
     DEF Crash, PipelineTypeOK, storeVars, worldVars, Fault, AttemptTypeOK, HoldTypeOK, PC
<1>3. ASSUME NEW k \in Key, Land(k) PROVE PipelineTypeOK'
  BY <1>3 DEF Land, PipelineTypeOK, storeVars, flowVars, AttemptTypeOK, HoldTypeOK, Transfer
<1>4. ASSUME NEW k \in Key, Expire(k) PROVE PipelineTypeOK'
  BY <1>4 DEF Expire, PipelineTypeOK, storeVars, flowVars, AttemptTypeOK, HoldTypeOK
<1> QED
  BY <1>1, <1>2, <1>3, <1>4 DEF PipelineNext

-----------------------------------------------------------------------------
(* Resolvers.                                                              *)

\* The fields of a resolver's task, by the step it is at.
LEMMA TaskFields ==
    ASSUME TypeOK, NEW x \in Resolver
    PROVE  /\ resolver[x] # Idle => resolver[x].id \in Request
           /\ resolver[x].at = "ask" => resolver[x].expected \in OpenStatus
           /\ resolver[x].at = "resolve" =>
                /\ resolver[x].expected \in OpenStatus
                /\ resolver[x].status \in ResolvedStatus
                /\ resolver[x].method \in Method
           /\ resolver[x].at \in {"align", "align-journal"} => resolver[x].target \in HoldTarget
           /\ resolver[x].at = "orphan" => resolver[x].mandate \in Mandate
<1>1. resolver[x] \in Task
  BY DEF TypeOK
<1> QED
  BY <1>1 DEF Task, Idle

\* Taking a task of the right shape keeps the types.
LEMMA DoTypes ==
    ASSUME TypeOK, NEW x \in Resolver, NEW task \in Task, Do(x, task)
    PROVE  resolver' \in [Resolver -> Task]
BY DEF TypeOK, Do

\* The tasks that the resolvers take up have the type's shapes.
LEMMA TaskShapes ==
    ASSUME NEW id \in Request
    PROVE  /\ Idle \in Task
           /\ \A e \in OpenStatus :
                /\ [at |-> "ask", id |-> id, expected |-> e] \in Task
                /\ \A s \in ResolvedStatus, m \in Method :
                     [at |-> "resolve", id |-> id, expected |-> e, status |-> s, method |-> m]
                        \in Task
           /\ [at |-> "reread", id |-> id] \in Task
           /\ \A t \in HoldTarget :
                /\ [at |-> "align", id |-> id, target |-> t] \in Task
                /\ [at |-> "align-journal", id |-> id, target |-> t] \in Task
           /\ \A m \in Mandate : [at |-> "orphan", id |-> id, mandate |-> m] \in Task
BY DEF Task

\* What holdTarget and the evidence can come to.
LEMMA TargetAndEvidence ==
    /\ \A r \in Request : HoldTargetOf(r) # "none" => HoldTargetOf(r) \in HoldTarget
    /\ \A k \in Key : Evidence(k) # "unknown" => Evidence(k) \in ResolvedStatus
BY DEF HoldTargetOf, HoldTarget, Evidence, Truth, ResolvedStatus

\* Every row of the hold table that is in use names a request.  A scan for
\* orphans takes the request id from such a row, so its tasks' types rest on it.
HoldsNameRequests == \A m \in Mandate : holds[m].state # "absent" => holds[m].req \in Request

\* A transition keeps the request of a row in use.
LEMMA TransitionNamesRequests ==
    ASSUME HoldTypeOK, HoldsNameRequests, NEW m, NEW r, NEW to, TransitionHold(m, to, r)
    PROVE  HoldsNameRequests'
BY DEF HoldTypeOK, Hold, HoldsNameRequests, TransitionHold, HoldMoves

\* So does every step of the pipeline: a reservation writes its own request.
LEMMA PipelineNamesRequests ==
    ASSUME PipelineTypeOK, HoldsNameRequests, PipelineNext
    PROVE  HoldsNameRequests'
<1>1. CASE UNCHANGED holds
  BY <1>1 DEF HoldsNameRequests
<1>2. HoldTypeOK
  BY DEF PipelineTypeOK
<1>3. ASSUME NEW r \in Request, Authorized(r), ReserveHold(MandateOf(r), r)
      PROVE  HoldsNameRequests'
  BY <1>2, <1>3, OrderFields DEF HoldTypeOK, Hold, ReserveHold, HoldsNameRequests, Authorized
<1>4. \/ UNCHANGED holds
      \/ \E r \in Request : Authorized(r) /\ ReserveHold(MandateOf(r), r)
      \/ \E r \in Request : \E to \in HoldTarget : TransitionHold(MandateOf(r), to, r)
  <2>1. ASSUME NEW r \in Request, RequestStep(r)
        PROVE  \/ UNCHANGED holds
               \/ Authorized(r) /\ ReserveHold(MandateOf(r), r)
               \/ \E to \in HoldTarget : TransitionHold(MandateOf(r), to, r)
    <3>1. verdict[r] \in Verdict
      BY DEF PipelineTypeOK
    <3>2. "released" \in HoldTarget /\ HoldFor(verdict[r]) \in HoldTarget
      BY <3>1, VerdictMaps DEF HoldTarget
    <3>3. CASE Authorize(r)
      BY <3>3 DEF Authorize
    <3>4. CASE ReleaseUnused(r)
      BY <3>2, <3>4 DEF ReleaseUnused
    <3>5. CASE FinalizeHold(r)
      BY <3>2, <3>5 DEF FinalizeHold
    <3>6. CASE Refuse(r) \/ Verify(r) \/ VerifyRefused(r) \/ AuthorizeRefused(r)
               \/ Reserve(r) \/ ReserveRefused(r)
      BY <3>6 DEF Refuse, Verify, VerifyRefused, AuthorizeRefused, Reserve, ReserveRefused, storeVars
    <3>7. CASE Settle(r) \/ AnswerSettled(r) \/ AnswerRefused(r) \/ AnswerLost(r)
               \/ JournalHold(r) \/ Update(r)
      BY <3>7 DEF Settle, AnswerSettled, AnswerRefused, AnswerLost, Verdicted, JournalHold,
                  Update, storeVars
    <3>8. CASE Dispatch(r) \/ BackendOk(r) \/ BackendFailed(r) \/ SaveReceipt(r) \/ Complete(r)
      BY <3>8 DEF Dispatch, BackendOk, BackendFailed, SaveReceipt, Complete
    <3> QED
      BY <2>1, <3>3, <3>4, <3>5, <3>6, <3>7, <3>8 DEF RequestStep
  <2>2. CASE Crash \/ \E k \in Key : Land(k) \/ Expire(k)
    BY <2>2 DEF Crash, Land, Expire, storeVars
  <2> QED
    BY <2>1, <2>2 DEF PipelineNext
<1> QED
  BY <1>1, <1>2, <1>3, <1>4, TransitionNamesRequests

\* Every resolver step keeps the types of the stores and of its own task.
LEMMA ResolverTypes ==
    ASSUME TypeOK, HoldsNameRequests, NEW x \in Resolver, ResolverStep(x)
    PROVE  TypeOK' /\ HoldsNameRequests'
<1> USE TaskFields, DoTypes
<1>i. Idle \in Task
  BY DEF Task
<1>t. PipelineTypeOK /\ HoldTypeOK /\ AttemptTypeOK
  BY DEF TypeOK, PipelineTypeOK
<1>u. UNCHANGED pipelineVars => PipelineTypeOK' /\ HoldsNameRequests'
  BY <1>t DEF PipelineTypeOK, pipelineVars, storeVars, flowVars, worldVars, AttemptTypeOK,
              HoldTypeOK, HoldsNameRequests
<1>f. Fault \/ NoFault => faults' \in 0..MaxFaults
  BY <1>t, PipelineConstants DEF Fault, NoFault, PipelineTypeOK
<1>a. \A r \in Request :
        Unresolved(r) => attempts[KeyOf(r)].status \in OpenStatus
  BY DEF Unresolved
<1>1. CASE Collect(x)
  BY <1>1, <1>u, <1>a, TaskShapes DEF Collect, TypeOK
<1>2. CASE Ask(x)
  <2>0. resolver[x].id \in Request /\ resolver[x].expected \in OpenStatus
    BY <1>2 DEF Ask, Idle
  <2>1. KeyOf(resolver[x].id) \in Key
    BY <1>t, <2>0, OrderFields
  <2>2. \E task \in Task : Do(x, task)
    BY <1>2, <1>i, <2>0, <2>1, TaskShapes, TargetAndEvidence DEF Ask, Method
  <2>3. Fault \/ NoFault
    BY <1>2 DEF Ask
  <2> QED
    BY <1>2, <1>t, <1>f, <2>2, <2>3
       DEF Ask, TypeOK, PipelineTypeOK, storeVars, flowVars, worldVars, AttemptTypeOK,
           HoldTypeOK, HoldsNameRequests
<1>3. CASE ManualVerdict(x)
  BY <1>3, <1>u, <1>a, TaskShapes DEF ManualVerdict, TypeOK, Method
<1>4. CASE Resolve(x)
  <2>0. /\ resolver[x].id \in Request
        /\ resolver[x].status \in ResolvedStatus
        /\ resolver[x].method \in Method
    BY <1>4 DEF Resolve, Idle
  <2>1. KeyOf(resolver[x].id) \in Key
    BY <1>t, <2>0, OrderFields
  <2>2. \E task \in Task : Do(x, task)
    BY <1>4, <1>i, <2>0, TaskShapes DEF Resolve
  <2>3. Fault \/ NoFault
    BY <1>4 DEF Resolve
  <2>4. \/ ResolveAttempt(KeyOf(resolver[x].id), resolver[x].id, resolver[x].expected,
                           resolver[x].status, resolver[x].method)
        \/ UNCHANGED <<attempts, history>>
    BY <1>4 DEF Resolve
  <2>5. AttemptTypeOK'
    BY <1>t, <2>0, <2>1, <2>4, ResolveKeepsType DEF AttemptTypeOK
  <2>6. UNCHANGED <<holds, journal, receipts, order, pc, verdict, outcome, chain, expired>>
    BY <1>4 DEF Resolve, flowVars, worldVars
  <2> QED
    BY <1>t, <1>f, <2>2, <2>3, <2>5, <2>6 DEF TypeOK, PipelineTypeOK, HoldTypeOK, HoldsNameRequests
<1>5. CASE Reread(x)
  <2>0. resolver[x].id \in Request
    BY <1>5 DEF Reread, Idle
  <2>1. \E task \in Task : Do(x, task)
    BY <1>5, <1>i, <2>0, TaskShapes, TargetAndEvidence DEF Reread, AlignTask
  <2> QED
    BY <1>5, <1>u, <2>1 DEF Reread, TypeOK
<1>6. CASE PendingHold(x)
  <2>1. \E task \in Task : Do(x, task)
    BY <1>6, TaskShapes, TargetAndEvidence DEF PendingHold, AlignTask
  <2> QED
    BY <1>6, <1>u, <2>1 DEF PendingHold, TypeOK
<1>7. CASE Align(x)
  <2>0. resolver[x].id \in Request /\ resolver[x].target \in HoldTarget
    BY <1>7 DEF Align, Idle
  <2>1. MandateOf(resolver[x].id) \in Mandate \cup {NoMandate}
    BY <1>t, <2>0, OrderFields
  <2>2. \E task \in Task : Do(x, task)
    BY <1>7, <1>i, <2>0, TaskShapes DEF Align
  <2>3. Fault \/ NoFault
    BY <1>7 DEF Align
  <2>4. \/ TransitionHold(MandateOf(resolver[x].id), resolver[x].target, resolver[x].id)
        \/ UNCHANGED holds
    BY <1>7 DEF Align
  <2>5. HoldTypeOK' /\ HoldsNameRequests'
    BY <1>t, <2>0, <2>1, <2>4, TransitionHoldKeepsType, TransitionNamesRequests
       DEF HoldTypeOK, HoldsNameRequests
  <2>6. UNCHANGED <<attempts, history, journal, receipts, order, pc, verdict, outcome, chain,
                    expired>>
    BY <1>7 DEF Align, flowVars, worldVars
  <2> QED
    BY <1>t, <1>f, <2>2, <2>3, <2>5, <2>6 DEF TypeOK, PipelineTypeOK, AttemptTypeOK
<1>8. CASE AlignJournal(x)
  <2>0. resolver[x].id \in Request /\ resolver[x].target \in HoldState
    BY <1>8 DEF AlignJournal, Idle, HoldTarget, HoldState
  <2>1. journal \in [Request -> JournalRow]
    BY <1>t DEF PipelineTypeOK
  <2>2. journal' \in [Request -> JournalRow]
    BY <1>8, <2>0, <2>1 DEF AlignJournal, JournalRow
  <2>3. Fault \/ NoFault
    BY <1>8 DEF AlignJournal
  <2>4. Do(x, Idle) /\ UNCHANGED <<attempts, history, holds, receipts, order, pc, verdict,
                                   outcome, chain, expired>>
    BY <1>8 DEF AlignJournal, flowVars, worldVars
  <2> QED
    BY <1>i, <1>t, <1>f, <2>2, <2>3, <2>4
       DEF TypeOK, PipelineTypeOK, AttemptTypeOK, HoldTypeOK, HoldsNameRequests
<1>9. CASE ListOrphan(x)
  <2>1. \E task \in Task : Do(x, task)
    BY <1>9, TaskShapes DEF ListOrphan, Orphan, HoldsNameRequests
  <2> QED
    BY <1>9, <1>u, <2>1 DEF ListOrphan, TypeOK
<1>10. CASE ReleaseOrphan(x)
  <2>0. resolver[x].mandate \in Mandate /\ "released" \in HoldTarget
    BY <1>10 DEF ReleaseOrphan, HoldTarget
  <2>3. Fault \/ NoFault
    BY <1>10 DEF ReleaseOrphan
  <2>4. \/ TransitionHold(resolver[x].mandate, "released", resolver[x].id)
        \/ UNCHANGED holds
    BY <1>10 DEF ReleaseOrphan
  <2>5. HoldTypeOK' /\ HoldsNameRequests'
    BY <1>t, <2>0, <2>4, TransitionHoldKeepsType, TransitionNamesRequests
       DEF HoldTypeOK, HoldsNameRequests
  <2>6. Do(x, Idle) /\ UNCHANGED <<attempts, history, journal, receipts, order, pc, verdict,
                                   outcome, chain, expired>>
    BY <1>10 DEF ReleaseOrphan, flowVars, worldVars
  <2> QED
    BY <1>i, <1>t, <1>f, <2>3, <2>5, <2>6 DEF TypeOK, PipelineTypeOK, AttemptTypeOK
<1>11. CASE ResolverCrash(x)
  BY <1>11, <1>i, <1>t, <1>f
     DEF ResolverCrash, TypeOK, PipelineTypeOK, storeVars, flowVars, worldVars, AttemptTypeOK,
         HoldTypeOK, HoldsNameRequests
<1> QED
  BY <1>1, <1>2, <1>3, <1>4, <1>5, <1>6, <1>7, <1>8, <1>9, <1>10, <1>11 DEF ResolverStep

\* Initially no store holds a row and every request is at its start.
LEMMA InitTypes == Init => TypeOK /\ HoldsNameRequests
<1> SUFFICES ASSUME Init PROVE TypeOK /\ HoldsNameRequests
  OBVIOUS
<1>1. AttemptTypeOK
  BY DEF Init, PipelineInit, AttemptInit, AttemptTypeOK, Row, NoRow, Rail
<1>2. HoldTypeOK /\ HoldsNameRequests
  BY DEF Init, PipelineInit, HoldInit, HoldTypeOK, Hold, HoldState, NoHold, HoldsNameRequests
<1>3. order \in [Request -> Order]
  BY PipelineConstants DEF Init, PipelineInit
<1>4. /\ pc \in [Request -> PC]
      /\ verdict \in [Request -> Verdict]
      /\ outcome \in [Request -> Outcome]
      /\ receipts \in [Request -> {"none", "delivered", "undelivered"}]
  BY DEF Init, PipelineInit, PC, Verdict, Outcome
<1>5. NoJournal \in JournalRow
  BY Zenon DEF NoJournal, JournalRow, HoldState, BackendFact
<1>6. journal \in [Request -> JournalRow]
  BY <1>5 DEF Init, PipelineInit
<1>7. chain \in [Key -> Transfer] /\ expired \subseteq Key /\ faults \in 0..MaxFaults
  BY PipelineConstants DEF Init, PipelineInit, Transfer, Unused
<1>8. resolver \in [Resolver -> Task]
  BY DEF Init, Task
<1> QED
  BY <1>1, <1>2, <1>3, <1>4, <1>6, <1>7, <1>8 DEF TypeOK, PipelineTypeOK

\* Every step keeps the types.
LEMMA TypeStep ==
    TypeOK /\ HoldsNameRequests /\ [Next]_vars => TypeOK' /\ HoldsNameRequests'
<1> SUFFICES ASSUME TypeOK, HoldsNameRequests, [Next]_vars
             PROVE  TypeOK' /\ HoldsNameRequests'
  OBVIOUS
<1>1. CASE PipelineNext /\ UNCHANGED resolver
  BY <1>1, PipelineTypes, PipelineNamesRequests DEF TypeOK
<1>2. CASE \E x \in Resolver : ResolverStep(x)
  BY <1>2, ResolverTypes
<1>3. CASE UNCHANGED vars
  BY <1>3 DEF vars, pipelineVars, storeVars, flowVars, worldVars, TypeOK, PipelineTypeOK,
              AttemptTypeOK, HoldTypeOK, HoldsNameRequests
<1> QED
  BY <1>1, <1>2, <1>3 DEF Next

\* Every table, every flow and every resolver's snapshot always has its type,
\* through crashes, failed writes and late resolvers.
THEOREM TypeCorrect == Spec => []TypeOK
<1> QED
  BY InitTypes, TypeStep, PTL DEF Spec

-----------------------------------------------------------------------------
(* The inductive invariant.                                                *)

\* Nothing submitted under k moved money and nothing will.
Lapsed(k) == k \in expired /\ chain[k].st # "landed"

\* The submission of r moved money or still may.
Committed(r) == chain[KeyOf(r)].by = r /\ ~Lapsed(KeyOf(r))

\* r has reserved its attempt and not yet written its verdict.
Owning(r) ==
    \/ pc[r] \in {"admitted", "settling", "submitted", "finalizing", "journaling", "updating"}
    \/ pc[r] = "calling" /\ order[r].deferred

\* r has reserved its mandate, if it needs one, and has no verdict yet.
Holding(r) ==
    \/ pc[r] \in {"held", "admitted", "settling", "submitted"}
    \/ pc[r] = "calling" /\ order[r].deferred

\* r has not submitted its authorization.
Unsubmitted(r) ==
    \/ pc[r] \in {"start", "verified", "held", "releasing", "admitted", "settling"}
    \/ pc[r] = "calling" /\ order[r].deferred

\* r has not reserved an attempt.
Unreserved(r) == pc[r] \in {"start", "verified", "held", "releasing"}

\* r has not reserved its mandate.
BeforeHold(r) == pc[r] \in {"start", "verified"}

\* r may still reserve an attempt.
MayReserve(r) == pc[r] \in {"start", "verified", "held"}

\* r neither moved money nor ever will: its mandate may go to somebody else.
GaveUp(r) ==
    /\ ~MayReserve(r)
    /\ Lapsed(KeyOf(r)) \/ (~Owning(r) /\ chain[KeyOf(r)].by # r)

\* What a handler knows of its settlement at each point.
FlowOK ==
    \A r \in Request :
        /\ (Holding(r) \/ Unsubmitted(r)) => verdict[r] = "none"
        /\ pc[r] \in {"finalizing", "journaling", "updating"} => verdict[r] # "none"
        /\ pc[r] \in {"dispatching", "saving"} => verdict[r] = "settled"
        /\ pc[r] = "calling" /\ ~order[r].deferred => verdict[r] = "settled"
        /\ pc[r] = "dispatching" => ~order[r].deferred
        /\ outcome[r] = "delivered" => verdict[r] = "settled"

\* A row belongs to a request of its key that has reserved it.
RowsHaveOwners ==
    \A r \in Request :
        /\ \A k \in Key :
             attempts[k].id = r => KeyOf(r) = k /\ attempts[k].status # "absent"
        /\ r \in AttemptIds => ~Unreserved(r)

\* A request that has yet to write its verdict finds its own row, untouched but
\* for a resolution as settled, unless its authorization has lapsed.
OwnersHaveRows ==
    \A r \in Request :
        Owning(r) =>
            \/ Lapsed(KeyOf(r))
            \/ /\ attempts[KeyOf(r)].id = r
               /\ attempts[KeyOf(r)].status \in {"reserved", "settled"}

\* What is on its way to the chain, or on it, was submitted by a request of that
\* key, which was not told that it failed.
SubmissionsHaveOwners ==
    \A r \in Request, k \in Key :
        chain[k].by = r =>
            /\ KeyOf(r) = k
            /\ ~Unsubmitted(r)
            /\ verdict[r] \in {"none", "settled", "uncertain"}

TransfersHaveOwners ==
    \A k \in Key : chain[k].by = NoRequest <=> chain[k].st = "unused"

SettledVerdictsLanded ==
    \A r \in Request : verdict[r] = "settled" => Landed(r)

\* While money moved or may move, the key's row stays with the request that
\* submitted it and does not say `rejected`, so nobody can reclaim it.
CommittedKeepRows ==
    \A r \in Request :
        Committed(r) =>
            /\ attempts[KeyOf(r)].id = r
            /\ attempts[KeyOf(r)].status # "rejected"

SettledRows ==
    \A k \in Key :
        attempts[k].status = "settled" =>
            chain[k] = [st |-> "landed", by |-> attempts[k].id]

\* A hold is held by a request that has reserved it.
HoldsHaveOwners ==
    \A m \in Mandate :
        \A r \in Request : holds[m].req = r => ~BeforeHold(r)

HoldersHaveHolds ==
    \A r \in Request :
        (Authorized(r) /\ Holding(r)) =>
            \/ Lapsed(KeyOf(r))
            \/ holds[MandateOf(r)].req = r /\ LiveHold(MandateOf(r))

CommittedKeepHolds ==
    \A r \in Request :
        (Authorized(r) /\ Committed(r)) =>
            holds[MandateOf(r)].req = r /\ LiveHold(MandateOf(r))

\* What a resolver is about to write is justified, however late it writes.
Justified(task) ==
    /\ task.at = "resolve" =>
         IF task.status = "settled" THEN chain[KeyOf(task.id)].st = "landed"
         ELSE Lapsed(KeyOf(task.id))
    /\ task.at = "align" =>
         \/ task.target = "consumed" /\ Landed(task.id)
         \/ task.target = "released" /\ GaveUp(task.id)
    /\ task.at = "orphan" => GaveUp(task.id)

TasksAreJustified == \A x \in Resolver : Justified(resolver[x])

RowsOK ==
    /\ RowsHaveOwners
    /\ OwnersHaveRows
    /\ CommittedKeepRows
    /\ SettledRows
    /\ SupersededWereRejected

MoneyOK ==
    /\ SubmissionsHaveOwners
    /\ TransfersHaveOwners
    /\ SettledVerdictsLanded

MandatesOK ==
    /\ HoldsHaveOwners
    /\ HoldersHaveHolds
    /\ CommittedKeepHolds
    /\ ConsumedMandateIsPaid
    /\ OneLiveHoldPerBinding

IInv ==
    /\ TypeOK
    /\ HoldsNameRequests
    /\ FlowOK
    /\ RowsOK
    /\ MoneyOK
    /\ MandatesOK
    /\ TasksAreJustified

-----------------------------------------------------------------------------
(* Initially nothing has happened.                                         *)

\* The invariant holds before the first request.
LEMMA InitInv == Init => IInv
<1> SUFFICES ASSUME Init PROVE IInv
  OBVIOUS
<1>1. TypeOK /\ HoldsNameRequests
  BY InitTypes
<1>2. \A r \in Request :
        /\ pc[r] = "start" /\ verdict[r] = "none" /\ outcome[r] = "none"
        /\ KeyOf(r) \in Key
  BY <1>1, OrderFields DEF Init, PipelineInit, TypeOK
<1>3. \A k \in Key : chain[k] = Unused /\ attempts[k] = NoRow
  BY DEF Init, PipelineInit, AttemptInit
<1>4. history = {} /\ \A m \in Mandate : holds[m] = NoHold
  BY DEF Init, PipelineInit, AttemptInit, HoldInit
<1>5. FlowOK
  BY <1>2 DEF FlowOK
<1>6. RowsOK
  BY <1>2, <1>3, <1>4, RequestConstants
     DEF RowsOK, RowsHaveOwners, OwnersHaveRows, Owning, CommittedKeepRows, Committed,
         SettledRows, SupersededWereRejected, AttemptIds, Unused, NoRow
<1>7. MoneyOK
  BY <1>2, <1>3, RequestConstants
     DEF MoneyOK, SubmissionsHaveOwners, TransfersHaveOwners, SettledVerdictsLanded, Unused
<1>8. MandatesOK
  BY <1>2, <1>3, <1>4, RequestConstants
     DEF MandatesOK, HoldsHaveOwners, HoldersHaveHolds, Holding, CommittedKeepHolds, Committed,
         ConsumedMandateIsPaid, OneLiveHoldPerBinding, LiveHold, NoHold, Unused
<1>9. TasksAreJustified
  BY DEF Init, Idle, TasksAreJustified, Justified
<1> QED
  BY <1>1, <1>5, <1>6, <1>7, <1>8, <1>9 DEF IInv

-----------------------------------------------------------------------------
(* What a step of the pipeline does to the flows, the chain and the stores. *)

\* A handler only moves forward: it starts to own an attempt by Reserve, and to
\* hold a mandate by Authorize, and never comes back before a point it passed.
LEMMA FlowMoves ==
    ASSUME TypeOK, FlowOK, PipelineNext
    PROVE  /\ order' = order
           /\ \A q \in Request :
                /\ BeforeHold(q)' => BeforeHold(q)
                /\ MayReserve(q)' => MayReserve(q)
                /\ Unreserved(q)' => Unreserved(q)
                /\ Unsubmitted(q)' => Unsubmitted(q)
                /\ Owning(q)' => Owning(q) \/ Reserve(q)
                /\ Holding(q)' => Holding(q) \/ Authorize(q)
<1> DEFINE Forward(q) ==
             /\ BeforeHold(q)' => BeforeHold(q)
             /\ MayReserve(q)' => MayReserve(q)
             /\ Unreserved(q)' => Unreserved(q)
             /\ Unsubmitted(q)' => Unsubmitted(q)
             /\ Owning(q)' => Owning(q) \/ Reserve(q)
             /\ Holding(q)' => Holding(q) \/ Authorize(q)
<1>p. pc \in [Request -> PC]
  BY DEF TypeOK, PipelineTypeOK
<1>o. order' = order
  BY DEF PipelineNext, RequestStep, Refuse, Verify, VerifyRefused, Authorize, AuthorizeRefused,
         Reserve, ReserveRefused, ReleaseUnused, Settle, AnswerSettled, AnswerRefused,
         AnswerLost, Verdicted, FinalizeHold, JournalHold, Update, Dispatch, BackendOk,
         BackendFailed, SaveReceipt, Complete, Crash, Land, Expire, flowVars
<1>s. ASSUME NEW q \in Request, pc'[q] = pc[q] PROVE Forward(q)
  BY <1>o, <1>s DEF BeforeHold, MayReserve, Unreserved, Unsubmitted, Owning, Holding
<1> HIDE DEF Forward
<1>1. ASSUME NEW r \in Request, RequestStep(r), NEW q \in Request PROVE Forward(q)
  <2>1. CASE q # r
    BY <1>1, <1>p, <1>s, <2>1
       DEF RequestStep, Refuse, Verify, VerifyRefused, Authorize, AuthorizeRefused,
           Reserve, ReserveRefused, ReleaseUnused, Settle, AnswerSettled, AnswerRefused,
           AnswerLost, Verdicted, FinalizeHold, JournalHold, Update, Dispatch, BackendOk,
           BackendFailed, SaveReceipt, Complete, Goto
  <2>2. CASE q = r
    <3> USE <1>p, <1>o, <2>2
    <3> USE DEF Forward, BeforeHold, MayReserve, Unreserved, Unsubmitted, Owning, Holding, Goto
    <3>1. CASE Refuse(r) \/ Verify(r) \/ VerifyRefused(r) \/ AuthorizeRefused(r)
      BY <3>1 DEF Refuse, Verify, VerifyRefused, AuthorizeRefused
    <3>2. CASE Authorize(r)
      BY <3>2 DEF Authorize
    <3>3. CASE Reserve(r)
      BY <3>3 DEF Reserve
    <3>4. CASE ReserveRefused(r) \/ ReleaseUnused(r)
      BY <3>4 DEF ReserveRefused, ReleaseUnused
    <3>5. CASE Settle(r) \/ AnswerSettled(r) \/ AnswerRefused(r) \/ AnswerLost(r)
      BY <3>5 DEF Settle, AnswerSettled, AnswerRefused, AnswerLost, Verdicted
    <3>6. CASE FinalizeHold(r) \/ JournalHold(r) \/ Update(r)
      BY <3>6 DEF FinalizeHold, JournalHold, Update
    <3>7. CASE Dispatch(r)
      BY <3>7 DEF Dispatch, FlowOK
    <3>8. CASE BackendOk(r) \/ BackendFailed(r)
      BY <3>8 DEF BackendOk, BackendFailed
    <3>9. CASE SaveReceipt(r) \/ Complete(r)
      BY <3>9 DEF SaveReceipt, Complete
    <3> QED
      BY <1>1, <3>1, <3>2, <3>3, <3>4, <3>5, <3>6, <3>7, <3>8, <3>9 DEF RequestStep
  <2> QED
    BY <2>1, <2>2
<1>2. ASSUME Crash, NEW q \in Request PROVE Forward(q)
  <2>1. pc'[q] = pc[q] \/ pc'[q] = "dead"
    BY <1>2 DEF Crash
  <2> QED
    BY <1>s, <2>1 DEF Forward, BeforeHold, MayReserve, Unreserved, Unsubmitted, Owning, Holding
<1>3. ASSUME NEW k \in Key, Land(k) \/ Expire(k), NEW q \in Request PROVE Forward(q)
  BY <1>3, <1>s DEF Land, Expire, flowVars
<1> QED
  BY <1>o, <1>1, <1>2, <1>3 DEF PipelineNext, Forward

\* What a handler knows stays right as it moves.
LEMMA FlowStep ==
    ASSUME TypeOK, FlowOK, PipelineNext
    PROVE  FlowOK'
<1>o. order' = order
  BY FlowMoves
<1>p. /\ pc \in [Request -> PC]
      /\ verdict \in [Request -> Verdict]
      /\ outcome \in [Request -> Outcome]
  BY DEF TypeOK, PipelineTypeOK
<1>1. ASSUME NEW r \in Request, RequestStep(r) PROVE FlowOK'
  <2> USE <1>p, <1>o
  <2> USE DEF FlowOK, Unsubmitted, Holding, Goto, Answer
  <2>1. CASE Refuse(r) \/ Verify(r) \/ VerifyRefused(r) \/ AuthorizeRefused(r)
    <3>1. CASE Refuse(r)
      BY <3>1 DEF Refuse
    <3>2. CASE Verify(r)
      BY <3>2 DEF Verify
    <3>3. CASE VerifyRefused(r)
      BY <3>3 DEF VerifyRefused, ReplayAnswer
    <3>4. CASE AuthorizeRefused(r)
      BY <3>4 DEF AuthorizeRefused
    <3> QED
      BY <2>1, <3>1, <3>2, <3>3, <3>4
  <2>2. CASE Authorize(r)
    BY <2>2 DEF Authorize
  <2>3. CASE Reserve(r)
    BY <2>3 DEF Reserve
  <2>4. CASE ReserveRefused(r)
    BY <2>4 DEF ReserveRefused, ReplayAnswer
  <2>5. CASE ReleaseUnused(r)
    BY <2>5 DEF ReleaseUnused
  <2>6. CASE Settle(r)
    BY <2>6 DEF Settle
  <2>7. CASE AnswerSettled(r) \/ AnswerRefused(r) \/ AnswerLost(r)
    <3>1. CASE AnswerSettled(r)
      BY <3>1 DEF AnswerSettled, Verdicted
    <3>2. CASE AnswerRefused(r)
      BY <3>2 DEF AnswerRefused, Verdicted
    <3>3. CASE AnswerLost(r)
      BY <3>3 DEF AnswerLost, Verdicted
    <3> QED
      BY <2>7, <3>1, <3>2, <3>3
  <2>8. CASE FinalizeHold(r)
    BY <2>8 DEF FinalizeHold
  <2>9. CASE JournalHold(r)
    BY <2>9 DEF JournalHold
  <2>10. CASE Update(r)
    <3>1. OutcomeFor(verdict[r]) # "delivered"
      BY DEF OutcomeFor, Verdict
    <3>2. /\ verdict' = verdict
          /\ outcome' = [outcome EXCEPT ![r] = OutcomeFor(verdict[r])]
          /\ \/ verdict[r] # "settled" /\ pc' = [pc EXCEPT ![r] = "completing"]
             \/ verdict[r] = "settled" /\ order[r].deferred /\ pc' = [pc EXCEPT ![r] = "saving"]
             \/ /\ verdict[r] = "settled" /\ ~order[r].deferred
                /\ pc' = [pc EXCEPT ![r] = "dispatching"]
      BY <2>10 DEF Update
    <3> QED
      BY <3>1, <3>2
  <2>11. CASE Dispatch(r)
    BY <2>11 DEF Dispatch
  <2>12. CASE BackendOk(r)
    BY <2>12 DEF BackendOk
  <2>13. CASE BackendFailed(r)
    BY <2>13 DEF BackendFailed
  <2>14. CASE SaveReceipt(r)
    BY <2>14 DEF SaveReceipt
  <2>15. CASE Complete(r)
    BY <2>15 DEF Complete
  <2> QED
    BY <1>1, <2>1, <2>2, <2>3, <2>4, <2>5, <2>6, <2>7, <2>8, <2>9, <2>10, <2>11, <2>12, <2>13,
       <2>14, <2>15 DEF RequestStep
<1>2. CASE Crash
  BY <1>2, <1>o, <1>p DEF Crash, FlowOK, Unsubmitted, Holding
<1>3. ASSUME NEW k \in Key, Land(k) \/ Expire(k) PROVE FlowOK'
  BY <1>3 DEF Land, Expire, flowVars, FlowOK, Unsubmitted, Holding
<1> QED
  BY <1>1, <1>2, <1>3 DEF PipelineNext

\* An authorization that lapsed stays so, a transfer that landed stays, and a
\* request becomes committed only by submitting its authorization.
LEMMA WorldMoves ==
    ASSUME TypeOK, FlowOK, PipelineNext
    PROVE  /\ \A k \in Key : Lapsed(k) => Lapsed(k)'
           /\ \A k \in Key : chain[k].st = "landed" => chain'[k] = chain[k]
           /\ \A q \in Request :
                /\ KeyOf(q)' = KeyOf(q)
                /\ Landed(q) => Landed(q)'
                /\ chain'[KeyOf(q)].by = q => chain[KeyOf(q)].by = q \/ Settle(q)
                /\ Committed(q)' => Committed(q) \/ Settle(q)
<1>t. chain \in [Key -> Transfer] /\ PipelineTypeOK
  BY DEF TypeOK, PipelineTypeOK
<1>k. \A q \in Request : KeyOf(q) \in Key /\ KeyOf(q)' = KeyOf(q)
  BY <1>t, OrderFields, FlowMoves DEF KeyOf
<1> DEFINE Kept(k) ==
             /\ chain[k].st = "landed" => chain'[k] = chain[k]
             /\ Lapsed(k) => chain'[k].st # "landed"
             /\ chain'[k].by # chain[k].by =>
                  \/ chain'[k].by = NoRequest
                  \/ Settle(chain'[k].by)
<1>1. expired \subseteq expired' /\ \A k \in Key : Kept(k)
  <2>1. CASE UNCHANGED <<chain, expired>>
    BY <2>1 DEF Lapsed
  <2>2. ASSUME NEW r \in Request, Settle(r)
        PROVE  expired \subseteq expired' /\ \A k \in Key : Kept(k)
    BY <2>2, <1>t, <1>k DEF Settle, Lapsed, Transfer
  <2>3. ASSUME NEW r \in Request, AnswerRefused(r)
        PROVE  expired \subseteq expired' /\ \A k \in Key : Kept(k)
    BY <2>3, <1>t, <1>k DEF AnswerRefused, Verdicted, Lapsed, Transfer, Unused
  <2>4. ASSUME NEW j \in Key, Land(j)
        PROVE  expired \subseteq expired' /\ \A k \in Key : Kept(k)
    BY <2>4, <1>t DEF Land, Lapsed, Transfer
  <2>5. ASSUME NEW j \in Key, Expire(j)
        PROVE  expired \subseteq expired' /\ \A k \in Key : Kept(k)
    BY <2>5 DEF Expire, Lapsed
  <2> QED
    BY <2>1, <2>2, <2>3, <2>4, <2>5
       DEF PipelineNext, RequestStep, Refuse, Verify, VerifyRefused, Authorize, AuthorizeRefused,
           Reserve, ReserveRefused, ReleaseUnused, AnswerSettled, AnswerLost, Verdicted,
           FinalizeHold, JournalHold, Update, Dispatch, BackendOk, BackendFailed, SaveReceipt,
           Complete, Crash, worldVars
<1>2. \A k \in Key : Lapsed(k) => Lapsed(k)'
  BY <1>1 DEF Lapsed
<1>3. \A q \in Request : Landed(q) => Landed(q)'
  BY <1>1, <1>k DEF Landed
<1>4. \A q \in Request :
        chain'[KeyOf(q)].by = q => chain[KeyOf(q)].by = q \/ Settle(q)
  BY <1>1, <1>k, RequestConstants
<1>5. \A q \in Request : Committed(q)' => Committed(q) \/ Settle(q)
  BY <1>2, <1>4, <1>k DEF Committed
<1> QED
  BY <1>1, <1>2, <1>3, <1>4, <1>5, <1>k

\* Who writes which table.
LEMMA Writers ==
    ASSUME PipelineNext
    PROVE  /\ \/ UNCHANGED <<attempts, history>>
              \/ \E r \in Request : Reserve(r) \/ Update(r)
           /\ \/ UNCHANGED holds
              \/ \E r \in Request : Authorize(r) \/ ReleaseUnused(r) \/ FinalizeHold(r)
           /\ \/ UNCHANGED <<chain, verdict>>
              \/ \E r \in Request : \/ Settle(r) \/ AnswerSettled(r) \/ AnswerRefused(r)
                                    \/ AnswerLost(r) \/ BackendFailed(r)
              \/ \E k \in Key : Land(k)
BY DEF PipelineNext, RequestStep, Refuse, Verify, VerifyRefused, Authorize, AuthorizeRefused,
       Reserve, ReserveRefused, ReleaseUnused, Settle, AnswerSettled, AnswerRefused,
       AnswerLost, Verdicted, FinalizeHold, JournalHold, Update, Dispatch, BackendOk,
       BackendFailed, SaveReceipt, Complete, Crash, Land, Expire, storeVars, flowVars, worldVars

-----------------------------------------------------------------------------
(* The pipeline keeps each part of the invariant.                          *)

\* The chain and the verdicts agree, whatever the facilitator answered.
LEMMA MoneyStep ==
    ASSUME IInv, PipelineNext
    PROVE  MoneyOK'
<1> USE DEF MoneyOK
<1>i. TypeOK /\ FlowOK /\ MoneyOK
  BY DEF IInv
<1>t. /\ chain \in [Key -> Transfer]
      /\ verdict \in [Request -> Verdict]
      /\ pc \in [Request -> PC]
      /\ PipelineTypeOK
  BY <1>i DEF TypeOK, PipelineTypeOK
<1>k. \A q \in Request :
        /\ KeyOf(q) \in Key
        /\ KeyOf(q)' = KeyOf(q)
        /\ Unsubmitted(q)' => Unsubmitted(q)
        /\ Landed(q) => Landed(q)'
  BY <1>i, <1>t, OrderFields, FlowMoves, WorldMoves
<1>1. CASE UNCHANGED <<chain, verdict>>
  BY <1>1, <1>i, <1>k
     DEF SubmissionsHaveOwners, TransfersHaveOwners, SettledVerdictsLanded
<1>2. ASSUME NEW r \in Request, Settle(r) PROVE MoneyOK'
  <2>1. verdict' = verdict /\ verdict[r] = "none" /\ ~Unsubmitted(r)'
    BY <1>2, <1>i, <1>t DEF Settle, FlowOK, Unsubmitted
  <2>2. \/ chain' = chain
        \/ /\ chain[KeyOf(r)].st = "unused"
           /\ chain' = [chain EXCEPT ![KeyOf(r)] = [st |-> "open", by |-> r]]
    BY <1>2 DEF Settle
  <2>3. SubmissionsHaveOwners'
    <3> SUFFICES ASSUME NEW q \in Request, NEW k \in Key, chain'[k].by = q
                 PROVE  KeyOf(q) = k /\ ~Unsubmitted(q)' /\ verdict[q] \in {"none", "settled", "uncertain"}
      BY <1>k, <2>1 DEF SubmissionsHaveOwners
    <3>1. chain[k].by = q \/ (k = KeyOf(r) /\ q = r)
      BY <1>t, <1>k, <2>2
    <3> QED
      BY <1>i, <1>k, <2>1, <3>1 DEF SubmissionsHaveOwners
  <2>4. TransfersHaveOwners'
    BY <1>i, <1>t, <1>k, <2>2, RequestConstants DEF TransfersHaveOwners
  <2>5. SettledVerdictsLanded'
    BY <1>i, <1>k, <2>1 DEF SettledVerdictsLanded
  <2> QED
    BY <2>3, <2>4, <2>5
<1>3. ASSUME NEW r \in Request, AnswerSettled(r) PROVE MoneyOK'
  <2>1. chain' = chain /\ Landed(r) /\ verdict' = [verdict EXCEPT ![r] = "settled"]
    BY <1>3 DEF AnswerSettled, Verdicted, Landed
  <2> QED
    BY <1>i, <1>t, <1>k, <2>1
       DEF SubmissionsHaveOwners, TransfersHaveOwners, SettledVerdictsLanded
<1>4. ASSUME NEW r \in Request, AnswerRefused(r) PROVE MoneyOK'
  <2>1. ~Landed(r)
    BY <1>4 DEF AnswerRefused, Landed
  <2>2. PICK v \in {"rejected", "not-submitted"} : verdict' = [verdict EXCEPT ![r] = v]
    BY <1>4 DEF AnswerRefused, Verdicted
  <2>3. chain' = IF chain[KeyOf(r)].by = r THEN [chain EXCEPT ![KeyOf(r)] = Unused] ELSE chain
    BY <1>4 DEF AnswerRefused
  <2>4. \A k \in Key : chain'[k].by # r
    BY <1>i, <1>t, <1>k, <2>3, RequestConstants DEF SubmissionsHaveOwners, Unused
  <2>5. \A k \in Key : chain'[k] = chain[k] \/ chain'[k] = Unused
    BY <1>t, <1>k, <2>3
  <2>6. SubmissionsHaveOwners'
    BY <1>i, <1>t, <1>k, <2>2, <2>4, <2>5, RequestConstants DEF SubmissionsHaveOwners, Unused
  <2>7. TransfersHaveOwners'
    BY <1>i, <2>5 DEF TransfersHaveOwners, Unused
  <2>8. SettledVerdictsLanded'
    BY <1>i, <1>t, <1>k, <2>2 DEF SettledVerdictsLanded
  <2> QED
    BY <2>6, <2>7, <2>8
<1>5. ASSUME NEW r \in Request, AnswerLost(r) PROVE MoneyOK'
  <2>1. chain' = chain /\ verdict' = [verdict EXCEPT ![r] = "uncertain"]
    BY <1>5 DEF AnswerLost, Verdicted
  <2> QED
    BY <1>i, <1>t, <1>k, <2>1
       DEF SubmissionsHaveOwners, TransfersHaveOwners, SettledVerdictsLanded
<1>6. ASSUME NEW r \in Request, BackendFailed(r) PROVE MoneyOK'
  <2>1. CASE ~order[r].deferred
    <3>1. UNCHANGED <<chain, verdict>>
      BY <1>6, <1>t, <2>1 DEF BackendFailed, worldVars
    <3> QED
      BY <1>1, <3>1
  <2>2. CASE order[r].deferred
    <3>1. chain' = chain /\ Unsubmitted(r)
      BY <1>6, <2>2 DEF BackendFailed, Goto, worldVars, Unsubmitted
    <3>2. verdict' = [verdict EXCEPT ![r] = "backend-failed"]
      BY <1>6, <2>2 DEF BackendFailed
    <3> QED
      BY <1>i, <1>t, <1>k, <3>1, <3>2
         DEF SubmissionsHaveOwners, TransfersHaveOwners, SettledVerdictsLanded
  <2> QED
    BY <2>1, <2>2
<1>7. ASSUME NEW j \in Key, Land(j) PROVE MoneyOK'
  <2>1. /\ verdict' = verdict
        /\ chain[j].st = "open"
        /\ chain' = [chain EXCEPT ![j].st = "landed"]
    BY <1>7 DEF Land, flowVars
  <2>2. \A k \in Key : chain'[k].by = chain[k].by /\ (chain'[k].st = "unused" <=> chain[k].st = "unused")
    BY <1>t, <2>1 DEF Transfer
  <2> QED
    BY <1>i, <1>k, <2>1, <2>2
       DEF SubmissionsHaveOwners, TransfersHaveOwners, SettledVerdictsLanded
<1> QED
  BY <1>1, <1>2, <1>3, <1>4, <1>5, <1>6, <1>7, Writers

\* The rows keep agreeing with the chain: a reservation takes only a key that
\* nobody is committed to, and a verdict is written on the row it is about.
LEMMA RowsStep ==
    ASSUME IInv, PipelineNext
    PROVE  RowsOK'
<1> USE DEF RowsOK
<1>i. TypeOK /\ FlowOK /\ MoneyOK /\ RowsOK
  BY DEF IInv
<1>t. AttemptTypeOK /\ PipelineTypeOK /\ pc \in [Request -> PC]
  BY <1>i DEF TypeOK, PipelineTypeOK
<1>k. \A q \in Request :
        /\ KeyOf(q) \in Key
        /\ KeyOf(q)' = KeyOf(q)
        /\ Unreserved(q)' => Unreserved(q)
        /\ Owning(q)' => Owning(q) \/ Reserve(q)
        /\ Committed(q)' => Committed(q) \/ Settle(q)
  BY <1>i, <1>t, OrderFields, FlowMoves, WorldMoves
<1>w. \A k \in Key :
        /\ Lapsed(k) => Lapsed(k)'
        /\ chain[k].st = "landed" => chain'[k] = chain[k]
  BY <1>i, WorldMoves
<1>s. ASSUME NEW q \in Request, Settle(q), Committed(q)'
      PROVE  attempts[KeyOf(q)].id = q /\ attempts[KeyOf(q)].status # "rejected"
  <2>1. Owning(q)
    BY <1>s DEF Settle, Owning
  <2>2. ~Lapsed(KeyOf(q))
    BY <1>s, <1>k, <1>w DEF Committed
  <2> QED
    BY <1>i, <2>1, <2>2 DEF OwnersHaveRows
<1>1. CASE UNCHANGED <<attempts, history>>
  <2>1. \A q \in Request : ~Reserve(q)
    BY <1>1, <1>t, <1>k, <1>i DEF Reserve, ReserveAttempt, AttemptTypeOK, RowsHaveOwners,
       AttemptIds, Goto, Unreserved
  <2>2. RowsHaveOwners'
    BY <1>1, <1>i, <1>k DEF RowsHaveOwners, AttemptIds
  <2>3. OwnersHaveRows'
    BY <1>1, <1>i, <1>k, <1>w, <2>1 DEF OwnersHaveRows
  <2>4. CommittedKeepRows'
    BY <1>1, <1>i, <1>k, <1>s DEF CommittedKeepRows
  <2>5. SettledRows'
    BY <1>1, <1>i, <1>w DEF SettledRows
  <2> QED
    BY <1>1, <1>i, <2>2, <2>3, <2>4, <2>5 DEF SupersededWereRejected
<1>2. ASSUME NEW r \in Request, Reserve(r) PROVE RowsOK'
  <2> DEFINE k == KeyOf(r)
  <2>0. /\ ReserveAttempt(r, k, order[r].rail, ReusesRejected(r))
        /\ pc[r] = "held" /\ pc' = [pc EXCEPT ![r] = "admitted"]
        /\ chain' = chain
    BY <1>2 DEF Reserve, Goto, worldVars
  <2>1. /\ attempts'[k].id = r /\ attempts'[k].status = "reserved"
        /\ \A j \in Key \ {k} : attempts'[j] = attempts[j]
    BY <1>t, <1>k, <2>0 DEF ReserveAttempt, AttemptTypeOK
  <2>2. attempts[k].status \in {"absent", "rejected"}
    BY <2>0, <1>k, ReserveArchivesRejected
  <2>3. \A q \in Request : Reserve(q) => q = r
    BY <1>t, <2>0 DEF Reserve, Goto
  <2>4. \A q \in Request : ~Settle(q)
    BY <1>t, <2>0 DEF Settle
  <2>5. ~Unreserved(r)' /\ Unsubmitted(r)
    BY <1>t, <2>0 DEF Unreserved, Unsubmitted
  <2>6. AttemptIds' \subseteq AttemptIds \cup {r}
    BY <1>k, <2>0, <2>1, ReserveArchivesRejected DEF AttemptIds
  <2>7. RowsHaveOwners'
    BY <1>i, <1>k, <2>1, <2>5, <2>6 DEF RowsHaveOwners
  <2>8. OwnersHaveRows'
    BY <1>i, <1>k, <1>w, <2>1, <2>2, <2>3 DEF OwnersHaveRows
  <2>9. CommittedKeepRows'
    <3>1. ~Committed(r)
      BY <1>i, <1>k, <2>5 DEF MoneyOK, SubmissionsHaveOwners, Committed
    <3> QED
      BY <1>i, <1>k, <2>1, <2>2, <2>4, <3>1 DEF CommittedKeepRows, RowsHaveOwners
  <2>10. SettledRows'
    BY <1>i, <1>k, <2>0, <2>1 DEF SettledRows
  <2>11. SupersededWereRejected'
    BY <1>i, <1>k, <2>0, ReserveArchivesRejected DEF SupersededWereRejected
  <2> QED
    BY <2>7, <2>8, <2>9, <2>10, <2>11
<1>3. ASSUME NEW r \in Request, Update(r), ~UNCHANGED <<attempts, history>> PROVE RowsOK'
  <2> DEFINE k == KeyOf(r)
  <2>0. /\ UpdateAttempt(k, StatusFor(verdict[r]))
        /\ pc[r] = "updating" /\ chain' = chain
        /\ \E to \in {"completing", "saving", "dispatching"} : pc' = [pc EXCEPT ![r] = to]
    BY <1>3 DEF Update, worldVars
  <2>1. /\ history' = history
        /\ \A j \in Key : attempts'[j].id = attempts[j].id
        /\ \A j \in Key \ {k} : attempts'[j] = attempts[j]
        /\ attempts'[k].status = StatusFor(verdict[r])
    BY <1>t, <1>k, <2>0 DEF UpdateAttempt, AttemptTypeOK, Row
  <2>2. Owning(r) /\ ~Owning(r)' /\ verdict[r] # "none"
    BY <1>i, <1>t, <2>0 DEF Owning, FlowOK
  <2>3. \A q \in Request : ~Reserve(q) /\ ~Settle(q)
    BY <1>t, <2>0 DEF Reserve, Settle, Goto
  <2>4. /\ StatusFor(verdict[r]) # "absent"
        /\ StatusFor(verdict[r]) = "settled" => verdict[r] = "settled"
        /\ StatusFor(verdict[r]) = "rejected" => verdict[r] \notin {"settled", "uncertain"}
    BY DEF StatusFor
  <2>5. RowsHaveOwners'
    BY <1>i, <1>k, <2>1, <2>4 DEF RowsHaveOwners, AttemptIds
  <2>6. OwnersHaveRows'
    BY <1>i, <1>k, <1>w, <2>1, <2>2, <2>3 DEF OwnersHaveRows
  <2>7. CommittedKeepRows'
    <3>1. ASSUME NEW q \in Request, Committed(q), KeyOf(q) = k
          PROVE  StatusFor(verdict[r]) # "rejected"
      <4>1. q = r
        BY <1>i, <2>2, <3>1 DEF CommittedKeepRows, OwnersHaveRows, Committed
      <4> QED
        BY <1>i, <1>k, <2>2, <2>4, <3>1, <4>1 DEF Committed, MoneyOK, SubmissionsHaveOwners
    <3> QED
      BY <1>i, <1>k, <2>1, <2>3, <3>1 DEF CommittedKeepRows
  <2>8. SettledRows'
    <3>1. verdict[r] = "settled" => chain[k] = [st |-> "landed", by |-> r] /\ attempts[k].id = r
      BY <1>i, <2>2 DEF MoneyOK, SettledVerdictsLanded, Landed, OwnersHaveRows, Lapsed
    <3> QED
      BY <1>i, <1>k, <2>0, <2>1, <2>4, <3>1 DEF SettledRows
  <2> QED
    BY <1>i, <2>1, <2>5, <2>6, <2>7, <2>8 DEF SupersededWereRejected
<1> QED
  BY <1>1, <1>2, <1>3, Writers

\* A transition moves one row of the request that asks, and only its state.
LEMMA TransitionMoves ==
    ASSUME HoldTypeOK, NEW m \in Mandate \cup {NoMandate}, NEW to \in HoldTarget, NEW r,
           TransitionHold(m, to, r)
    PROVE  /\ \A n \in Mandate : holds'[n].req = holds[n].req
           /\ \A n \in Mandate :
                \/ holds'[n] = holds[n]
                \/ /\ n = m /\ holds[n].req = r /\ LiveHold(n)
                   /\ holds'[n].state = to
<1>1. CASE m \in Mandate
  BY <1>1 DEF TransitionHold, HoldMoves, HoldTypeOK, Hold, LiveHold
<1>2. CASE m = NoMandate
  BY <1>2, PipelineConstants DEF TransitionHold, HoldTypeOK
<1> QED
  BY <1>1, <1>2

\* A transition leaves the mandates in order when a consumed target has landed
\* and a released one has given up.
LEMMA TransitionKeepsMandates ==
    ASSUME TypeOK, HoldsNameRequests, MandatesOK,
           NEW m \in Mandate \cup {NoMandate}, NEW to \in HoldTarget, NEW r \in Request,
           TransitionHold(m, to, r),
           to = "consumed" => Landed(r)',
           to = "released" =>
              /\ ~Committed(r)'
              /\ Holding(r)' => Lapsed(KeyOf(r))',
           order' = order,
           \A q \in Request :
              /\ BeforeHold(q)' => BeforeHold(q)
              /\ Holding(q)' => Holding(q)
              /\ Committed(q)' => Committed(q)
              /\ Landed(q) => Landed(q)'
              /\ Lapsed(KeyOf(q)) => Lapsed(KeyOf(q))'
    PROVE  MandatesOK'
<1> USE DEF MandatesOK
<1>t. HoldTypeOK /\ PipelineTypeOK
  BY DEF TypeOK, PipelineTypeOK
<1>k. \A q \in Request :
        /\ MandateOf(q) \in Mandate \cup {NoMandate}
        /\ MandateOf(q)' = MandateOf(q) /\ KeyOf(q)' = KeyOf(q)
        /\ Authorized(q)' = Authorized(q)
        /\ Authorized(q) => MandateOf(q) \in Mandate
  BY <1>t, OrderFields DEF MandateOf, KeyOf, Authorized
<1>1. /\ \A n \in Mandate : holds'[n].req = holds[n].req
      /\ \A n \in Mandate :
           \/ holds'[n] = holds[n]
           \/ /\ n = m /\ holds[n].req = r /\ LiveHold(n)
              /\ holds'[n].state = to
  BY <1>t, TransitionMoves
<1>2. \A n \in Mandate : LiveHold(n)' => LiveHold(n)
  BY <1>1 DEF LiveHold
<1>3. \A n \in Mandate :
        (LiveHold(n) /\ ~LiveHold(n)') => to = "released" /\ holds[n].req = r
  BY <1>1 DEF LiveHold, HoldTarget
<1>4. HoldsHaveOwners'
  BY <1>1 DEF HoldsHaveOwners
<1>5. HoldersHaveHolds'
  BY <1>1, <1>3, <1>k DEF HoldersHaveHolds
<1>6. CommittedKeepHolds'
  BY <1>1, <1>3, <1>k DEF CommittedKeepHolds
<1>7. ConsumedMandateIsPaid'
  <2> SUFFICES ASSUME NEW n \in Mandate, holds'[n].state = "consumed"
               PROVE  \E q \in Request : q = holds'[n].req /\ Landed(q)'
    BY DEF ConsumedMandateIsPaid
  <2>1. CASE holds'[n] = holds[n]
    BY <2>1 DEF ConsumedMandateIsPaid, HoldsNameRequests
  <2>2. CASE holds[n].req = r /\ holds'[n].state = to
    BY <1>1, <2>2
  <2> QED
    BY <1>1, <2>1, <2>2
<1>8. OneLiveHoldPerBinding'
  BY <1>2 DEF OneLiveHoldPerBinding
<1> QED
  BY <1>4, <1>5, <1>6, <1>7, <1>8

\* Mandates stay with the purchases they pay for.
LEMMA MandatesStep ==
    ASSUME IInv, PipelineNext
    PROVE  MandatesOK'
<1> USE DEF MandatesOK
<1>i. TypeOK /\ HoldsNameRequests /\ FlowOK /\ MoneyOK /\ MandatesOK
  BY DEF IInv
<1>t. HoldTypeOK /\ PipelineTypeOK /\ pc \in [Request -> PC] /\ verdict \in [Request -> Verdict]
  BY <1>i DEF TypeOK, PipelineTypeOK
<1>o. order' = order
  BY <1>i, FlowMoves
<1>k. \A q \in Request :
        /\ KeyOf(q) \in Key
        /\ MandateOf(q) \in Mandate \cup {NoMandate}
        /\ MandateOf(q)' = MandateOf(q) /\ KeyOf(q)' = KeyOf(q)
        /\ Authorized(q)' = Authorized(q)
        /\ Authorized(q) => MandateOf(q) \in Mandate
  BY <1>t, <1>o, OrderFields DEF MandateOf, KeyOf, Authorized
<1>f. \A q \in Request :
        /\ BeforeHold(q)' => BeforeHold(q)
        /\ Holding(q)' => Holding(q) \/ Authorize(q)
        /\ Committed(q)' => Committed(q) \/ Settle(q)
        /\ Landed(q) => Landed(q)'
        /\ Lapsed(KeyOf(q)) => Lapsed(KeyOf(q))'
  BY <1>i, <1>k, FlowMoves, WorldMoves
<1>s. \A q \in Request : (Settle(q) /\ Committed(q)') => Holding(q) /\ ~Lapsed(KeyOf(q))
  BY <1>k, <1>f DEF Settle, Holding, Committed
<1>c. \A m \in Mandate : holds[m].state = "consumed" => holds[m].req \in Request
  BY <1>i DEF HoldsNameRequests
<1>1. ASSUME UNCHANGED holds, \A q \in Request : Authorize(q) => ~Authorized(q)
      PROVE  MandatesOK'
  <2>1. \A n \in Mandate : LiveHold(n)' = LiveHold(n)
    BY <1>1 DEF LiveHold
  <2>2. HoldsHaveOwners'
    BY <1>1, <1>i, <1>f DEF HoldsHaveOwners
  <2>3. HoldersHaveHolds'
    BY <1>1, <1>i, <1>k, <1>f, <2>1 DEF HoldersHaveHolds
  <2>4. CommittedKeepHolds'
    BY <1>1, <1>i, <1>k, <1>f, <1>s, <2>1 DEF CommittedKeepHolds, HoldersHaveHolds
  <2>5. ConsumedMandateIsPaid'
    BY <1>1, <1>i, <1>c, <1>f DEF ConsumedMandateIsPaid
  <2>6. OneLiveHoldPerBinding'
    BY <1>i, <2>1 DEF OneLiveHoldPerBinding
  <2> QED
    BY <2>2, <2>3, <2>4, <2>5, <2>6
<1>2. ASSUME NEW r \in Request, Authorize(r) PROVE MandatesOK'
  <2>0. /\ pc[r] = "verified" /\ pc' = [pc EXCEPT ![r] = "held"]
        /\ UNCHANGED <<chain, expired>>
    BY <1>2 DEF Authorize, Goto, worldVars
  <2>1. \A q \in Request : ~Settle(q) /\ (Authorize(q) => q = r)
    BY <1>t, <2>0 DEF Settle, Authorize, Goto
  <2>2. CASE ~Authorized(r)
    BY <1>1, <1>2, <2>1, <2>2 DEF Authorize
  <2>3. CASE Authorized(r)
    <3>0. PICK m \in Mandate : m = MandateOf(r)
      BY <1>k, <2>3
    <3>1. ~HoldReplayed(m) /\ holds' = [holds EXCEPT ![m] = [state |-> "reserved", req |-> r]]
      BY <1>2, <2>3, <3>0 DEF Authorize, ReserveHold
    <3>a. /\ holds'[m].req = r /\ holds'[m].state = "reserved"
          /\ \A n \in Mandate \ {m} : holds'[n] = holds[n]
      BY <1>t, <3>0, <3>1 DEF HoldTypeOK
    <3>2. /\ holds'[m].req = r /\ LiveHold(m)' /\ holds'[m].state # "consumed"
          /\ \A n \in Mandate \ {m} : holds'[n] = holds[n] /\ (LiveHold(n)' <=> LiveHold(n))
      BY <3>a DEF LiveHold
    <3>3. ~LiveHold(m) /\ \A n \in Mandate \ {m} : BindingOf[n] = BindingOf[m] => ~LiveHold(n)
      BY <3>1 DEF HoldReplayed
    <3>4. ~BeforeHold(r)'
      BY <1>t, <2>0 DEF BeforeHold
    <3>5. HoldsHaveOwners'
      BY <1>i, <1>f, <3>2, <3>4 DEF HoldsHaveOwners
    <3>6. HoldersHaveHolds'
      <4> SUFFICES ASSUME NEW q \in Request, Authorized(q), Holding(q)', ~Lapsed(KeyOf(q))'
                   PROVE  holds'[MandateOf(q)].req = q /\ LiveHold(MandateOf(q))'
        BY <1>k DEF HoldersHaveHolds
      <4>1. CASE q = r
        BY <1>k, <3>0, <3>2, <4>1
      <4>2. CASE q # r
        <5>1. holds[MandateOf(q)].req = q /\ LiveHold(MandateOf(q))
          BY <1>i, <1>f, <2>1, <4>2 DEF HoldersHaveHolds
        <5> QED
          BY <1>k, <3>2, <3>3, <5>1
      <4> QED
        BY <4>1, <4>2
    <3>7. CommittedKeepHolds'
      BY <1>i, <1>k, <1>f, <2>1, <3>2, <3>3 DEF CommittedKeepHolds
    <3>8. ConsumedMandateIsPaid'
      BY <1>i, <1>c, <1>f, <3>2 DEF ConsumedMandateIsPaid
    <3>9. OneLiveHoldPerBinding'
      BY <1>i, <3>2, <3>3 DEF OneLiveHoldPerBinding
    <3> QED
      BY <3>5, <3>6, <3>7, <3>8, <3>9
  <2> QED
    BY <2>2, <2>3
<1>3. ASSUME NEW r \in Request, ReleaseUnused(r) PROVE MandatesOK'
  <2>0. pc[r] = "releasing" /\ pc' = [pc EXCEPT ![r] = "done"]
    BY <1>3 DEF ReleaseUnused, Goto
  <2>1. \A q \in Request : ~Settle(q) /\ ~Authorize(q)
    BY <1>t, <2>0 DEF Settle, Authorize, Goto
  <2>2. CASE UNCHANGED holds
    BY <1>1, <2>1, <2>2
  <2>3. CASE TransitionHold(MandateOf(r), "released", r)
    <3>1. Unsubmitted(r) /\ ~Holding(r)'
      BY <1>t, <2>0 DEF Unsubmitted, Holding
    <3>2. ~Committed(r)
      BY <1>i, <1>k, <3>1 DEF MoneyOK, SubmissionsHaveOwners, Committed
    <3>3. "released" \in HoldTarget
      BY DEF HoldTarget
    <3> QED
      BY <1>i, <1>o, <1>k, <1>f, <2>1, <2>3, <3>1, <3>2, <3>3, TransitionKeepsMandates
  <2> QED
    BY <1>3, <2>2, <2>3 DEF ReleaseUnused
<1>4. ASSUME NEW r \in Request, FinalizeHold(r) PROVE MandatesOK'
  <2>0. /\ pc[r] = "finalizing"
        /\ \E to \in {"journaling", "updating"} : pc' = [pc EXCEPT ![r] = to]
    BY <1>4 DEF FinalizeHold
  <2>1. \A q \in Request : ~Settle(q) /\ ~Authorize(q)
    BY <1>t, <2>0 DEF Settle, Authorize, Goto
  <2>2. CASE UNCHANGED holds
    BY <1>1, <2>1, <2>2
  <2>3. CASE TransitionHold(MandateOf(r), HoldFor(verdict[r]), r)
    <3>1. ~Holding(r)' /\ verdict[r] # "none"
      BY <1>i, <1>t, <2>0 DEF Holding, FlowOK
    <3>2. /\ HoldFor(verdict[r]) = "consumed" => verdict[r] = "settled"
          /\ HoldFor(verdict[r]) = "released" => verdict[r] \notin {"settled", "uncertain"}
          /\ HoldFor(verdict[r]) \in HoldTarget
      BY DEF HoldFor, HoldTarget
    <3>3. HoldFor(verdict[r]) = "released" => ~Committed(r)
      BY <1>i, <1>k, <3>1, <3>2 DEF MoneyOK, SubmissionsHaveOwners, Committed
    <3>4. HoldFor(verdict[r]) = "consumed" => Landed(r)
      BY <1>i, <3>2 DEF MoneyOK, SettledVerdictsLanded
    <3> QED
      BY <1>i, <1>o, <1>k, <1>f, <2>1, <2>3, <3>1, <3>2, <3>3, <3>4, TransitionKeepsMandates
  <2> QED
    BY <1>4, <2>2, <2>3 DEF FinalizeHold
<1>5. CASE UNCHANGED holds /\ \E r \in Request : Authorize(r)
  BY <1>2, <1>5
<1> QED
  BY <1>1, <1>2, <1>3, <1>4, <1>5, Writers

\* What a resolver is about to write stays justified while the pipeline moves.
LEMMA TasksStep ==
    ASSUME IInv, PipelineNext, UNCHANGED resolver
    PROVE  TasksAreJustified'
<1>i. TypeOK /\ FlowOK /\ TasksAreJustified /\ PipelineTypeOK
  BY DEF IInv, TypeOK
<1>k. \A q \in Request : KeyOf(q) \in Key /\ KeyOf(q)' = KeyOf(q)
  BY <1>i, OrderFields, WorldMoves
<1>w. /\ \A k \in Key : Lapsed(k) => Lapsed(k)'
      /\ \A k \in Key : chain[k].st = "landed" => chain'[k].st = "landed"
      /\ \A q \in Request : Landed(q) => Landed(q)'
  BY <1>i, WorldMoves
<1>g. \A q \in Request : GaveUp(q) => GaveUp(q)'
  <2> SUFFICES ASSUME NEW q \in Request, GaveUp(q) PROVE GaveUp(q)'
    OBVIOUS
  <2>1. ~MayReserve(q) /\ ~MayReserve(q)'
    BY <1>i, FlowMoves DEF GaveUp
  <2>2. Owning(q)' => Owning(q)
    BY <1>i, <2>1, FlowMoves DEF Reserve, Goto, MayReserve
  <2>3. chain'[KeyOf(q)].by = q => chain[KeyOf(q)].by = q \/ Owning(q)
    BY <1>i, WorldMoves DEF Settle, Owning
  <2> QED
    BY <1>k, <1>w, <2>1, <2>2, <2>3 DEF GaveUp
<1>1. \A x \in Resolver : resolver[x].at \in {"resolve", "align", "orphan"} => resolver[x].id \in Request
  BY <1>i, TaskFields DEF Idle
<1> SUFFICES ASSUME NEW x \in Resolver
             PROVE  /\ resolver[x].at = "resolve" =>
                         IF resolver[x].status = "settled"
                         THEN chain'[KeyOf(resolver[x].id)].st = "landed"
                         ELSE \E k \in Key : k = KeyOf(resolver[x].id) /\ Lapsed(k)'
                    /\ resolver[x].at = "align" =>
                         \E q \in Request :
                           /\ q = resolver[x].id
                           /\ \/ resolver[x].target = "consumed" /\ Landed(q)'
                              \/ resolver[x].target = "released" /\ GaveUp(q)'
                    /\ resolver[x].at = "orphan" =>
                         \E q \in Request : q = resolver[x].id /\ GaveUp(q)'
  BY <1>k, <1>1 DEF TasksAreJustified, Justified
<1> QED
  BY <1>i, <1>k, <1>w, <1>g, <1>1 DEF TasksAreJustified, Justified

\* Every step of the pipeline keeps the invariant.
LEMMA PipelineStep ==
    ASSUME IInv, PipelineNext, UNCHANGED resolver
    PROVE  IInv'
<1>1. TypeOK' /\ HoldsNameRequests'
  BY TypeStep DEF IInv, Next
<1>2. FlowOK'
  BY FlowStep DEF IInv
<1> QED
  BY <1>1, <1>2, RowsStep, MoneyStep, MandatesStep, TasksStep DEF IInv

-----------------------------------------------------------------------------
(* What the stores tell a resolver.                                        *)

\* A settled row, current or archived, belongs to the transfer that landed.
LEMMA SettledMeansLanded ==
    ASSUME IInv, NEW r \in Request, StatusOf(r) = "settled"
    PROVE  Landed(r)
<1>k. KeyOf(r) \in Key
  BY OrderFields DEF IInv, TypeOK
<1>1. CASE attempts[KeyOf(r)].id = r
  BY <1>k, <1>1 DEF StatusOf, IInv, RowsOK, SettledRows, Landed
<1>2. CASE attempts[KeyOf(r)].id # r
  <2>1. \E h \in history : h.row.id = r
    BY <1>2 DEF StatusOf
  <2>2. StatusOf(r) = (CHOOSE h \in history : h.row.id = r).row.status
    BY <1>2, <2>1 DEF StatusOf
  <2>3. (CHOOSE h \in history : h.row.id = r) \in history
    BY <2>1, Zenon
  <2> QED
    BY <2>2, <2>3 DEF IInv, RowsOK, SupersededWereRejected
<1> QED
  BY <1>1, <1>2

\* A request whose row is rejected, current or archived, has given up.
LEMMA RejectedMeansGaveUp ==
    ASSUME IInv, NEW r \in Request, StatusOf(r) = "rejected"
    PROVE  GaveUp(r)
<1>k. KeyOf(r) \in Key
  BY OrderFields DEF IInv, TypeOK
<1>1. r \in AttemptIds
  BY <1>k DEF StatusOf, AttemptIds
<1>2. ~MayReserve(r)
  BY <1>1 DEF IInv, RowsOK, RowsHaveOwners, MayReserve, Unreserved
<1>3. attempts[KeyOf(r)].id # r \/ attempts[KeyOf(r)].status = "rejected"
  BY DEF StatusOf
<1>4. ~Lapsed(KeyOf(r)) => ~Owning(r) /\ chain[KeyOf(r)].by # r
  BY <1>3 DEF IInv, RowsOK, OwnersHaveRows, CommittedKeepRows, Committed
<1> QED
  BY <1>2, <1>4 DEF GaveUp

\* The target that the journal asks for is justified.
LEMMA TargetIsJustified ==
    ASSUME IInv, NEW r \in Request, HoldTargetOf(r) # "none"
    PROVE  \/ HoldTargetOf(r) = "consumed" /\ Landed(r)
           \/ HoldTargetOf(r) = "released" /\ GaveUp(r)
<1>1. \/ HoldTargetOf(r) = "consumed" /\ StatusOf(r) = "settled"
      \/ HoldTargetOf(r) = "released" /\ StatusOf(r) = "rejected"
  BY DEF HoldTargetOf
<1> QED
  BY <1>1, SettledMeansLanded, RejectedMeansGaveUp

\* A hold without an attempt, of a request past its two reservations, was
\* given up.
LEMMA OrphanMeansGaveUp ==
    ASSUME IInv, NEW m \in Mandate, Orphan(m)
    PROVE  holds[m].req \in Request /\ GaveUp(holds[m].req)
<1>1. PICK r \in Request : r = holds[m].req
  BY DEF IInv, HoldsNameRequests, Orphan
<1>2. r \notin AttemptIds /\ pc[r] # "held"
  BY <1>1 DEF Orphan, OlderThanMinAge
<1>3. ~MayReserve(r)
  BY <1>1, <1>2 DEF IInv, MandatesOK, HoldsHaveOwners, BeforeHold, MayReserve
<1>4. KeyOf(r) \in Key
  BY OrderFields DEF IInv, TypeOK
<1>5. attempts[KeyOf(r)].id # r
  BY <1>2, <1>4 DEF AttemptIds
<1>6. ~Lapsed(KeyOf(r)) => ~Owning(r) /\ chain[KeyOf(r)].by # r
  BY <1>5 DEF IInv, RowsOK, OwnersHaveRows, CommittedKeepRows, Committed
<1> QED
  BY <1>1, <1>3, <1>6 DEF GaveUp

-----------------------------------------------------------------------------
(* Resolvers keep the invariant.                                           *)

\* A justified task may be taken up: the flows and the chain do not move.
LEMMA TaskTaken ==
    ASSUME IInv, NEW x \in Resolver, NEW task, Do(x, task), Justified(task),
           UNCHANGED <<flowVars, worldVars>>
    PROVE  TasksAreJustified'
<1>1. \A t : Justified(t) => Justified(t)'
  BY DEF Justified, Landed, GaveUp, MayReserve, Lapsed, Owning, KeyOf, flowVars, worldVars
<1>2. \A y \in Resolver : resolver'[y] = resolver[y] \/ resolver'[y] = task
  BY DEF Do, IInv, TypeOK
<1> SUFFICES ASSUME NEW y \in Resolver PROVE \E t : t = resolver'[y] /\ Justified(t)'
  BY DEF TasksAreJustified
<1> QED
  BY <1>1, <1>2 DEF IInv, TasksAreJustified

\* The parts of the invariant that a resolver does not write.
LEMMA ResolverFrame ==
    ASSUME IInv, UNCHANGED <<flowVars, worldVars>>
    PROVE  /\ FlowOK'
           /\ MoneyOK'
           /\ UNCHANGED <<attempts, history>> => RowsOK'
           /\ UNCHANGED holds => MandatesOK'
<1> USE DEF IInv, flowVars, worldVars
<1>1. FlowOK'
  BY DEF FlowOK, Holding, Unsubmitted
<1>2. MoneyOK'
  BY DEF MoneyOK, SubmissionsHaveOwners, TransfersHaveOwners, SettledVerdictsLanded, Landed,
         Unsubmitted, KeyOf
<1>3. ASSUME UNCHANGED <<attempts, history>> PROVE RowsOK'
  BY <1>3 DEF RowsOK, RowsHaveOwners, OwnersHaveRows, CommittedKeepRows, SettledRows,
              SupersededWereRejected, AttemptIds, Unreserved, Owning, Committed, Lapsed, KeyOf
<1>4. ASSUME UNCHANGED holds PROVE MandatesOK'
  BY <1>4 DEF MandatesOK, HoldsHaveOwners, HoldersHaveHolds, CommittedKeepHolds,
              ConsumedMandateIsPaid, OneLiveHoldPerBinding, BeforeHold, Holding, Committed,
              Lapsed, Landed, LiveHold, Authorized, MandateOf, KeyOf
<1> QED
  BY <1>1, <1>2, <1>3, <1>4

\* A late resolution writes only what the chain bears out, on the row it read.
LEMMA ResolveStep ==
    ASSUME IInv, NEW x \in Resolver, Resolve(x)
    PROVE  RowsOK'
<1> USE DEF RowsOK
<1>f. UNCHANGED <<flowVars, worldVars>> /\ resolver[x].at = "resolve"
  BY DEF Resolve
<1>1. CASE UNCHANGED <<attempts, history>>
  BY <1>1, <1>f, ResolverFrame
<1>2. CASE ResolveAttempt(KeyOf(resolver[x].id), resolver[x].id, resolver[x].expected,
                          resolver[x].status, resolver[x].method)
  <2>t. TypeOK /\ AttemptTypeOK /\ PipelineTypeOK
    BY DEF IInv, TypeOK, PipelineTypeOK
  <2>k. \A q \in Request : KeyOf(q) \in Key
    BY <2>t, OrderFields
  <2>1. PICK i \in Request : i = resolver[x].id
    BY <1>f, <2>t, TaskFields DEF Idle
  <2>2. PICK k \in Key : k = KeyOf(i)
    BY <2>t, OrderFields
  <2>3. PICK to \in ResolvedStatus : to = resolver[x].status
    BY <1>f, <2>t, TaskFields
  <2>4. IF to = "settled" THEN chain[k].st = "landed" ELSE Lapsed(k)
    BY <1>f, <2>1, <2>2, <2>3 DEF IInv, TasksAreJustified, Justified
  <2>5. /\ attempts[k].id = i /\ history' = history
        /\ attempts' = [attempts EXCEPT ![k].status = to, ![k].resolution = resolver[x].method]
    BY <1>2, <2>1, <2>2, <2>3 DEF ResolveAttempt, Resolvable
  <2>6. /\ \A j \in Key : attempts'[j].id = attempts[j].id
        /\ \A j \in Key \ {k} : attempts'[j] = attempts[j]
        /\ attempts'[k].status = to
    BY <2>t, <2>5 DEF AttemptTypeOK, Row
  <2>7. /\ \A q \in Request : /\ KeyOf(q)' = KeyOf(q)
                              /\ Owning(q)' <=> Owning(q)
                              /\ Unreserved(q)' <=> Unreserved(q)
                              /\ Committed(q)' <=> Committed(q)
                              /\ Committed(q) => ~Lapsed(KeyOf(q))
        /\ \A j \in Key : Lapsed(j)' <=> Lapsed(j)
        /\ chain' = chain
    BY <1>f DEF flowVars, worldVars, Owning, Unreserved, Committed, Lapsed, KeyOf
  <2>8. RowsHaveOwners'
    <3>1. AttemptIds' = AttemptIds
      BY <2>5, <2>6 DEF AttemptIds
    <3>2. to # "absent" /\ RowsHaveOwners
      BY DEF IInv, ResolvedStatus
    <3>3. \A q \in Request, j \in Key :
            attempts'[j].id = q => KeyOf(q)' = j /\ attempts'[j].status # "absent"
      BY <2>6, <2>7, <3>2 DEF RowsHaveOwners
    <3>4. \A q \in Request : q \in AttemptIds' => ~Unreserved(q)'
      BY <2>7, <3>1, <3>2 DEF RowsHaveOwners
    <3> QED
      BY <3>3, <3>4 DEF RowsHaveOwners
  <2>9. OwnersHaveRows'
    <3> SUFFICES ASSUME NEW q \in Request, Owning(q), ~Lapsed(KeyOf(q))
                 PROVE  /\ attempts'[KeyOf(q)].id = q
                        /\ attempts'[KeyOf(q)].status \in {"reserved", "settled"}
      BY <2>k, <2>7 DEF OwnersHaveRows
    <3> QED
      BY <2>k, <2>4, <2>6 DEF IInv, OwnersHaveRows, ResolvedStatus
  <2>10. CommittedKeepRows'
    BY <2>k, <2>4, <2>6, <2>7 DEF IInv, CommittedKeepRows, ResolvedStatus
  <2>11. SettledRows'
    <3>1. ASSUME to = "settled" PROVE chain[k] = [st |-> "landed", by |-> i]
      <4>1. chain[k] \in Transfer
        BY <2>t DEF PipelineTypeOK
      <4>2. chain[k].by # NoRequest
        BY <2>4, <3>1 DEF IInv, MoneyOK, TransfersHaveOwners
      <4>3. PICK q \in Request : q = chain[k].by
        BY <4>1, <4>2 DEF Transfer
      <4>4. KeyOf(q) = k /\ Committed(q)
        BY <2>4, <3>1, <4>3 DEF IInv, MoneyOK, SubmissionsHaveOwners, Committed, Lapsed
      <4>5. q = i
        BY <2>5, <4>4 DEF IInv, CommittedKeepRows
      <4> QED
        BY <2>4, <3>1, <4>1, <4>3, <4>5 DEF Transfer
    <3> QED
      BY <2>5, <2>6, <2>7, <3>1 DEF IInv, SettledRows
  <2>12. SupersededWereRejected'
    BY <2>5 DEF IInv, SupersededWereRejected
  <2> QED
    BY <2>8, <2>9, <2>10, <2>11, <2>12
<1> QED
  BY <1>1, <1>2 DEF Resolve

\* A late transition of a hold moves only what its payment allows.
LEMMA LateTransition ==
    ASSUME IInv, NEW r \in Request, NEW m \in Mandate \cup {NoMandate}, NEW to \in HoldTarget,
           TransitionHold(m, to, r), UNCHANGED <<flowVars, worldVars>>,
           \/ to = "consumed" /\ Landed(r)
           \/ to = "released" /\ GaveUp(r)
    PROVE  MandatesOK'
<1>1. /\ order' = order
      /\ \A q \in Request : /\ BeforeHold(q)' = BeforeHold(q)
                            /\ Holding(q)' = Holding(q)
                            /\ Committed(q)' = Committed(q)
                            /\ Landed(q)' = Landed(q)
                            /\ Lapsed(KeyOf(q))' = Lapsed(KeyOf(q))
  BY DEF flowVars, worldVars, BeforeHold, Holding, Committed, Landed, Lapsed, KeyOf
<1>2. GaveUp(r) => ~Committed(r) /\ (Holding(r) => Lapsed(KeyOf(r)))
  BY DEF GaveUp, Committed, Holding, Owning, MayReserve
<1> QED
  BY <1>1, <1>2, TransitionKeepsMandates DEF IInv

\* Every step of a resolver keeps the invariant.
LEMMA ResolverInv ==
    ASSUME IInv, NEW x \in Resolver, ResolverStep(x)
    PROVE  IInv'
<1>t. TypeOK' /\ HoldsNameRequests' /\ TypeOK /\ PipelineTypeOK
  BY TypeStep DEF IInv, Next, TypeOK
<1>f. UNCHANGED <<flowVars, worldVars>>
  BY DEF ResolverStep, Collect, Ask, ManualVerdict, Resolve, Reread, PendingHold, Align,
         AlignJournal, ListOrphan, ReleaseOrphan, ResolverCrash, pipelineVars
<1>i. Justified(Idle)
  BY DEF Justified, Idle
<1> SUFFICES /\ RowsOK' /\ MandatesOK'
             /\ \E task : Do(x, task) /\ Justified(task)
  BY <1>t, <1>f, ResolverFrame, TaskTaken DEF IInv
<1>1. CASE Collect(x)
  <2>1. UNCHANGED <<attempts, history, holds>>
    BY <1>1 DEF Collect, pipelineVars, storeVars
  <2> QED
    BY <1>1, <1>f, <2>1, ResolverFrame DEF Collect, Justified
<1>2. CASE Ask(x)
  <2>1. UNCHANGED <<attempts, history, holds>>
    BY <1>2 DEF Ask, storeVars
  <2>2. \E task : Do(x, task) /\ Justified(task)
    BY <1>2, <1>i DEF Ask, Evidence, Truth, Justified, Lapsed
  <2> QED
    BY <1>f, <2>1, <2>2, ResolverFrame
<1>3. CASE ManualVerdict(x)
  <2>1. UNCHANGED <<attempts, history, holds>>
    BY <1>3 DEF ManualVerdict, pipelineVars, storeVars
  <2>2. \E task : Do(x, task) /\ Justified(task)
    BY <1>3 DEF ManualVerdict, Justified, Lapsed, ResolvedStatus
  <2> QED
    BY <1>f, <2>1, <2>2, ResolverFrame
<1>4. CASE Resolve(x)
  <2>1. \E task : Do(x, task) /\ Justified(task)
    BY <1>4, <1>i DEF Resolve, Justified
  <2> QED
    BY <1>4, <1>f, <2>1, ResolveStep, ResolverFrame DEF Resolve
<1>5. CASE Reread(x)
  <2>1. UNCHANGED <<attempts, history, holds>>
    BY <1>5 DEF Reread, pipelineVars, storeVars
  <2>2. resolver[x].id \in Request
    BY <1>5, <1>t, TaskFields DEF Reread, Idle
  <2>3. \E task : Do(x, task) /\ Justified(task)
    BY <1>5, <1>i, <2>2, TargetIsJustified DEF Reread, AlignTask, Justified
  <2> QED
    BY <1>f, <2>1, <2>3, ResolverFrame
<1>6. CASE PendingHold(x)
  <2>1. UNCHANGED <<attempts, history, holds>>
    BY <1>6 DEF PendingHold, pipelineVars, storeVars
  <2>2. \E task : Do(x, task) /\ Justified(task)
    BY <1>6, TargetIsJustified DEF PendingHold, AlignTask, Justified
  <2> QED
    BY <1>f, <2>1, <2>2, ResolverFrame
<1>7. CASE Align(x)
  <2>0. PICK r \in Request : r = resolver[x].id
    BY <1>7, <1>t, TaskFields DEF Align, Idle
  <2>1. PICK to \in HoldTarget : to = resolver[x].target
    BY <1>7, <1>t, TaskFields DEF Align
  <2>2. \/ to = "consumed" /\ Landed(r)
        \/ to = "released" /\ GaveUp(r)
    BY <1>7, <2>0, <2>1 DEF IInv, TasksAreJustified, Justified, Align
  <2>3. MandateOf(r) \in Mandate \cup {NoMandate}
    BY <1>t, OrderFields
  <2>4. UNCHANGED holds \/ TransitionHold(MandateOf(r), to, r)
    BY <1>7, <2>0, <2>1 DEF Align
  <2>5. MandatesOK'
    BY <1>f, <2>2, <2>3, <2>4, LateTransition, ResolverFrame
  <2>6. \E task : Do(x, task) /\ Justified(task)
    BY <1>7, <1>i DEF Align, Justified
  <2> QED
    BY <1>7, <1>f, <2>5, <2>6, ResolverFrame DEF Align
<1>8. CASE AlignJournal(x)
  BY <1>8, <1>f, <1>i, ResolverFrame DEF AlignJournal
<1>9. CASE ListOrphan(x)
  <2>1. UNCHANGED <<attempts, history, holds>>
    BY <1>9 DEF ListOrphan, pipelineVars, storeVars
  <2>2. \E task : Do(x, task) /\ Justified(task)
    BY <1>9, OrphanMeansGaveUp DEF ListOrphan, Justified
  <2> QED
    BY <1>f, <2>1, <2>2, ResolverFrame
<1>10. CASE ReleaseOrphan(x)
  <2>0. PICK r \in Request : r = resolver[x].id
    BY <1>10, <1>t, TaskFields DEF ReleaseOrphan, Idle
  <2>1. GaveUp(r)
    BY <1>10, <2>0 DEF IInv, TasksAreJustified, Justified, ReleaseOrphan
  <2>2. resolver[x].mandate \in Mandate /\ "released" \in HoldTarget
    BY <1>10, <1>t, TaskFields DEF ReleaseOrphan, HoldTarget
  <2>3. UNCHANGED holds \/ TransitionHold(resolver[x].mandate, "released", r)
    BY <1>10, <2>0 DEF ReleaseOrphan
  <2>4. MandatesOK'
    BY <1>f, <2>1, <2>2, <2>3, LateTransition, ResolverFrame
  <2> QED
    BY <1>10, <1>f, <1>i, <2>4, ResolverFrame DEF ReleaseOrphan
<1>11. CASE ResolverCrash(x)
  BY <1>11, <1>f, <1>i, ResolverFrame DEF ResolverCrash, storeVars
<1> QED
  BY <1>1, <1>2, <1>3, <1>4, <1>5, <1>6, <1>7, <1>8, <1>9, <1>10, <1>11 DEF ResolverStep

-----------------------------------------------------------------------------
(* The results.                                                            *)

\* The invariant is inductive.
LEMMA Invariance == Spec => []IInv
<1>1. IInv /\ [Next]_vars => IInv'
  <2> SUFFICES ASSUME IInv, [Next]_vars PROVE IInv'
    OBVIOUS
  <2>1. CASE Next
    BY <2>1, PipelineStep, ResolverInv DEF Next
  <2>2. CASE UNCHANGED vars
    <3>1. /\ UNCHANGED <<flowVars, worldVars>>
          /\ UNCHANGED <<attempts, history>> /\ UNCHANGED holds /\ UNCHANGED resolver
      BY <2>2 DEF vars, pipelineVars, storeVars
    <3>2. TypeOK' /\ HoldsNameRequests'
      BY <2>2, TypeStep DEF IInv
    <3>3. TasksAreJustified'
      BY <3>1 DEF IInv, TasksAreJustified, Justified, Landed, GaveUp, MayReserve, Lapsed, Owning,
                  KeyOf, flowVars, worldVars
    <3> QED
      BY <3>1, <3>2, <3>3, ResolverFrame DEF IInv
  <2> QED
    BY <2>1, <2>2
<1> QED
  BY <1>1, InitInv, PTL DEF Spec

\* A settled row always names the attempt whose transfer landed, whoever wrote it
\* and however late (updatePaymentAttempt, resolvePaymentAttempt).
THEOREM SettledIsPaid == Spec => []SettledRowsLanded
<1>1. IInv => SettledRowsLanded
  BY SettledMeansLanded DEF SettledRowsLanded
<1> QED
  BY <1>1, Invariance, PTL

\* A rejected row, current or archived, moved no money and never will, so a
\* reclaim of its key or a release of its mandate cannot double a charge.
THEOREM RejectedIsFree == Spec => []RejectedRowsMovedNothing
<1>1. IInv => RejectedRowsMovedNothing
  <2> SUFFICES ASSUME IInv, NEW r \in Request, StatusOf(r) = "rejected"
               PROVE  ~Landed(r) /\ ~MayLand(r)
    BY DEF RejectedRowsMovedNothing
  <2>1. Lapsed(KeyOf(r)) \/ chain[KeyOf(r)].by # r
    BY RejectedMeansGaveUp DEF GaveUp
  <2> QED
    BY <2>1 DEF Lapsed, Landed, MayLand
<1> QED
  BY <1>1, Invariance, PTL

\* While money moved or may still move for a purchase, its mandate is neither
\* released nor passed on: no late answer, crash or scan frees it.
THEOREM PaidMandatesAreKept == Spec => []PaidMandateIsKept
<1>1. IInv => PaidMandateIsKept
  <2> SUFFICES ASSUME IInv, NEW r \in Request, Authorized(r), Landed(r) \/ MayLand(r)
               PROVE  holds[MandateOf(r)].req = r /\ LiveHold(MandateOf(r))
    BY DEF PaidMandateIsKept
  <2>1. Committed(r)
    BY DEF Landed, MayLand, Committed, Lapsed
  <2> QED
    BY <2>1 DEF IInv, MandatesOK, CommittedKeepHolds
<1> QED
  BY <1>1, Invariance, PTL

\* A mandate is consumed only for a transfer that landed.
THEOREM ConsumedIsPaid == Spec => []ConsumedMandateIsPaid
<1>1. IInv => ConsumedMandateIsPaid
  BY DEF IInv, MandatesOK
<1> QED
  BY <1>1, Invariance, PTL

-----------------------------------------------------------------------------
(* What a buyer is told.                                                   *)

\* A key to which nobody is committed is closed.
LEMMA UncommittedIsClosed ==
    ASSUME IInv, NEW k \in Key, \A q \in Request : KeyOf(q) = k => ~Committed(q)
    PROVE  KeyClosed(k)
<1>1. \A q \in Request : KeyOf(q) = k => ~MayLand(q)
  BY DEF Committed, MayLand, Lapsed
<1>2. chain[k].st # "landed"
  <2> SUFFICES ASSUME chain[k].st = "landed" PROVE FALSE
    OBVIOUS
  <2>1. chain[k].by \in Request
    BY DEF IInv, TypeOK, PipelineTypeOK, Transfer, MoneyOK, TransfersHaveOwners
  <2> QED
    BY <2>1 DEF IInv, MoneyOK, SubmissionsHaveOwners, Committed, Lapsed
<1> QED
  BY <1>1, <1>2 DEF KeyClosed

\* So is a key without a row, and one whose row is finished.
LEMMA FinishedIsClosed ==
    ASSUME IInv, NEW k \in Key, attempts[k].status \in {"absent", "settled", "rejected"}
    PROVE  KeyClosed(k)
<1>1. CASE attempts[k].status = "settled"
  <2>1. chain[k].st = "landed"
    <3>1. chain[k] = [st |-> "landed", by |-> attempts[k].id]
      BY <1>1 DEF IInv, RowsOK, SettledRows
    <3> QED
      BY <3>1
  <2>2. \A q \in Request : KeyOf(q) = k => ~MayLand(q)
    BY <2>1 DEF MayLand
  <2> QED
    BY <1>1, <2>2 DEF KeyClosed
<1>2. CASE attempts[k].status \in {"absent", "rejected"}
  <2>1. \A q \in Request : KeyOf(q) = k => ~Committed(q)
    BY <1>2 DEF IInv, RowsOK, RowsHaveOwners, CommittedKeepRows
  <2> QED
    BY <2>1, UncommittedIsClosed
<1> QED
  BY <1>1, <1>2

\* A retry is invited by a refusal that looks up the row, or by a verdict.
LEMMA RetryInviters ==
    ASSUME TypeOK, PipelineNext, NEW r \in Request,
           outcome'[r] # outcome[r], outcome'[r] \in {"challenge", "nothing-charged"}
    PROVE  /\ UNCHANGED <<order, chain, expired>>
           /\ \/ /\ attempts' = attempts
                 /\ attempts[KeyOf(r)].status \in {"absent", "settled", "rejected"}
              \/ pc[r] = "updating" /\ verdict[r] \in {"rejected", "not-submitted"}
<1>o. outcome \in [Request -> Outcome] /\ verdict[r] \in Verdict
  BY DEF TypeOK, PipelineTypeOK
<1>1. ASSUME NEW q \in Request, RequestStep(q), outcome'[r] # outcome[r] PROVE q = r
  BY <1>1, <1>o
     DEF RequestStep, Refuse, Verify, VerifyRefused, Authorize, AuthorizeRefused, Reserve,
         ReserveRefused, ReleaseUnused, Settle, AnswerSettled, AnswerRefused, AnswerLost,
         Verdicted, FinalizeHold, JournalHold, Update, Dispatch, BackendOk, BackendFailed,
         SaveReceipt, Complete, Answer
<1>2. RequestStep(r)
  BY <1>1 DEF PipelineNext, Crash, Land, Expire, flowVars
<1>3. VerifyRefused(r) \/ ReserveRefused(r) \/ Update(r)
  BY <1>2, <1>o
     DEF RequestStep, Refuse, Verify, Authorize, AuthorizeRefused, Reserve, ReleaseUnused,
         Settle, AnswerSettled, AnswerRefused, AnswerLost, Verdicted, FinalizeHold, JournalHold,
         Dispatch, BackendOk, BackendFailed, SaveReceipt, Complete, Answer
<1>4. CASE VerifyRefused(r)
  BY <1>4, <1>o DEF VerifyRefused, Answer, ReplayAnswer, storeVars, worldVars
<1>5. CASE ReserveRefused(r)
  BY <1>5, <1>o DEF ReserveRefused, Answer, ReplayAnswer, storeVars, worldVars
<1>6. CASE Update(r)
  <2>1. outcome'[r] = OutcomeFor(verdict[r])
    BY <1>6, <1>o DEF Update, Answer
  <2>2. verdict[r] \in {"rejected", "not-submitted"}
    BY <1>o, <2>1 DEF OutcomeFor, Verdict
  <2> QED
    BY <1>6, <2>2 DEF Update, worldVars
<1> QED
  BY <1>3, <1>4, <1>5, <1>6

\* Whenever the gateway asks for another payment, or says that nothing was
\* charged, the authorization that was presented can no longer move money, and
\* money it moved is recorded as settled (replayError, refusalFor, settle).
THEOREM RetriesAreSafe == Spec => RetryInvitedOnlyWhenClosed
<1> DEFINE Safe ==
      \A r \in Request :
         (outcome'[r] # outcome[r] /\ outcome'[r] \in {"challenge", "nothing-charged"}) =>
            KeyClosed(KeyOf(r))'
<1>1. IInv /\ IInv' /\ [Next]_vars => [Safe]_vars
  <2> SUFFICES ASSUME IInv, IInv', Next, NEW r \in Request,
                      outcome'[r] # outcome[r], outcome'[r] \in {"challenge", "nothing-charged"}
               PROVE  KeyClosed(KeyOf(r))'
    OBVIOUS
  <2>t. TypeOK /\ PipelineTypeOK
    BY DEF IInv, TypeOK
  <2>1. PipelineNext
    BY DEF Next, ResolverStep, Collect, Ask, ManualVerdict, Resolve, Reread, PendingHold, Align,
           AlignJournal, ListOrphan, ReleaseOrphan, ResolverCrash, pipelineVars, flowVars
  <2>2. /\ UNCHANGED <<order, chain, expired>>
        /\ \/ /\ attempts' = attempts
              /\ attempts[KeyOf(r)].status \in {"absent", "settled", "rejected"}
           \/ pc[r] = "updating" /\ verdict[r] \in {"rejected", "not-submitted"}
    BY <2>t, <2>1, RetryInviters
  <2>k. KeyOf(r) \in Key
    BY <2>t, OrderFields
  <2>3. CASE attempts' = attempts /\ attempts[KeyOf(r)].status \in {"absent", "settled", "rejected"}
    <3>1. KeyClosed(KeyOf(r))
      BY <2>k, <2>3, FinishedIsClosed
    <3> QED
      BY <2>2, <2>3, <3>1 DEF KeyClosed, MayLand, KeyOf
  <2>4. CASE pc[r] = "updating" /\ verdict[r] \in {"rejected", "not-submitted"}
    <3>1. Owning(r) /\ chain[KeyOf(r)].by # r
      BY <2>k, <2>4 DEF Owning, IInv, MoneyOK, SubmissionsHaveOwners
    <3>2. \A q \in Request : KeyOf(q) = KeyOf(r) => ~Committed(q)
      BY <3>1 DEF IInv, RowsOK, OwnersHaveRows, CommittedKeepRows, Committed
    <3>3. KeyClosed(KeyOf(r)) /\ chain[KeyOf(r)].st # "landed"
      <4>1. KeyClosed(KeyOf(r))
        BY <2>k, <3>2, UncommittedIsClosed
      <4>2. chain[KeyOf(r)].st = "landed" => chain[KeyOf(r)].by \in Request
        BY <2>k, <2>t DEF IInv, PipelineTypeOK, Transfer, MoneyOK, TransfersHaveOwners
      <4>3. chain[KeyOf(r)].st # "landed"
        BY <2>k, <3>2, <4>2 DEF IInv, MoneyOK, SubmissionsHaveOwners, Committed, Lapsed
      <4> QED
        BY <4>1, <4>3
    <3> QED
      BY <2>2, <3>3 DEF KeyClosed, MayLand, KeyOf
  <2> QED
    BY <2>2, <2>3, <2>4
<1> QED
  BY <1>1, Invariance, PTL DEF Spec, RetryInvitedOnlyWhenClosed

-----------------------------------------------------------------------------
(* Refinement of the ideal purchase.                                       *)

\* Only a landing changes what has been charged.
LEMMA ChargedMoves ==
    ASSUME TypeOK, FlowOK, PipelineNext
    PROVE  \/ \E k \in Key : Land(k)
           \/ \A k \in Key :
                /\ chain'[k].st = "landed" <=> chain[k].st = "landed"
                /\ chain[k].st = "landed" => chain'[k] = chain[k]
<1>t. chain \in [Key -> Transfer] /\ \A q \in Request : KeyOf(q) \in Key
  BY OrderFields DEF TypeOK, PipelineTypeOK
<1>w. \A k \in Key : chain[k].st = "landed" => chain'[k] = chain[k]
  BY WorldMoves
<1>1. ASSUME NEW r \in Request, Settle(r) \/ AnswerRefused(r), NEW k \in Key,
             chain'[k].st = "landed"
      PROVE  chain[k].st = "landed"
  BY <1>1, <1>t DEF Settle, AnswerRefused, Unused
<1>2. \/ UNCHANGED chain
      \/ \E r \in Request : Settle(r) \/ AnswerRefused(r)
      \/ \E k \in Key : Land(k)
  BY Writers DEF AnswerSettled, AnswerLost, BackendFailed, worldVars
<1> QED
  BY <1>w, <1>1, <1>2

\* Only the completion of a delivered purchase serves a response.
LEMMA ServedMoves ==
    ASSUME TypeOK, FlowOK, PipelineNext, NEW q \in Request
    PROVE  \/ Delivered(q)' <=> Delivered(q)
           \/ Complete(q) /\ outcome[q] = "delivered"
<1>t. pc \in [Request -> PC] /\ outcome \in [Request -> Outcome]
  BY DEF TypeOK, PipelineTypeOK
<1>1. ASSUME NEW r \in Request, r # q, RequestStep(r) PROVE pc'[q] = pc[q] /\ outcome'[q] = outcome[q]
  BY <1>1, <1>t
     DEF RequestStep, Refuse, Verify, VerifyRefused, Authorize, AuthorizeRefused, Reserve,
         ReserveRefused, ReleaseUnused, Settle, AnswerSettled, AnswerRefused, AnswerLost,
         Verdicted, FinalizeHold, JournalHold, Update, Dispatch, BackendOk, BackendFailed,
         SaveReceipt, Complete, Answer, Goto
<1>2. ASSUME RequestStep(q), ~Complete(q) PROVE ~Delivered(q) /\ ~Delivered(q)'
  <2> USE <1>t DEF Delivered, Goto, Answer
  <2>1. CASE Refuse(q) \/ VerifyRefused(q) \/ AuthorizeRefused(q)
    BY <2>1 DEF Refuse, VerifyRefused, AuthorizeRefused, ReplayAnswer
  <2>2. CASE ReleaseUnused(q)
    BY <2>2 DEF ReleaseUnused, FlowOK, Unsubmitted
  <2>3. CASE \/ Verify(q) \/ Authorize(q) \/ Reserve(q) \/ ReserveRefused(q) \/ Settle(q)
             \/ AnswerSettled(q) \/ AnswerRefused(q) \/ AnswerLost(q)
    BY <2>3 DEF Verify, Authorize, Reserve, ReserveRefused, Settle, AnswerSettled,
                AnswerRefused, AnswerLost, Verdicted
  <2>4. CASE \/ FinalizeHold(q) \/ JournalHold(q) \/ Update(q) \/ Dispatch(q) \/ BackendOk(q)
             \/ BackendFailed(q) \/ SaveReceipt(q)
    BY <2>4 DEF FinalizeHold, JournalHold, Update, Dispatch, BackendOk, BackendFailed, SaveReceipt
  <2> QED
    BY <1>2, <2>1, <2>2, <2>3, <2>4 DEF RequestStep
<1>3. ASSUME Complete(q), outcome[q] # "delivered" PROVE ~Delivered(q) /\ ~Delivered(q)'
  BY <1>3, <1>t DEF Complete, Goto, Delivered
<1>4. CASE Crash \/ \E k \in Key : Land(k) \/ Expire(k)
  BY <1>4, <1>t DEF Crash, Land, Expire, flowVars, Delivered, Active
<1> QED
  BY <1>1, <1>2, <1>3, <1>4 DEF PipelineNext, Delivered

\* The gateway, its resolvers and the chain implement the ideal purchase: each
\* authorization and each checkout is charged at most once, and a response is
\* served only to the request that was charged, once.
THEOREM ImplementsIdeal == Spec => RefinesIdeal
<1> DEFINE charged == [k \in Key |-> IF chain[k].st = "landed" THEN chain[k].by ELSE NoRequest]
           served == {r \in Request : Delivered(r)}
<1>1. Init => Ideal!IdealInit
  <2> SUFFICES ASSUME Init PROVE Ideal!IdealInit
    OBVIOUS
  <2>1. \A k \in Key : chain[k].st = "unused"
    BY DEF Init, PipelineInit, Unused
  <2>2. \A r \in Request : ~Delivered(r)
    BY DEF Init, PipelineInit, Delivered
  <2> QED
    BY <2>1, <2>2 DEF Ideal!IdealInit
<1>2. IInv /\ [Next]_vars => [Ideal!IdealNext]_Ideal!idealVars
  <2> SUFFICES ASSUME IInv, [Next]_vars PROVE [Ideal!IdealNext]_Ideal!idealVars
    OBVIOUS
  <2>i. TypeOK /\ FlowOK /\ MoneyOK /\ MandatesOK /\ PipelineTypeOK /\ chain \in [Key -> Transfer]
    BY DEF IInv, TypeOK, PipelineTypeOK
  <2>k. \A q \in Request : KeyOf(q) \in Key /\ KeyOf(q) = order[q].key /\ MandateOf(q) = order[q].mandate
    BY <2>i, OrderFields DEF KeyOf, MandateOf
  <2>q. ASSUME NEW q \in Request, charged[KeyOf(q)] = q
        PROVE  Committed(q)
    BY <2>q, <2>k, RequestConstants DEF Committed, Lapsed
  <2>u. (UNCHANGED <<order, charged, served>>) => [Ideal!IdealNext]_Ideal!idealVars
    BY DEF Ideal!idealVars
  <2>1. CASE UNCHANGED <<flowVars, worldVars>>
    <3>1. UNCHANGED <<order, charged, served>>
      BY <2>1 DEF flowVars, worldVars, Delivered
    <3> QED
      BY <2>u, <3>1
  <2>2. ASSUME NEW k \in Key, Land(k) PROVE Ideal!IdealNext
    <3>1. /\ chain[k].st = "open" /\ k \notin expired
          /\ chain' = [chain EXCEPT ![k].st = "landed"]
          /\ UNCHANGED <<order, pc, outcome>>
      BY <2>2 DEF Land, flowVars
    <3>2. PICK r \in Request : r = chain[k].by
      BY <2>i, <3>1 DEF Transfer, MoneyOK, TransfersHaveOwners
    <3>3. KeyOf(r) = k /\ Committed(r)
      BY <2>i, <3>1, <3>2 DEF MoneyOK, SubmissionsHaveOwners, Committed, Lapsed
    <3>4. charged[order[r].key] = NoRequest
      BY <2>k, <3>1, <3>3
    <3>5. ASSUME NEW q \in Request \ {r}, charged[order[q].key] = q, Ideal!SameCheckout(q, r)
          PROVE  FALSE
      <4>1. Committed(q)
        BY <2>k, <2>q, <3>5
      <4>2. /\ Authorized(q) /\ Authorized(r)
            /\ BindingOf[MandateOf(q)] = BindingOf[MandateOf(r)]
        BY <3>5 DEF Ideal!SameCheckout, Authorized, MandateOf
      <4>3. /\ holds[MandateOf(q)].req = q /\ LiveHold(MandateOf(q))
            /\ holds[MandateOf(r)].req = r /\ LiveHold(MandateOf(r))
        BY <2>i, <3>3, <4>1, <4>2 DEF MandatesOK, CommittedKeepHolds
      <4>4. MandateOf(q) \in Mandate /\ MandateOf(r) \in Mandate
        BY <2>i, <4>2, OrderFields DEF Authorized
      <4> QED
        BY <2>i, <4>2, <4>3, <4>4 DEF MandatesOK, OneLiveHoldPerBinding
    <3>6. charged' = [charged EXCEPT ![order[r].key] = r]
      BY <2>i, <2>k, <3>1, <3>2, <3>3 DEF Transfer
    <3>7. served' = served
      BY <3>1 DEF Delivered
    <3> QED
      BY <3>1, <3>4, <3>5, <3>6, <3>7 DEF Ideal!IdealNext, Ideal!Charge
  <2>3. ASSUME NEW r \in Request, Complete(r), outcome[r] = "delivered" PROVE Ideal!IdealNext
    <3>1. /\ pc[r] = "completing" /\ pc' = [pc EXCEPT ![r] = "done"]
          /\ UNCHANGED <<order, outcome, chain>>
      BY <2>3 DEF Complete, Goto, worldVars
    <3>2. Landed(r)
      BY <2>i, <2>3 DEF FlowOK, MoneyOK, SettledVerdictsLanded
    <3>3. charged[order[r].key] = r
      BY <2>k, <3>2 DEF Landed
    <3>4. r \notin served /\ served' = served \cup {r}
      BY <2>i, <2>3, <3>1 DEF Delivered, PipelineTypeOK
    <3>5. charged' = charged
      BY <3>1
    <3> QED
      BY <3>1, <3>3, <3>4, <3>5 DEF Ideal!IdealNext, Ideal!Serve
  <2>4. CASE /\ PipelineNext
             /\ ~\E k \in Key : Land(k)
             /\ ~\E r \in Request : Complete(r) /\ outcome[r] = "delivered"
    <3>1. order' = order
      BY <2>i, <2>4, FlowMoves
    <3>2. charged' = charged
      <4>1. \A k \in Key :
              /\ chain'[k].st = "landed" <=> chain[k].st = "landed"
              /\ chain[k].st = "landed" => chain'[k] = chain[k]
        BY <2>i, <2>4, ChargedMoves
      <4> QED
        BY <4>1
    <3>3. served' = served
      BY <2>i, <2>4, ServedMoves
    <3> QED
      BY <2>u, <3>1, <3>2, <3>3
  <2>5. Next => PipelineNext \/ UNCHANGED <<flowVars, worldVars>>
    BY DEF Next, ResolverStep, Collect, Ask, ManualVerdict, Resolve, Reread, PendingHold, Align,
           AlignJournal, ListOrphan, ReleaseOrphan, ResolverCrash, pipelineVars
  <2> QED
    BY <2>1, <2>2, <2>3, <2>4, <2>5 DEF vars, pipelineVars
<1> QED
  BY <1>1, <1>2, Invariance, PTL DEF Spec, RefinesIdeal, Ideal!IdealSpec

-----------------------------------------------------------------------------
(* The stores inside the system.                                           *)

\* The pipeline and the resolvers use the attempt tables as AttemptStore allows:
\* each request reserves under an id that was never used, and a resolver expects
\* an open status.  All that holds for arbitrary callers holds for these.
THEOREM UsesAttemptStore == Spec => AttemptSpec
<1>1. Init => AttemptInit
  BY DEF Init, PipelineInit
<1>2. IInv /\ [Next]_vars => [AttemptNext]_<<attempts, history>>
  <2> SUFFICES ASSUME IInv, Next, ~UNCHANGED <<attempts, history>> PROVE AttemptNext
    BY DEF vars, pipelineVars, storeVars
  <2>t. TypeOK /\ PipelineTypeOK
    BY DEF IInv, TypeOK
  <2>1. ASSUME NEW r \in Request, Reserve(r) PROVE AttemptNext
    <3>1. r \notin AttemptIds
      BY <2>1 DEF Reserve, Goto, IInv, RowsOK, RowsHaveOwners, Unreserved
    <3>2. /\ KeyOf(r) \in Key /\ order[r].rail \in Rail /\ ReusesRejected(r) \in BOOLEAN
      BY <2>t, OrderFields
    <3> QED
      BY <2>1, <3>1, <3>2 DEF Reserve, AttemptNext, AttemptStep
  <2>2. ASSUME NEW r \in Request, Update(r) PROVE AttemptNext
    <3>1. KeyOf(r) \in Key /\ StatusFor(verdict[r]) \in UpdateStatus
      BY <2>t, OrderFields, VerdictMaps DEF PipelineTypeOK
    <3> QED
      BY <2>2, <3>1 DEF Update, AttemptNext, AttemptStep
  <2>3. ASSUME NEW x \in Resolver, Resolve(x) PROVE AttemptNext
    <3>1. /\ resolver[x].id \in Request /\ resolver[x].expected \in OpenStatus
          /\ resolver[x].status \in ResolvedStatus /\ resolver[x].method \in Method
      BY <2>t, <2>3, TaskFields DEF Resolve, Idle
    <3>2. KeyOf(resolver[x].id) \in Key
      BY <2>t, <3>1, OrderFields
    <3> QED
      BY <2>3, <3>1, <3>2 DEF Resolve, AttemptNext, AttemptStep
  <2>4. ASSUME NEW x \in Resolver, ResolverStep(x) PROVE Resolve(x)
    BY <2>4 DEF ResolverStep, Collect, Ask, ManualVerdict, Reread, PendingHold, Align,
                AlignJournal, ListOrphan, ReleaseOrphan, ResolverCrash, pipelineVars, storeVars
  <2> QED
    BY <2>1, <2>2, <2>3, <2>4, Writers DEF Next
<1> QED
  BY <1>1, <1>2, Invariance, PTL DEF Spec, AttemptSpec

\* And the hold table as HoldStore allows.
THEOREM UsesHoldStore == Spec => HoldSpec
<1>1. Init => HoldInit
  BY DEF Init, PipelineInit
<1>2. IInv /\ [Next]_vars => [HoldNext]_holds
  <2> SUFFICES ASSUME IInv, Next, ~UNCHANGED holds PROVE HoldNext
    BY DEF vars, pipelineVars, storeVars
  <2>t. TypeOK /\ PipelineTypeOK /\ HoldTypeOK
    BY DEF IInv, TypeOK, PipelineTypeOK
  <2>a. ASSUME NEW r \in Request, NEW m \in Mandate \cup {NoMandate}, NEW to \in HoldTarget,
               TransitionHold(m, to, r)
        PROVE  HoldNext
    <3>1. m \in Mandate
      BY <2>a, <2>t, PipelineConstants DEF TransitionHold, HoldTypeOK
    <3> QED
      BY <2>a, <3>1 DEF HoldNext
  <2>m. \A r \in Request : MandateOf(r) \in Mandate \cup {NoMandate}
    BY <2>t, OrderFields
  <2>h. "released" \in HoldTarget
    BY DEF HoldTarget
  <2>1. ASSUME NEW r \in Request, Authorize(r) PROVE HoldNext
    BY <2>1, <2>m DEF Authorize, Authorized, HoldNext
  <2>2. ASSUME NEW r \in Request, ReleaseUnused(r) PROVE HoldNext
    BY <2>2, <2>a, <2>m, <2>h DEF ReleaseUnused
  <2>3. ASSUME NEW r \in Request, FinalizeHold(r) PROVE HoldNext
    <3>1. HoldFor(verdict[r]) \in HoldTarget
      BY <2>t, VerdictMaps DEF PipelineTypeOK
    <3> QED
      BY <2>3, <2>a, <2>m, <3>1 DEF FinalizeHold
  <2>4. ASSUME NEW x \in Resolver, Align(x) PROVE HoldNext
    <3>1. resolver[x].id \in Request /\ resolver[x].target \in HoldTarget
      BY <2>t, <2>4, TaskFields DEF Align, Idle
    <3> QED
      BY <2>4, <2>a, <2>m, <3>1 DEF Align
  <2>5. ASSUME NEW x \in Resolver, ReleaseOrphan(x) PROVE HoldNext
    <3>1. resolver[x].id \in Request /\ resolver[x].mandate \in Mandate
      BY <2>t, <2>5, TaskFields DEF ReleaseOrphan, Idle
    <3> QED
      BY <2>5, <2>a, <2>h, <3>1 DEF ReleaseOrphan
  <2>6. ASSUME NEW x \in Resolver, ResolverStep(x) PROVE Align(x) \/ ReleaseOrphan(x)
    BY <2>6 DEF ResolverStep, Collect, Ask, ManualVerdict, Resolve, Reread, PendingHold,
                AlignJournal, ListOrphan, ResolverCrash, pipelineVars, storeVars
  <2> QED
    BY <2>1, <2>2, <2>3, <2>4, <2>5, <2>6, Writers DEF Next
<1> QED
  BY <1>1, <1>2, Invariance, PTL DEF Spec, HoldSpec

\* So in the whole system, too, no late update and no competing resolver changes
\* a resolution.
COROLLARY SystemResolutionsAreFinal == Spec => ResolutionIsFinal
<1> QED
  BY UsesAttemptStore, ResolutionsAreFinal, PTL

-----------------------------------------------------------------------------
(* The life of an attempt.                                                 *)

\* The attempts table as a ledger of statuses, one for each authorization.
Ledger == INSTANCE IdealLedger WITH status <- [k \in Key |-> attempts[k].status]

\* A settled row is never written again: no late update by the replay key, no
\* reclaim and no resolver changes its status, its attempt id or its resolution
\* (updateAttempt, reserve, resolveAttempt).
SettledRowStays ==
    [][\A k \in Key : attempts[k].status = "settled" => attempts'[k] = attempts[k]]_vars

\* While a request has its verdict to write, its row says `settled` only by a
\* resolution, which bars the write.
OwnRowsAreOpen ==
    \A r \in Request :
        (Owning(r) /\ attempts[KeyOf(r)].id = r /\ attempts[KeyOf(r)].status = "settled") =>
            attempts[KeyOf(r)].resolution # "none"

\* What each step does to the table: nothing, a reservation, the update of the
\* request that has its verdict, or a resolution of an open row.
LEMMA LedgerWriters ==
    ASSUME IInv, Next
    PROVE  \/ UNCHANGED <<attempts, history>>
           \/ \E r \in Request : Reserve(r) /\ UNCHANGED resolver
           \/ \E r \in Request : /\ Update(r) /\ UNCHANGED resolver
                                 /\ UpdateAttempt(KeyOf(r), StatusFor(verdict[r]))
           \/ /\ UNCHANGED <<flowVars, worldVars>>
              /\ \E k \in Key, to \in ResolvedStatus, method \in Method :
                   /\ attempts[k].status \in OpenStatus
                   /\ attempts' = [attempts EXCEPT ![k].status = to, ![k].resolution = method]
<1>t. TypeOK /\ PipelineTypeOK
  BY DEF IInv, TypeOK
<1>1. CASE PipelineNext /\ UNCHANGED resolver
  <2>1. \A r \in Request : Update(r) => \/ UpdateAttempt(KeyOf(r), StatusFor(verdict[r]))
                                        \/ UNCHANGED <<attempts, history>>
    BY DEF Update
  <2> QED
    BY <1>1, <2>1, Writers
<1>2. ASSUME NEW x \in Resolver, Resolve(x), ~UNCHANGED <<attempts, history>>
      PROVE  /\ UNCHANGED <<flowVars, worldVars>>
             /\ \E k \in Key, to \in ResolvedStatus, method \in Method :
                  /\ attempts[k].status \in OpenStatus
                  /\ attempts' = [attempts EXCEPT ![k].status = to, ![k].resolution = method]
  <2>1. /\ resolver[x].id \in Request /\ resolver[x].expected \in OpenStatus
        /\ resolver[x].status \in ResolvedStatus /\ resolver[x].method \in Method
    BY <1>t, <1>2, TaskFields DEF Resolve, Idle
  <2>2. KeyOf(resolver[x].id) \in Key
    BY <1>t, <2>1, OrderFields
  <2>3. ResolveAttempt(KeyOf(resolver[x].id), resolver[x].id, resolver[x].expected,
                       resolver[x].status, resolver[x].method)
    BY <1>2 DEF Resolve
  <2>4. UNCHANGED <<flowVars, worldVars>>
    BY <1>2 DEF Resolve
  <2> QED
    BY <2>1, <2>2, <2>3, <2>4 DEF ResolveAttempt, Resolvable
<1>3. ASSUME NEW x \in Resolver, ResolverStep(x) PROVE Resolve(x) \/ UNCHANGED <<attempts, history>>
  BY <1>3 DEF ResolverStep, Collect, Ask, ManualVerdict, Reread, PendingHold, Align,
              AlignJournal, ListOrphan, ReleaseOrphan, ResolverCrash, pipelineVars, storeVars
<1> QED
  BY <1>1, <1>2, <1>3 DEF Next

\* The update of a request finds its own row, unless its authorization lapsed;
\* a row that says `settled` and takes an update would be its own.
LEMMA UpdatesSpareSettled ==
    ASSUME IInv, OwnRowsAreOpen, NEW r \in Request, pc[r] = "updating", Updatable(KeyOf(r))
    PROVE  /\ attempts[KeyOf(r)].status # "settled"
           /\ verdict[r] = "settled" =>
                attempts[KeyOf(r)].id = r /\ attempts[KeyOf(r)].status = "reserved"
<1>k. KeyOf(r) \in Key
  BY OrderFields DEF IInv, TypeOK
<1>1. Owning(r)
  BY DEF Owning
<1>2. \/ Lapsed(KeyOf(r))
      \/ /\ attempts[KeyOf(r)].id = r
         /\ attempts[KeyOf(r)].status \in {"reserved", "settled"}
  BY <1>1 DEF IInv, RowsOK, OwnersHaveRows
<1>3. attempts[KeyOf(r)].status # "settled"
  <2> SUFFICES ASSUME attempts[KeyOf(r)].status = "settled" PROVE FALSE
    OBVIOUS
  <2>0. SettledRows
    BY DEF IInv, RowsOK
  <2>1. chain[KeyOf(r)] = [st |-> "landed", by |-> attempts[KeyOf(r)].id]
    BY <1>k, <2>0 DEF SettledRows
  <2>2. chain[KeyOf(r)].st = "landed"
    BY <2>1
  <2> QED
    BY <1>1, <1>2, <2>2 DEF OwnRowsAreOpen, Updatable, Lapsed
<1>4. ASSUME verdict[r] = "settled" PROVE chain[KeyOf(r)].st = "landed"
  <2>1. Landed(r)
    BY <1>4 DEF IInv, MoneyOK, SettledVerdictsLanded
  <2> QED
    BY <2>1 DEF Landed
<1> QED
  BY <1>2, <1>3, <1>4 DEF Lapsed

\* A request's own row stays open to it: only its own update or a resolution
\* makes it settled.
LEMMA OwnRowsStep ==
    ASSUME IInv, OwnRowsAreOpen, Next
    PROVE  OwnRowsAreOpen'
<1>t. AttemptTypeOK /\ PipelineTypeOK /\ TypeOK /\ FlowOK
  BY DEF IInv, TypeOK, PipelineTypeOK
<1>k. \A q \in Request : KeyOf(q) \in Key
  BY <1>t, OrderFields
<1>m. \/ UNCHANGED flowVars
      \/ PipelineNext
  BY DEF Next, ResolverStep, Collect, Ask, ManualVerdict, Resolve, Reread, PendingHold, Align,
         AlignJournal, ListOrphan, ReleaseOrphan, ResolverCrash, pipelineVars
<1>f. \A q \in Request :
        /\ KeyOf(q)' = KeyOf(q)
        /\ Owning(q)' => Owning(q) \/ Reserve(q)
  <2>1. CASE UNCHANGED flowVars
    BY <2>1 DEF flowVars, KeyOf, Owning
  <2>2. CASE PipelineNext
    BY <2>2, <1>t, FlowMoves DEF KeyOf
  <2> QED
    BY <1>m, <2>1, <2>2
<1>r. \A q \in Request : Reserve(q) => attempts'[KeyOf(q)].status = "reserved"
  BY <1>t, <1>k DEF Reserve, ReserveAttempt, AttemptTypeOK
<1> SUFFICES ASSUME NEW q \in Request, Owning(q)', attempts'[KeyOf(q)].id = q,
                    attempts'[KeyOf(q)].status = "settled"
             PROVE  attempts'[KeyOf(q)].resolution # "none"
  BY <1>f DEF OwnRowsAreOpen
<1>o. Owning(q)
  BY <1>f, <1>r
<1>1. CASE attempts'[KeyOf(q)] = attempts[KeyOf(q)]
  BY <1>1, <1>o DEF OwnRowsAreOpen
<1>2. ASSUME NEW r \in Request, Reserve(r) PROVE attempts'[KeyOf(q)] = attempts[KeyOf(q)]
  BY <1>2, <1>t, <1>k, <1>r DEF Reserve, ReserveAttempt, AttemptTypeOK
<1>3. ASSUME NEW r \in Request, Update(r), UpdateAttempt(KeyOf(r), StatusFor(verdict[r]))
      PROVE  attempts'[KeyOf(q)] = attempts[KeyOf(q)]
  <2>1. pc[r] = "updating" /\ Updatable(KeyOf(r)) /\ ~Owning(r)'
    <3>1. /\ pc[r] = "updating" /\ Updatable(KeyOf(r))
          /\ pc'[r] \in {"completing", "saving", "dispatching"}
      BY <1>3, <1>t DEF Update, UpdateAttempt, PipelineTypeOK
    <3> QED
      BY <3>1 DEF Owning
  <2>2. CASE KeyOf(q) = KeyOf(r)
    <3>1. /\ attempts'[KeyOf(r)].status = StatusFor(verdict[r])
          /\ attempts'[KeyOf(r)].id = attempts[KeyOf(r)].id
      BY <1>3, <1>t, <1>k DEF UpdateAttempt, AttemptTypeOK, Row
    <3>2. verdict[r] = "settled"
      BY <2>2, <3>1 DEF StatusFor
    <3>3. attempts[KeyOf(r)].id = r
      BY <2>1, <3>2, UpdatesSpareSettled
    <3> QED
      BY <2>1, <2>2, <3>1, <3>3
  <2>3. CASE KeyOf(q) # KeyOf(r)
    BY <1>3, <1>t, <1>k, <2>3 DEF UpdateAttempt, AttemptTypeOK
  <2> QED
    BY <2>2, <2>3
<1>4. ASSUME NEW k \in Key, NEW to \in ResolvedStatus, NEW method \in Method,
             attempts' = [attempts EXCEPT ![k].status = to, ![k].resolution = method]
      PROVE  \/ attempts'[KeyOf(q)] = attempts[KeyOf(q)]
             \/ attempts'[KeyOf(q)].resolution # "none"
  BY <1>4, <1>t, <1>k DEF AttemptTypeOK, Row, Method
<1> QED
  BY <1>1, <1>2, <1>3, <1>4, LedgerWriters

\* It holds throughout.
LEMMA OwnRowsInvariance == Spec => []OwnRowsAreOpen
<1>1. Init => OwnRowsAreOpen
  BY DEF Init, PipelineInit, OwnRowsAreOpen, Owning
<1>2. IInv /\ OwnRowsAreOpen /\ [Next]_vars => OwnRowsAreOpen'
  <2>1. ASSUME UNCHANGED vars, OwnRowsAreOpen PROVE OwnRowsAreOpen'
    BY <2>1 DEF vars, pipelineVars, storeVars, flowVars, OwnRowsAreOpen, Owning, KeyOf
  <2> QED
    BY <2>1, OwnRowsStep
<1> QED
  BY <1>1, <1>2, Invariance, PTL DEF Spec

\* Each step leaves the table alone or moves the status of one row as the ideal
\* ledger allows, and never that of a settled one.
LEMMA LedgerStep ==
    ASSUME IInv, OwnRowsAreOpen, Next
    PROVE  /\ \A k \in Key : attempts[k].status = "settled" => attempts'[k] = attempts[k]
           /\ [Ledger!LedgerNext]_([k \in Key |-> attempts[k].status])
<1> DEFINE status == [k \in Key |-> attempts[k].status]
           Spared == \A k \in Key : attempts[k].status = "settled" => attempts'[k] = attempts[k]
<1>t. AttemptTypeOK /\ PipelineTypeOK
  BY DEF IInv, TypeOK, PipelineTypeOK
<1>k. \A q \in Request : KeyOf(q) \in Key
  BY <1>t, OrderFields
<1>m. ASSUME NEW k \in Key, NEW to, attempts'[k].status = to,
             \A j \in Key \ {k} : attempts'[j] = attempts[j],
             \/ to = "reserved" /\ attempts[k].status \in {"absent", "rejected"}
             \/ to = "settlement-uncertain" /\ attempts[k].status \in {"reserved", "rejected"}
             \/ /\ to \in {"settled", "rejected"}
                /\ attempts[k].status \in {"reserved", "settlement-uncertain"}
      PROVE  Spared /\ Ledger!LedgerNext
  <2>1. status' = [status EXCEPT ![k] = to]
    BY <1>m
  <2>2. status[k] = attempts[k].status
    OBVIOUS
  <2>3. Ledger!LedgerNext
    BY <1>m, <2>1, <2>2
       DEF Ledger!LedgerNext, Ledger!Claim, Ledger!Doubt, Ledger!Settle, Ledger!Reject, Ledger!Move
  <2> QED
    BY <1>m, <2>3
<1>u. ASSUME \A j \in Key : attempts'[j].status = attempts[j].status PROVE status' = status
  BY <1>u
<1>1. CASE UNCHANGED <<attempts, history>>
  BY <1>1, <1>u
<1>2. ASSUME NEW r \in Request, Reserve(r) PROVE Spared /\ Ledger!LedgerNext
  <2>1. ReserveAttempt(r, KeyOf(r), order[r].rail, ReusesRejected(r))
    BY <1>2 DEF Reserve
  <2>2. /\ attempts'[KeyOf(r)].status = "reserved"
        /\ \A j \in Key \ {KeyOf(r)} : attempts'[j] = attempts[j]
    BY <1>t, <1>k, <2>1 DEF ReserveAttempt, AttemptTypeOK
  <2>3. attempts[KeyOf(r)].status \in {"absent", "rejected"}
    BY <1>k, <2>1, ReserveArchivesRejected
  <2> QED
    BY <1>k, <1>m, <2>2, <2>3
<1>3. ASSUME NEW r \in Request, Update(r), UpdateAttempt(KeyOf(r), StatusFor(verdict[r]))
      PROVE  Spared /\ (Ledger!LedgerNext \/ status' = status)
  <2>1. pc[r] = "updating" /\ Updatable(KeyOf(r))
    BY <1>3 DEF Update, UpdateAttempt
  <2>2. /\ attempts[KeyOf(r)].status # "settled"
        /\ verdict[r] = "settled" =>
             attempts[KeyOf(r)].id = r /\ attempts[KeyOf(r)].status = "reserved"
    BY <2>1, UpdatesSpareSettled
  <2>3. attempts[KeyOf(r)].status \in {"reserved", "rejected", "settlement-uncertain"}
    BY <1>t, <1>k, <2>1, <2>2 DEF Updatable, AttemptTypeOK, Row, AttemptStatus
  <2>4. PICK to : to = StatusFor(verdict[r])
    OBVIOUS
  <2>5. /\ attempts'[KeyOf(r)].status = to
        /\ \A j \in Key \ {KeyOf(r)} : attempts'[j] = attempts[j]
    BY <1>3, <1>t, <1>k, <2>4 DEF UpdateAttempt, AttemptTypeOK, Row
  <2>6. /\ to \in {"settled", "rejected", "settlement-uncertain"}
        /\ to = "settled" => attempts[KeyOf(r)].status = "reserved"
    BY <2>2, <2>4 DEF StatusFor
  <2>7. CASE to = attempts[KeyOf(r)].status
    BY <1>u, <2>2, <2>5, <2>7
  <2>8. CASE to # attempts[KeyOf(r)].status
    BY <1>k, <1>m, <2>3, <2>5, <2>6, <2>8
  <2> QED
    BY <2>7, <2>8
<1>4. ASSUME NEW k \in Key, NEW to \in ResolvedStatus, NEW method \in Method,
             attempts[k].status \in OpenStatus,
             attempts' = [attempts EXCEPT ![k].status = to, ![k].resolution = method]
      PROVE  Spared /\ Ledger!LedgerNext
  <2>1. attempts'[k].status = to /\ \A j \in Key \ {k} : attempts'[j] = attempts[j]
    BY <1>4, <1>t DEF AttemptTypeOK, Row
  <2> QED
    BY <1>4, <1>m, <2>1 DEF OpenStatus, ResolvedStatus
<1> QED
  BY <1>1, <1>2, <1>3, <1>4, LedgerWriters

\* The pipeline and its resolvers, with their crashes, late updates and reclaims,
\* keep the attempts table as the ideal ledger says: an authorization goes from
\* reserved through a verdict to settled, which is final, or to rejected, which
\* only a new claim or a late doubt reopens, and no row disappears.
THEOREM ImplementsLedger == Spec => Ledger!LedgerSpec
<1>1. Init => Ledger!LedgerInit
  BY DEF Init, PipelineInit, AttemptInit, NoRow, Ledger!LedgerInit
<1>2. IInv /\ OwnRowsAreOpen /\ [Next]_vars
        => [Ledger!LedgerNext]_([k \in Key |-> attempts[k].status])
  BY LedgerStep DEF vars, pipelineVars, storeVars
<1> QED
  BY <1>1, <1>2, Invariance, OwnRowsInvariance, PTL DEF Spec, Ledger!LedgerSpec

\* In particular a settled row is never written again, by anybody.
THEOREM SettledIsFinal == Spec => SettledRowStays
<1>1. IInv /\ OwnRowsAreOpen /\ [Next]_vars
        => [\A k \in Key : attempts[k].status = "settled" => attempts'[k] = attempts[k]]_vars
  BY LedgerStep
<1> QED
  BY <1>1, Invariance, OwnRowsInvariance, PTL DEF Spec, SettledRowStays

-----------------------------------------------------------------------------
(* What an operator can find.                                              *)

\* What docs/security.md says, with the one case left out that it misses: a paid
\* purchase that was not delivered is among the undelivered receipts or the
\* unresolved transactions, unless its response was withheld because settlement
\* gave no verdict (settleAfterBackend) and was found settled later.
UnseenOnlyWhenWithheld ==
    \A r \in Request :
        (StatusOf(r) = "settled" /\ pc[r] \in {"done", "dead"} /\ ~Delivered(r)) =>
            \/ receipts[r] = "undelivered"
            \/ StateOf(r, FALSE) \notin ResolvedStates
            \/ order[r].deferred /\ verdict[r] = "uncertain"

\* The backend answered 2xx and the journal has it.
Answered(r) == journal[r].backend = "ok"

\* What follows a 2xx: a deferred settlement, or a receipt for a delivery.
AfterAnswer(r) ==
    /\ pc[r] \in {"settling", "submitted", "finalizing", "journaling", "updating", "saving",
                  "completing", "done", "dead"}
    /\ pc[r] \in {"settling", "submitted", "finalizing", "journaling", "updating"} =>
         order[r].deferred
    /\ pc[r] = "saving" => outcome[r] # "paid-undelivered"
    /\ pc[r] \in {"completing", "done"} =>
         \/ outcome[r] = "delivered"
         \/ order[r].deferred /\ verdict[r] \notin {"none", "settled"}

DeliveryOK ==
    \A r \in Request :
        /\ journal[r].completed => pc[r] = "done"
        /\ outcome[r] = "paid-undelivered" => pc[r] \in {"saving", "completing", "done", "dead"}
        /\ Answered(r) => AfterAnswer(r)

\* What a step of a request does to the delivery marks of its journal row.
LEMMA MarksMove ==
    ASSUME TypeOK, NEW r \in Request, RequestStep(r)
    PROVE  /\ \A q \in Request \ {r} : journal'[q] = journal[q]
           /\ journal'[r].completed # journal[r].completed => Complete(r)
           /\ Answered(r)' => Answered(r) \/ BackendOk(r)
<1>t. journal \in [Request -> JournalRow] /\ journal[r] \in JournalRow
  BY DEF TypeOK, PipelineTypeOK
<1>1. CASE UNCHANGED journal
  BY <1>1 DEF Answered
<1>2. ASSUME NEW h, journal' = [journal EXCEPT ![r].hold = h]
      PROVE  /\ \A q \in Request \ {r} : journal'[q] = journal[q]
             /\ journal'[r].completed = journal[r].completed
             /\ journal'[r].backend = journal[r].backend
  BY <1>2, <1>t, Zenon DEF JournalRow
<1>3. ASSUME NEW b, journal' = [journal EXCEPT ![r].backend = b]
      PROVE  /\ \A q \in Request \ {r} : journal'[q] = journal[q]
             /\ journal'[r].completed = journal[r].completed
             /\ journal'[r].backend = b
  BY <1>3, <1>t, Zenon DEF JournalRow
<1>4. ASSUME journal' = [journal EXCEPT ![r].completed = TRUE]
      PROVE  /\ \A q \in Request \ {r} : journal'[q] = journal[q]
             /\ journal'[r].backend = journal[r].backend
  BY <1>4, <1>t, Zenon DEF JournalRow
<1>5. CASE Reserve(r) \/ JournalHold(r)
  BY <1>1, <1>2, <1>5 DEF Reserve, JournalHold, Answered
<1>6. CASE Dispatch(r)
  BY <1>1, <1>3, <1>6 DEF Dispatch, Answered
<1>7. CASE BackendOk(r)
  BY <1>1, <1>3, <1>7 DEF BackendOk, RecordResult
<1>8. CASE BackendFailed(r)
  <2>1. PICK fact \in {"error", "zero"} : RecordResult(r, fact)
    BY <1>8 DEF BackendFailed
  <2> QED
    BY <1>1, <1>3, <2>1 DEF RecordResult, Answered
<1>9. CASE Complete(r)
  BY <1>1, <1>4, <1>9 DEF Complete, Answered
<1>10. CASE \/ Refuse(r) \/ Verify(r) \/ VerifyRefused(r) \/ Authorize(r) \/ AuthorizeRefused(r)
            \/ ReserveRefused(r) \/ ReleaseUnused(r) \/ Settle(r) \/ AnswerSettled(r)
            \/ AnswerRefused(r) \/ AnswerLost(r) \/ FinalizeHold(r) \/ Update(r) \/ SaveReceipt(r)
  BY <1>1, <1>10 DEF Refuse, Verify, VerifyRefused, Authorize, AuthorizeRefused, ReserveRefused,
     ReleaseUnused, Settle, AnswerSettled, AnswerRefused, AnswerLost, Verdicted, FinalizeHold,
     Update, SaveReceipt, storeVars
<1> QED
  BY <1>5, <1>6, <1>7, <1>8, <1>9, <1>10 DEF RequestStep

\* Where a request's step leaves it: its flow moves on as the actions say.
LEMMA DeliveryMoves ==
    ASSUME TypeOK, FlowOK, DeliveryOK, NEW r \in Request, RequestStep(r)
    PROVE  /\ pc'[r] # "done" => ~journal'[r].completed
           /\ outcome'[r] = "paid-undelivered" => pc'[r] \in {"saving", "completing", "done"}
           /\ Answered(r)' => AfterAnswer(r)'
<1>t. /\ pc \in [Request -> PC] /\ verdict \in [Request -> Verdict]
      /\ outcome \in [Request -> Outcome]
  BY DEF TypeOK, PipelineTypeOK
<1>o. order' = order
  BY FlowMoves DEF PipelineNext
<1>d. /\ journal[r].completed => pc[r] = "done"
      /\ outcome[r] = "paid-undelivered" => pc[r] \in {"saving", "completing", "done", "dead"}
      /\ Answered(r) => AfterAnswer(r)
  BY DEF DeliveryOK
<1>j. /\ journal'[r].completed # journal[r].completed => Complete(r)
      /\ Answered(r)' => Answered(r) \/ BackendOk(r)
  BY MarksMove
<1>s. pc[r] \notin {"done", "dead"}
  BY <1>t DEF RequestStep, Refuse, Verify, VerifyRefused, Authorize, AuthorizeRefused, Reserve,
     ReserveRefused, ReleaseUnused, Settle, AnswerSettled, AnswerRefused, AnswerLost, Verdicted,
     FinalizeHold, JournalHold, Update, Dispatch, BackendOk, BackendFailed, SaveReceipt, Complete,
     Goto
<1>c. ~journal[r].completed /\ (~Complete(r) => ~journal'[r].completed)
  BY <1>d, <1>j, <1>s
<1>e. Complete(r) => pc'[r] = "done"
  BY <1>t DEF Complete, Goto
<1> SUFFICES /\ outcome'[r] = "paid-undelivered" => pc'[r] \in {"saving", "completing", "done"}
             /\ Answered(r)' => AfterAnswer(r)'
  BY <1>c, <1>e
<1>1. CASE \/ Refuse(r) \/ Verify(r) \/ VerifyRefused(r) \/ Authorize(r) \/ AuthorizeRefused(r)
           \/ Reserve(r) \/ ReserveRefused(r) \/ ReleaseUnused(r)
  <2>1. pc[r] \in {"start", "verified", "held", "releasing"} /\ ~BackendOk(r)
    BY <1>1, <1>t DEF Refuse, Verify, VerifyRefused, Authorize, AuthorizeRefused, Reserve,
       ReserveRefused, ReleaseUnused, BackendOk, Goto
  <2>2. ~Answered(r)'
    BY <1>d, <1>j, <2>1 DEF AfterAnswer
  <2>3. outcome'[r] # "paid-undelivered"
    BY <1>1, <1>t, <1>d, <2>1 DEF Refuse, Verify, VerifyRefused, Authorize, AuthorizeRefused,
       Reserve, ReserveRefused, ReleaseUnused, Answer, ReplayAnswer
  <2> QED
    BY <2>2, <2>3
<1>2. CASE Settle(r)
  <2>1. /\ pc[r] \in {"admitted", "settling"} /\ pc'[r] = "submitted"
        /\ outcome' = outcome /\ ~BackendOk(r)
    BY <1>2, <1>t DEF Settle, BackendOk, Goto
  <2> QED
    BY <1>d, <1>j, <1>o, <2>1 DEF AfterAnswer
<1>3. CASE AnswerSettled(r) \/ AnswerRefused(r) \/ AnswerLost(r)
  <2>1. /\ pc[r] = "submitted" /\ pc'[r] = "finalizing"
        /\ outcome' = outcome /\ ~BackendOk(r)
    BY <1>3, <1>t DEF AnswerSettled, AnswerRefused, AnswerLost, Verdicted, BackendOk, Goto
  <2> QED
    BY <1>d, <1>j, <1>o, <2>1 DEF AfterAnswer
<1>4. CASE FinalizeHold(r) \/ JournalHold(r)
  <2>1. /\ pc[r] \in {"finalizing", "journaling"} /\ pc'[r] \in {"journaling", "updating"}
        /\ outcome' = outcome /\ ~BackendOk(r)
    BY <1>4, <1>t DEF FinalizeHold, JournalHold, BackendOk, Goto
  <2> QED
    BY <1>d, <1>j, <1>o, <2>1 DEF AfterAnswer
<1>5. CASE Update(r)
  <2>1. /\ pc[r] = "updating" /\ ~BackendOk(r) /\ verdict' = verdict
        /\ outcome'[r] = OutcomeFor(verdict[r])
        /\ \/ verdict[r] # "settled" /\ pc'[r] = "completing"
           \/ order[r].deferred /\ pc'[r] = "saving"
           \/ ~order[r].deferred /\ pc'[r] = "dispatching"
    BY <1>5, <1>t DEF Update, BackendOk, Goto, Answer
  <2>0. verdict[r] # "none"
    BY <2>1 DEF FlowOK
  <2>2. OutcomeFor(verdict[r]) # "paid-undelivered"
    BY DEF OutcomeFor
  <2> QED
    BY <1>d, <1>j, <1>o, <2>0, <2>1, <2>2 DEF AfterAnswer
<1>6. CASE Dispatch(r)
  <2>1. pc[r] \in {"admitted", "dispatching"} /\ outcome' = outcome /\ ~BackendOk(r)
    BY <1>6, <1>t DEF Dispatch, BackendOk, Goto
  <2> QED
    BY <1>d, <1>j, <2>1 DEF AfterAnswer
<1>7. CASE BackendOk(r)
  <2>1. /\ pc[r] = "calling" /\ outcome' = outcome
        /\ \/ order[r].deferred /\ pc'[r] = "settling"
           \/ pc'[r] = "saving"
    BY <1>7, <1>t DEF BackendOk, Goto
  <2> QED
    BY <1>d, <1>o, <2>1 DEF AfterAnswer
<1>8. CASE BackendFailed(r)
  <2>1. /\ pc[r] = "calling" /\ (Answered(r)' => Answered(r))
        /\ \/ outcome'[r] = "none"
           \/ pc'[r] = "saving"
    <3>1. \/ order[r].deferred /\ outcome'[r] = "none"
          \/ ~order[r].deferred /\ pc'[r] = "saving"
      BY <1>8, <1>t DEF BackendFailed, Goto, Answer
    <3>2. PICK fact \in {"error", "zero"} : RecordResult(r, fact)
      BY <1>8 DEF BackendFailed
    <3>3. journal[r] \in JournalRow /\ journal \in [Request -> JournalRow]
      BY DEF TypeOK, PipelineTypeOK
    <3>4. Answered(r)' => Answered(r)
      BY <3>2, <3>3 DEF RecordResult, Answered, JournalRow
    <3> QED
      BY <1>8, <3>1, <3>4 DEF BackendFailed, Goto
  <2> QED
    BY <1>d, <2>1 DEF AfterAnswer
<1>9. CASE SaveReceipt(r)
  <2>1. /\ pc[r] = "saving" /\ pc'[r] = "completing" /\ ~BackendOk(r)
        /\ outcome'[r] = (IF outcome[r] = "paid-undelivered" THEN "paid-undelivered" ELSE "delivered")
    BY <1>9, <1>t DEF SaveReceipt, BackendOk, Goto, Answer
  <2> QED
    BY <1>d, <1>j, <2>1 DEF AfterAnswer
<1>10. CASE Complete(r)
  <2>1. /\ pc[r] = "completing" /\ pc'[r] = "done" /\ ~BackendOk(r)
        /\ UNCHANGED <<outcome, verdict>>
    BY <1>10, <1>t DEF Complete, BackendOk, Goto
  <2> QED
    BY <1>d, <1>j, <1>o, <2>1 DEF AfterAnswer
<1> QED
  BY <1>1, <1>2, <1>3, <1>4, <1>5, <1>6, <1>7, <1>8, <1>9, <1>10 DEF RequestStep

\* A step that leaves a request's flow and delivery marks alone.
LEMMA DeliveryFrame ==
    ASSUME DeliveryOK, NEW q \in Request, order' = order, verdict'[q] = verdict[q],
           outcome'[q] = outcome[q], pc'[q] = pc[q],
           journal'[q].completed = journal[q].completed, journal'[q].backend = journal[q].backend
    PROVE  /\ journal'[q].completed => pc'[q] = "done"
           /\ outcome'[q] = "paid-undelivered" => pc'[q] \in {"saving", "completing", "done", "dead"}
           /\ Answered(q)' => AfterAnswer(q)'
BY DEF DeliveryOK, Answered, AfterAnswer

\* What is known of deliveries stays right.
LEMMA DeliveryStep ==
    ASSUME IInv, DeliveryOK, Next
    PROVE  DeliveryOK'
<1>t. TypeOK /\ FlowOK
  BY DEF IInv
<1>p. /\ pc \in [Request -> PC] /\ verdict \in [Request -> Verdict]
      /\ outcome \in [Request -> Outcome] /\ journal \in [Request -> JournalRow]
  BY <1>t DEF TypeOK, PipelineTypeOK
<1> SUFFICES ASSUME NEW q \in Request
             PROVE  /\ journal'[q].completed => pc'[q] = "done"
                    /\ outcome'[q] = "paid-undelivered" =>
                         pc'[q] \in {"saving", "completing", "done", "dead"}
                    /\ Answered(q)' => AfterAnswer(q)'
  BY DEF DeliveryOK
<1>1. ASSUME NEW r \in Request, RequestStep(r)
      PROVE  /\ journal'[q].completed => pc'[q] = "done"
             /\ outcome'[q] = "paid-undelivered" =>
                  pc'[q] \in {"saving", "completing", "done", "dead"}
             /\ Answered(q)' => AfterAnswer(q)'
  <2>1. CASE q = r
    BY <1>1, <1>t, <2>1, DeliveryMoves
  <2>2. CASE q # r
    <3>1. journal'[q] = journal[q]
      BY <1>1, <1>t, <2>2, MarksMove
    <3>2. pc'[q] = pc[q] /\ verdict'[q] = verdict[q] /\ outcome'[q] = outcome[q]
      BY <1>1, <1>p, <2>2
         DEF RequestStep, Refuse, Verify, VerifyRefused, Authorize, AuthorizeRefused, Reserve,
             ReserveRefused, ReleaseUnused, Settle, AnswerSettled, AnswerRefused, AnswerLost,
             Verdicted, FinalizeHold, JournalHold, Update, Dispatch, BackendOk, BackendFailed,
             SaveReceipt, Complete, Answer, Goto
    <3>3. order' = order
      BY <1>1, <1>t, FlowMoves DEF PipelineNext
    <3> QED
      BY <3>1, <3>2, <3>3, DeliveryFrame
  <2> QED
    BY <2>1, <2>2
<1>2. ASSUME Crash
      PROVE  /\ journal'[q].completed => pc'[q] = "done"
             /\ outcome'[q] = "paid-undelivered" =>
                  pc'[q] \in {"saving", "completing", "done", "dead"}
             /\ Answered(q)' => AfterAnswer(q)'
  <2>1. /\ UNCHANGED <<journal, order, verdict, outcome>>
        /\ pc'[q] = pc[q] \/ (pc[q] \in Active /\ pc'[q] = "dead")
    BY <1>2 DEF Crash, storeVars
  <2>2. CASE pc'[q] = pc[q]
    BY <2>1, <2>2, DeliveryFrame
  <2>3. CASE pc[q] \in Active /\ pc'[q] = "dead"
    BY <2>1, <2>3 DEF DeliveryOK, Answered, AfterAnswer, Active
  <2> QED
    BY <2>1, <2>2, <2>3
<1>3. CASE UNCHANGED <<flowVars, journal>>
  BY <1>3, DeliveryFrame DEF flowVars
<1>4. ASSUME NEW k \in Key, Land(k) \/ Expire(k) PROVE UNCHANGED <<flowVars, journal>>
  BY <1>4 DEF Land, Expire, storeVars
<1>5. ASSUME NEW x \in Resolver, AlignJournal(x)
      PROVE  /\ UNCHANGED flowVars
             /\ journal'[q].completed = journal[q].completed /\ journal'[q].backend = journal[q].backend
  <2>1. UNCHANGED flowVars
    BY <1>5 DEF AlignJournal
  <2>2. CASE UNCHANGED journal
    BY <2>1, <2>2
  <2>3. ASSUME NEW i, NEW h, journal' = [journal EXCEPT ![i].hold = h]
        PROVE  journal'[q].completed = journal[q].completed /\ journal'[q].backend = journal[q].backend
    BY <1>p, <2>3, Zenon DEF JournalRow
  <2> QED
    BY <1>5, <2>1, <2>2, <2>3 DEF AlignJournal
<1>6. ASSUME NEW x \in Resolver, ResolverStep(x) PROVE AlignJournal(x) \/ UNCHANGED <<flowVars, journal>>
  BY <1>6 DEF ResolverStep, Collect, Ask, ManualVerdict, Resolve, Reread, PendingHold, Align,
              ListOrphan, ReleaseOrphan, ResolverCrash, pipelineVars, storeVars
<1>7. ASSUME NEW x \in Resolver, AlignJournal(x)
      PROVE  /\ journal'[q].completed => pc'[q] = "done"
             /\ outcome'[q] = "paid-undelivered" =>
                  pc'[q] \in {"saving", "completing", "done", "dead"}
             /\ Answered(q)' => AfterAnswer(q)'
  BY <1>5, <1>7, DeliveryFrame DEF flowVars
<1> QED
  BY <1>1, <1>2, <1>3, <1>4, <1>6, <1>7 DEF Next, PipelineNext

\* The operator's two lists find every paid purchase that was not delivered,
\* whatever crashed or failed to be written, but for a response withheld under
\* deferred settlement whose lost verdict turned out to be a transfer: the
\* disagreement with docs/security.md is confined to that case.
THEOREM UndeliveredIsFound == Spec => []UnseenOnlyWhenWithheld
<1>1. Init => DeliveryOK
  <2> SUFFICES ASSUME Init, NEW r \in Request
               PROVE  ~journal[r].completed /\ journal[r].backend = "none" /\ outcome[r] = "none"
    BY DEF DeliveryOK, Answered
  <2> QED
    BY DEF Init, PipelineInit, NoJournal
<1>2. IInv /\ DeliveryOK /\ [Next]_vars => DeliveryOK'
  <2>1. ASSUME UNCHANGED vars, DeliveryOK PROVE DeliveryOK'
    BY <2>1 DEF vars, pipelineVars, storeVars, flowVars, DeliveryOK, Answered, AfterAnswer
  <2> QED
    BY <2>1, DeliveryStep
<1>3. IInv /\ DeliveryOK => UnseenOnlyWhenWithheld
  <2> SUFFICES ASSUME IInv, DeliveryOK, NEW r \in Request, StatusOf(r) = "settled",
                      pc[r] \in {"done", "dead"}, ~Delivered(r),
                      StateOf(r, FALSE) \in ResolvedStates
               PROVE  order[r].deferred /\ verdict[r] = "uncertain"
    BY DEF UnseenOnlyWhenWithheld
  <2>1. Answered(r) /\ journal[r].completed
    BY DEF StateOf, TransactionStateOf, ResolvedStates, Answered
  <2>2. pc[r] = "done" /\ AfterAnswer(r)
    BY <2>1 DEF DeliveryOK
  <2>3. order[r].deferred /\ verdict[r] \notin {"none", "settled"}
    BY <2>2 DEF AfterAnswer, Delivered
  <2>4. Landed(r) /\ KeyOf(r) \in Key
    BY SettledMeansLanded, OrderFields DEF IInv, TypeOK
  <2>5. chain[KeyOf(r)].by = r
    BY <2>4 DEF Landed
  <2>6. verdict[r] \in {"none", "settled", "uncertain"}
    BY <2>4, <2>5 DEF IInv, MoneyOK, SubmissionsHaveOwners
  <2> QED
    BY <2>3, <2>6
<1> QED
  BY <1>1, <1>2, <1>3, Invariance, PTL DEF Spec

=============================================================================
