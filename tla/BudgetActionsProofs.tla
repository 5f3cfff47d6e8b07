------------------------- MODULE BudgetActionsProofs -------------------------
(***************************************************************************)
(* Proofs about BudgetActions, for any number of workers, ad sets, actions *)
(* and faults.  IInv is inductive; the guarantees of the queue and of the  *)
(* executor are conjuncts of it or follow from it.                         *)
(***************************************************************************)
EXTENDS BudgetActions, TLAPS

-----------------------------------------------------------------------------
(* Types.                                                                   *)

\* The steps that leave the queue alone are typed by their worker variables.
WorkerTypeOK ==
    /\ pc \in [Worker -> Step]
    /\ act \in [Worker -> Action \cup {0}]
    /\ at \in [Worker -> AdSet]
    /\ wrote \in [Worker -> AdSet \cup {0}]
    /\ why \in [Worker -> {"none", "changed", "transient", "failed", "shutdown"}]

QueueTypeOK ==
    /\ status \in [Action -> ActionStatus]
    /\ kind \in [Action -> Kind]
    /\ holder \in [Action -> Worker \cup {NoWorker}]
    /\ live \subseteq Action
    /\ events \in [Action -> Nat]
    /\ blocked \subseteq Action

MetaTypeOK ==
    /\ budget \in [AdSet -> {"old", "new", "other"}]
    /\ writer \in [AdSet -> Action \cup {0}]

BoundTypeOK ==
    /\ edits \in 0 .. MaxEdits
    /\ faults \in 0 .. MaxFaults
    /\ lateCalls \in 0 .. MaxLateCalls

\* The type invariant of the next state, by the part of the state it is about.
LEMMA TypeParts == TypeOK' <=> WorkerTypeOK' /\ QueueTypeOK' /\ MetaTypeOK' /\ BoundTypeOK'
  BY DEF TypeOK, WorkerTypeOK, QueueTypeOK, MetaTypeOK, BoundTypeOK

\* A worker that stands anywhere but at the start has a claimed action.
LEMMA Acting ==
    ASSUME IInv, NEW w \in Worker, pc[w] # "idle"
    PROVE  act[w] \in Action
  BY DEF IInv, TypeOK, WorkersAgree, Agrees

\* Exceptions send a worker to the rollback or to the handler.
LEMMA RaiseTypes ==
    ASSUME TypeOK, NEW w \in Worker,
           NEW reason \in {"changed", "transient", "failed", "shutdown"}, Raise(w, reason)
    PROVE  WorkerTypeOK'
  <1>1. 1 \in AdSet
    BY BoundsAssumption DEF AdSet
  <1>2. wrote[w] > 0 => FirstUndo(w) \in AdSet
    BY <1>1 DEF FirstUndo, TypeOK, AdSet
  <1>3. QED
    BY <1>1, <1>2 DEF Raise, TypeOK, WorkerTypeOK, Step

\* Going on to the next ad set keeps the position within the allocation.
LEMMA AdvanceTypes ==
    ASSUME TypeOK, NEW w \in Worker, NEW step \in Step, Advance(w, step)
    PROVE  WorkerTypeOK'
  <1>1. 1 \in AdSet /\ Last(w) <= AdSets
    BY BoundsAssumption DEF AdSet, Last
  <1>2. at[w] \in AdSet
    BY DEF TypeOK
  <1>3. at[w] < Last(w) => at[w] + 1 \in AdSet
    BY <1>1, <1>2, BoundsAssumption DEF AdSet, Last
  <1>4. QED
    BY <1>1, <1>3 DEF Advance, TypeOK, WorkerTypeOK, Step

\* So does going on with the rollback.
LEMMA NextUndoTypes ==
    ASSUME TypeOK, NEW w \in Worker, NextUndo(w)
    PROVE  WorkerTypeOK'
  <1>1. wrote[w] \in Nat /\ wrote[w] <= AdSets /\ at[w] \in Nat
    BY BoundsAssumption DEF TypeOK, AdSet
  <1>2. \A k \in 1 .. wrote[w] : k \in AdSet
    BY <1>1, BoundsAssumption DEF AdSet
  <1>3. QED
    BY <1>2 DEF NextUndo, TypeOK, WorkerTypeOK, Step

\* Ending or moving on keeps the types.
LEMMA DoneTypes ==
    ASSUME TypeOK, NEW w \in Worker, Done(w)
    PROVE  WorkerTypeOK'
  <1>1. 1 \in AdSet
    BY BoundsAssumption DEF AdSet
  <1>2. QED
    BY <1>1 DEF Done, TypeOK, WorkerTypeOK, Step

\* Moving to another step keeps the types of a worker's memory.
LEMMA GotoTypes ==
    ASSUME TypeOK, NEW w \in Worker, NEW step \in Step, Goto(w, step)
    PROVE  WorkerTypeOK'
  BY DEF Goto, TypeOK, WorkerTypeOK, Step

\* Recording an outcome keeps the types of the queue and of the worker.
LEMMA SettleTypes ==
    ASSUME TypeOK, NEW w \in Worker, NEW outcome \in ActionStatus, Settle(w, outcome)
    PROVE  WorkerTypeOK' /\ QueueTypeOK' /\ MetaTypeOK'
  <1>1. WorkerTypeOK'
    BY DoneTypes DEF Settle
  <1>2. MetaTypeOK'
    BY DEF Settle, metaVars, TypeOK, MetaTypeOK
  <1>3. Fenced(w) => act[w] \in Action
    BY DEF Fenced, Holds, TypeOK
  <1>4. QueueTypeOK'
    BY <1>3 DEF Settle, TypeOK, QueueTypeOK
  <1>5. QED
    BY <1>1, <1>2, <1>4

\* What a call leaves in Meta has the types of a budget and its writer.
LEMMA PutTypes ==
    ASSUME TypeOK, NEW w \in Worker, NEW amount \in {"old", "new", "other"}, Put(w, amount)
    PROVE  MetaTypeOK'
  BY DEF Put, TypeOK, MetaTypeOK

\* Counting a fault stays within the bound.
LEMMA FaultTypes ==
    ASSUME TypeOK, Fault
    PROVE  BoundTypeOK'
  BY BoundsAssumption DEF Fault, TypeOK, BoundTypeOK

\* The counters that a step leaves alone.
LEMMA BoundsKept ==
    ASSUME TypeOK, UNCHANGED bounds
    PROVE  BoundTypeOK'
  BY DEF bounds, TypeOK, BoundTypeOK

\* The sagas' steps, the ones that leave the queue alone.
LEMMA WorkTypes ==
    ASSUME TypeOK, NEW w \in Worker,
           \/ Load(w) \/ Policy(w) \/ Check(w) \/ Read(w) \/ Renew(w) \/ Send(w)
           \/ Verify(w) \/ Undo(w) \/ UndoRenew(w) \/ UndoSend(w)
    PROVE  TypeOK'
  <1> USE DEF queueVars, metaVars
  <1>1. UNCHANGED queueVars => QueueTypeOK'
    BY DEF TypeOK, QueueTypeOK
  <1>2. UNCHANGED metaVars => MetaTypeOK'
    BY DEF TypeOK, MetaTypeOK
  <1>3. ASSUME Send(w)
        PROVE  TypeOK'
    <2>1. 1 \in AdSet /\ Last(w) <= AdSets
      BY BoundsAssumption DEF AdSet, Last
    <2>2. at[w] < Last(w) => at[w] + 1 \in AdSet
      BY <2>1, BoundsAssumption DEF AdSet, Last, TypeOK
    <2>3. WorkerTypeOK'
      BY <1>3, <2>1, <2>2 DEF Send, TypeOK, WorkerTypeOK, Step
    <2>4. QED
      BY <1>1, <1>3, <2>3, PutTypes, BoundsKept, TypeParts DEF Send
  <1>4. ASSUME UndoSend(w)
        PROVE  TypeOK'
    BY <1>1, <1>4, NextUndoTypes, PutTypes, BoundsKept, TypeParts DEF UndoSend
  <1>5. ASSUME Load(w) \/ Policy(w)
        PROVE  TypeOK'
    BY <1>1, <1>2, <1>5, GotoTypes, BoundsKept, TypeParts DEF Load, Policy, Step
  <1>6. ASSUME Check(w) \/ Verify(w)
        PROVE  TypeOK'
    BY <1>1, <1>2, <1>6, AdvanceTypes, RaiseTypes, BoundsKept, TypeParts DEF Check, Verify, Step
  <1>7. ASSUME Read(w)
        PROVE  TypeOK'
    <2>1. CASE Fenced(w) /\ budget[at[w]] = "old"
      <3>1. WorkerTypeOK'
        BY <1>7, <2>1 DEF Read, TypeOK, WorkerTypeOK, Step
      <3>2. QED
        BY <1>1, <1>2, <1>7, <3>1, BoundsKept, TypeParts DEF Read
    <2>2. CASE ~(Fenced(w) /\ budget[at[w]] = "old")
      BY <1>1, <1>2, <1>7, <2>2, RaiseTypes, BoundsKept, TypeParts DEF Read
    <2>3. QED
      BY <2>1, <2>2
  <1>8. ASSUME Renew(w)
        PROVE  TypeOK'
    BY <1>1, <1>2, <1>8, GotoTypes, RaiseTypes, BoundsKept, TypeParts DEF Renew, Step
  <1>9. ASSUME Undo(w) \/ UndoRenew(w)
        PROVE  TypeOK'
    BY <1>1, <1>2, <1>9, GotoTypes, NextUndoTypes, BoundsKept, TypeParts DEF Undo, UndoRenew, Step
  <1>10. QED
    BY <1>3, <1>4, <1>5, <1>6, <1>7, <1>8, <1>9

\* The faults of a worker.
LEMMA WorkFaultTypes ==
    ASSUME TypeOK, NEW w \in Worker, WorkFault(w)
    PROVE  TypeOK'
  <1> USE DEF queueVars, metaVars
  <1>1. UNCHANGED queueVars => QueueTypeOK'
    BY DEF TypeOK, QueueTypeOK
  <1>2. UNCHANGED metaVars => MetaTypeOK'
    BY DEF TypeOK, MetaTypeOK
  <1>3. CASE Crash(w)
    BY <1>1, <1>2, <1>3, DoneTypes, FaultTypes, TypeParts DEF Crash
  <1>4. CASE CrashInCall(w)
    BY <1>1, <1>4, DoneTypes, PutTypes, FaultTypes, TypeParts DEF CrashInCall
  <1>5. CASE LoadTransient(w)
    BY <1>5, SettleTypes, FaultTypes, TypeParts DEF LoadTransient, ActionStatus, ActiveStatus
  <1>6. CASE Shutdown(w)
    BY <1>1, <1>2, <1>6, RaiseTypes, FaultTypes, TypeParts DEF Shutdown
  <1>7. CASE FinishFails(w)
    <2>1. WorkerTypeOK'
      BY <1>7 DEF FinishFails, TypeOK, WorkerTypeOK, Step
    <2>2. QED
      BY <1>1, <1>2, <1>7, <2>1, FaultTypes, TypeParts DEF FinishFails
  <1>8. CASE UndoFails(w)
    BY <1>1, <1>2, <1>8, NextUndoTypes, FaultTypes, TypeParts DEF UndoFails
  <1>9. CASE \E reason \in {"failed", "shutdown"} : SendFails(w, reason)
    BY <1>1, <1>2, <1>9, PutTypes, RaiseTypes, FaultTypes, TypeParts DEF SendFails
  <1>10. CASE \E reason \in {"failed", "transient"} : ReadFails(w, reason)
    BY <1>1, <1>2, <1>10, RaiseTypes, FaultTypes, TypeParts DEF ReadFails
  <1>11. QED
    BY <1>3, <1>4, <1>5, <1>6, <1>7, <1>8, <1>9, <1>10 DEF WorkFault

\* The steps that change the queue, the founder's edits and the lease clock.
LEMMA QueueTypes ==
    ASSUME TypeOK, NEW w \in Worker,
           \/ Claim(w) \/ Begin(w) \/ Refuse(w) \/ Finish(w) \/ Handle(w)
    PROVE  TypeOK'
  <1> USE DEF queueVars, metaVars
  <1>1. UNCHANGED metaVars => MetaTypeOK'
    BY DEF TypeOK, MetaTypeOK
  <1>2. ASSUME Claim(w)
        PROVE  TypeOK'
    <2>1. PICK i \in Claimable :
            /\ status' = [j \in Action |->
                            CASE j = i -> "leased"
                              [] j \in Crashed \ {i} -> "reconciliation_required"
                              [] OTHER -> status[j]]
            /\ holder' = [j \in Action |->
                            CASE j = i -> w
                              [] j \in Crashed \ {i} -> NoWorker
                              [] OTHER -> holder[j]]
            /\ live' = live \cup {i}
            /\ act' = [act EXCEPT ![w] = i]
      BY <1>2 DEF Claim
    <2>2. i \in Action /\ Crashed \subseteq Action
      BY DEF Claimable, Crashed
    <2>3. WorkerTypeOK'
      BY <1>2, <2>1, <2>2 DEF Claim, TypeOK, WorkerTypeOK, Step
    <2>4. status' \in [Action -> ActionStatus]
      BY <2>1 DEF TypeOK, ActionStatus, ActiveStatus
    <2>5. holder' \in [Action -> Worker \cup {NoWorker}]
      BY <2>1 DEF TypeOK
    <2>6. QueueTypeOK'
      BY <1>2, <2>1, <2>2, <2>4, <2>5 DEF Claim, TypeOK, QueueTypeOK
    <2>7. QED
      BY <1>1, <1>2, <2>3, <2>6, BoundsKept, TypeParts DEF Claim
  <1>3. ASSUME Begin(w)
        PROVE  TypeOK'
    <2>1. WorkerTypeOK'
      BY <1>3, GotoTypes, DoneTypes DEF Begin, Step
    <2>2. QueueTypeOK'
      BY <1>3 DEF Begin, TypeOK, QueueTypeOK, ActionStatus, ActiveStatus
    <2>3. QED
      BY <1>1, <1>3, <2>1, <2>2, BoundsKept, TypeParts DEF Begin
  <1>4. ASSUME Refuse(w) \/ Finish(w)
        PROVE  TypeOK'
    BY <1>4, SettleTypes, BoundsKept, TypeParts DEF Refuse, Finish, ActionStatus, ActiveStatus
  <1>5. ASSUME Handle(w)
        PROVE  TypeOK'
    <2>1. CASE why[w] = "shutdown"
      <3>1. QueueTypeOK'
        BY <1>5, <2>1 DEF Handle, TypeOK, QueueTypeOK
      <3>2. QED
        BY <1>1, <1>5, <2>1, <3>1, DoneTypes, BoundsKept, TypeParts DEF Handle
    <2>2. CASE why[w] # "shutdown"
      <3>1. Outcome(why[w]) \in ActionStatus
        BY DEF Outcome, ActionStatus, ActiveStatus
      <3>2. QED
        BY <1>5, <2>2, <3>1, SettleTypes, BoundsKept, TypeParts DEF Handle
    <2>3. QED
      BY <2>1, <2>2
  <1>6. QED
    BY <1>2, <1>3, <1>4, <1>5

\* The steps of the environment.
LEMMA OutsideTypes ==
    ASSUME TypeOK,
           \/ \E kd \in Kind : Enqueue(kd)
           \/ \E a \in AdSet, amount \in {"old", "new", "other"} : FounderEdits(a, amount)
           \/ \E i \in Action : OrphanLeaseExpires(i) \/ LeaseOverrun(i) \/ LateCall(i)
    PROVE  TypeOK'
  <1> USE DEF queueVars, metaVars, workerVars
  <1>1. UNCHANGED workerVars => WorkerTypeOK'
    BY DEF TypeOK, WorkerTypeOK
  <1>2. UNCHANGED metaVars => MetaTypeOK'
    BY DEF TypeOK, MetaTypeOK
  <1>3. ASSUME NEW kd \in Kind, Enqueue(kd)
        PROVE  TypeOK'
    <2>1. QueueTypeOK'
      BY <1>3 DEF Enqueue, TypeOK, QueueTypeOK, ActionStatus, ActiveStatus
    <2>2. QED
      BY <1>1, <1>2, <1>3, <2>1, BoundsKept, TypeParts DEF Enqueue
  <1>4. ASSUME NEW a \in AdSet, NEW amount \in {"old", "new", "other"}, FounderEdits(a, amount)
        PROVE  TypeOK'
    <2>1. MetaTypeOK' /\ QueueTypeOK'
      BY <1>4 DEF FounderEdits, TypeOK, MetaTypeOK, QueueTypeOK
    <2>2. BoundTypeOK'
      BY <1>4, BoundsAssumption DEF FounderEdits, TypeOK, BoundTypeOK
    <2>3. QED
      BY <1>1, <1>4, <2>1, <2>2, TypeParts DEF FounderEdits
  <1>5. ASSUME NEW i \in Action, OrphanLeaseExpires(i) \/ LeaseOverrun(i) \/ LateCall(i)
        PROVE  TypeOK'
    <2>1. Expire(i)
      BY <1>5 DEF OrphanLeaseExpires, LeaseOverrun, LateCall
    <2>2. QueueTypeOK'
      BY <2>1 DEF Expire, TypeOK, QueueTypeOK
    <2>3. BoundTypeOK'
      <3>1. CASE OrphanLeaseExpires(i)
        BY <3>1, BoundsKept DEF OrphanLeaseExpires
      <3>2. CASE LeaseOverrun(i)
        BY <3>2, FaultTypes DEF LeaseOverrun
      <3>3. CASE LateCall(i)
        BY <3>3, BoundsAssumption DEF LateCall, TypeOK, BoundTypeOK
      <3>4. QED
        BY <1>5, <3>1, <3>2, <3>3
    <2>4. QED
      BY <1>1, <1>2, <2>1, <2>2, <2>3, TypeParts DEF Expire
  <1>6. QED
    BY <1>3, <1>4, <1>5

\* Every step keeps the types.
LEMMA NextTypes ==
    ASSUME TypeOK, [Next]_vars
    PROVE  TypeOK'
  <1>1. CASE UNCHANGED vars
    BY <1>1 DEF vars, queueVars, metaVars, workerVars, bounds, TypeOK
  <1>2. CASE \E w \in Worker : Work(w)
    BY <1>2, WorkTypes, QueueTypes DEF Work
  <1>3. CASE \E w \in Worker : WorkFault(w)
    BY <1>3, WorkFaultTypes
  <1>4. QED
    BY <1>1, <1>2, <1>3, OutsideTypes DEF Next

-----------------------------------------------------------------------------
(* The steps of a worker, by what they do to the rest of the system.        *)

Others(w) ==
    \A v \in Worker \ {w} :
        /\ pc'[v] = pc[v]
        /\ act'[v] = act[v]
        /\ at'[v] = at[v]
        /\ wrote'[v] = wrote[v]
        /\ why'[v] = why[v]

\* A step within the execution of an action, or out of it, that changes neither
\* the queue nor Meta.
QuietStep(w) ==
    /\ UNCHANGED <<queueVars, metaVars, lateCalls>>
    /\ Others(w)
    /\ Agrees(w)'
    /\ InCall(w)' => Fenced(w)
    /\ \/ pc'[w] = "idle"
       \/ /\ Running(w) /\ Running(w)'
          /\ act'[w] = act[w]
          /\ wrote'[w] = 0 => wrote[w] = 0
          /\ Sent(w)' \subseteq Sent(w)

\* The end of a call to Meta that took a budget.
PutStep(w, amount) ==
    /\ UNCHANGED <<queueVars, lateCalls>>
    /\ Others(w)
    /\ Agrees(w)'
    /\ InCall(w) /\ ~InCall(w)'
    /\ Put(w, amount)
    /\ amount = "new" \/ Sent(w)' = {}
    /\ \/ pc'[w] = "idle"
       \/ /\ Running(w)'
          /\ act'[w] = act[w]
          /\ wrote'[w] = wrote[w]
          /\ Sent(w)' \subseteq Sent(w) \cup {at[w]}

\* Two workers that run the same action: it was blocked in between.
LEMMA OneRunner ==
    ASSUME IInv, NEW v \in Worker, NEW w \in Worker, Running(v), Running(w),
           act[v] = act[w], act[w] \notin blocked
    PROVE  v = w
  BY DEF IInv, HeldUntilBlocked

\* What keeps the queue and Meta keeps the invariant.
LEMMA QuietKeeps ==
    ASSUME IInv, TypeOK', NEW w \in Worker, QuietStep(w)
    PROVE  IInv'
  <1> USE DEF QuietStep, queueVars, metaVars, Others
  <1>1. WorkersAgree'
    BY DEF IInv, WorkersAgree, Agrees
  <1>2. \A v \in Worker : act'[v] = act[v] \/ act'[v] = 0
    BY DEF WorkersAgree, Agrees
  <1>3. AbsentIsFresh'
    BY <1>2 DEF IInv, AbsentIsFresh, Action
  <1>4. BlockedIsRemembered' /\ OneOpenAction' /\ LedgerIsExact' /\ RetriedIsClean'
    BY DEF IInv, BlockedIsRemembered, OneOpenAction, Active, LedgerIsExact, RetriedIsClean
  <1>5. HeldUntilBlocked'
    BY DEF IInv, HeldUntilBlocked, Running
  <1>6. CallsAreFenced'
    BY DEF IInv, CallsAreFenced, InCall, Fenced, Holds
  <1>7. CleanUntilWritten'
    BY DEF IInv, CleanUntilWritten, Running
  <1>8. SentIsLive'
    <2>1. \A v \in Worker \ {w} : Sent(v)' = Sent(v) /\ (Running(v)' <=> Running(v))
      BY DEF Sent, Target, Running
    <2>2. \A v \in Worker : Running(v)' =>
            /\ Sent(v)' \subseteq Sent(v)
            /\ Running(v)
            /\ act'[v] = act[v]
      BY <2>1 DEF Running
    <2>3. QED
      BY <2>2 DEF IInv, SentIsLive
  <1>9. SucceededIsLive'
    BY DEF IInv, SucceededIsLive, Target
  <1>10. QED
    BY <1>1, <1>3, <1>4, <1>5, <1>6, <1>7, <1>8, <1>9 DEF IInv

\* What a call leaves in Meta keeps the invariant: the action is executing, and
\* no other worker runs it unless it was blocked.
LEMMA PutKeeps ==
    ASSUME IInv, TypeOK', NEW w \in Worker, NEW amount \in {"new", "old"}, PutStep(w, amount)
    PROVE  IInv'
  <1> USE DEF PutStep, queueVars, Others
  <1>1. /\ act[w] \in Action /\ at[w] \in AdSet
        /\ Running(w) /\ wrote[w] > 0
    BY Acting DEF InCall, Running, IInv, TypeOK, WorkersAgree, Agrees
  <1>2. /\ \A a \in AdSet \ {at[w]} : budget'[a] = budget[a] /\ writer'[a] = writer[a]
        /\ budget'[at[w]] = amount /\ writer'[at[w]] = act[w]
    BY <1>1 DEF Put, IInv, TypeOK
  <1>3. lateCalls = 0 => Fenced(w)
    BY DEF IInv, CallsAreFenced
  <1>4. WorkersAgree'
    BY DEF IInv, WorkersAgree, Agrees
  <1>5. \A v \in Worker : act'[v] = act[v] \/ act'[v] = 0
    BY DEF WorkersAgree, Agrees
  <1>6. AbsentIsFresh'
    BY <1>1, <1>2, <1>5 DEF IInv, AbsentIsFresh, Action
  <1>7. BlockedIsRemembered' /\ OneOpenAction' /\ LedgerIsExact'
    BY DEF IInv, BlockedIsRemembered, OneOpenAction, Active, LedgerIsExact
  <1>8. HeldUntilBlocked'
    BY <1>1 DEF IInv, HeldUntilBlocked, Running
  <1>9. CallsAreFenced'
    BY DEF IInv, CallsAreFenced, InCall, Fenced, Holds
  <1>10. CleanUntilWritten'
    <2>1. ASSUME NEW v \in Worker, Running(v)', wrote'[v] = 0, act'[v] \notin blocked
          PROVE  \A a \in AdSet : writer'[a] # act'[v]
      <3>1. v # w /\ Running(v) /\ act'[v] = act[v] /\ wrote[v] = 0
        BY <1>1, <2>1 DEF Running
      <3>2. act[v] # act[w]
        BY <1>1, <2>1, <3>1, OneRunner
      <3>3. QED
        BY <1>2, <2>1, <3>1, <3>2 DEF IInv, CleanUntilWritten
    <2>2. QED
      BY <2>1 DEF CleanUntilWritten
  <1>11. RetriedIsClean'
    <2>1. act[w] \notin blocked => status[act[w]] = "executing"
      BY <1>1 DEF IInv, HeldUntilBlocked
    <2>2. QED
      BY <1>1, <1>2, <2>1 DEF IInv, RetriedIsClean
  <1>12. SentIsLive'
    <2>1. ASSUME NEW v \in Worker, lateCalls' = 0, Running(v)', holder'[act'[v]] = v,
                 NEW a \in Sent(v)'
          PROVE  budget'[a] = "new" \/ writer'[a] # act'[v]
      <3>1. CASE v = w
        <4>1. a \in Sent(w) \cup {at[w]} /\ act'[w] = act[w] /\ amount = "new"
          BY <2>1, <3>1 DEF Running
        <4>2. CASE a = at[w]
          BY <1>2, <4>1, <4>2
        <4>3. CASE a # at[w]
          <5>1. a \in Sent(w) /\ a \in AdSet
            BY <1>1, <4>1, <4>3, BoundsAssumption DEF Sent, InCall, AdSet, Target
          <5>2. budget[a] = "new" \/ writer[a] # act[w]
            BY <1>1, <2>1, <3>1, <4>1, <5>1 DEF IInv, SentIsLive
          <5>3. QED
            BY <1>2, <3>1, <4>1, <4>3, <5>1, <5>2
        <4>4. QED
          BY <4>2, <4>3
      <3>2. CASE v # w
        <4>1. Running(v) /\ act'[v] = act[v] /\ a \in Sent(v)
          BY <2>1, <3>2 DEF Running, Sent, Target
        <4>2. act[v] # act[w]
          BY <1>3, <2>1, <3>2, <4>1 DEF Fenced, Holds
        <4>3. a \in AdSet
          BY <4>1, BoundsAssumption DEF Sent, AdSet, Target, IInv, TypeOK
        <4>4. budget[a] = "new" \/ writer[a] # act[v]
          BY <2>1, <4>1 DEF IInv, SentIsLive
        <4>5. QED
          BY <1>2, <4>1, <4>2, <4>3, <4>4
      <3>3. QED
        BY <3>1, <3>2
    <2>2. QED
      BY <2>1 DEF SentIsLive
  <1>13. SucceededIsLive'
    <2>1. lateCalls = 0 => status[act[w]] = "executing"
      BY <1>3 DEF Fenced
    <2>2. \A i \in Action : Target(i)' = Target(i) /\ Target(i) \subseteq AdSet
      BY BoundsAssumption DEF Target, AdSet
    <2>3. QED
      BY <1>2, <2>1, <2>2 DEF IInv, SucceededIsLive
  <1>14. QED
    BY <1>4, <1>6, <1>7, <1>8, <1>9, <1>10, <1>11, <1>12, <1>13 DEF IInv

\* The outcome of an execution, recorded by the worker that holds the action.
SettleStep(w, outcome) ==
    /\ Fenced(w) /\ Running(w)
    /\ Settle(w, outcome)
    /\ lateCalls' = lateCalls
    /\ outcome = "pending" => wrote[w] = 0
    /\ outcome = "succeeded" => pc[w] = "finish"

\* Recording an outcome keeps the invariant.  Success needs every ad set sent,
\* and a release needs that nothing was written.
LEMMA SettleKeeps ==
    ASSUME IInv, TypeOK', NEW w \in Worker,
           NEW outcome \in {"pending", "cancelled", "succeeded", "reconciliation_required"},
           SettleStep(w, outcome)
    PROVE  IInv'
  <1> USE DEF SettleStep
  <1>1. /\ act[w] \in Action /\ act[w] \in live
        /\ status[act[w]] = "executing" /\ holder[act[w]] = w
    BY DEF Fenced, Holds, IInv, TypeOK
  <1>2. /\ status' = [status EXCEPT ![act[w]] = outcome]
        /\ holder' = [holder EXCEPT ![act[w]] = NoWorker]
        /\ live' = live \ {act[w]}
        /\ events' = IF outcome = "succeeded" /\ kind[act[w]] # "pause"
                     THEN [events EXCEPT ![act[w]] = @ + 1] ELSE events
        /\ blocked' = IF outcome = "reconciliation_required"
                      THEN blocked \cup {act[w]} ELSE blocked
        /\ UNCHANGED <<kind, budget, writer>>
    BY DEF Settle, metaVars
  <1>3. /\ pc'[w] = "idle" /\ act'[w] = 0 /\ at'[w] = 1 /\ wrote'[w] = 0 /\ why'[w] = "none"
        /\ Others(w)
    BY DEF Settle, Done, Others, IInv, TypeOK
  <1>4. \A i \in Action \ {act[w]} : status'[i] = status[i] /\ holder'[i] = holder[i]
    BY <1>2 DEF IInv, TypeOK
  <1>5. status'[act[w]] = outcome /\ holder'[act[w]] = NoWorker
    BY <1>1, <1>2 DEF IInv, TypeOK
  <1>6. WorkersAgree'
    BY <1>3 DEF IInv, WorkersAgree, Agrees, Others
  <1>7. AbsentIsFresh'
    BY <1>1, <1>2, <1>3, <1>4, <1>5 DEF IInv, AbsentIsFresh, Others, Action
  <1>8. BlockedIsRemembered'
    BY <1>2, <1>4, <1>5 DEF IInv, BlockedIsRemembered
  <1>9. OneOpenAction'
    BY <1>1, <1>4, <1>5 DEF IInv, OneOpenAction, Active, ActiveStatus
  <1>10. LedgerIsExact'
    BY <1>1, <1>2, <1>4, <1>5 DEF IInv, LedgerIsExact, TypeOK
  <1>11. \A v \in Worker : Running(v)' =>
            /\ v # w /\ Running(v)
            /\ act'[v] = act[v] /\ pc'[v] = pc[v] /\ at'[v] = at[v] /\ wrote'[v] = wrote[v]
    BY <1>3 DEF Running, Others
  <1>12. \A v \in Worker : Running(v)' => act[v] # act[w] \/ act[w] \in blocked
    BY <1>11, OneRunner
  <1>13. HeldUntilBlocked'
    <2>1. ASSUME NEW v \in Worker, Running(v)', act'[v] \notin blocked'
          PROVE  status'[act'[v]] = "executing" /\ holder'[act'[v]] = v
      <3>1. act[v] \notin blocked /\ act'[v] = act[v] /\ Running(v)
        BY <1>2, <1>11, <2>1
      <3>2. act[v] # act[w] /\ act[v] \in Action
        BY <1>12, <2>1, <3>1, Acting DEF Running
      <3>3. QED
        BY <1>4, <3>1, <3>2 DEF IInv, HeldUntilBlocked
    <2>2. QED
      BY <2>1 DEF HeldUntilBlocked
  <1>14. CallsAreFenced'
    <2>1. ASSUME NEW v \in Worker, lateCalls' = 0, InCall(v)'
          PROVE  Fenced(v)'
      <3>1. v # w /\ act'[v] = act[v] /\ Fenced(v)
        BY <1>3, <2>1 DEF InCall, Others, IInv, CallsAreFenced
      <3>2. act[v] # act[w] /\ act[v] \in Action
        BY <1>1, <3>1 DEF Fenced, Holds, IInv, TypeOK
      <3>3. QED
        BY <1>2, <1>4, <3>1, <3>2 DEF Fenced, Holds
    <2>2. QED
      BY <2>1 DEF CallsAreFenced
  <1>15. CleanUntilWritten'
    BY <1>2, <1>11 DEF IInv, CleanUntilWritten
  <1>16. RetriedIsClean'
    <2>1. outcome = "pending" /\ act[w] \notin blocked => \A a \in AdSet : writer[a] # act[w]
      BY DEF IInv, CleanUntilWritten
    <2>2. QED
      BY <1>2, <1>4, <1>5, <2>1 DEF IInv, RetriedIsClean
  <1>17. SentIsLive'
    <2>1. ASSUME NEW v \in Worker, lateCalls' = 0, Running(v)', holder'[act'[v]] = v,
                 NEW a \in Sent(v)'
          PROVE  budget'[a] = "new" \/ writer'[a] # act'[v]
      <3>1. Running(v) /\ act'[v] = act[v] /\ a \in Sent(v)
        BY <1>2, <1>11, <2>1 DEF Sent, Target
      <3>2. holder[act[v]] = v
        BY <1>4, <1>5, <2>1, <3>1, Acting, WorkerAssumption DEF Running
      <3>3. QED
        BY <1>2, <2>1, <3>1, <3>2 DEF IInv, SentIsLive
    <2>2. QED
      BY <2>1 DEF SentIsLive
  <1>18. SucceededIsLive'
    <2>1. ASSUME NEW i \in Action, lateCalls = 0, status'[i] = "succeeded", NEW a \in Target(i)
          PROVE  budget[a] = "new" \/ writer[a] # i
      <3>1. CASE i = act[w]
        <4>1. Sent(w) = Target(act[w])
          BY <1>5, <2>1, <3>1 DEF Sent
        <4>2. QED
          BY <1>1, <2>1, <3>1, <4>1 DEF IInv, SentIsLive
      <3>2. CASE i # act[w]
        BY <1>4, <2>1, <3>2 DEF IInv, SucceededIsLive
      <3>3. QED
        BY <3>1, <3>2
    <2>2. \A i \in Action : Target(i)' = Target(i)
      BY <1>2 DEF Target
    <2>3. QED
      BY <1>2, <2>1, <2>2 DEF SucceededIsLive
  <1>19. QED
    BY <1>6, <1>7, <1>8, <1>9, <1>10, <1>13, <1>14, <1>15, <1>16, <1>17, <1>18 DEF IInv

-----------------------------------------------------------------------------
(* The queue, the founder and the lease clock.                              *)

\* A new action is one that nothing refers to.
LEMMA EnqueueKeeps ==
    ASSUME IInv, TypeOK', NEW kd \in Kind, Enqueue(kd)
    PROVE  IInv'
  <1> USE DEF Enqueue, metaVars, workerVars, bounds
  <1>1. PICK i \in Action : /\ status[i] = "absent"
                            /\ status' = [status EXCEPT ![i] = "pending"]
                            /\ kind' = [kind EXCEPT ![i] = kd]
    OBVIOUS
  <1>2. /\ i \notin blocked
        /\ \A w \in Worker : act[w] # i
        /\ \A a \in AdSet : writer[a] # i
    BY <1>1 DEF IInv, AbsentIsFresh
  <1>3. /\ \A j \in Action \ {i} : status'[j] = status[j] /\ kind'[j] = kind[j]
        /\ status'[i] = "pending"
    BY <1>1 DEF IInv, TypeOK
  <1>4. WorkersAgree'
    BY DEF IInv, WorkersAgree, Agrees
  <1>5. AbsentIsFresh' /\ BlockedIsRemembered'
    BY <1>3 DEF IInv, AbsentIsFresh, BlockedIsRemembered
  <1>6. OneOpenAction'
    BY <1>3 DEF OneOpenAction, Active, ActiveStatus
  <1>7. LedgerIsExact'
    BY <1>1, <1>3 DEF IInv, LedgerIsExact
  <1>8. \A w \in Worker : Running(w)' => Running(w) /\ act[w] \in Action \ {i}
    BY <1>2, Acting DEF Running
  <1>9. HeldUntilBlocked' /\ CleanUntilWritten'
    BY <1>3, <1>8 DEF IInv, HeldUntilBlocked, CleanUntilWritten
  <1>10. CallsAreFenced'
    BY <1>3, <1>8 DEF IInv, CallsAreFenced, InCall, Fenced, Holds, Running
  <1>11. RetriedIsClean'
    BY <1>2, <1>3 DEF IInv, RetriedIsClean
  <1>12. SentIsLive'
    <2>1. \A w \in Worker : Running(w)' => Sent(w)' = Sent(w)
      BY <1>3, <1>8 DEF Sent, Target
    <2>2. QED
      BY <1>8, <2>1 DEF IInv, SentIsLive
  <1>13. SucceededIsLive'
    <2>1. \A j \in Action \ {i} : Target(j)' = Target(j)
      BY <1>3 DEF Target
    <2>2. QED
      BY <1>3, <2>1 DEF IInv, SucceededIsLive
  <1>14. QED
    BY <1>4, <1>5, <1>6, <1>7, <1>9, <1>10, <1>11, <1>12, <1>13 DEF IInv

\* A budget of the founder's belongs to no action.
LEMMA FounderKeeps ==
    ASSUME IInv, TypeOK', NEW a \in AdSet, NEW amount \in {"old", "new", "other"},
           FounderEdits(a, amount)
    PROVE  IInv'
  <1> USE DEF FounderEdits, queueVars, workerVars
  <1>1. /\ \A b \in AdSet \ {a} : budget'[b] = budget[b] /\ writer'[b] = writer[b]
        /\ writer'[a] = 0
    BY DEF IInv, TypeOK
  <1>2. /\ WorkersAgree' /\ BlockedIsRemembered' /\ OneOpenAction'
        /\ LedgerIsExact' /\ HeldUntilBlocked' /\ CallsAreFenced'
    BY DEF IInv, WorkersAgree, Agrees, BlockedIsRemembered, OneOpenAction, Active,
           LedgerIsExact, HeldUntilBlocked, Running, CallsAreFenced, InCall, Fenced, Holds
  <1>3. AbsentIsFresh' /\ RetriedIsClean'
    BY <1>1 DEF IInv, AbsentIsFresh, RetriedIsClean, Action
  <1>4. \A w \in Worker : Running(w) => act[w] \in Action
    BY Acting DEF Running
  <1>5. CleanUntilWritten'
    BY <1>1, <1>4 DEF IInv, CleanUntilWritten, Running, Action
  <1>6. SentIsLive'
    <2>1. \A w \in Worker : Sent(w)' = Sent(w) /\ Sent(w) \subseteq AdSet
      BY BoundsAssumption DEF Sent, Target, AdSet, IInv, TypeOK
    <2>2. QED
      BY <1>1, <1>4, <2>1 DEF IInv, SentIsLive, Running, Action
  <1>7. SucceededIsLive'
    <2>1. \A i \in Action : Target(i)' = Target(i) /\ Target(i) \subseteq AdSet
      BY BoundsAssumption DEF Target, AdSet
    <2>2. QED
      BY <1>1, <2>1 DEF IInv, SucceededIsLive, Action
  <1>8. QED
    BY <1>2, <1>3, <1>5, <1>6, <1>7 DEF IInv

\* A lease that runs out under no call, or counts as a late one.
LEMMA ExpiryKeeps ==
    ASSUME IInv, TypeOK', NEW i \in Action,
           OrphanLeaseExpires(i) \/ LeaseOverrun(i) \/ LateCall(i)
    PROVE  IInv'
  <1>1. /\ live' = live \ {i}
        /\ UNCHANGED <<status, kind, holder, events, blocked, metaVars, workerVars>>
    BY DEF OrphanLeaseExpires, LeaseOverrun, LateCall, Expire
  <1>2. lateCalls' = 0 =>
            /\ lateCalls = 0
            /\ \A w \in Worker : AtWork(w, i) => ~InCall(w)
    <2>1. CASE OrphanLeaseExpires(i)
      BY <2>1 DEF OrphanLeaseExpires, bounds
    <2>2. CASE LeaseOverrun(i)
      BY <2>2 DEF LeaseOverrun, Fault, AtWork
    <2>3. CASE LateCall(i)
      BY <2>3 DEF LateCall, IInv, TypeOK
    <2>4. QED
      BY <2>1, <2>2, <2>3
  <1> USE <1>1 DEF metaVars, workerVars
  <1>3. /\ WorkersAgree' /\ AbsentIsFresh' /\ BlockedIsRemembered' /\ OneOpenAction'
        /\ LedgerIsExact' /\ HeldUntilBlocked' /\ CleanUntilWritten' /\ RetriedIsClean'
    BY DEF IInv, WorkersAgree, Agrees, AbsentIsFresh, BlockedIsRemembered, OneOpenAction,
           Active, LedgerIsExact, HeldUntilBlocked, Running, CleanUntilWritten, RetriedIsClean
  <1>4. CallsAreFenced'
    BY <1>2 DEF IInv, CallsAreFenced, InCall, Fenced, Holds, AtWork
  <1>5. SentIsLive' /\ SucceededIsLive'
    BY <1>2 DEF IInv, SentIsLive, SucceededIsLive, Sent, Target, Running
  <1>6. QED
    BY <1>3, <1>4, <1>5 DEF IInv

\* A claim takes the open action, if it is pending, abandoned or blocked.  A
\* worker that still runs it has lost it.
LEMMA ClaimKeeps ==
    ASSUME IInv, TypeOK', NEW w \in Worker, Claim(w)
    PROVE  IInv'
  <1>1. PICK i \in Claimable :
          /\ status' = [j \in Action |->
                          CASE j = i -> "leased"
                            [] j \in Crashed \ {i} -> "reconciliation_required"
                            [] OTHER -> status[j]]
          /\ holder' = [j \in Action |->
                          CASE j = i -> w
                            [] j \in Crashed \ {i} -> NoWorker
                            [] OTHER -> holder[j]]
          /\ live' = live \cup {i}
          /\ act' = [act EXCEPT ![w] = i]
    BY DEF Claim
  <1>2. i \in Active /\ i \in Action /\ Crashed \subseteq Active
    BY DEF Claimable, Crashed, Active, ActiveStatus
  <1>3. Crashed \subseteq {i}
    BY <1>2 DEF IInv, OneOpenAction
  <1>4. /\ \A j \in Action \ {i} : status'[j] = status[j] /\ holder'[j] = holder[j]
        /\ status'[i] = "leased" /\ holder'[i] = w
    BY <1>1, <1>2, <1>3
  <1>5. /\ pc[w] = "idle" /\ pc' = [pc EXCEPT ![w] = "claimed"]
        /\ blocked' = blocked \cup Crashed
        /\ UNCHANGED <<kind, events, budget, writer, at, wrote, why, lateCalls>>
    BY DEF Claim, metaVars, bounds
  <1>6. /\ act'[w] = i
        /\ \A v \in Worker : Running(v)' =>
             v # w /\ Running(v) /\ act'[v] = act[v] /\ act[v] \in Action /\ pc'[v] = pc[v]
    BY <1>1, <1>5, Acting DEF Running, IInv, TypeOK
  <1>7. WorkersAgree'
    BY <1>1, <1>2, <1>5 DEF IInv, WorkersAgree, Agrees, TypeOK, Action
  <1>8. AbsentIsFresh'
    <2>1. \A v \in Worker : act'[v] = act[v] \/ act'[v] = i
      BY <1>1 DEF IInv, TypeOK
    <2>2. QED
      BY <1>3, <1>4, <1>5, <2>1 DEF IInv, AbsentIsFresh
  <1>9. BlockedIsRemembered'
    BY <1>4, <1>5 DEF IInv, BlockedIsRemembered
  <1>10. OneOpenAction'
    BY <1>2, <1>4 DEF IInv, OneOpenAction, Active
  <1>11. LedgerIsExact'
    BY <1>2, <1>4, <1>5 DEF IInv, LedgerIsExact, Active, ActiveStatus
  <1>12. status[i] = "executing" => i \in Crashed /\ i \notin live
    BY DEF Claimable, Crashed
  <1>13. HeldUntilBlocked'
    BY <1>4, <1>5, <1>6, <1>12 DEF IInv, HeldUntilBlocked
  <1>14. CallsAreFenced'
    <2>1. ASSUME NEW v \in Worker, lateCalls' = 0, InCall(v)'
          PROVE  Fenced(v)'
      <3>1. v # w /\ InCall(v) /\ act'[v] = act[v] /\ act[v] \in Action
        BY <1>6, <2>1 DEF InCall, Running
      <3>2. Fenced(v)
        BY <1>5, <2>1, <3>1 DEF IInv, CallsAreFenced
      <3>3. act[v] # i
        BY <1>12, <3>2 DEF Fenced, Holds
      <3>4. QED
        BY <1>1, <1>4, <3>1, <3>2, <3>3 DEF Fenced, Holds
    <2>2. QED
      BY <2>1 DEF CallsAreFenced
  <1>15. CleanUntilWritten'
    BY <1>5, <1>6 DEF IInv, CleanUntilWritten
  <1>16. RetriedIsClean'
    <2>1. i \notin blocked' => status[i] \in {"pending", "leased"}
      BY <1>2, <1>5, <1>12 DEF IInv, BlockedIsRemembered, Active, ActiveStatus
    <2>2. QED
      BY <1>2, <1>4, <1>5, <2>1 DEF IInv, RetriedIsClean
  <1>17. SentIsLive'
    <2>1. \A v \in Worker : Running(v)' => Sent(v)' = Sent(v)
      BY <1>5, <1>6 DEF Sent, Target
    <2>2. QED
      BY <1>2, <1>4, <1>5, <1>6, <2>1 DEF IInv, SentIsLive
  <1>18. SucceededIsLive'
    BY <1>4, <1>5 DEF IInv, SucceededIsLive, Target
  <1>19. QED
    BY <1>7, <1>8, <1>9, <1>10, <1>11, <1>13, <1>14, <1>15, <1>16, <1>17, <1>18 DEF IInv

\* A leased action starts to execute, or the lease was lost.
LEMMA BeginKeeps ==
    ASSUME IInv, TypeOK', NEW w \in Worker, Begin(w),
           Holds(w), status[act[w]] = "leased"
    PROVE  IInv'
  <1>1. /\ pc[w] = "claimed" /\ pc' = [pc EXCEPT ![w] = "loading"]
        /\ status' = [status EXCEPT ![act[w]] = "executing"]
        /\ UNCHANGED <<kind, holder, live, events, blocked, budget, writer,
                       act, at, wrote, why, lateCalls>>
    BY DEF Begin, Goto, metaVars, bounds
  <1>2. act[w] \in Action /\ holder[act[w]] = w
    BY <1>1, Acting DEF Holds
  <1>3. /\ \A j \in Action \ {act[w]} : status'[j] = status[j]
        /\ status'[act[w]] = "executing"
    BY <1>1, <1>2 DEF IInv, TypeOK
  <1>4. \A v \in Worker \ {w} : (Running(v)' <=> Running(v)) /\ pc'[v] = pc[v]
    BY <1>1 DEF Running
  <1>5. pc'[w] = "loading"
    BY <1>1 DEF IInv, TypeOK
  <1>6. WorkersAgree'
    BY <1>1, <1>5 DEF IInv, WorkersAgree, Agrees
  <1>7. AbsentIsFresh' /\ BlockedIsRemembered'
    BY <1>1, <1>3 DEF IInv, AbsentIsFresh, BlockedIsRemembered
  <1>8. OneOpenAction' /\ LedgerIsExact'
    BY <1>1, <1>2, <1>3 DEF IInv, OneOpenAction, LedgerIsExact, Active, ActiveStatus
  <1>9. HeldUntilBlocked'
    <2>1. ASSUME NEW v \in Worker, Running(v)', act'[v] \notin blocked'
          PROVE  status'[act'[v]] = "executing" /\ holder'[act'[v]] = v
      <3>1. CASE v = w
        BY <1>1, <1>2, <1>3, <3>1
      <3>2. CASE v # w
        BY <1>1, <1>3, <1>4, <2>1, <3>2, Acting DEF IInv, HeldUntilBlocked, Running
      <3>3. QED
        BY <3>1, <3>2
    <2>2. QED
      BY <2>1 DEF HeldUntilBlocked
  <1>10. CallsAreFenced'
    BY <1>1, <1>3, <1>4, <1>5, Acting DEF IInv, CallsAreFenced, InCall, Fenced, Holds
  <1>11. CleanUntilWritten'
    <2>1. act[w] \notin blocked => \A a \in AdSet : writer[a] # act[w]
      BY <1>2 DEF IInv, RetriedIsClean
    <2>2. QED
      BY <1>1, <1>4, <2>1 DEF IInv, CleanUntilWritten
  <1>12. RetriedIsClean'
    BY <1>1, <1>3 DEF IInv, RetriedIsClean
  <1>13. SentIsLive'
    <2>1. Sent(w)' = {} /\ \A v \in Worker \ {w} : Sent(v)' = Sent(v)
      BY <1>1, <1>4, <1>5 DEF Sent, Target
    <2>2. QED
      BY <1>1, <1>4, <2>1 DEF IInv, SentIsLive
  <1>14. SucceededIsLive'
    BY <1>1, <1>3 DEF IInv, SucceededIsLive, Target
  <1>15. QED
    BY <1>6, <1>7, <1>8, <1>9, <1>10, <1>11, <1>12, <1>13, <1>14 DEF IInv

-----------------------------------------------------------------------------
(* Every step of a worker is of one of these kinds.                         *)

\* What a quiet step leaves alone, apart from the worker.
Elsewhere == UNCHANGED <<queueVars, metaVars, lateCalls>>

\* Leaving the execution.
LEMMA DoneQuiet ==
    ASSUME IInv, NEW w \in Worker, Done(w), Elsewhere
    PROVE  QuietStep(w)
  BY DEF Done, Elsewhere, QuietStep, Others, Agrees, InCall, IInv, TypeOK

\* An exception sends the worker to the rollback of what it wrote.
LEMMA RaiseQuiet ==
    ASSUME IInv, NEW w \in Worker, NEW reason \in {"changed", "transient", "failed", "shutdown"},
           Running(w), Raise(w, reason), reason = "transient" => wrote[w] = 0, Elsewhere
    PROVE  QuietStep(w)
  <1>1. act[w] \in Action /\ 0 \notin Action
    BY Acting DEF Running, Action
  <1>2. /\ pc'[w] \in {"undo", "handler"} /\ act'[w] = act[w] /\ wrote'[w] = wrote[w]
        /\ why'[w] = reason
        /\ pc'[w] = "undo" => wrote[w] > 0
        /\ Others(w)
    BY DEF Raise, Others, IInv, TypeOK
  <1>3. Agrees(w)'
    BY <1>1, <1>2 DEF Agrees, IInv, TypeOK, AdSet
  <1>4. Sent(w)' = {} /\ ~InCall(w)' /\ Running(w)'
    BY <1>2 DEF Sent, InCall, Running
  <1>5. QED
    BY <1>2, <1>3, <1>4 DEF QuietStep, Elsewhere

\* The rollback goes on to the next write or to the handler.
LEMMA NextUndoQuiet ==
    ASSUME IInv, NEW w \in Worker, pc[w] \in {"undo", "undoWrite", "undoing"}, NextUndo(w)
    PROVE  /\ pc'[w] \in {"undo", "handler"} /\ act'[w] = act[w] /\ wrote'[w] = wrote[w]
           /\ Agrees(w)' /\ Others(w)
           /\ Sent(w)' = {} /\ ~InCall(w)' /\ Running(w)' /\ Running(w)
  <1>1. act[w] \in Action /\ 0 \notin Action
    BY Acting DEF Action
  <1>2. /\ pc'[w] \in {"undo", "handler"} /\ act'[w] = act[w] /\ wrote'[w] = wrote[w]
        /\ why'[w] = why[w] /\ Others(w)
    BY DEF NextUndo, Others, IInv, TypeOK
  <1>3. why[w] # "transient" /\ wrote[w] > 0
    BY DEF IInv, WorkersAgree, Agrees
  <1>4. Agrees(w)'
    BY <1>1, <1>2, <1>3 DEF Agrees, IInv, TypeOK
  <1>5. QED
    BY <1>2, <1>4 DEF Sent, InCall, Running

\* A step to the next ad set, or the next loop, of the reads.
LEMMA AdvanceQuiet ==
    ASSUME IInv, NEW w \in Worker, NEW step \in {"read", "finish"}, Advance(w, step),
           pc[w] = IF step = "read" THEN "check" ELSE "verify", Elsewhere
    PROVE  QuietStep(w)
  <1>1. act[w] \in Action /\ 0 \notin Action
    BY Acting DEF Action
  <1>2. /\ act'[w] = act[w] /\ wrote'[w] = wrote[w] /\ why'[w] = why[w] /\ Others(w)
        /\ pc'[w] = pc[w] \/ (pc'[w] = step /\ at'[w] = 1)
    BY DEF Advance, Others, IInv, TypeOK
  <1>3. why[w] # "transient"
    BY DEF IInv, WorkersAgree, Agrees
  <1>4. Agrees(w)'
    <2>1. pc[w] = "check" => wrote[w] = 0
      BY DEF IInv, WorkersAgree, Agrees
    <2>2. QED
      BY <1>1, <1>2, <1>3, <2>1 DEF Agrees
  <1>5. Sent(w)' \subseteq Sent(w)
    <2>1. Target(act[w])' = Target(act[w])
      BY <1>2 DEF Elsewhere, queueVars, Target
    <2>2. CASE step = "read"
      <3>1. pc'[w] = "check" \/ (pc'[w] = "read" /\ at'[w] = 1)
        BY <1>2, <2>2
      <3>2. 1 .. (1 - 1) = {}
        OBVIOUS
      <3>3. QED
        BY <3>1, <3>2 DEF Sent
    <2>3. CASE step = "finish"
      BY <1>2, <2>1, <2>3 DEF Sent, Target
    <2>4. QED
      BY <2>2, <2>3
  <1>6. ~InCall(w)' /\ Running(w) /\ Running(w)'
    BY <1>2 DEF InCall, Running
  <1>7. QED
    BY <1>2, <1>4, <1>5, <1>6 DEF QuietStep, Elsewhere

\* A step forward on the same ad set.  A call is made only by the holder.
LEMMA GotoQuiet ==
    ASSUME IInv, NEW w \in Worker, NEW step \in Step, Goto(w, step), Elsewhere,
           \/ pc[w] = "loading" /\ step = "policy"
           \/ pc[w] = "policy" /\ step \in {"read", "check"}
           \/ pc[w] = "write" /\ step = "sending" /\ Fenced(w)
           \/ pc[w] = "undo" /\ step = "undoWrite"
           \/ pc[w] = "undoWrite" /\ step = "undoing" /\ Fenced(w)
    PROVE  QuietStep(w)
  <1>1. act[w] \in Action /\ 0 \notin Action
    BY Acting DEF Action
  <1>2. /\ pc'[w] = step /\ act'[w] = act[w] /\ wrote'[w] = wrote[w] /\ at'[w] = at[w]
        /\ why'[w] = why[w] /\ Others(w)
    BY DEF Goto, Others, IInv, TypeOK
  <1>3. Agrees(w)'
    BY <1>1, <1>2 DEF Agrees, IInv, WorkersAgree
  <1>4. pc[w] = "policy" => at[w] = 1
    BY DEF IInv, WorkersAgree, Agrees
  <1>5. Sent(w)' \subseteq Sent(w)
    <2>1. 1 .. (1 - 1) = {}
      OBVIOUS
    <2>2. QED
      BY <1>2, <1>4, <2>1 DEF Sent
  <1>6. QED
    BY <1>2, <1>3, <1>5 DEF QuietStep, Elsewhere, InCall, Running

\* The steps that change neither the queue nor Meta.
LEMMA QuietSteps ==
    ASSUME IInv, TypeOK', NEW w \in Worker,
           \/ Load(w) \/ Policy(w) \/ Check(w) \/ Read(w) \/ Renew(w) \/ Verify(w)
           \/ Undo(w) \/ UndoRenew(w) \/ Crash(w) \/ Shutdown(w) \/ FinishFails(w)
           \/ UndoFails(w)
           \/ \E reason \in {"failed", "transient"} : ReadFails(w, reason)
    PROVE  IInv'
  <1>1. SUFFICES QuietStep(w)
    BY QuietKeeps
  <1>2. CASE Load(w) \/ Policy(w)
    BY <1>2, GotoQuiet DEF Load, Policy, Step, Elsewhere, bounds
  <1>3. CASE Check(w)
    BY <1>3, AdvanceQuiet, RaiseQuiet DEF Check, Running, Elsewhere, bounds
  <1>4. CASE Verify(w)
    BY <1>4, AdvanceQuiet, RaiseQuiet DEF Verify, Running, Elsewhere, bounds
  <1>5. CASE Read(w)
    <2>1. CASE Fenced(w) /\ budget[at[w]] = "old"
      <3>1. act[w] \in Action /\ 0 \notin Action /\ at[w] > 0 /\ why[w] # "transient"
        BY <1>5, Acting DEF Action, Read, IInv, TypeOK, AdSet, WorkersAgree, Agrees
      <3>2. /\ pc[w] = "read" /\ pc'[w] = "write" /\ wrote'[w] = at[w]
            /\ at'[w] = at[w] /\ act'[w] = act[w] /\ why'[w] = why[w]
            /\ Others(w) /\ Elsewhere
        BY <1>5, <2>1 DEF Read, Others, Elsewhere, bounds, IInv, TypeOK
      <3>3. Agrees(w)' /\ Sent(w)' \subseteq Sent(w)
        BY <3>1, <3>2 DEF Agrees, Sent
      <3>4. QED
        BY <3>1, <3>2, <3>3 DEF QuietStep, Elsewhere, InCall, Running
    <2>2. CASE ~(Fenced(w) /\ budget[at[w]] = "old")
      BY <1>5, <2>2, RaiseQuiet DEF Read, Running, Elsewhere, bounds
    <2>3. QED
      BY <2>1, <2>2
  <1>6. CASE Renew(w)
    BY <1>6, GotoQuiet, RaiseQuiet DEF Renew, Running, Step, Elsewhere, bounds
  <1>7. CASE Undo(w) \/ UndoRenew(w) \/ UndoFails(w)
    <2>1. Elsewhere
      BY <1>7 DEF Undo, UndoRenew, UndoFails, Elsewhere, bounds, Fault
    <2>2. CASE NextUndo(w)
      <3>1. pc[w] \in {"undo", "undoWrite", "undoing"}
        BY <1>7 DEF Undo, UndoRenew, UndoFails
      <3>2. QED
        BY <2>1, <2>2, <3>1, NextUndoQuiet DEF QuietStep, Elsewhere
    <2>3. CASE pc[w] = "undo" /\ Goto(w, "undoWrite")
      BY <2>1, <2>3, GotoQuiet DEF Step
    <2>4. CASE pc[w] = "undoWrite" /\ Goto(w, "undoing") /\ Fenced(w)
      BY <2>1, <2>4, GotoQuiet DEF Step
    <2>5. QED
      BY <1>7, <2>2, <2>3, <2>4 DEF Undo, UndoRenew, UndoFails
  <1>8. CASE Crash(w)
    BY <1>8, DoneQuiet DEF Crash, Fault, Elsewhere
  <1>9. CASE Shutdown(w)
    BY <1>9, RaiseQuiet DEF Shutdown, Running, Fault, Elsewhere
  <1>10. CASE FinishFails(w)
    <2>1. act[w] \in Action /\ 0 \notin Action
      BY <1>10, Acting DEF Action, FinishFails
    <2>2. /\ pc[w] = "finish" /\ pc'[w] = "handler" /\ why'[w] = "failed" /\ wrote'[w] = wrote[w]
          /\ at'[w] = at[w] /\ act'[w] = act[w] /\ Others(w) /\ Elsewhere
      BY <1>10 DEF FinishFails, Others, Elsewhere, Fault, IInv, TypeOK
    <2>3. Agrees(w)' /\ Sent(w)' = {}
      BY <2>1, <2>2 DEF Agrees, Sent
    <2>4. QED
      BY <2>2, <2>3 DEF QuietStep, Elsewhere, InCall, Running
  <1>11. CASE \E reason \in {"failed", "transient"} : ReadFails(w, reason)
    BY <1>11, RaiseQuiet DEF ReadFails, Running, Fault, Elsewhere
  <1>12. QED
    BY <1>2, <1>3, <1>4, <1>5, <1>6, <1>7, <1>8, <1>9, <1>10, <1>11

\* The steps that end a call to Meta.
LEMMA PutSteps ==
    ASSUME IInv, TypeOK', NEW w \in Worker,
           \/ Send(w) \/ UndoSend(w) \/ CrashInCall(w)
           \/ \E reason \in {"failed", "shutdown"} : SendFails(w, reason)
    PROVE  IInv'
  <1>1. CASE Send(w)
    <2>1. act[w] \in Action /\ 0 \notin Action /\ why[w] # "transient" /\ wrote[w] > 0
      BY <1>1, Acting DEF Action, Send, IInv, WorkersAgree, Agrees
    <2>2. /\ pc[w] = "sending" /\ wrote'[w] = wrote[w] /\ act'[w] = act[w] /\ why'[w] = why[w]
          /\ \/ pc'[w] = "read" /\ at'[w] = at[w] + 1
             \/ pc'[w] = "verify" /\ ~(at[w] < Last(w))
          /\ Others(w) /\ Put(w, "new") /\ UNCHANGED <<queueVars, lateCalls>>
      BY <1>1 DEF Send, Others, bounds, IInv, TypeOK
    <2>3. Agrees(w)'
      BY <2>1, <2>2 DEF Agrees
    <2>4. Sent(w)' \subseteq Sent(w) \cup {at[w]}
      <3>1. Target(act[w])' = Target(act[w])
        BY <2>2 DEF Target, queueVars
      <3>2. at[w] \in AdSet
        BY DEF IInv, TypeOK
      <3>3. CASE pc'[w] = "read" /\ at'[w] = at[w] + 1
        <4>1. Sent(w)' = 1 .. (at'[w] - 1) /\ Sent(w) = 1 .. (at[w] - 1)
          BY <2>2, <3>3 DEF Sent
        <4>2. \A k \in Nat : 1 .. (k + 1 - 1) \subseteq 1 .. (k - 1) \cup {k}
          OBVIOUS
        <4>3. at[w] \in Nat
          BY <3>2, BoundsAssumption DEF AdSet
        <4>4. QED
          BY <3>3, <4>1, <4>2, <4>3
      <3>4. CASE pc'[w] = "verify" /\ ~(at[w] < Last(w))
        <4>1. Sent(w)' = Target(act[w]) /\ Sent(w) = 1 .. (at[w] - 1)
          BY <2>2, <3>1, <3>4 DEF Sent
        <4>2. Target(act[w]) = 1 .. Last(w)
          <5>1. 1 .. 1 = {1}
            OBVIOUS
          <5>2. QED
            BY <5>1 DEF Target, Last, AdSet
        <4>3. Last(w) \in Nat /\ at[w] \in Nat /\ at[w] >= Last(w)
          BY <3>2, <3>4, BoundsAssumption DEF Last, AdSet
        <4>4. 1 .. Last(w) \subseteq 1 .. (at[w] - 1) \cup {at[w]}
          BY <4>3
        <4>5. QED
          BY <4>1, <4>2, <4>4
      <3>5. QED
        BY <2>2, <3>3, <3>4
    <2>5. PutStep(w, "new")
      BY <2>2, <2>3, <2>4 DEF PutStep, InCall, Running
    <2>6. QED
      BY <2>5, PutKeeps
  <1>2. CASE UndoSend(w)
    <2>1. PutStep(w, "old")
      BY <1>2, NextUndoQuiet DEF UndoSend, PutStep, InCall, bounds
    <2>2. QED
      BY <2>1, PutKeeps
  <1>3. CASE CrashInCall(w)
    <2>1. PICK amount \in {"new", "old"} : Put(w, amount)
      BY <1>3 DEF CrashInCall
    <2>2. /\ pc'[w] = "idle" /\ Agrees(w)' /\ Others(w) /\ Sent(w)' = {}
      BY <1>3 DEF CrashInCall, Done, Agrees, Others, Sent, IInv, TypeOK
    <2>3. PutStep(w, amount)
      BY <1>3, <2>1, <2>2 DEF CrashInCall, PutStep, InCall, Fault
    <2>4. QED
      BY <2>3, PutKeeps
  <1>4. CASE \E reason \in {"failed", "shutdown"} : SendFails(w, reason)
    <2>1. PICK reason \in {"failed", "shutdown"} : SendFails(w, reason)
      BY <1>4
    <2>2. CASE UNCHANGED metaVars
      BY <2>1, <2>2, RaiseQuiet, QuietKeeps DEF SendFails, Running, Fault, Elsewhere
    <2>3. CASE Put(w, "new")
      <3>1. act[w] \in Action /\ 0 \notin Action
        BY <2>1, Acting DEF Action, SendFails
      <3>2. /\ pc[w] = "sending" /\ pc'[w] \in {"undo", "handler"} /\ why'[w] = reason
            /\ act'[w] = act[w] /\ wrote'[w] = wrote[w] /\ Others(w)
            /\ UNCHANGED <<queueVars, lateCalls>>
        BY <2>1 DEF SendFails, Raise, Fault, Others, IInv, TypeOK
      <3>3. wrote[w] > 0
        BY <3>2 DEF IInv, WorkersAgree, Agrees
      <3>4. Agrees(w)' /\ Sent(w)' = {}
        BY <3>1, <3>2, <3>3 DEF Agrees, Sent
      <3>5. PutStep(w, "new")
        BY <2>3, <3>2, <3>4 DEF PutStep, InCall, Running
      <3>6. QED
        BY <3>5, PutKeeps
    <2>4. QED
      BY <2>1, <2>2, <2>3 DEF SendFails
  <1>5. QED
    BY <1>1, <1>2, <1>3, <1>4

\* The steps that record an outcome.  A worker that lost its lease just leaves.
LEMMA OutcomeSteps ==
    ASSUME IInv, TypeOK', NEW w \in Worker,
           LoadTransient(w) \/ Refuse(w) \/ Finish(w) \/ Handle(w)
    PROVE  IInv'
  <1>1. Running(w) /\ lateCalls' = lateCalls
    BY DEF LoadTransient, Refuse, Finish, Handle, Running, Fault, bounds
  <1>2. ASSUME NEW outcome \in {"pending", "cancelled", "succeeded", "reconciliation_required"},
               Settle(w, outcome),
               outcome = "pending" => wrote[w] = 0,
               outcome = "succeeded" => pc[w] = "finish"
        PROVE  IInv'
    <2>1. CASE Fenced(w)
      BY <1>1, <1>2, <2>1, SettleKeeps DEF SettleStep
    <2>2. CASE ~Fenced(w)
      BY <1>1, <1>2, <2>2, DoneQuiet, QuietKeeps DEF Settle, Elsewhere, queueVars, metaVars
    <2>3. QED
      BY <2>1, <2>2
  <1>3. CASE LoadTransient(w)
    <2>1. wrote[w] = 0
      BY <1>3 DEF LoadTransient, IInv, WorkersAgree, Agrees
    <2>2. QED
      BY <1>2, <1>3, <2>1 DEF LoadTransient
  <1>4. CASE Refuse(w)
    BY <1>2, <1>4 DEF Refuse
  <1>5. CASE Finish(w)
    BY <1>2, <1>5 DEF Finish
  <1>6. CASE Handle(w)
    <2>1. CASE why[w] = "shutdown"
      BY <1>1, <1>6, <2>1, DoneQuiet, QuietKeeps DEF Handle, Elsewhere
    <2>2. CASE why[w] # "shutdown"
      <3>1. Outcome(why[w]) \in {"pending", "cancelled", "reconciliation_required"}
        BY DEF Outcome
      <3>2. Outcome(why[w]) = "pending" => wrote[w] = 0
        BY DEF Outcome, IInv, WorkersAgree, Agrees
      <3>3. QED
        BY <1>2, <1>6, <2>2, <3>1, <3>2 DEF Handle
    <2>3. QED
      BY <2>1, <2>2
  <1>7. QED
    BY <1>3, <1>4, <1>5, <1>6

-----------------------------------------------------------------------------
(* The guarantees.                                                          *)

\* The queue is empty, Meta shows the approved budgets and no worker runs.
LEMMA InitIInv == Init => IInv
  <1> SUFFICES ASSUME Init PROVE IInv
    OBVIOUS
  <1>1. 1 \in AdSet /\ 0 \notin Action
    BY BoundsAssumption DEF AdSet, Action
  <1>2. TypeOK
    BY <1>1, BoundsAssumption DEF Init, TypeOK, ActionStatus, Kind, Step
  <1>3. WorkersAgree /\ AbsentIsFresh /\ BlockedIsRemembered
    BY <1>1 DEF Init, WorkersAgree, Agrees, AbsentIsFresh, BlockedIsRemembered
  <1>4. OneOpenAction /\ LedgerIsExact /\ RetriedIsClean /\ SucceededIsLive
    BY DEF Init, OneOpenAction, Active, ActiveStatus, LedgerIsExact, RetriedIsClean, SucceededIsLive
  <1>5. HeldUntilBlocked /\ CallsAreFenced /\ CleanUntilWritten /\ SentIsLive
    BY DEF Init, HeldUntilBlocked, CallsAreFenced, CleanUntilWritten, SentIsLive, Running, InCall
  <1>6. QED
    BY <1>2, <1>3, <1>4, <1>5 DEF IInv

\* Nothing changes what the invariant is about.
LEMMA StutterKeeps ==
    ASSUME IInv, TypeOK', UNCHANGED vars
    PROVE  IInv'
  <1> USE DEF vars, queueVars, metaVars, workerVars, bounds
  <1>1. WorkersAgree' /\ AbsentIsFresh' /\ BlockedIsRemembered' /\ OneOpenAction'
    BY DEF IInv, WorkersAgree, Agrees, AbsentIsFresh, BlockedIsRemembered, OneOpenAction, Active
  <1>2. LedgerIsExact' /\ HeldUntilBlocked' /\ CleanUntilWritten' /\ RetriedIsClean'
    BY DEF IInv, LedgerIsExact, HeldUntilBlocked, Running, CleanUntilWritten, RetriedIsClean
  <1>3. CallsAreFenced' /\ SentIsLive' /\ SucceededIsLive'
    BY DEF IInv, CallsAreFenced, InCall, Fenced, Holds, SentIsLive, Sent, Target, Running,
           SucceededIsLive
  <1>4. QED
    BY <1>1, <1>2, <1>3 DEF IInv

\* Every step of the evaluator, the founder, time and the workers.
LEMMA StepIInv == IInv /\ [Next]_vars => IInv'
  <1> SUFFICES ASSUME IInv, [Next]_vars PROVE IInv'
    OBVIOUS
  <1>1. TypeOK'
    BY NextTypes DEF IInv
  <1>2. CASE UNCHANGED vars
    BY <1>1, <1>2, StutterKeeps
  <1>3. CASE \E kd \in Kind : Enqueue(kd)
    BY <1>1, <1>3, EnqueueKeeps
  <1>4. CASE \E a \in AdSet, amount \in {"old", "new", "other"} : FounderEdits(a, amount)
    BY <1>1, <1>4, FounderKeeps
  <1>5. CASE \E i \in Action : OrphanLeaseExpires(i) \/ LeaseOverrun(i) \/ LateCall(i)
    BY <1>1, <1>5, ExpiryKeeps
  <1>6. ASSUME NEW w \in Worker, Work(w)
        PROVE  IInv'
    <2>1. CASE Claim(w)
      BY <1>1, <2>1, ClaimKeeps
    <2>2. CASE Begin(w)
      <3>1. CASE Holds(w) /\ status[act[w]] = "leased"
        BY <1>1, <2>2, <3>1, BeginKeeps
      <3>2. CASE ~(Holds(w) /\ status[act[w]] = "leased")
        BY <1>1, <2>2, <3>2, DoneQuiet, QuietKeeps
           DEF Begin, Elsewhere, queueVars, metaVars, bounds
      <3>3. QED
        BY <3>1, <3>2
    <2>3. QED
      BY <1>1, <1>6, <2>1, <2>2, QuietSteps, PutSteps, OutcomeSteps DEF Work
  <1>7. ASSUME NEW w \in Worker, WorkFault(w)
        PROVE  IInv'
    BY <1>1, <1>7, QuietSteps, PutSteps, OutcomeSteps DEF WorkFault
  <1>8. QED
    BY <1>2, <1>3, <1>4, <1>5, <1>6, <1>7 DEF Next

\* IInv holds in every reachable state.
THEOREM Invariance == Spec => []IInv
  <1>1. Init => IInv
    BY InitIInv
  <1>2. IInv /\ [Next]_vars => IInv'
    BY StepIInv
  <1>3. QED
    BY <1>1, <1>2, PTL DEF Spec

\* Every variable stays within its type: in particular a status is one the
\* table's check constraint allows and a worker never leaves the allocation.
THEOREM TypeCorrect == Spec => []TypeOK
  <1>1. IInv => TypeOK
    BY DEF IInv
  <1>2. QED
    BY <1>1, Invariance, PTL

\* Enqueueing, releasing, taking over and blocking never make two open actions
\* of one campaign (store.enqueue_action, claim_next_action).
THEOREM OneActionAtATime == Spec => []OneOpenAction
  <1>1. IInv => OneOpenAction
    BY DEF IInv
  <1>2. QED
    BY <1>1, Invariance, PTL

\* finish_action appends one ledger event for each action that succeeded.
THEOREM LedgerAgrees == Spec => []LedgerIsExact
  <1>1. IInv => LedgerIsExact
    BY DEF IInv
  <1>2. QED
    BY <1>1, Invariance, PTL

\* release_action only returns actions to the queue that changed nothing.
THEOREM RetriesAreClean == Spec => []RetriedIsClean
  <1>1. IInv => RetriedIsClean
    BY DEF IInv
  <1>2. QED
    BY <1>1, Invariance, PTL

\* What execute_claim reports as done is what Meta shows, as long as no call
\* outlives its lease.
THEOREM SuccessStands == Spec => []SucceededIsLive
  <1>1. IInv => SucceededIsLive
    BY DEF IInv
  <1>2. QED
    BY <1>1, Invariance, PTL

\* Every change of a budget that is not the founder's is made in a call of the
\* worker that holds the executing action, as long as no call outlives its lease.
THEOREM FencedWrites == Spec => WritesAreFenced
  <1> DEFINE Write(a, i) ==
        writer'[a] = i /\ <<budget[a], writer[a]>>' # <<budget[a], writer[a]>>
  <1> DEFINE FencedStep ==
        lateCalls = 0 =>
          \A a \in AdSet, i \in Action :
            Write(a, i) => \E w \in Worker : act[w] = i /\ InCall(w) /\ Fenced(w)
  <1>1. IInv /\ [Next]_vars => FencedStep
    <2> SUFFICES ASSUME IInv, [Next]_vars, lateCalls = 0, NEW a \in AdSet, NEW i \in Action,
                        Write(a, i)
                 PROVE  \E w \in Worker : act[w] = i /\ InCall(w) /\ Fenced(w)
      OBVIOUS
    <2>1. ASSUME NEW b \in AdSet, NEW amount, FounderEdits(b, amount)
          PROVE  FALSE
      BY <2>1 DEF FounderEdits, IInv, TypeOK, Action
    <2>2. ASSUME NEW w \in Worker, NEW amount, InCall(w), Put(w, amount)
          PROVE  \E v \in Worker : act[v] = i /\ InCall(v) /\ Fenced(v)
      <3>1. a = at[w] /\ act[w] = i
        BY <2>2 DEF Put, IInv, TypeOK
      <3>2. Fenced(w)
        BY <2>2 DEF IInv, CallsAreFenced
      <3>3. QED
        BY <2>2, <3>1, <3>2
    <2>3. ~(UNCHANGED metaVars)
      BY DEF metaVars
    <2>4. ASSUME NEW w \in Worker, Work(w)
          PROVE  (Send(w) \/ UndoSend(w)) /\ \E amount \in {"new", "old"} : Put(w, amount)
      BY <2>3, <2>4
         DEF Work, Claim, Begin, Load, Refuse, Policy, Check, Read, Renew, Send, Verify, Finish,
             Undo, UndoRenew, UndoSend, Handle, Settle
    <2>5. ASSUME NEW w \in Worker, WorkFault(w)
          PROVE  InCall(w) /\ \E amount \in {"new", "old"} : Put(w, amount)
      BY <2>3, <2>5
         DEF WorkFault, Crash, CrashInCall, LoadTransient, Shutdown, FinishFails, UndoFails,
             SendFails, ReadFails, Settle, InCall
    <2>6. CASE \E w \in Worker : Work(w) \/ WorkFault(w)
      BY <2>2, <2>4, <2>5, <2>6 DEF Send, UndoSend, InCall
    <2>7. QED
      BY <2>1, <2>3, <2>6
         DEF Next, vars, Enqueue, OrphanLeaseExpires, LeaseOverrun, LateCall, Expire
  <1>2. Spec => [][FencedStep]_vars
    BY <1>1, Invariance, PTL DEF Spec
  <1>3. QED
    BY <1>2 DEF WritesAreFenced

=============================================================================
