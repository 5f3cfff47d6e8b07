-------------------------- MODULE ReplacementProofs --------------------------
(***************************************************************************)
(* Proofs about Replacement, for any workers, parts, ads and number of     *)
(* faults.  IInv is inductive; the guarantees of the replacement follow.   *)
(***************************************************************************)
EXTENDS Replacement, TLAPS

-----------------------------------------------------------------------------
(* The inductive invariant.                                                 *)

\* The one draft is inserted with the completion of its generation.
CompletedHasDraft == drafts = IF gen = "completed" THEN 1 ELSE 0

\* A closed or waiting action has no holder.
ClosedIsFree == status \in {"pending", "succeeded", "cancelled"} => holder = NoWorker

\* A worker that has begun executes the action and holds it, until the action
\* is blocked: taking over an executing action blocks it.
HeldUntilBlocked ==
    \A w \in Worker : pc[w] \notin {"idle", "claimed"} =>
        blocked \/ (holder = w /\ status = "executing")

\* Places between two parts of the bundle
Creating == {"request", "look", "make", "record"}

\* The owner of the publication knows how far it got.
OwnerKnows ==
    \A w \in Worker :
        /\ pc[w] \in Creating => known[w] < Parts
        /\ pubOwner = w /\ pc[w] \in Creating \cup {"shoot"} => known[w] = recorded

\* Nothing is switched on before every part is recorded.
SwapIsRecorded ==
    /\ pub = "paused" => recorded = Parts
    /\ \A w \in Worker :
          pc[w] \in Swapping \cup {"observe", "finalize", "revalidate"} => recorded = Parts

\* What is recorded, or about to be, exists in Meta.
RecordedIsMade ==
    /\ \A p \in Part : p <= recorded => made[p] > 0
    /\ \A w \in Worker : pc[w] = "record" => made[Next1(w)] > 0

ServingIsKnown == active > 0 => recorded = Parts

\* A worker in a call holds the action, unless a lease ran out under a call.
CallsAreFenced ==
    lateCalls = 0 => \A w \in Worker : InCall(w) =>
        /\ Holds(w)
        /\ pc[w] \in {"activating", "pausing", "undoing"} => status = "executing"

\* Then nobody else creates the part that it did not find.
MadeOnce ==
    lateCalls = 0 =>
        /\ \A p \in Part : made[p] <= 1
        /\ \A w \in Worker : pc[w] = "make" => made[Next1(w)] = 0

\* What the holder has seen of Meta stays so.
HolderSwaps ==
    lateCalls = 0 /\ edits = 0 => \A w \in Worker : Fenced(w) =>
        /\ pc[w] \in {"recheck", "pause", "pausing", "confirm", "finish"} => active = Ads
        /\ pc[w] = "finish" => source = "paused"

Clean == active = 0 /\ \A p \in Part : made[p] = 0

Early(w) ==
    \/ pc[w] \in {"policy", "generate", "writing", "source", "acquire"}
    \/ pc[w] = "handler" /\ why[w] \in {"changed", "transient"}

\* An action that was never blocked has changed nothing before its holder
\* creates the first part.
CleanUntilBuilt ==
    ~blocked =>
        /\ status # "reconciliation_required"
        /\ status \in {"pending", "leased", "cancelled"} => Clean
        /\ status = "executing" => \A w \in Worker : holder = w /\ Early(w) => Clean

\* A worker activates the ads one by one, and has activated none before.
ActivatesInOrder ==
    \A w \in Worker :
        /\ pc[w] \in {"activate", "activating"} => on[w] < Ads
        /\ pc[w] \in Building \cup {"idle", "claimed", "policy", "generate", "writing",
                               "source", "verify"} => on[w] = 0

\* The type invariant in parts: workers, their memory, rows, flags and counts.
PlaceTypeOK == pc \in [Worker -> Step]
MindTypeOK ==
    /\ known \in [Worker -> 0 .. Parts]
    /\ knowsAsk \in [Worker -> BOOLEAN]
    /\ on \in [Worker -> 0 .. Ads]
    /\ why \in [Worker -> {"none", "changed", "transient", "failed"}]
RowTypeOK ==
    /\ status \in {"pending", "leased", "executing", "reconciliation_required", "succeeded",
                   "cancelled"}
    /\ holder \in Worker \cup {NoWorker}
    /\ gen \in {"none", "generating", "completed"}
    /\ genOwner \in Worker \cup {NoWorker}
    /\ pub \in {"none", "creating", "paused", "reconciliation_required"}
    /\ pubOwner \in Worker \cup {NoWorker}
    /\ source \in {"active", "paused"}
FlagTypeOK ==
    /\ hook \in BOOLEAN
    /\ live \in BOOLEAN /\ blocked \in BOOLEAN
    /\ genLive \in BOOLEAN
    /\ pubLive \in BOOLEAN
    /\ asked \in BOOLEAN /\ imaged \in BOOLEAN
CountTypeOK ==
    /\ drafts \in Nat
    /\ recorded \in 0 .. Parts
    /\ active \in 0 .. Ads
    /\ edits \in 0 .. MaxEdits
    /\ faults \in 0 .. MaxFaults
    /\ lateCalls \in 0 .. MaxLateCalls
MadeTypeOK == made \in [Part -> Nat]

IInv ==
    /\ TypeOK /\ CompletedHasDraft /\ ClosedIsFree /\ HeldUntilBlocked /\ OwnerKnows
    /\ SwapIsRecorded /\ RecordedIsMade /\ ServingIsKnown /\ CallsAreFenced /\ MadeOnce
    /\ HolderSwaps /\ SucceededIsSwapped /\ CleanUntilBuilt /\ ActivatesInOrder

\* A call that takes effect and whose answer is lost changes Meta and the place
\* of its worker, and nothing else.
LEMMA CallFailure ==
    ASSUME TypeOK, NEW w \in Worker, CallFails(w)
    PROVE  /\ UNCHANGED <<hook, actionVars, genVars, leaseVars, progressVars>>
           /\ UNCHANGED <<edits, lateCalls>> /\ faults < MaxFaults /\ faults' = faults + 1
           /\ pc[w] \in {"make", "repause", "activating", "pausing", "undoing"}
           /\ made' = IF pc[w] = "make" THEN [made EXCEPT ![Next1(w)] = @ + 1] ELSE made
           /\ active' \in 0 .. Ads
           /\ pc[w] # "activating" => active' <= active
           /\ pc[w] # "pausing" => source' = source
           /\ source' \in {source, "paused"}
           /\ \E step \in {"undo", "disown", "fail", "idle", "handler"} :
                 pc' = [pc EXCEPT ![w] = step]
           /\ pc'[w] = "handler" => why'[w] = "failed"
           /\ pc'[w] = "disown" => pc[w] \in {"make", "repause"}
           /\ pc'[w] = "idle" => on'[w] = 0
           /\ \E n \in {0, known[w]} : known' = [known EXCEPT ![w] = n]
           /\ \E b \in BOOLEAN : knowsAsk' = [knowsAsk EXCEPT ![w] = b]
           /\ \E n \in {0, on[w]} : on' = [on EXCEPT ![w] = n]
           /\ \E r \in {"none", "changed", "transient", "failed"} : why' = [why EXCEPT ![w] = r]
  <1> USE ReplacementAssumption DEF TypeOK
  <1>1. /\ UNCHANGED <<hook, actionVars, genVars, leaseVars, progressVars, edits, lateCalls>>
        /\ faults < MaxFaults /\ faults' = faults + 1
        /\ pc[w] \in {"make", "repause", "activating", "pausing", "undoing"}
    BY DEF CallFails, Fault
  <1>2. /\ \E step \in {"undo", "disown", "fail", "idle", "handler"} :
              pc' = [pc EXCEPT ![w] = step]
        /\ pc'[w] = "handler" => why'[w] = "failed"
        /\ pc'[w] = "disown" => pc[w] \in {"make", "repause"}
        /\ pc'[w] = "idle" => on'[w] = 0
        /\ \E n \in {0, known[w]} : known' = [known EXCEPT ![w] = n]
        /\ \E b \in BOOLEAN : knowsAsk' = [knowsAsk EXCEPT ![w] = b]
        /\ \E n \in {0, on[w]} : on' = [on EXCEPT ![w] = n]
        /\ \E r \in {"none", "changed", "transient", "failed"} : why' = [why EXCEPT ![w] = r]
    <2>1. CASE Done(w)
      BY <2>1 DEF Done
    <2>2. CASE GotoHandler(w, "failed")
      BY <2>2 DEF GotoHandler
    <2>3. CASE Broken(w)
      <3>1. \E step \in {"undo", "disown", "fail"} :
                Goto(w, step) /\ (step = "disown" => pc[w] \in {"make", "repause"})
        BY <2>3, <1>1 DEF Broken, Abort, Swapping
      <3>2. UNCHANGED <<known, knowsAsk, on, why>>
        BY <3>1 DEF Goto
      <3>3. /\ known = [known EXCEPT ![w] = known[w]]
            /\ knowsAsk = [knowsAsk EXCEPT ![w] = knowsAsk[w]]
            /\ on = [on EXCEPT ![w] = on[w]]
            /\ why = [why EXCEPT ![w] = why[w]]
        OBVIOUS
      <3>4. /\ knowsAsk[w] \in BOOLEAN
            /\ why[w] \in {"none", "changed", "transient", "failed"}
        OBVIOUS
      <3> QED BY <3>1, <3>2, <3>3, <3>4 DEF Goto
    <2> QED BY <2>1, <2>2, <2>3 DEF CallFails
  <1>3. Effect(w)
    BY DEF CallFails
  <1>4. /\ made' = IF pc[w] = "make" THEN [made EXCEPT ![Next1(w)] = @ + 1] ELSE made
        /\ active' \in 0 .. Ads
        /\ pc[w] # "activating" => active' <= active
        /\ pc[w] # "pausing" => source' = source
        /\ source' \in {source, "paused"}
    <2>1. CASE pc[w] = "make"
      BY <1>3, <2>1 DEF Effect
    <2>2. CASE pc[w] = "repause"
      BY <1>3, <2>2 DEF Effect
    <2>3. CASE pc[w] = "undoing"
      BY <1>3, <2>3 DEF Effect
    <2>4. CASE pc[w] = "activating"
      BY <1>3, <2>4 DEF Effect
    <2>5. CASE pc[w] = "pausing"
      BY <1>3, <2>5 DEF Effect
    <2> QED BY <1>1, <2>1, <2>2, <2>3, <2>4, <2>5
  <1> QED BY <1>1, <1>2, <1>4

\* The part that a creating worker is at.
LEMMA PartMade ==
    ASSUME TypeOK, NEW q \in Part, made' = [made EXCEPT ![q] = @ + 1]
    PROVE  /\ made' \in [Part -> Nat]
           /\ made'[q] = made[q] + 1
           /\ \A p \in Part : p # q => made'[p] = made[p]
           /\ \A p \in Part : made[p] > 0 => made'[p] > 0
           /\ made[q] = 0 /\ (\A p \in Part : made[p] <= 1) => \A p \in Part : made'[p] <= 1
  <1>1. made \in [Part -> Nat]
    BY DEF TypeOK
  <1> QED BY <1>1

LEMMA NextPart ==
    ASSUME TypeOK, OwnerKnows, NEW w \in Worker, pc[w] \in Creating
    PROVE  Next1(w) \in Part /\ made[Next1(w)] \in Nat
  BY ReplacementAssumption DEF TypeOK, OwnerKnows, Next1, Part

-----------------------------------------------------------------------------
(* One lemma per part of the type invariant: every action keeps it.         *)

\* A worker stands at a known step.
LEMMA PlaceStep == TypeOK /\ [Next]_vars => PlaceTypeOK'
  <1> SUFFICES ASSUME TypeOK, [Next]_vars PROVE PlaceTypeOK'
    OBVIOUS
  <1> USE ReplacementAssumption DEF actionVars, genVars, leaseVars, progressVars, metaVars,
        workerVars, bounds, Done, Goto, GotoHandler, Settle, Abort, Broken, Expect, Fault,
        ExpireAction, ExpireGen, ExpirePub, Building, Swapping, Step, Outcome, TypeOK,
        PlaceTypeOK
  <1>1. CASE FounderSwitches
    BY <1>1 DEF FounderSwitches
  <1>2. CASE OrphanLeaseExpires
    BY <1>2 DEF OrphanLeaseExpires
  <1>3. CASE LeaseOverrun
    BY <1>3 DEF LeaseOverrun
  <1>4. CASE LateCall
    BY <1>4 DEF LateCall
  <1>5. ASSUME NEW w \in Worker, Work(w) PROVE PlaceTypeOK'
    <2>1. CASE Claim(w)
      BY <2>1 DEF Claim
    <2>2. CASE Begin(w)
      BY <2>2 DEF Begin
    <2>3. CASE Refuse(w)
      BY <2>3 DEF Refuse
    <2>4. CASE Approve(w)
      BY <2>4 DEF Approve
    <2>5. CASE ClaimGeneration(w)
      BY <2>5 DEF ClaimGeneration
    <2>6. CASE PersistDraft(w)
      BY <2>6 DEF PersistDraft
    <2>7. CASE ReadSource(w)
      BY <2>7 DEF ReadSource
    <2>8. CASE AcquirePublication(w)
      BY <2>8 DEF AcquirePublication
    <2>9. CASE Revalidate(w)
      BY <2>9 DEF Revalidate
    <2>10. CASE Shoot(w)
      BY <2>10 DEF Shoot
    <2>11. CASE Request(w)
      BY <2>11 DEF Request
    <2>12. CASE Look(w)
      BY <2>12 DEF Look
    <2>13. CASE Make(w)
      BY <2>13 DEF Make
    <2>14. CASE Record(w)
      BY <2>14 DEF Record
    <2>15. CASE Observe(w)
      BY <2>15 DEF Observe
    <2>16. CASE Repause(w)
      BY <2>16 DEF Repause
    <2>17. CASE Disown(w)
      BY <2>17 DEF Disown
    <2>18. CASE Declare(w)
      BY <2>18 DEF Declare
    <2>19. CASE Finalize(w)
      BY <2>19 DEF Finalize
    <2>20. CASE Verify(w)
      BY <2>20 DEF Verify
    <2>21. CASE Fence(w)
      BY <2>21 DEF Fence
    <2>22. CASE Activate(w)
      BY <2>22 DEF Activate
    <2>23. CASE CheckActive(w)
      BY <2>23 DEF CheckActive
    <2>24. CASE RecheckSource(w)
      BY <2>24 DEF RecheckSource
    <2>25. CASE RenewForPause(w)
      BY <2>25 DEF RenewForPause
    <2>26. CASE PauseSource(w)
      BY <2>26 DEF PauseSource
    <2>27. CASE Confirm(w)
      BY <2>27 DEF Confirm
    <2>28. CASE Finish(w)
      BY <2>28 DEF Finish
    <2>29. CASE Fail(w)
      BY <2>29 DEF Fail
    <2>30. CASE Undo(w)
      BY <2>30 DEF Undo
    <2>31. CASE PauseBundle(w)
      BY <2>31 DEF PauseBundle
    <2>32. CASE Handle(w)
      BY <2>32 DEF Handle
    <2>33. QED
      BY <1>5, <2>1, <2>2, <2>3, <2>4, <2>5, <2>6, <2>7, <2>8, <2>9, <2>10, <2>11, <2>12,
            <2>13, <2>14, <2>15, <2>16, <2>17, <2>18, <2>19, <2>20, <2>21, <2>22, <2>23, <2>24,
            <2>25, <2>26, <2>27, <2>28, <2>29, <2>30, <2>31, <2>32 DEF Work
  <1>6. ASSUME NEW w \in Worker, WorkFault(w) PROVE PlaceTypeOK'
    <2>1. CASE Crash(w)
      BY <2>1 DEF Crash
    <2>2. CASE StepFails(w)
      BY <2>2 DEF StepFails
    <2>3. CASE CallFails(w)
      BY <2>3, CallFailure
    <2>4. CASE FinishFails(w)
      BY <2>4 DEF FinishFails
    <2>5. ASSUME NEW reason \in {"transient", "failed"}, EarlyFails(w, reason)
          PROVE PlaceTypeOK'
      BY <2>5 DEF EarlyFails
    <2>6. QED
      BY <1>6, <2>1, <2>2, <2>3, <2>4, <2>5 DEF WorkFault
  <1>7. CASE UNCHANGED vars
    BY <1>7 DEF vars
  <1>8. QED
    BY <1>1, <1>2, <1>3, <1>4, <1>5, <1>6, <1>7 DEF Next

\* What a worker knows is typed: it has not created more parts than there are.
LEMMA MindStep == TypeOK /\ OwnerKnows /\ ActivatesInOrder /\ [Next]_vars => MindTypeOK'
  <1> SUFFICES ASSUME TypeOK, OwnerKnows, ActivatesInOrder, [Next]_vars PROVE MindTypeOK'
    OBVIOUS
  <1> USE ReplacementAssumption DEF actionVars, genVars, leaseVars, progressVars, metaVars,
        workerVars, bounds, Done, Goto, GotoHandler, Settle, Abort, Broken, Expect, Fault,
        ExpireAction, ExpireGen, ExpirePub, Building, Swapping, Step, Outcome, TypeOK,
        MindTypeOK, OwnerKnows, ActivatesInOrder, Creating, Next1
  <1>1. CASE FounderSwitches
    BY <1>1 DEF FounderSwitches
  <1>2. CASE OrphanLeaseExpires
    BY <1>2 DEF OrphanLeaseExpires
  <1>3. CASE LeaseOverrun
    BY <1>3 DEF LeaseOverrun
  <1>4. CASE LateCall
    BY <1>4 DEF LateCall
  <1>5. ASSUME NEW w \in Worker, Work(w) PROVE MindTypeOK'
    <2>1. CASE Claim(w)
      BY <2>1 DEF Claim
    <2>2. CASE Begin(w)
      <3>1. CASE Goto(w, "policy")
        BY <3>1
      <3>2. CASE Done(w)
        BY <3>2
      <3> QED BY <2>2, <3>1, <3>2 DEF Begin
    <2>3. CASE Refuse(w)
      BY <2>3 DEF Refuse
    <2>4. CASE Approve(w)
      BY <2>4 DEF Approve
    <2>5. CASE ClaimGeneration(w)
      BY <2>5 DEF ClaimGeneration
    <2>6. CASE PersistDraft(w)
      BY <2>6 DEF PersistDraft
    <2>7. CASE ReadSource(w)
      BY <2>7 DEF ReadSource
    <2>8. CASE AcquirePublication(w)
      BY <2>8 DEF AcquirePublication
    <2>9. CASE Revalidate(w)
      BY <2>9 DEF Revalidate
    <2>10. CASE Shoot(w)
      BY <2>10 DEF Shoot
    <2>11. CASE Request(w)
      BY <2>11 DEF Request
    <2>12. CASE Look(w)
      BY <2>12 DEF Look
    <2>13. CASE Make(w)
      BY <2>13 DEF Make
    <2>14. CASE Record(w)
      <3>1. known[w] < Parts
        BY <2>14 DEF Record
      <3>2. CASE Abort(w)
        BY <3>2
      <3>3. CASE MayRecord(w)
        <4>1. known[w] + 1 \in 0 .. Parts
          BY <3>1
        <4>2. /\ known' = [known EXCEPT ![w] = known[w] + 1]
              /\ knowsAsk' = [knowsAsk EXCEPT ![w] = FALSE]
              /\ on' = on /\ why' = why
          BY <2>14, <3>3 DEF Record
        <4> QED BY <4>1, <4>2
      <3> QED BY <2>14, <3>2, <3>3 DEF Record
    <2>15. CASE Observe(w)
      BY <2>15 DEF Observe
    <2>16. CASE Repause(w)
      BY <2>16 DEF Repause
    <2>17. CASE Disown(w)
      BY <2>17 DEF Disown
    <2>18. CASE Declare(w)
      BY <2>18 DEF Declare
    <2>19. CASE Finalize(w)
      BY <2>19 DEF Finalize
    <2>20. CASE Verify(w)
      BY <2>20 DEF Verify
    <2>21. CASE Fence(w)
      BY <2>21 DEF Fence
    <2>22. CASE Activate(w)
      BY <2>22 DEF Activate
    <2>23. CASE CheckActive(w)
      BY <2>23 DEF CheckActive
    <2>24. CASE RecheckSource(w)
      BY <2>24 DEF RecheckSource
    <2>25. CASE RenewForPause(w)
      BY <2>25 DEF RenewForPause
    <2>26. CASE PauseSource(w)
      BY <2>26 DEF PauseSource
    <2>27. CASE Confirm(w)
      BY <2>27 DEF Confirm
    <2>28. CASE Finish(w)
      BY <2>28 DEF Finish
    <2>29. CASE Fail(w)
      BY <2>29 DEF Fail
    <2>30. CASE Undo(w)
      BY <2>30 DEF Undo
    <2>31. CASE PauseBundle(w)
      BY <2>31 DEF PauseBundle
    <2>32. CASE Handle(w)
      BY <2>32 DEF Handle
    <2>33. QED
      BY <1>5, <2>1, <2>2, <2>3, <2>4, <2>5, <2>6, <2>7, <2>8, <2>9, <2>10, <2>11, <2>12,
            <2>13, <2>14, <2>15, <2>16, <2>17, <2>18, <2>19, <2>20, <2>21, <2>22, <2>23, <2>24,
            <2>25, <2>26, <2>27, <2>28, <2>29, <2>30, <2>31, <2>32 DEF Work
  <1>6. ASSUME NEW w \in Worker, WorkFault(w) PROVE MindTypeOK'
    <2>1. CASE Crash(w)
      BY <2>1 DEF Crash
    <2>2. CASE StepFails(w)
      BY <2>2 DEF StepFails
    <2>3. CASE CallFails(w)
      BY <2>3, CallFailure
    <2>4. CASE FinishFails(w)
      BY <2>4 DEF FinishFails
    <2>5. ASSUME NEW reason \in {"transient", "failed"}, EarlyFails(w, reason) PROVE MindTypeOK'
      BY <2>5 DEF EarlyFails
    <2>6. QED
      BY <1>6, <2>1, <2>2, <2>3, <2>4, <2>5 DEF WorkFault
  <1>7. CASE UNCHANGED vars
    BY <1>7 DEF vars
  <1>8. QED
    BY <1>1, <1>2, <1>3, <1>4, <1>5, <1>6, <1>7 DEF Next

\* The rows and the source are typed.
LEMMA RowStep == TypeOK /\ [Next]_vars => RowTypeOK'
  <1> SUFFICES ASSUME TypeOK, [Next]_vars PROVE RowTypeOK'
    OBVIOUS
  <1> USE ReplacementAssumption DEF actionVars, genVars, leaseVars, progressVars, metaVars,
        workerVars, bounds, Done, Goto, GotoHandler, Settle, Abort, Broken, Expect, Fault,
        ExpireAction, ExpireGen, ExpirePub, Building, Swapping, Step, Outcome, TypeOK, RowTypeOK
  <1>1. CASE FounderSwitches
    BY <1>1 DEF FounderSwitches
  <1>2. CASE OrphanLeaseExpires
    BY <1>2 DEF OrphanLeaseExpires
  <1>3. CASE LeaseOverrun
    BY <1>3 DEF LeaseOverrun
  <1>4. CASE LateCall
    BY <1>4 DEF LateCall
  <1>5. ASSUME NEW w \in Worker, Work(w) PROVE RowTypeOK'
    <2>1. CASE Claim(w)
      BY <2>1 DEF Claim
    <2>2. CASE Begin(w)
      BY <2>2 DEF Begin
    <2>3. CASE Refuse(w)
      BY <2>3 DEF Refuse
    <2>4. CASE Approve(w)
      BY <2>4 DEF Approve
    <2>5. CASE ClaimGeneration(w)
      BY <2>5 DEF ClaimGeneration
    <2>6. CASE PersistDraft(w)
      BY <2>6 DEF PersistDraft
    <2>7. CASE ReadSource(w)
      BY <2>7 DEF ReadSource
    <2>8. CASE AcquirePublication(w)
      BY <2>8 DEF AcquirePublication
    <2>9. CASE Revalidate(w)
      BY <2>9 DEF Revalidate
    <2>10. CASE Shoot(w)
      BY <2>10 DEF Shoot
    <2>11. CASE Request(w)
      BY <2>11 DEF Request
    <2>12. CASE Look(w)
      BY <2>12 DEF Look
    <2>13. CASE Make(w)
      BY <2>13 DEF Make
    <2>14. CASE Record(w)
      BY <2>14 DEF Record
    <2>15. CASE Observe(w)
      BY <2>15 DEF Observe
    <2>16. CASE Repause(w)
      BY <2>16 DEF Repause
    <2>17. CASE Disown(w)
      BY <2>17 DEF Disown
    <2>18. CASE Declare(w)
      BY <2>18 DEF Declare
    <2>19. CASE Finalize(w)
      BY <2>19 DEF Finalize
    <2>20. CASE Verify(w)
      BY <2>20 DEF Verify
    <2>21. CASE Fence(w)
      BY <2>21 DEF Fence
    <2>22. CASE Activate(w)
      BY <2>22 DEF Activate
    <2>23. CASE CheckActive(w)
      BY <2>23 DEF CheckActive
    <2>24. CASE RecheckSource(w)
      BY <2>24 DEF RecheckSource
    <2>25. CASE RenewForPause(w)
      BY <2>25 DEF RenewForPause
    <2>26. CASE PauseSource(w)
      BY <2>26 DEF PauseSource
    <2>27. CASE Confirm(w)
      BY <2>27 DEF Confirm
    <2>28. CASE Finish(w)
      BY <2>28 DEF Finish
    <2>29. CASE Fail(w)
      BY <2>29 DEF Fail
    <2>30. CASE Undo(w)
      BY <2>30 DEF Undo
    <2>31. CASE PauseBundle(w)
      BY <2>31 DEF PauseBundle
    <2>32. CASE Handle(w)
      BY <2>32 DEF Handle
    <2>33. QED
      BY <1>5, <2>1, <2>2, <2>3, <2>4, <2>5, <2>6, <2>7, <2>8, <2>9, <2>10, <2>11, <2>12,
            <2>13, <2>14, <2>15, <2>16, <2>17, <2>18, <2>19, <2>20, <2>21, <2>22, <2>23, <2>24,
            <2>25, <2>26, <2>27, <2>28, <2>29, <2>30, <2>31, <2>32 DEF Work
  <1>6. ASSUME NEW w \in Worker, WorkFault(w) PROVE RowTypeOK'
    <2>1. CASE Crash(w)
      BY <2>1 DEF Crash
    <2>2. CASE StepFails(w)
      BY <2>2 DEF StepFails
    <2>3. CASE CallFails(w)
      BY <2>3, CallFailure
    <2>4. CASE FinishFails(w)
      BY <2>4 DEF FinishFails
    <2>5. ASSUME NEW reason \in {"transient", "failed"}, EarlyFails(w, reason) PROVE RowTypeOK'
      BY <2>5 DEF EarlyFails
    <2>6. QED
      BY <1>6, <2>1, <2>2, <2>3, <2>4, <2>5 DEF WorkFault
  <1>7. CASE UNCHANGED vars
    BY <1>7 DEF vars
  <1>8. QED
    BY <1>1, <1>2, <1>3, <1>4, <1>5, <1>6, <1>7 DEF Next

\* The flags are typed.
LEMMA FlagStep == TypeOK /\ [Next]_vars => FlagTypeOK'
  <1> SUFFICES ASSUME TypeOK, [Next]_vars PROVE FlagTypeOK'
    OBVIOUS
  <1> USE ReplacementAssumption DEF actionVars, genVars, leaseVars, progressVars, metaVars,
        workerVars, bounds, Done, Goto, GotoHandler, Settle, Abort, Broken, Expect, Fault,
        ExpireAction, ExpireGen, ExpirePub, Building, Swapping, Step, Outcome, TypeOK,
        FlagTypeOK
  <1>1. CASE FounderSwitches
    BY <1>1 DEF FounderSwitches
  <1>2. CASE OrphanLeaseExpires
    BY <1>2 DEF OrphanLeaseExpires
  <1>3. CASE LeaseOverrun
    BY <1>3 DEF LeaseOverrun
  <1>4. CASE LateCall
    BY <1>4 DEF LateCall
  <1>5. ASSUME NEW w \in Worker, Work(w) PROVE FlagTypeOK'
    <2>1. CASE Claim(w)
      BY <2>1 DEF Claim
    <2>2. CASE Begin(w)
      BY <2>2 DEF Begin
    <2>3. CASE Refuse(w)
      BY <2>3 DEF Refuse
    <2>4. CASE Approve(w)
      BY <2>4 DEF Approve
    <2>5. CASE ClaimGeneration(w)
      BY <2>5 DEF ClaimGeneration
    <2>6. CASE PersistDraft(w)
      BY <2>6 DEF PersistDraft
    <2>7. CASE ReadSource(w)
      BY <2>7 DEF ReadSource
    <2>8. CASE AcquirePublication(w)
      BY <2>8 DEF AcquirePublication
    <2>9. CASE Revalidate(w)
      BY <2>9 DEF Revalidate
    <2>10. CASE Shoot(w)
      BY <2>10 DEF Shoot
    <2>11. CASE Request(w)
      BY <2>11 DEF Request
    <2>12. CASE Look(w)
      BY <2>12 DEF Look
    <2>13. CASE Make(w)
      BY <2>13 DEF Make
    <2>14. CASE Record(w)
      BY <2>14 DEF Record
    <2>15. CASE Observe(w)
      BY <2>15 DEF Observe
    <2>16. CASE Repause(w)
      BY <2>16 DEF Repause
    <2>17. CASE Disown(w)
      BY <2>17 DEF Disown
    <2>18. CASE Declare(w)
      BY <2>18 DEF Declare
    <2>19. CASE Finalize(w)
      BY <2>19 DEF Finalize
    <2>20. CASE Verify(w)
      BY <2>20 DEF Verify
    <2>21. CASE Fence(w)
      BY <2>21 DEF Fence
    <2>22. CASE Activate(w)
      BY <2>22 DEF Activate
    <2>23. CASE CheckActive(w)
      BY <2>23 DEF CheckActive
    <2>24. CASE RecheckSource(w)
      BY <2>24 DEF RecheckSource
    <2>25. CASE RenewForPause(w)
      BY <2>25 DEF RenewForPause
    <2>26. CASE PauseSource(w)
      BY <2>26 DEF PauseSource
    <2>27. CASE Confirm(w)
      BY <2>27 DEF Confirm
    <2>28. CASE Finish(w)
      BY <2>28 DEF Finish
    <2>29. CASE Fail(w)
      BY <2>29 DEF Fail
    <2>30. CASE Undo(w)
      BY <2>30 DEF Undo
    <2>31. CASE PauseBundle(w)
      BY <2>31 DEF PauseBundle
    <2>32. CASE Handle(w)
      BY <2>32 DEF Handle
    <2>33. QED
      BY <1>5, <2>1, <2>2, <2>3, <2>4, <2>5, <2>6, <2>7, <2>8, <2>9, <2>10, <2>11, <2>12,
            <2>13, <2>14, <2>15, <2>16, <2>17, <2>18, <2>19, <2>20, <2>21, <2>22, <2>23, <2>24,
            <2>25, <2>26, <2>27, <2>28, <2>29, <2>30, <2>31, <2>32 DEF Work
  <1>6. ASSUME NEW w \in Worker, WorkFault(w) PROVE FlagTypeOK'
    <2>1. CASE Crash(w)
      BY <2>1 DEF Crash
    <2>2. CASE StepFails(w)
      BY <2>2 DEF StepFails
    <2>3. CASE CallFails(w)
      BY <2>3, CallFailure
    <2>4. CASE FinishFails(w)
      BY <2>4 DEF FinishFails
    <2>5. ASSUME NEW reason \in {"transient", "failed"}, EarlyFails(w, reason) PROVE FlagTypeOK'
      BY <2>5 DEF EarlyFails
    <2>6. QED
      BY <1>6, <2>1, <2>2, <2>3, <2>4, <2>5 DEF WorkFault
  <1>7. CASE UNCHANGED vars
    BY <1>7 DEF vars
  <1>8. QED
    BY <1>1, <1>2, <1>3, <1>4, <1>5, <1>6, <1>7 DEF Next

\* The counts stay within their bounds.
LEMMA CountStep == TypeOK /\ OwnerKnows /\ [Next]_vars => CountTypeOK'
  <1> SUFFICES ASSUME TypeOK, OwnerKnows, [Next]_vars PROVE CountTypeOK'
    OBVIOUS
  <1> USE ReplacementAssumption DEF actionVars, genVars, leaseVars, progressVars, metaVars,
        workerVars, bounds, Done, Goto, GotoHandler, Settle, Abort, Broken, Expect, Fault,
        ExpireAction, ExpireGen, ExpirePub, Building, Swapping, Step, Outcome, TypeOK,
        CountTypeOK, OwnerKnows, Creating, Next1
  <1>1. CASE FounderSwitches
    BY <1>1 DEF FounderSwitches
  <1>2. CASE OrphanLeaseExpires
    BY <1>2 DEF OrphanLeaseExpires
  <1>3. CASE LeaseOverrun
    BY <1>3 DEF LeaseOverrun
  <1>4. CASE LateCall
    BY <1>4 DEF LateCall
  <1>5. ASSUME NEW w \in Worker, Work(w) PROVE CountTypeOK'
    <2>1. CASE Claim(w)
      BY <2>1 DEF Claim
    <2>2. CASE Begin(w)
      BY <2>2 DEF Begin
    <2>3. CASE Refuse(w)
      BY <2>3 DEF Refuse
    <2>4. CASE Approve(w)
      BY <2>4 DEF Approve
    <2>5. CASE ClaimGeneration(w)
      BY <2>5 DEF ClaimGeneration
    <2>6. CASE PersistDraft(w)
      BY <2>6 DEF PersistDraft
    <2>7. CASE ReadSource(w)
      BY <2>7 DEF ReadSource
    <2>8. CASE AcquirePublication(w)
      BY <2>8 DEF AcquirePublication
    <2>9. CASE Revalidate(w)
      BY <2>9 DEF Revalidate
    <2>10. CASE Shoot(w)
      BY <2>10 DEF Shoot
    <2>11. CASE Request(w)
      BY <2>11 DEF Request
    <2>12. CASE Look(w)
      BY <2>12 DEF Look
    <2>13. CASE Make(w)
      BY <2>13 DEF Make
    <2>14. CASE Record(w)
      BY <2>14 DEF Record
    <2>15. CASE Observe(w)
      BY <2>15 DEF Observe
    <2>16. CASE Repause(w)
      BY <2>16 DEF Repause
    <2>17. CASE Disown(w)
      BY <2>17 DEF Disown
    <2>18. CASE Declare(w)
      BY <2>18 DEF Declare
    <2>19. CASE Finalize(w)
      BY <2>19 DEF Finalize
    <2>20. CASE Verify(w)
      BY <2>20 DEF Verify
    <2>21. CASE Fence(w)
      BY <2>21 DEF Fence
    <2>22. CASE Activate(w)
      BY <2>22 DEF Activate
    <2>23. CASE CheckActive(w)
      BY <2>23 DEF CheckActive
    <2>24. CASE RecheckSource(w)
      BY <2>24 DEF RecheckSource
    <2>25. CASE RenewForPause(w)
      BY <2>25 DEF RenewForPause
    <2>26. CASE PauseSource(w)
      BY <2>26 DEF PauseSource
    <2>27. CASE Confirm(w)
      BY <2>27 DEF Confirm
    <2>28. CASE Finish(w)
      BY <2>28 DEF Finish
    <2>29. CASE Fail(w)
      BY <2>29 DEF Fail
    <2>30. CASE Undo(w)
      BY <2>30 DEF Undo
    <2>31. CASE PauseBundle(w)
      BY <2>31 DEF PauseBundle
    <2>32. CASE Handle(w)
      BY <2>32 DEF Handle
    <2>33. QED
      BY <1>5, <2>1, <2>2, <2>3, <2>4, <2>5, <2>6, <2>7, <2>8, <2>9, <2>10, <2>11, <2>12,
            <2>13, <2>14, <2>15, <2>16, <2>17, <2>18, <2>19, <2>20, <2>21, <2>22, <2>23, <2>24,
            <2>25, <2>26, <2>27, <2>28, <2>29, <2>30, <2>31, <2>32 DEF Work
  <1>6. ASSUME NEW w \in Worker, WorkFault(w) PROVE CountTypeOK'
    <2>1. CASE Crash(w)
      BY <2>1 DEF Crash
    <2>2. CASE StepFails(w)
      BY <2>2 DEF StepFails
    <2>3. CASE CallFails(w)
      BY <2>3, CallFailure
    <2>4. CASE FinishFails(w)
      BY <2>4 DEF FinishFails
    <2>5. ASSUME NEW reason \in {"transient", "failed"}, EarlyFails(w, reason)
          PROVE CountTypeOK'
      BY <2>5 DEF EarlyFails
    <2>6. QED
      BY <1>6, <2>1, <2>2, <2>3, <2>4, <2>5 DEF WorkFault
  <1>7. CASE UNCHANGED vars
    BY <1>7 DEF vars
  <1>8. QED
    BY <1>1, <1>2, <1>3, <1>4, <1>5, <1>6, <1>7 DEF Next

\* A part that is created is a part of the bundle.
LEMMA MadeTypeStep == TypeOK /\ OwnerKnows /\ [Next]_vars => MadeTypeOK'
  <1> SUFFICES ASSUME TypeOK, OwnerKnows, [Next]_vars PROVE MadeTypeOK'
    OBVIOUS
  <1> USE ReplacementAssumption DEF actionVars, genVars, leaseVars, progressVars, metaVars,
        workerVars, bounds, Done, Goto, GotoHandler, Settle, Abort, Broken, Expect, Fault,
        ExpireAction, ExpireGen, ExpirePub, Building, Swapping, Step, Outcome, TypeOK,
        MadeTypeOK, OwnerKnows, Creating
  <1>1. CASE FounderSwitches
    BY <1>1 DEF FounderSwitches
  <1>2. CASE OrphanLeaseExpires
    BY <1>2 DEF OrphanLeaseExpires
  <1>3. CASE LeaseOverrun
    BY <1>3 DEF LeaseOverrun
  <1>4. CASE LateCall
    BY <1>4 DEF LateCall
  <1>5. ASSUME NEW w \in Worker, Work(w) PROVE MadeTypeOK'
    <2>1. CASE Claim(w)
      BY <2>1 DEF Claim
    <2>2. CASE Begin(w)
      BY <2>2 DEF Begin
    <2>3. CASE Refuse(w)
      BY <2>3 DEF Refuse
    <2>4. CASE Approve(w)
      BY <2>4 DEF Approve
    <2>5. CASE ClaimGeneration(w)
      BY <2>5 DEF ClaimGeneration
    <2>6. CASE PersistDraft(w)
      BY <2>6 DEF PersistDraft
    <2>7. CASE ReadSource(w)
      BY <2>7 DEF ReadSource
    <2>8. CASE AcquirePublication(w)
      BY <2>8 DEF AcquirePublication
    <2>9. CASE Revalidate(w)
      BY <2>9 DEF Revalidate
    <2>10. CASE Shoot(w)
      BY <2>10 DEF Shoot
    <2>11. CASE Request(w)
      BY <2>11 DEF Request
    <2>12. CASE Look(w)
      BY <2>12 DEF Look
    <2>13. CASE Make(w)
      <3>1. Next1(w) \in Part
        BY <2>13, NextPart DEF Make
      <3>2. made' = [made EXCEPT ![Next1(w)] = @ + 1]
        BY <2>13 DEF Make
      <3> QED BY <3>1, <3>2, PartMade
    <2>14. CASE Record(w)
      BY <2>14 DEF Record
    <2>15. CASE Observe(w)
      BY <2>15 DEF Observe
    <2>16. CASE Repause(w)
      BY <2>16 DEF Repause
    <2>17. CASE Disown(w)
      BY <2>17 DEF Disown
    <2>18. CASE Declare(w)
      BY <2>18 DEF Declare
    <2>19. CASE Finalize(w)
      BY <2>19 DEF Finalize
    <2>20. CASE Verify(w)
      BY <2>20 DEF Verify
    <2>21. CASE Fence(w)
      BY <2>21 DEF Fence
    <2>22. CASE Activate(w)
      BY <2>22 DEF Activate
    <2>23. CASE CheckActive(w)
      BY <2>23 DEF CheckActive
    <2>24. CASE RecheckSource(w)
      BY <2>24 DEF RecheckSource
    <2>25. CASE RenewForPause(w)
      BY <2>25 DEF RenewForPause
    <2>26. CASE PauseSource(w)
      BY <2>26 DEF PauseSource
    <2>27. CASE Confirm(w)
      BY <2>27 DEF Confirm
    <2>28. CASE Finish(w)
      BY <2>28 DEF Finish
    <2>29. CASE Fail(w)
      BY <2>29 DEF Fail
    <2>30. CASE Undo(w)
      BY <2>30 DEF Undo
    <2>31. CASE PauseBundle(w)
      BY <2>31 DEF PauseBundle
    <2>32. CASE Handle(w)
      BY <2>32 DEF Handle
    <2>33. QED
      BY <1>5, <2>1, <2>2, <2>3, <2>4, <2>5, <2>6, <2>7, <2>8, <2>9, <2>10, <2>11, <2>12,
            <2>13, <2>14, <2>15, <2>16, <2>17, <2>18, <2>19, <2>20, <2>21, <2>22, <2>23, <2>24,
            <2>25, <2>26, <2>27, <2>28, <2>29, <2>30, <2>31, <2>32 DEF Work
  <1>6. ASSUME NEW w \in Worker, WorkFault(w) PROVE MadeTypeOK'
    <2>1. CASE Crash(w)
      BY <2>1 DEF Crash
    <2>2. CASE StepFails(w)
      BY <2>2 DEF StepFails
    <2>3. CASE CallFails(w)
      BY <2>3, CallFailure
    <2>4. CASE FinishFails(w)
      BY <2>4 DEF FinishFails
    <2>5. ASSUME NEW reason \in {"transient", "failed"}, EarlyFails(w, reason) PROVE MadeTypeOK'
      BY <2>5 DEF EarlyFails
    <2>6. QED
      BY <1>6, <2>1, <2>2, <2>3, <2>4, <2>5 DEF WorkFault
  <1>7. CASE UNCHANGED vars
    BY <1>7 DEF vars
  <1>8. QED
    BY <1>1, <1>2, <1>3, <1>4, <1>5, <1>6, <1>7 DEF Next

-----------------------------------------------------------------------------
(* One lemma per remaining conjunct of the inductive invariant.             *)

\* on is reset when an execution ends, and an ad is activated only when it is next.
LEMMA OrderStep == TypeOK /\ ActivatesInOrder /\ [Next]_vars => ActivatesInOrder'
  <1> SUFFICES ASSUME TypeOK, ActivatesInOrder, [Next]_vars PROVE ActivatesInOrder'
    OBVIOUS
  <1> USE ReplacementAssumption DEF actionVars, genVars, leaseVars, progressVars, metaVars,
        workerVars, bounds, Done, Goto, GotoHandler, Settle, Abort, Broken, Expect, Fault,
        ExpireAction, ExpireGen, ExpirePub, Building, Swapping, Step, Outcome, TypeOK,
        ActivatesInOrder
  <1>1. CASE FounderSwitches
    BY <1>1 DEF FounderSwitches
  <1>2. CASE OrphanLeaseExpires
    BY <1>2 DEF OrphanLeaseExpires
  <1>3. CASE LeaseOverrun
    BY <1>3 DEF LeaseOverrun
  <1>4. CASE LateCall
    BY <1>4 DEF LateCall
  <1>5. ASSUME NEW w \in Worker, Work(w) PROVE ActivatesInOrder'
    <2>1. CASE Claim(w)
      BY <2>1 DEF Claim
    <2>2. CASE Begin(w)
      BY <2>2 DEF Begin
    <2>3. CASE Refuse(w)
      BY <2>3 DEF Refuse
    <2>4. CASE Approve(w)
      BY <2>4 DEF Approve
    <2>5. CASE ClaimGeneration(w)
      BY <2>5 DEF ClaimGeneration
    <2>6. CASE PersistDraft(w)
      BY <2>6 DEF PersistDraft
    <2>7. CASE ReadSource(w)
      BY <2>7 DEF ReadSource
    <2>8. CASE AcquirePublication(w)
      BY <2>8 DEF AcquirePublication
    <2>9. CASE Revalidate(w)
      BY <2>9 DEF Revalidate
    <2>10. CASE Shoot(w)
      BY <2>10 DEF Shoot
    <2>11. CASE Request(w)
      BY <2>11 DEF Request
    <2>12. CASE Look(w)
      BY <2>12 DEF Look
    <2>13. CASE Make(w)
      BY <2>13 DEF Make
    <2>14. CASE Record(w)
      BY <2>14 DEF Record
    <2>15. CASE Observe(w)
      BY <2>15 DEF Observe
    <2>16. CASE Repause(w)
      BY <2>16 DEF Repause
    <2>17. CASE Disown(w)
      BY <2>17 DEF Disown
    <2>18. CASE Declare(w)
      BY <2>18 DEF Declare
    <2>19. CASE Finalize(w)
      BY <2>19 DEF Finalize
    <2>20. CASE Verify(w)
      BY <2>20 DEF Verify
    <2>21. CASE Fence(w)
      BY <2>21 DEF Fence
    <2>22. CASE Activate(w)
      BY <2>22 DEF Activate
    <2>23. CASE CheckActive(w)
      BY <2>23 DEF CheckActive
    <2>24. CASE RecheckSource(w)
      BY <2>24 DEF RecheckSource
    <2>25. CASE RenewForPause(w)
      BY <2>25 DEF RenewForPause
    <2>26. CASE PauseSource(w)
      BY <2>26 DEF PauseSource
    <2>27. CASE Confirm(w)
      BY <2>27 DEF Confirm
    <2>28. CASE Finish(w)
      BY <2>28 DEF Finish
    <2>29. CASE Fail(w)
      BY <2>29 DEF Fail
    <2>30. CASE Undo(w)
      BY <2>30 DEF Undo
    <2>31. CASE PauseBundle(w)
      BY <2>31 DEF PauseBundle
    <2>32. CASE Handle(w)
      BY <2>32 DEF Handle
    <2>33. QED
      BY <1>5, <2>1, <2>2, <2>3, <2>4, <2>5, <2>6, <2>7, <2>8, <2>9, <2>10, <2>11, <2>12,
            <2>13, <2>14, <2>15, <2>16, <2>17, <2>18, <2>19, <2>20, <2>21, <2>22, <2>23, <2>24,
            <2>25, <2>26, <2>27, <2>28, <2>29, <2>30, <2>31, <2>32 DEF Work
  <1>6. ASSUME NEW w \in Worker, WorkFault(w) PROVE ActivatesInOrder'
    <2>1. CASE Crash(w)
      BY <2>1 DEF Crash
    <2>2. CASE StepFails(w)
      BY <2>2 DEF StepFails
    <2>3. CASE CallFails(w)
      BY <2>3, CallFailure
    <2>4. CASE FinishFails(w)
      BY <2>4 DEF FinishFails
    <2>5. ASSUME NEW reason \in {"transient", "failed"}, EarlyFails(w, reason)
          PROVE ActivatesInOrder'
      BY <2>5 DEF EarlyFails
    <2>6. QED
      BY <1>6, <2>1, <2>2, <2>3, <2>4, <2>5 DEF WorkFault
  <1>7. CASE UNCHANGED vars
    BY <1>7 DEF vars
  <1>8. QED
    BY <1>1, <1>2, <1>3, <1>4, <1>5, <1>6, <1>7 DEF Next

\* Only PersistDraft inserts a draft, and it completes the generation with it.
LEMMA DraftStep == TypeOK /\ CompletedHasDraft /\ [Next]_vars => CompletedHasDraft'
  <1> SUFFICES ASSUME TypeOK, CompletedHasDraft, [Next]_vars PROVE CompletedHasDraft'
    OBVIOUS
  <1> USE ReplacementAssumption DEF actionVars, genVars, leaseVars, progressVars, metaVars,
        workerVars, bounds, Done, Goto, GotoHandler, Settle, Abort, Broken, Expect, Fault,
        ExpireAction, ExpireGen, ExpirePub, Building, Swapping, Step, Outcome, TypeOK,
        CompletedHasDraft
  <1>1. CASE FounderSwitches
    BY <1>1 DEF FounderSwitches
  <1>2. CASE OrphanLeaseExpires
    BY <1>2 DEF OrphanLeaseExpires
  <1>3. CASE LeaseOverrun
    BY <1>3 DEF LeaseOverrun
  <1>4. CASE LateCall
    BY <1>4 DEF LateCall
  <1>5. ASSUME NEW w \in Worker, Work(w) PROVE CompletedHasDraft'
    <2>1. CASE Claim(w)
      BY <2>1 DEF Claim
    <2>2. CASE Begin(w)
      BY <2>2 DEF Begin
    <2>3. CASE Refuse(w)
      BY <2>3 DEF Refuse
    <2>4. CASE Approve(w)
      BY <2>4 DEF Approve
    <2>5. CASE ClaimGeneration(w)
      BY <2>5 DEF ClaimGeneration
    <2>6. CASE PersistDraft(w)
      BY <2>6 DEF PersistDraft
    <2>7. CASE ReadSource(w)
      BY <2>7 DEF ReadSource
    <2>8. CASE AcquirePublication(w)
      BY <2>8 DEF AcquirePublication
    <2>9. CASE Revalidate(w)
      BY <2>9 DEF Revalidate
    <2>10. CASE Shoot(w)
      BY <2>10 DEF Shoot
    <2>11. CASE Request(w)
      BY <2>11 DEF Request
    <2>12. CASE Look(w)
      BY <2>12 DEF Look
    <2>13. CASE Make(w)
      BY <2>13 DEF Make
    <2>14. CASE Record(w)
      BY <2>14 DEF Record
    <2>15. CASE Observe(w)
      BY <2>15 DEF Observe
    <2>16. CASE Repause(w)
      BY <2>16 DEF Repause
    <2>17. CASE Disown(w)
      BY <2>17 DEF Disown
    <2>18. CASE Declare(w)
      BY <2>18 DEF Declare
    <2>19. CASE Finalize(w)
      BY <2>19 DEF Finalize
    <2>20. CASE Verify(w)
      BY <2>20 DEF Verify
    <2>21. CASE Fence(w)
      BY <2>21 DEF Fence
    <2>22. CASE Activate(w)
      BY <2>22 DEF Activate
    <2>23. CASE CheckActive(w)
      BY <2>23 DEF CheckActive
    <2>24. CASE RecheckSource(w)
      BY <2>24 DEF RecheckSource
    <2>25. CASE RenewForPause(w)
      BY <2>25 DEF RenewForPause
    <2>26. CASE PauseSource(w)
      BY <2>26 DEF PauseSource
    <2>27. CASE Confirm(w)
      BY <2>27 DEF Confirm
    <2>28. CASE Finish(w)
      BY <2>28 DEF Finish
    <2>29. CASE Fail(w)
      BY <2>29 DEF Fail
    <2>30. CASE Undo(w)
      BY <2>30 DEF Undo
    <2>31. CASE PauseBundle(w)
      BY <2>31 DEF PauseBundle
    <2>32. CASE Handle(w)
      BY <2>32 DEF Handle
    <2>33. QED
      BY <1>5, <2>1, <2>2, <2>3, <2>4, <2>5, <2>6, <2>7, <2>8, <2>9, <2>10, <2>11, <2>12,
            <2>13, <2>14, <2>15, <2>16, <2>17, <2>18, <2>19, <2>20, <2>21, <2>22, <2>23, <2>24,
            <2>25, <2>26, <2>27, <2>28, <2>29, <2>30, <2>31, <2>32 DEF Work
  <1>6. ASSUME NEW w \in Worker, WorkFault(w) PROVE CompletedHasDraft'
    <2>1. CASE Crash(w)
      BY <2>1 DEF Crash
    <2>2. CASE StepFails(w)
      BY <2>2 DEF StepFails
    <2>3. CASE CallFails(w)
      BY <2>3, CallFailure
    <2>4. CASE FinishFails(w)
      BY <2>4 DEF FinishFails
    <2>5. ASSUME NEW reason \in {"transient", "failed"}, EarlyFails(w, reason)
          PROVE CompletedHasDraft'
      BY <2>5 DEF EarlyFails
    <2>6. QED
      BY <1>6, <2>1, <2>2, <2>3, <2>4, <2>5 DEF WorkFault
  <1>7. CASE UNCHANGED vars
    BY <1>7 DEF vars
  <1>8. QED
    BY <1>1, <1>2, <1>3, <1>4, <1>5, <1>6, <1>7 DEF Next

\* Whoever opens or closes the action clears its holder.
LEMMA FreeStep == TypeOK /\ ClosedIsFree /\ [Next]_vars => ClosedIsFree'
  <1> SUFFICES ASSUME TypeOK, ClosedIsFree, [Next]_vars PROVE ClosedIsFree'
    OBVIOUS
  <1> USE ReplacementAssumption DEF actionVars, genVars, leaseVars, progressVars, metaVars,
        workerVars, bounds, Done, Goto, GotoHandler, Settle, Abort, Broken, Expect, Fault,
        ExpireAction, ExpireGen, ExpirePub, Building, Swapping, Step, Outcome, TypeOK,
        ClosedIsFree, Fenced, Holds, LiveForGeneration
  <1>1. CASE FounderSwitches
    BY <1>1 DEF FounderSwitches
  <1>2. CASE OrphanLeaseExpires
    BY <1>2 DEF OrphanLeaseExpires
  <1>3. CASE LeaseOverrun
    BY <1>3 DEF LeaseOverrun
  <1>4. CASE LateCall
    BY <1>4 DEF LateCall
  <1>5. ASSUME NEW w \in Worker, Work(w) PROVE ClosedIsFree'
    <2>1. CASE Claim(w)
      BY <2>1 DEF Claim
    <2>2. CASE Begin(w)
      BY <2>2 DEF Begin
    <2>3. CASE Refuse(w)
      BY <2>3 DEF Refuse
    <2>4. CASE Approve(w)
      BY <2>4 DEF Approve
    <2>5. CASE ClaimGeneration(w)
      BY <2>5 DEF ClaimGeneration
    <2>6. CASE PersistDraft(w)
      BY <2>6 DEF PersistDraft
    <2>7. CASE ReadSource(w)
      BY <2>7 DEF ReadSource
    <2>8. CASE AcquirePublication(w)
      BY <2>8 DEF AcquirePublication
    <2>9. CASE Revalidate(w)
      BY <2>9 DEF Revalidate
    <2>10. CASE Shoot(w)
      BY <2>10 DEF Shoot
    <2>11. CASE Request(w)
      BY <2>11 DEF Request
    <2>12. CASE Look(w)
      BY <2>12 DEF Look
    <2>13. CASE Make(w)
      BY <2>13 DEF Make
    <2>14. CASE Record(w)
      BY <2>14 DEF Record
    <2>15. CASE Observe(w)
      BY <2>15 DEF Observe
    <2>16. CASE Repause(w)
      BY <2>16 DEF Repause
    <2>17. CASE Disown(w)
      BY <2>17 DEF Disown
    <2>18. CASE Declare(w)
      BY <2>18 DEF Declare
    <2>19. CASE Finalize(w)
      BY <2>19 DEF Finalize
    <2>20. CASE Verify(w)
      BY <2>20 DEF Verify
    <2>21. CASE Fence(w)
      BY <2>21 DEF Fence
    <2>22. CASE Activate(w)
      BY <2>22 DEF Activate
    <2>23. CASE CheckActive(w)
      BY <2>23 DEF CheckActive
    <2>24. CASE RecheckSource(w)
      BY <2>24 DEF RecheckSource
    <2>25. CASE RenewForPause(w)
      BY <2>25 DEF RenewForPause
    <2>26. CASE PauseSource(w)
      BY <2>26 DEF PauseSource
    <2>27. CASE Confirm(w)
      BY <2>27 DEF Confirm
    <2>28. CASE Finish(w)
      BY <2>28 DEF Finish
    <2>29. CASE Fail(w)
      BY <2>29 DEF Fail
    <2>30. CASE Undo(w)
      BY <2>30 DEF Undo
    <2>31. CASE PauseBundle(w)
      BY <2>31 DEF PauseBundle
    <2>32. CASE Handle(w)
      BY <2>32 DEF Handle
    <2>33. QED
      BY <1>5, <2>1, <2>2, <2>3, <2>4, <2>5, <2>6, <2>7, <2>8, <2>9, <2>10, <2>11, <2>12,
            <2>13, <2>14, <2>15, <2>16, <2>17, <2>18, <2>19, <2>20, <2>21, <2>22, <2>23, <2>24,
            <2>25, <2>26, <2>27, <2>28, <2>29, <2>30, <2>31, <2>32 DEF Work
  <1>6. ASSUME NEW w \in Worker, WorkFault(w) PROVE ClosedIsFree'
    <2>1. CASE Crash(w)
      BY <2>1 DEF Crash
    <2>2. CASE StepFails(w)
      BY <2>2 DEF StepFails
    <2>3. CASE CallFails(w)
      BY <2>3, CallFailure
    <2>4. CASE FinishFails(w)
      BY <2>4 DEF FinishFails
    <2>5. ASSUME NEW reason \in {"transient", "failed"}, EarlyFails(w, reason)
          PROVE ClosedIsFree'
      BY <2>5 DEF EarlyFails
    <2>6. QED
      BY <1>6, <2>1, <2>2, <2>3, <2>4, <2>5 DEF WorkFault
  <1>7. CASE UNCHANGED vars
    BY <1>7 DEF vars
  <1>8. QED
    BY <1>1, <1>2, <1>3, <1>4, <1>5, <1>6, <1>7 DEF Next

\* An execution loses its action only to a worker that finds it crashed.
LEMMA HeldStep == TypeOK /\ ClosedIsFree /\ HeldUntilBlocked /\ [Next]_vars => HeldUntilBlocked'
  <1> SUFFICES ASSUME TypeOK, ClosedIsFree, HeldUntilBlocked, [Next]_vars
        PROVE HeldUntilBlocked'
    OBVIOUS
  <1> USE ReplacementAssumption DEF actionVars, genVars, leaseVars, progressVars, metaVars,
        workerVars, bounds, Done, Goto, GotoHandler, Settle, Abort, Broken, Expect, Fault,
        ExpireAction, ExpireGen, ExpirePub, Building, Swapping, Step, Outcome, TypeOK,
        ClosedIsFree, HeldUntilBlocked, Fenced, Holds, LiveForGeneration, Crashed
  <1>1. CASE FounderSwitches
    BY <1>1 DEF FounderSwitches
  <1>2. CASE OrphanLeaseExpires
    BY <1>2 DEF OrphanLeaseExpires
  <1>3. CASE LeaseOverrun
    BY <1>3 DEF LeaseOverrun
  <1>4. CASE LateCall
    BY <1>4 DEF LateCall
  <1>5. ASSUME NEW w \in Worker, Work(w) PROVE HeldUntilBlocked'
    <2>1. CASE Claim(w)
      BY <2>1 DEF Claim
    <2>2. CASE Begin(w)
      BY <2>2 DEF Begin
    <2>3. CASE Refuse(w)
      BY <2>3 DEF Refuse
    <2>4. CASE Approve(w)
      BY <2>4 DEF Approve
    <2>5. CASE ClaimGeneration(w)
      BY <2>5 DEF ClaimGeneration
    <2>6. CASE PersistDraft(w)
      BY <2>6 DEF PersistDraft
    <2>7. CASE ReadSource(w)
      BY <2>7 DEF ReadSource
    <2>8. CASE AcquirePublication(w)
      BY <2>8 DEF AcquirePublication
    <2>9. CASE Revalidate(w)
      BY <2>9 DEF Revalidate
    <2>10. CASE Shoot(w)
      BY <2>10 DEF Shoot
    <2>11. CASE Request(w)
      BY <2>11 DEF Request
    <2>12. CASE Look(w)
      BY <2>12 DEF Look
    <2>13. CASE Make(w)
      BY <2>13 DEF Make
    <2>14. CASE Record(w)
      BY <2>14 DEF Record
    <2>15. CASE Observe(w)
      BY <2>15 DEF Observe
    <2>16. CASE Repause(w)
      BY <2>16 DEF Repause
    <2>17. CASE Disown(w)
      BY <2>17 DEF Disown
    <2>18. CASE Declare(w)
      BY <2>18 DEF Declare
    <2>19. CASE Finalize(w)
      BY <2>19 DEF Finalize
    <2>20. CASE Verify(w)
      BY <2>20 DEF Verify
    <2>21. CASE Fence(w)
      BY <2>21 DEF Fence
    <2>22. CASE Activate(w)
      BY <2>22 DEF Activate
    <2>23. CASE CheckActive(w)
      BY <2>23 DEF CheckActive
    <2>24. CASE RecheckSource(w)
      BY <2>24 DEF RecheckSource
    <2>25. CASE RenewForPause(w)
      BY <2>25 DEF RenewForPause
    <2>26. CASE PauseSource(w)
      BY <2>26 DEF PauseSource
    <2>27. CASE Confirm(w)
      BY <2>27 DEF Confirm
    <2>28. CASE Finish(w)
      BY <2>28 DEF Finish
    <2>29. CASE Fail(w)
      BY <2>29 DEF Fail
    <2>30. CASE Undo(w)
      BY <2>30 DEF Undo
    <2>31. CASE PauseBundle(w)
      BY <2>31 DEF PauseBundle
    <2>32. CASE Handle(w)
      BY <2>32 DEF Handle
    <2>33. QED
      BY <1>5, <2>1, <2>2, <2>3, <2>4, <2>5, <2>6, <2>7, <2>8, <2>9, <2>10, <2>11, <2>12,
            <2>13, <2>14, <2>15, <2>16, <2>17, <2>18, <2>19, <2>20, <2>21, <2>22, <2>23, <2>24,
            <2>25, <2>26, <2>27, <2>28, <2>29, <2>30, <2>31, <2>32 DEF Work
  <1>6. ASSUME NEW w \in Worker, WorkFault(w) PROVE HeldUntilBlocked'
    <2>1. CASE Crash(w)
      BY <2>1 DEF Crash
    <2>2. CASE StepFails(w)
      BY <2>2 DEF StepFails
    <2>3. CASE CallFails(w)
      BY <2>3, CallFailure
    <2>4. CASE FinishFails(w)
      BY <2>4 DEF FinishFails
    <2>5. ASSUME NEW reason \in {"transient", "failed"}, EarlyFails(w, reason)
          PROVE HeldUntilBlocked'
      BY <2>5 DEF EarlyFails
    <2>6. QED
      BY <1>6, <2>1, <2>2, <2>3, <2>4, <2>5 DEF WorkFault
  <1>7. CASE UNCHANGED vars
    BY <1>7 DEF vars
  <1>8. QED
    BY <1>1, <1>2, <1>3, <1>4, <1>5, <1>6, <1>7 DEF Next

\* progress moves only with the lease of the publication, whose owner has read it.
LEMMA OwnerStep == TypeOK /\ OwnerKnows /\ [Next]_vars => OwnerKnows'
  <1> SUFFICES ASSUME TypeOK, OwnerKnows, [Next]_vars PROVE OwnerKnows'
    OBVIOUS
  <1> USE ReplacementAssumption DEF actionVars, genVars, leaseVars, progressVars, metaVars,
        workerVars, bounds, Done, Goto, GotoHandler, Settle, Abort, Broken, Expect, Fault,
        ExpireAction, ExpireGen, ExpirePub, Building, Swapping, Step, Outcome, TypeOK,
        OwnerKnows, Creating, OwnsPub, MayRecord, Next1
  <1>1. CASE FounderSwitches
    BY <1>1 DEF FounderSwitches
  <1>2. CASE OrphanLeaseExpires
    BY <1>2 DEF OrphanLeaseExpires
  <1>3. CASE LeaseOverrun
    BY <1>3 DEF LeaseOverrun
  <1>4. CASE LateCall
    BY <1>4 DEF LateCall
  <1>5. ASSUME NEW w \in Worker, Work(w) PROVE OwnerKnows'
    <2>1. CASE Claim(w)
      BY <2>1 DEF Claim
    <2>2. CASE Begin(w)
      BY <2>2 DEF Begin
    <2>3. CASE Refuse(w)
      BY <2>3 DEF Refuse
    <2>4. CASE Approve(w)
      BY <2>4 DEF Approve
    <2>5. CASE ClaimGeneration(w)
      BY <2>5 DEF ClaimGeneration
    <2>6. CASE PersistDraft(w)
      BY <2>6 DEF PersistDraft
    <2>7. CASE ReadSource(w)
      BY <2>7 DEF ReadSource
    <2>8. CASE AcquirePublication(w)
      BY <2>8 DEF AcquirePublication
    <2>9. CASE Revalidate(w)
      BY <2>9 DEF Revalidate
    <2>10. CASE Shoot(w)
      BY <2>10 DEF Shoot
    <2>11. CASE Request(w)
      BY <2>11 DEF Request
    <2>12. CASE Look(w)
      BY <2>12 DEF Look
    <2>13. CASE Make(w)
      BY <2>13 DEF Make
    <2>14. CASE Record(w)
      BY <2>14 DEF Record
    <2>15. CASE Observe(w)
      BY <2>15 DEF Observe
    <2>16. CASE Repause(w)
      BY <2>16 DEF Repause
    <2>17. CASE Disown(w)
      BY <2>17 DEF Disown
    <2>18. CASE Declare(w)
      BY <2>18 DEF Declare
    <2>19. CASE Finalize(w)
      BY <2>19 DEF Finalize
    <2>20. CASE Verify(w)
      BY <2>20 DEF Verify
    <2>21. CASE Fence(w)
      BY <2>21 DEF Fence
    <2>22. CASE Activate(w)
      BY <2>22 DEF Activate
    <2>23. CASE CheckActive(w)
      BY <2>23 DEF CheckActive
    <2>24. CASE RecheckSource(w)
      BY <2>24 DEF RecheckSource
    <2>25. CASE RenewForPause(w)
      BY <2>25 DEF RenewForPause
    <2>26. CASE PauseSource(w)
      BY <2>26 DEF PauseSource
    <2>27. CASE Confirm(w)
      BY <2>27 DEF Confirm
    <2>28. CASE Finish(w)
      BY <2>28 DEF Finish
    <2>29. CASE Fail(w)
      BY <2>29 DEF Fail
    <2>30. CASE Undo(w)
      BY <2>30 DEF Undo
    <2>31. CASE PauseBundle(w)
      BY <2>31 DEF PauseBundle
    <2>32. CASE Handle(w)
      BY <2>32 DEF Handle
    <2>33. QED
      BY <1>5, <2>1, <2>2, <2>3, <2>4, <2>5, <2>6, <2>7, <2>8, <2>9, <2>10, <2>11, <2>12,
            <2>13, <2>14, <2>15, <2>16, <2>17, <2>18, <2>19, <2>20, <2>21, <2>22, <2>23, <2>24,
            <2>25, <2>26, <2>27, <2>28, <2>29, <2>30, <2>31, <2>32 DEF Work
  <1>6. ASSUME NEW w \in Worker, WorkFault(w) PROVE OwnerKnows'
    <2>1. CASE Crash(w)
      BY <2>1 DEF Crash
    <2>2. CASE StepFails(w)
      BY <2>2 DEF StepFails
    <2>3. CASE CallFails(w)
      BY <2>3, CallFailure
    <2>4. CASE FinishFails(w)
      BY <2>4 DEF FinishFails
    <2>5. ASSUME NEW reason \in {"transient", "failed"}, EarlyFails(w, reason) PROVE OwnerKnows'
      BY <2>5 DEF EarlyFails
    <2>6. QED
      BY <1>6, <2>1, <2>2, <2>3, <2>4, <2>5 DEF WorkFault
  <1>7. CASE UNCHANGED vars
    BY <1>7 DEF vars
  <1>8. QED
    BY <1>1, <1>2, <1>3, <1>4, <1>5, <1>6, <1>7 DEF Next

\* A worker reaches the swap through a complete progress.
LEMMA SwapStep == TypeOK /\ OwnerKnows /\ SwapIsRecorded /\ [Next]_vars => SwapIsRecorded'
  <1> SUFFICES ASSUME TypeOK, OwnerKnows, SwapIsRecorded, [Next]_vars PROVE SwapIsRecorded'
    OBVIOUS
  <1> USE ReplacementAssumption DEF actionVars, genVars, leaseVars, progressVars, metaVars,
        workerVars, bounds, Done, Goto, GotoHandler, Settle, Abort, Broken, Expect, Fault,
        ExpireAction, ExpireGen, ExpirePub, Building, Swapping, Step, Outcome, TypeOK,
        OwnerKnows, Creating, OwnsPub, MayRecord, Next1, SwapIsRecorded
  <1>1. CASE FounderSwitches
    BY <1>1 DEF FounderSwitches
  <1>2. CASE OrphanLeaseExpires
    BY <1>2 DEF OrphanLeaseExpires
  <1>3. CASE LeaseOverrun
    BY <1>3 DEF LeaseOverrun
  <1>4. CASE LateCall
    BY <1>4 DEF LateCall
  <1>5. ASSUME NEW w \in Worker, Work(w) PROVE SwapIsRecorded'
    <2>1. CASE Claim(w)
      BY <2>1 DEF Claim
    <2>2. CASE Begin(w)
      BY <2>2 DEF Begin
    <2>3. CASE Refuse(w)
      BY <2>3 DEF Refuse
    <2>4. CASE Approve(w)
      BY <2>4 DEF Approve
    <2>5. CASE ClaimGeneration(w)
      BY <2>5 DEF ClaimGeneration
    <2>6. CASE PersistDraft(w)
      BY <2>6 DEF PersistDraft
    <2>7. CASE ReadSource(w)
      BY <2>7 DEF ReadSource
    <2>8. CASE AcquirePublication(w)
      BY <2>8 DEF AcquirePublication
    <2>9. CASE Revalidate(w)
      BY <2>9 DEF Revalidate
    <2>10. CASE Shoot(w)
      BY <2>10 DEF Shoot
    <2>11. CASE Request(w)
      BY <2>11 DEF Request
    <2>12. CASE Look(w)
      BY <2>12 DEF Look
    <2>13. CASE Make(w)
      BY <2>13 DEF Make
    <2>14. CASE Record(w)
      BY <2>14 DEF Record
    <2>15. CASE Observe(w)
      BY <2>15 DEF Observe
    <2>16. CASE Repause(w)
      BY <2>16 DEF Repause
    <2>17. CASE Disown(w)
      BY <2>17 DEF Disown
    <2>18. CASE Declare(w)
      BY <2>18 DEF Declare
    <2>19. CASE Finalize(w)
      BY <2>19 DEF Finalize
    <2>20. CASE Verify(w)
      BY <2>20 DEF Verify
    <2>21. CASE Fence(w)
      BY <2>21 DEF Fence
    <2>22. CASE Activate(w)
      BY <2>22 DEF Activate
    <2>23. CASE CheckActive(w)
      BY <2>23 DEF CheckActive
    <2>24. CASE RecheckSource(w)
      BY <2>24 DEF RecheckSource
    <2>25. CASE RenewForPause(w)
      BY <2>25 DEF RenewForPause
    <2>26. CASE PauseSource(w)
      BY <2>26 DEF PauseSource
    <2>27. CASE Confirm(w)
      BY <2>27 DEF Confirm
    <2>28. CASE Finish(w)
      BY <2>28 DEF Finish
    <2>29. CASE Fail(w)
      BY <2>29 DEF Fail
    <2>30. CASE Undo(w)
      BY <2>30 DEF Undo
    <2>31. CASE PauseBundle(w)
      BY <2>31 DEF PauseBundle
    <2>32. CASE Handle(w)
      BY <2>32 DEF Handle
    <2>33. QED
      BY <1>5, <2>1, <2>2, <2>3, <2>4, <2>5, <2>6, <2>7, <2>8, <2>9, <2>10, <2>11, <2>12,
            <2>13, <2>14, <2>15, <2>16, <2>17, <2>18, <2>19, <2>20, <2>21, <2>22, <2>23, <2>24,
            <2>25, <2>26, <2>27, <2>28, <2>29, <2>30, <2>31, <2>32 DEF Work
  <1>6. ASSUME NEW w \in Worker, WorkFault(w) PROVE SwapIsRecorded'
    <2>1. CASE Crash(w)
      BY <2>1 DEF Crash
    <2>2. CASE StepFails(w)
      BY <2>2 DEF StepFails
    <2>3. CASE CallFails(w)
      BY <2>3, CallFailure
    <2>4. CASE FinishFails(w)
      BY <2>4 DEF FinishFails
    <2>5. ASSUME NEW reason \in {"transient", "failed"}, EarlyFails(w, reason)
          PROVE SwapIsRecorded'
      BY <2>5 DEF EarlyFails
    <2>6. QED
      BY <1>6, <2>1, <2>2, <2>3, <2>4, <2>5 DEF WorkFault
  <1>7. CASE UNCHANGED vars
    BY <1>7 DEF vars
  <1>8. QED
    BY <1>1, <1>2, <1>3, <1>4, <1>5, <1>6, <1>7 DEF Next

\* A part is recorded after it was found or created, and nothing is deleted.
LEMMA RecordedStep == TypeOK /\ OwnerKnows /\ RecordedIsMade /\ [Next]_vars => RecordedIsMade'
  <1> SUFFICES ASSUME TypeOK, OwnerKnows, RecordedIsMade, [Next]_vars PROVE RecordedIsMade'
    OBVIOUS
  <1> USE ReplacementAssumption DEF actionVars, genVars, leaseVars, progressVars, metaVars,
        workerVars, bounds, Done, Goto, GotoHandler, Settle, Abort, Broken, Expect, Fault,
        ExpireAction, ExpireGen, ExpirePub, Building, Swapping, Step, Outcome, TypeOK,
        OwnerKnows, Creating, OwnsPub, MayRecord, Next1, RecordedIsMade, Part
  <1>1. CASE FounderSwitches
    BY <1>1 DEF FounderSwitches
  <1>2. CASE OrphanLeaseExpires
    BY <1>2 DEF OrphanLeaseExpires
  <1>3. CASE LeaseOverrun
    BY <1>3 DEF LeaseOverrun
  <1>4. CASE LateCall
    BY <1>4 DEF LateCall
  <1>5. ASSUME NEW w \in Worker, Work(w) PROVE RecordedIsMade'
    <2>1. CASE Claim(w)
      BY <2>1 DEF Claim
    <2>2. CASE Begin(w)
      BY <2>2 DEF Begin
    <2>3. CASE Refuse(w)
      BY <2>3 DEF Refuse
    <2>4. CASE Approve(w)
      BY <2>4 DEF Approve
    <2>5. CASE ClaimGeneration(w)
      BY <2>5 DEF ClaimGeneration
    <2>6. CASE PersistDraft(w)
      BY <2>6 DEF PersistDraft
    <2>7. CASE ReadSource(w)
      BY <2>7 DEF ReadSource
    <2>8. CASE AcquirePublication(w)
      BY <2>8 DEF AcquirePublication
    <2>9. CASE Revalidate(w)
      BY <2>9 DEF Revalidate
    <2>10. CASE Shoot(w)
      BY <2>10 DEF Shoot
    <2>11. CASE Request(w)
      BY <2>11 DEF Request
    <2>12. CASE Look(w)
      <3>1. Next1(w) \in Part /\ made[Next1(w)] \in Nat
        BY <2>12, NextPart DEF Look
      <3>2. \A v \in Worker : pc'[v] = "record" =>
                known'[v] = known[v] /\ made[Next1(v)] > 0
        BY <2>12, <3>1 DEF Look
      <3> QED BY <2>12, <3>2 DEF Look
    <2>13. CASE Make(w)
      <3>1. Next1(w) \in Part /\ made[Next1(w)] \in Nat
        BY <2>13, NextPart DEF Make
      <3>2. made'[Next1(w)] > 0 /\ \A p \in Part : made[p] > 0 => made'[p] > 0
        BY <2>13, <3>1 DEF Make
      <3> QED BY <2>13, <3>1, <3>2 DEF Make
    <2>14. CASE Record(w)
      <3>1. Next1(w) \in Part /\ made[Next1(w)] > 0
        BY <2>14, NextPart DEF Record
      <3>2. CASE MayRecord(w)
        <4>1. known[w] = recorded /\ recorded' = Next1(w)
          BY <2>14, <3>2 DEF Record
        <4>2. \A p \in Part : p <= recorded' => made[p] > 0
          <5>1. \A p \in Part : p <= recorded' => p <= recorded \/ p = Next1(w)
            BY <4>1
          <5>2. \A p \in Part : p <= recorded => made[p] > 0
            OBVIOUS
          <5> QED BY <3>1, <5>1, <5>2
        <4>3. \A v \in Worker : pc'[v] = "record" => pc[v] = "record" /\ known'[v] = known[v]
          BY <2>14, <3>2 DEF Record
        <4> QED BY <2>14, <4>2, <4>3 DEF Record
      <3>3. CASE ~MayRecord(w)
        BY <2>14, <3>1, <3>3 DEF Record
      <3> QED BY <3>2, <3>3
    <2>15. CASE Observe(w)
      BY <2>15 DEF Observe
    <2>16. CASE Repause(w)
      BY <2>16 DEF Repause
    <2>17. CASE Disown(w)
      BY <2>17 DEF Disown
    <2>18. CASE Declare(w)
      BY <2>18 DEF Declare
    <2>19. CASE Finalize(w)
      BY <2>19 DEF Finalize
    <2>20. CASE Verify(w)
      BY <2>20 DEF Verify
    <2>21. CASE Fence(w)
      BY <2>21 DEF Fence
    <2>22. CASE Activate(w)
      BY <2>22 DEF Activate
    <2>23. CASE CheckActive(w)
      BY <2>23 DEF CheckActive
    <2>24. CASE RecheckSource(w)
      BY <2>24 DEF RecheckSource
    <2>25. CASE RenewForPause(w)
      BY <2>25 DEF RenewForPause
    <2>26. CASE PauseSource(w)
      BY <2>26 DEF PauseSource
    <2>27. CASE Confirm(w)
      BY <2>27 DEF Confirm
    <2>28. CASE Finish(w)
      BY <2>28 DEF Finish
    <2>29. CASE Fail(w)
      BY <2>29 DEF Fail
    <2>30. CASE Undo(w)
      BY <2>30 DEF Undo
    <2>31. CASE PauseBundle(w)
      BY <2>31 DEF PauseBundle
    <2>32. CASE Handle(w)
      BY <2>32 DEF Handle
    <2>33. QED
      BY <1>5, <2>1, <2>2, <2>3, <2>4, <2>5, <2>6, <2>7, <2>8, <2>9, <2>10, <2>11, <2>12,
            <2>13, <2>14, <2>15, <2>16, <2>17, <2>18, <2>19, <2>20, <2>21, <2>22, <2>23, <2>24,
            <2>25, <2>26, <2>27, <2>28, <2>29, <2>30, <2>31, <2>32 DEF Work
  <1>6. ASSUME NEW w \in Worker, WorkFault(w) PROVE RecordedIsMade'
    <2>1. CASE Crash(w)
      BY <2>1 DEF Crash
    <2>2. CASE StepFails(w)
      BY <2>2 DEF StepFails
    <2>3. CASE CallFails(w)
      <3>1. pc[w] = "make" => Next1(w) \in Part
        BY NextPart
      <3>2. \A p \in Part : made[p] > 0 => made'[p] > 0
        <4>1. CASE pc[w] = "make"
          <5>1. made' = [made EXCEPT ![Next1(w)] = @ + 1]
            BY <2>3, <4>1, CallFailure
          <5>2. Next1(w) \in Part
            BY <3>1, <4>1
          <5> QED BY <5>1, <5>2, PartMade
        <4> QED BY <2>3, <4>1, CallFailure
      <3>3. \A v \in Worker : pc'[v] = "record" =>
                pc[v] = "record" /\ known'[v] = known[v] /\ Next1(v) \in Part
        BY <2>3, NextPart, CallFailure
      <3> QED BY <2>3, <3>2, <3>3, CallFailure
    <2>4. CASE FinishFails(w)
      BY <2>4 DEF FinishFails
    <2>5. ASSUME NEW reason \in {"transient", "failed"}, EarlyFails(w, reason)
          PROVE RecordedIsMade'
      BY <2>5 DEF EarlyFails
    <2>6. QED
      BY <1>6, <2>1, <2>2, <2>3, <2>4, <2>5 DEF WorkFault
  <1>7. CASE UNCHANGED vars
    BY <1>7 DEF vars
  <1>8. QED
    BY <1>1, <1>2, <1>3, <1>4, <1>5, <1>6, <1>7 DEF Next

\* Ads are activated in the swap, or by the founder once the bundle is complete.
LEMMA ServingStep ==
    TypeOK /\ OwnerKnows /\ SwapIsRecorded /\ ServingIsKnown /\ [Next]_vars => ServingIsKnown'
  <1> SUFFICES ASSUME TypeOK, OwnerKnows, SwapIsRecorded, ServingIsKnown, [Next]_vars
        PROVE ServingIsKnown'
    OBVIOUS
  <1> USE ReplacementAssumption DEF actionVars, genVars, leaseVars, progressVars, metaVars,
        workerVars, bounds, Done, Goto, GotoHandler, Settle, Abort, Broken, Expect, Fault,
        ExpireAction, ExpireGen, ExpirePub, Building, Swapping, Step, Outcome, TypeOK,
        OwnerKnows, Creating, OwnsPub, MayRecord, Next1, SwapIsRecorded, ServingIsKnown
  <1>1. CASE FounderSwitches
    BY <1>1 DEF FounderSwitches
  <1>2. CASE OrphanLeaseExpires
    BY <1>2 DEF OrphanLeaseExpires
  <1>3. CASE LeaseOverrun
    BY <1>3 DEF LeaseOverrun
  <1>4. CASE LateCall
    BY <1>4 DEF LateCall
  <1>5. ASSUME NEW w \in Worker, Work(w) PROVE ServingIsKnown'
    <2>1. CASE Claim(w)
      BY <2>1 DEF Claim
    <2>2. CASE Begin(w)
      BY <2>2 DEF Begin
    <2>3. CASE Refuse(w)
      BY <2>3 DEF Refuse
    <2>4. CASE Approve(w)
      BY <2>4 DEF Approve
    <2>5. CASE ClaimGeneration(w)
      BY <2>5 DEF ClaimGeneration
    <2>6. CASE PersistDraft(w)
      BY <2>6 DEF PersistDraft
    <2>7. CASE ReadSource(w)
      BY <2>7 DEF ReadSource
    <2>8. CASE AcquirePublication(w)
      BY <2>8 DEF AcquirePublication
    <2>9. CASE Revalidate(w)
      BY <2>9 DEF Revalidate
    <2>10. CASE Shoot(w)
      BY <2>10 DEF Shoot
    <2>11. CASE Request(w)
      BY <2>11 DEF Request
    <2>12. CASE Look(w)
      BY <2>12 DEF Look
    <2>13. CASE Make(w)
      BY <2>13 DEF Make
    <2>14. CASE Record(w)
      BY <2>14 DEF Record
    <2>15. CASE Observe(w)
      BY <2>15 DEF Observe
    <2>16. CASE Repause(w)
      BY <2>16 DEF Repause
    <2>17. CASE Disown(w)
      BY <2>17 DEF Disown
    <2>18. CASE Declare(w)
      BY <2>18 DEF Declare
    <2>19. CASE Finalize(w)
      BY <2>19 DEF Finalize
    <2>20. CASE Verify(w)
      BY <2>20 DEF Verify
    <2>21. CASE Fence(w)
      BY <2>21 DEF Fence
    <2>22. CASE Activate(w)
      BY <2>22 DEF Activate
    <2>23. CASE CheckActive(w)
      BY <2>23 DEF CheckActive
    <2>24. CASE RecheckSource(w)
      BY <2>24 DEF RecheckSource
    <2>25. CASE RenewForPause(w)
      BY <2>25 DEF RenewForPause
    <2>26. CASE PauseSource(w)
      BY <2>26 DEF PauseSource
    <2>27. CASE Confirm(w)
      BY <2>27 DEF Confirm
    <2>28. CASE Finish(w)
      BY <2>28 DEF Finish
    <2>29. CASE Fail(w)
      BY <2>29 DEF Fail
    <2>30. CASE Undo(w)
      BY <2>30 DEF Undo
    <2>31. CASE PauseBundle(w)
      BY <2>31 DEF PauseBundle
    <2>32. CASE Handle(w)
      BY <2>32 DEF Handle
    <2>33. QED
      BY <1>5, <2>1, <2>2, <2>3, <2>4, <2>5, <2>6, <2>7, <2>8, <2>9, <2>10, <2>11, <2>12,
            <2>13, <2>14, <2>15, <2>16, <2>17, <2>18, <2>19, <2>20, <2>21, <2>22, <2>23, <2>24,
            <2>25, <2>26, <2>27, <2>28, <2>29, <2>30, <2>31, <2>32 DEF Work
  <1>6. ASSUME NEW w \in Worker, WorkFault(w) PROVE ServingIsKnown'
    <2>1. CASE Crash(w)
      BY <2>1 DEF Crash
    <2>2. CASE StepFails(w)
      BY <2>2 DEF StepFails
    <2>3. CASE CallFails(w)
      BY <2>3, CallFailure
    <2>4. CASE FinishFails(w)
      BY <2>4 DEF FinishFails
    <2>5. ASSUME NEW reason \in {"transient", "failed"}, EarlyFails(w, reason)
          PROVE ServingIsKnown'
      BY <2>5 DEF EarlyFails
    <2>6. QED
      BY <1>6, <2>1, <2>2, <2>3, <2>4, <2>5 DEF WorkFault
  <1>7. CASE UNCHANGED vars
    BY <1>7 DEF vars
  <1>8. QED
    BY <1>1, <1>2, <1>3, <1>4, <1>5, <1>6, <1>7 DEF Next

\* The lease is checked right before a call, and then only runs out late.
LEMMA CallStep == TypeOK /\ ClosedIsFree /\ CallsAreFenced /\ [Next]_vars => CallsAreFenced'
  <1> SUFFICES ASSUME TypeOK, ClosedIsFree, CallsAreFenced, [Next]_vars PROVE CallsAreFenced'
    OBVIOUS
  <1> USE ReplacementAssumption DEF actionVars, genVars, leaseVars, progressVars, metaVars,
        workerVars, bounds, Done, Goto, GotoHandler, Settle, Abort, Broken, Expect, Fault,
        ExpireAction, ExpireGen, ExpirePub, Building, Swapping, Step, Outcome, TypeOK,
        ClosedIsFree, CallsAreFenced, InCall, Holds, Fenced, LiveClaim, LiveForGeneration,
        MayRecord, Busy
  <1>1. CASE FounderSwitches
    BY <1>1 DEF FounderSwitches
  <1>2. CASE OrphanLeaseExpires
    BY <1>2 DEF OrphanLeaseExpires
  <1>3. CASE LeaseOverrun
    BY <1>3 DEF LeaseOverrun
  <1>4. CASE LateCall
    BY <1>4 DEF LateCall
  <1>5. ASSUME NEW w \in Worker, Work(w) PROVE CallsAreFenced'
    <2>1. CASE Claim(w)
      BY <2>1 DEF Claim
    <2>2. CASE Begin(w)
      BY <2>2 DEF Begin
    <2>3. CASE Refuse(w)
      BY <2>3 DEF Refuse
    <2>4. CASE Approve(w)
      BY <2>4 DEF Approve
    <2>5. CASE ClaimGeneration(w)
      BY <2>5 DEF ClaimGeneration
    <2>6. CASE PersistDraft(w)
      BY <2>6 DEF PersistDraft
    <2>7. CASE ReadSource(w)
      BY <2>7 DEF ReadSource
    <2>8. CASE AcquirePublication(w)
      BY <2>8 DEF AcquirePublication
    <2>9. CASE Revalidate(w)
      BY <2>9 DEF Revalidate
    <2>10. CASE Shoot(w)
      BY <2>10 DEF Shoot
    <2>11. CASE Request(w)
      BY <2>11 DEF Request
    <2>12. CASE Look(w)
      BY <2>12 DEF Look
    <2>13. CASE Make(w)
      BY <2>13 DEF Make
    <2>14. CASE Record(w)
      BY <2>14 DEF Record
    <2>15. CASE Observe(w)
      BY <2>15 DEF Observe
    <2>16. CASE Repause(w)
      BY <2>16 DEF Repause
    <2>17. CASE Disown(w)
      BY <2>17 DEF Disown
    <2>18. CASE Declare(w)
      BY <2>18 DEF Declare
    <2>19. CASE Finalize(w)
      BY <2>19 DEF Finalize
    <2>20. CASE Verify(w)
      BY <2>20 DEF Verify
    <2>21. CASE Fence(w)
      BY <2>21 DEF Fence
    <2>22. CASE Activate(w)
      BY <2>22 DEF Activate
    <2>23. CASE CheckActive(w)
      BY <2>23 DEF CheckActive
    <2>24. CASE RecheckSource(w)
      BY <2>24 DEF RecheckSource
    <2>25. CASE RenewForPause(w)
      BY <2>25 DEF RenewForPause
    <2>26. CASE PauseSource(w)
      BY <2>26 DEF PauseSource
    <2>27. CASE Confirm(w)
      BY <2>27 DEF Confirm
    <2>28. CASE Finish(w)
      BY <2>28 DEF Finish
    <2>29. CASE Fail(w)
      BY <2>29 DEF Fail
    <2>30. CASE Undo(w)
      BY <2>30 DEF Undo
    <2>31. CASE PauseBundle(w)
      BY <2>31 DEF PauseBundle
    <2>32. CASE Handle(w)
      BY <2>32 DEF Handle
    <2>33. QED
      BY <1>5, <2>1, <2>2, <2>3, <2>4, <2>5, <2>6, <2>7, <2>8, <2>9, <2>10, <2>11, <2>12,
            <2>13, <2>14, <2>15, <2>16, <2>17, <2>18, <2>19, <2>20, <2>21, <2>22, <2>23, <2>24,
            <2>25, <2>26, <2>27, <2>28, <2>29, <2>30, <2>31, <2>32 DEF Work
  <1>6. ASSUME NEW w \in Worker, WorkFault(w) PROVE CallsAreFenced'
    <2>1. CASE Crash(w)
      BY <2>1 DEF Crash
    <2>2. CASE StepFails(w)
      BY <2>2 DEF StepFails
    <2>3. CASE CallFails(w)
      BY <2>3, CallFailure
    <2>4. CASE FinishFails(w)
      BY <2>4 DEF FinishFails
    <2>5. ASSUME NEW reason \in {"transient", "failed"}, EarlyFails(w, reason)
          PROVE CallsAreFenced'
      BY <2>5 DEF EarlyFails
    <2>6. QED
      BY <1>6, <2>1, <2>2, <2>3, <2>4, <2>5 DEF WorkFault
  <1>7. CASE UNCHANGED vars
    BY <1>7 DEF vars
  <1>8. QED
    BY <1>1, <1>2, <1>3, <1>4, <1>5, <1>6, <1>7 DEF Next

\* A part is created after a lookup that found none, by the holder alone.
LEMMA MadeStep == TypeOK /\ OwnerKnows /\ CallsAreFenced /\ MadeOnce /\ [Next]_vars => MadeOnce'
  <1> SUFFICES ASSUME TypeOK, OwnerKnows, CallsAreFenced, MadeOnce, [Next]_vars PROVE MadeOnce'
    OBVIOUS
  <1> USE ReplacementAssumption DEF actionVars, genVars, leaseVars, progressVars, metaVars,
        workerVars, bounds, Done, Goto, GotoHandler, Settle, Abort, Broken, Expect, Fault,
        ExpireAction, ExpireGen, ExpirePub, Building, Swapping, Step, Outcome, TypeOK,
        OwnerKnows, Creating, CallsAreFenced, MadeOnce, InCall, Holds, Next1, Part
  <1>1. CASE FounderSwitches
    BY <1>1 DEF FounderSwitches
  <1>2. CASE OrphanLeaseExpires
    BY <1>2 DEF OrphanLeaseExpires
  <1>3. CASE LeaseOverrun
    BY <1>3 DEF LeaseOverrun
  <1>4. CASE LateCall
    BY <1>4 DEF LateCall
  <1>5. ASSUME NEW w \in Worker, Work(w) PROVE MadeOnce'
    <2>1. CASE Claim(w)
      BY <2>1 DEF Claim
    <2>2. CASE Begin(w)
      BY <2>2 DEF Begin
    <2>3. CASE Refuse(w)
      BY <2>3 DEF Refuse
    <2>4. CASE Approve(w)
      BY <2>4 DEF Approve
    <2>5. CASE ClaimGeneration(w)
      BY <2>5 DEF ClaimGeneration
    <2>6. CASE PersistDraft(w)
      BY <2>6 DEF PersistDraft
    <2>7. CASE ReadSource(w)
      BY <2>7 DEF ReadSource
    <2>8. CASE AcquirePublication(w)
      BY <2>8 DEF AcquirePublication
    <2>9. CASE Revalidate(w)
      BY <2>9 DEF Revalidate
    <2>10. CASE Shoot(w)
      BY <2>10 DEF Shoot
    <2>11. CASE Request(w)
      BY <2>11 DEF Request
    <2>12. CASE Look(w)
      BY <2>12 DEF Look
    <2>13. CASE Make(w)
      BY <2>13 DEF Make
    <2>14. CASE Record(w)
      BY <2>14 DEF Record
    <2>15. CASE Observe(w)
      BY <2>15 DEF Observe
    <2>16. CASE Repause(w)
      BY <2>16 DEF Repause
    <2>17. CASE Disown(w)
      BY <2>17 DEF Disown
    <2>18. CASE Declare(w)
      BY <2>18 DEF Declare
    <2>19. CASE Finalize(w)
      BY <2>19 DEF Finalize
    <2>20. CASE Verify(w)
      BY <2>20 DEF Verify
    <2>21. CASE Fence(w)
      BY <2>21 DEF Fence
    <2>22. CASE Activate(w)
      BY <2>22 DEF Activate
    <2>23. CASE CheckActive(w)
      BY <2>23 DEF CheckActive
    <2>24. CASE RecheckSource(w)
      BY <2>24 DEF RecheckSource
    <2>25. CASE RenewForPause(w)
      BY <2>25 DEF RenewForPause
    <2>26. CASE PauseSource(w)
      BY <2>26 DEF PauseSource
    <2>27. CASE Confirm(w)
      BY <2>27 DEF Confirm
    <2>28. CASE Finish(w)
      BY <2>28 DEF Finish
    <2>29. CASE Fail(w)
      BY <2>29 DEF Fail
    <2>30. CASE Undo(w)
      BY <2>30 DEF Undo
    <2>31. CASE PauseBundle(w)
      BY <2>31 DEF PauseBundle
    <2>32. CASE Handle(w)
      BY <2>32 DEF Handle
    <2>33. QED
      BY <1>5, <2>1, <2>2, <2>3, <2>4, <2>5, <2>6, <2>7, <2>8, <2>9, <2>10, <2>11, <2>12,
            <2>13, <2>14, <2>15, <2>16, <2>17, <2>18, <2>19, <2>20, <2>21, <2>22, <2>23, <2>24,
            <2>25, <2>26, <2>27, <2>28, <2>29, <2>30, <2>31, <2>32 DEF Work
  <1>6. ASSUME NEW w \in Worker, WorkFault(w) PROVE MadeOnce'
    <2>1. CASE Crash(w)
      BY <2>1 DEF Crash
    <2>2. CASE StepFails(w)
      BY <2>2 DEF StepFails
    <2>3. CASE CallFails(w)
      <3>1. CASE pc[w] = "make"
        <4>1. made' = [made EXCEPT ![Next1(w)] = @ + 1]
          BY <2>3, <3>1, CallFailure
        <4>2. Next1(w) \in Part
          BY <3>1, NextPart
        <4>4. lateCalls = 0 => made[Next1(w)] = 0 /\ \A p \in Part : made[p] <= 1
          BY <3>1
        <4>3. lateCalls = 0 => \A p \in Part : made'[p] <= 1
          BY <4>1, <4>2, <4>4, PartMade
        <4>5. \A v \in Worker : pc'[v] = "make" => v # w /\ pc[v] = "make"
              /\ known'[v] = known[v]
          BY <2>3, <3>1, CallFailure
        <4>6. lateCalls = 0 => ~ \E v \in Worker : v # w /\ pc[v] = "make"
          BY <3>1
        <4>7. lateCalls' = lateCalls
          BY <2>3, CallFailure
        <4> QED BY <4>3, <4>5, <4>6, <4>7
      <3>2. CASE pc[w] # "make"
        <4>1. made' = made /\ lateCalls' = lateCalls
          BY <2>3, <3>2, CallFailure
        <4>2. \A v \in Worker : pc'[v] = "make" => pc[v] = "make" /\ known'[v] = known[v]
          BY <2>3, CallFailure
        <4> QED BY <4>1, <4>2
      <3> QED BY <3>1, <3>2
    <2>4. CASE FinishFails(w)
      BY <2>4 DEF FinishFails
    <2>5. ASSUME NEW reason \in {"transient", "failed"}, EarlyFails(w, reason) PROVE MadeOnce'
      BY <2>5 DEF EarlyFails
    <2>6. QED
      BY <1>6, <2>1, <2>2, <2>3, <2>4, <2>5 DEF WorkFault
  <1>7. CASE UNCHANGED vars
    BY <1>7 DEF vars
  <1>8. QED
    BY <1>1, <1>2, <1>3, <1>4, <1>5, <1>6, <1>7 DEF Next

\* What the holder has read of Meta is changed by it alone.
LEMMA HolderStep ==
    TypeOK /\ ClosedIsFree /\ CallsAreFenced /\ HolderSwaps /\ [Next]_vars => HolderSwaps'
  <1> SUFFICES ASSUME TypeOK, ClosedIsFree, CallsAreFenced, HolderSwaps, [Next]_vars
        PROVE HolderSwaps'
    OBVIOUS
  <1> USE ReplacementAssumption DEF actionVars, genVars, leaseVars, progressVars, metaVars,
        workerVars, bounds, Done, Goto, GotoHandler, Settle, Abort, Broken, Expect, Fault,
        ExpireAction, ExpireGen, ExpirePub, Building, Swapping, Step, Outcome, TypeOK,
        ClosedIsFree, CallsAreFenced, HolderSwaps, InCall, Holds, Fenced, LiveForGeneration
  <1>1. CASE FounderSwitches
    BY <1>1 DEF FounderSwitches
  <1>2. CASE OrphanLeaseExpires
    BY <1>2 DEF OrphanLeaseExpires
  <1>3. CASE LeaseOverrun
    BY <1>3 DEF LeaseOverrun
  <1>4. CASE LateCall
    BY <1>4 DEF LateCall
  <1>5. ASSUME NEW w \in Worker, Work(w) PROVE HolderSwaps'
    <2>1. CASE Claim(w)
      BY <2>1 DEF Claim
    <2>2. CASE Begin(w)
      BY <2>2 DEF Begin
    <2>3. CASE Refuse(w)
      BY <2>3 DEF Refuse
    <2>4. CASE Approve(w)
      BY <2>4 DEF Approve
    <2>5. CASE ClaimGeneration(w)
      BY <2>5 DEF ClaimGeneration
    <2>6. CASE PersistDraft(w)
      BY <2>6 DEF PersistDraft
    <2>7. CASE ReadSource(w)
      BY <2>7 DEF ReadSource
    <2>8. CASE AcquirePublication(w)
      BY <2>8 DEF AcquirePublication
    <2>9. CASE Revalidate(w)
      BY <2>9 DEF Revalidate
    <2>10. CASE Shoot(w)
      BY <2>10 DEF Shoot
    <2>11. CASE Request(w)
      BY <2>11 DEF Request
    <2>12. CASE Look(w)
      BY <2>12 DEF Look
    <2>13. CASE Make(w)
      BY <2>13 DEF Make
    <2>14. CASE Record(w)
      BY <2>14 DEF Record
    <2>15. CASE Observe(w)
      BY <2>15 DEF Observe
    <2>16. CASE Repause(w)
      BY <2>16 DEF Repause
    <2>17. CASE Disown(w)
      BY <2>17 DEF Disown
    <2>18. CASE Declare(w)
      BY <2>18 DEF Declare
    <2>19. CASE Finalize(w)
      BY <2>19 DEF Finalize
    <2>20. CASE Verify(w)
      BY <2>20 DEF Verify
    <2>21. CASE Fence(w)
      BY <2>21 DEF Fence
    <2>22. CASE Activate(w)
      BY <2>22 DEF Activate
    <2>23. CASE CheckActive(w)
      BY <2>23 DEF CheckActive
    <2>24. CASE RecheckSource(w)
      BY <2>24 DEF RecheckSource
    <2>25. CASE RenewForPause(w)
      BY <2>25 DEF RenewForPause
    <2>26. CASE PauseSource(w)
      BY <2>26 DEF PauseSource
    <2>27. CASE Confirm(w)
      BY <2>27 DEF Confirm
    <2>28. CASE Finish(w)
      BY <2>28 DEF Finish
    <2>29. CASE Fail(w)
      BY <2>29 DEF Fail
    <2>30. CASE Undo(w)
      BY <2>30 DEF Undo
    <2>31. CASE PauseBundle(w)
      BY <2>31 DEF PauseBundle
    <2>32. CASE Handle(w)
      BY <2>32 DEF Handle
    <2>33. QED
      BY <1>5, <2>1, <2>2, <2>3, <2>4, <2>5, <2>6, <2>7, <2>8, <2>9, <2>10, <2>11, <2>12,
            <2>13, <2>14, <2>15, <2>16, <2>17, <2>18, <2>19, <2>20, <2>21, <2>22, <2>23, <2>24,
            <2>25, <2>26, <2>27, <2>28, <2>29, <2>30, <2>31, <2>32 DEF Work
  <1>6. ASSUME NEW w \in Worker, WorkFault(w) PROVE HolderSwaps'
    <2>1. CASE Crash(w)
      BY <2>1 DEF Crash
    <2>2. CASE StepFails(w)
      BY <2>2 DEF StepFails
    <2>3. CASE CallFails(w)
      <3>1. lateCalls = 0 => Holds(w)
        BY <2>3, CallFailure
      <3>2. UNCHANGED <<holder, live, status, lateCalls, edits>>
        BY <2>3, CallFailure
      <3>3. lateCalls' = 0 => \A v \in Worker : Fenced(v)' => v = w
        BY <3>1, <3>2
      <3>4. pc'[w] \notin {"recheck", "pause", "pausing", "confirm", "finish"}
        BY <2>3, CallFailure
      <3> QED BY <3>3, <3>4
    <2>4. CASE FinishFails(w)
      BY <2>4 DEF FinishFails
    <2>5. ASSUME NEW reason \in {"transient", "failed"}, EarlyFails(w, reason)
          PROVE HolderSwaps'
      BY <2>5 DEF EarlyFails
    <2>6. QED
      BY <1>6, <2>1, <2>2, <2>3, <2>4, <2>5 DEF WorkFault
  <1>7. CASE UNCHANGED vars
    BY <1>7 DEF vars
  <1>8. QED
    BY <1>1, <1>2, <1>3, <1>4, <1>5, <1>6, <1>7 DEF Next

\* The action succeeds from the last step of the swap.
LEMMA SwappedStep ==
    TypeOK /\ ClosedIsFree /\ CallsAreFenced /\ HolderSwaps /\ SucceededIsSwapped
       /\ [Next]_vars => SucceededIsSwapped'
  <1> SUFFICES ASSUME TypeOK, ClosedIsFree, CallsAreFenced, HolderSwaps, SucceededIsSwapped,
        [Next]_vars PROVE SucceededIsSwapped'
    OBVIOUS
  <1> USE ReplacementAssumption DEF actionVars, genVars, leaseVars, progressVars, metaVars,
        workerVars, bounds, Done, Goto, GotoHandler, Settle, Abort, Broken, Expect, Fault,
        ExpireAction, ExpireGen, ExpirePub, Building, Swapping, Step, Outcome, TypeOK,
        ClosedIsFree, CallsAreFenced, HolderSwaps, SucceededIsSwapped, InCall, Holds, Fenced,
        LiveForGeneration
  <1>1. CASE FounderSwitches
    BY <1>1 DEF FounderSwitches
  <1>2. CASE OrphanLeaseExpires
    BY <1>2 DEF OrphanLeaseExpires
  <1>3. CASE LeaseOverrun
    BY <1>3 DEF LeaseOverrun
  <1>4. CASE LateCall
    BY <1>4 DEF LateCall
  <1>5. ASSUME NEW w \in Worker, Work(w) PROVE SucceededIsSwapped'
    <2>1. CASE Claim(w)
      BY <2>1 DEF Claim
    <2>2. CASE Begin(w)
      BY <2>2 DEF Begin
    <2>3. CASE Refuse(w)
      BY <2>3 DEF Refuse
    <2>4. CASE Approve(w)
      BY <2>4 DEF Approve
    <2>5. CASE ClaimGeneration(w)
      BY <2>5 DEF ClaimGeneration
    <2>6. CASE PersistDraft(w)
      BY <2>6 DEF PersistDraft
    <2>7. CASE ReadSource(w)
      BY <2>7 DEF ReadSource
    <2>8. CASE AcquirePublication(w)
      BY <2>8 DEF AcquirePublication
    <2>9. CASE Revalidate(w)
      BY <2>9 DEF Revalidate
    <2>10. CASE Shoot(w)
      BY <2>10 DEF Shoot
    <2>11. CASE Request(w)
      BY <2>11 DEF Request
    <2>12. CASE Look(w)
      BY <2>12 DEF Look
    <2>13. CASE Make(w)
      BY <2>13 DEF Make
    <2>14. CASE Record(w)
      BY <2>14 DEF Record
    <2>15. CASE Observe(w)
      BY <2>15 DEF Observe
    <2>16. CASE Repause(w)
      BY <2>16 DEF Repause
    <2>17. CASE Disown(w)
      BY <2>17 DEF Disown
    <2>18. CASE Declare(w)
      BY <2>18 DEF Declare
    <2>19. CASE Finalize(w)
      BY <2>19 DEF Finalize
    <2>20. CASE Verify(w)
      BY <2>20 DEF Verify
    <2>21. CASE Fence(w)
      BY <2>21 DEF Fence
    <2>22. CASE Activate(w)
      BY <2>22 DEF Activate
    <2>23. CASE CheckActive(w)
      BY <2>23 DEF CheckActive
    <2>24. CASE RecheckSource(w)
      BY <2>24 DEF RecheckSource
    <2>25. CASE RenewForPause(w)
      BY <2>25 DEF RenewForPause
    <2>26. CASE PauseSource(w)
      BY <2>26 DEF PauseSource
    <2>27. CASE Confirm(w)
      BY <2>27 DEF Confirm
    <2>28. CASE Finish(w)
      BY <2>28 DEF Finish
    <2>29. CASE Fail(w)
      BY <2>29 DEF Fail
    <2>30. CASE Undo(w)
      BY <2>30 DEF Undo
    <2>31. CASE PauseBundle(w)
      BY <2>31 DEF PauseBundle
    <2>32. CASE Handle(w)
      BY <2>32 DEF Handle
    <2>33. QED
      BY <1>5, <2>1, <2>2, <2>3, <2>4, <2>5, <2>6, <2>7, <2>8, <2>9, <2>10, <2>11, <2>12,
            <2>13, <2>14, <2>15, <2>16, <2>17, <2>18, <2>19, <2>20, <2>21, <2>22, <2>23, <2>24,
            <2>25, <2>26, <2>27, <2>28, <2>29, <2>30, <2>31, <2>32 DEF Work
  <1>6. ASSUME NEW w \in Worker, WorkFault(w) PROVE SucceededIsSwapped'
    <2>1. CASE Crash(w)
      BY <2>1 DEF Crash
    <2>2. CASE StepFails(w)
      BY <2>2 DEF StepFails
    <2>3. CASE CallFails(w)
      BY <2>3, CallFailure
    <2>4. CASE FinishFails(w)
      BY <2>4 DEF FinishFails
    <2>5. ASSUME NEW reason \in {"transient", "failed"}, EarlyFails(w, reason)
          PROVE SucceededIsSwapped'
      BY <2>5 DEF EarlyFails
    <2>6. QED
      BY <1>6, <2>1, <2>2, <2>3, <2>4, <2>5 DEF WorkFault
  <1>7. CASE UNCHANGED vars
    BY <1>7 DEF vars
  <1>8. QED
    BY <1>1, <1>2, <1>3, <1>4, <1>5, <1>6, <1>7 DEF Next

\* An action that was never blocked goes back to the queue from an early step.
LEMMA CleanStep ==
    TypeOK /\ ClosedIsFree /\ HeldUntilBlocked /\ RecordedIsMade /\ CleanUntilBuilt
       /\ [Next]_vars => CleanUntilBuilt'
  <1> SUFFICES ASSUME TypeOK, ClosedIsFree, HeldUntilBlocked, RecordedIsMade, CleanUntilBuilt,
        [Next]_vars PROVE CleanUntilBuilt'
    OBVIOUS
  <1> USE ReplacementAssumption DEF actionVars, genVars, leaseVars, progressVars, metaVars,
        workerVars, bounds, Done, Goto, GotoHandler, Settle, Abort, Broken, Expect, Fault,
        ExpireAction, ExpireGen, ExpirePub, Building, Swapping, Step, Outcome, TypeOK,
        ClosedIsFree, HeldUntilBlocked, RecordedIsMade, CleanUntilBuilt, Clean, Early, Fenced,
        Holds, LiveForGeneration, Crashed, Part
  <1>1. CASE FounderSwitches
    BY <1>1 DEF FounderSwitches
  <1>2. CASE OrphanLeaseExpires
    BY <1>2 DEF OrphanLeaseExpires
  <1>3. CASE LeaseOverrun
    BY <1>3 DEF LeaseOverrun
  <1>4. CASE LateCall
    BY <1>4 DEF LateCall
  <1>5. ASSUME NEW w \in Worker, Work(w) PROVE CleanUntilBuilt'
    <2>1. CASE Claim(w)
      BY <2>1 DEF Claim
    <2>2. CASE Begin(w)
      BY <2>2 DEF Begin
    <2>3. CASE Refuse(w)
      BY <2>3 DEF Refuse
    <2>4. CASE Approve(w)
      BY <2>4 DEF Approve
    <2>5. CASE ClaimGeneration(w)
      BY <2>5 DEF ClaimGeneration
    <2>6. CASE PersistDraft(w)
      BY <2>6 DEF PersistDraft
    <2>7. CASE ReadSource(w)
      BY <2>7 DEF ReadSource
    <2>8. CASE AcquirePublication(w)
      BY <2>8 DEF AcquirePublication
    <2>9. CASE Revalidate(w)
      BY <2>9 DEF Revalidate
    <2>10. CASE Shoot(w)
      BY <2>10 DEF Shoot
    <2>11. CASE Request(w)
      BY <2>11 DEF Request
    <2>12. CASE Look(w)
      BY <2>12 DEF Look
    <2>13. CASE Make(w)
      BY <2>13 DEF Make
    <2>14. CASE Record(w)
      BY <2>14 DEF Record
    <2>15. CASE Observe(w)
      BY <2>15 DEF Observe
    <2>16. CASE Repause(w)
      BY <2>16 DEF Repause
    <2>17. CASE Disown(w)
      BY <2>17 DEF Disown
    <2>18. CASE Declare(w)
      BY <2>18 DEF Declare
    <2>19. CASE Finalize(w)
      BY <2>19 DEF Finalize
    <2>20. CASE Verify(w)
      BY <2>20 DEF Verify
    <2>21. CASE Fence(w)
      BY <2>21 DEF Fence
    <2>22. CASE Activate(w)
      BY <2>22 DEF Activate
    <2>23. CASE CheckActive(w)
      BY <2>23 DEF CheckActive
    <2>24. CASE RecheckSource(w)
      BY <2>24 DEF RecheckSource
    <2>25. CASE RenewForPause(w)
      BY <2>25 DEF RenewForPause
    <2>26. CASE PauseSource(w)
      BY <2>26 DEF PauseSource
    <2>27. CASE Confirm(w)
      BY <2>27 DEF Confirm
    <2>28. CASE Finish(w)
      BY <2>28 DEF Finish
    <2>29. CASE Fail(w)
      BY <2>29 DEF Fail
    <2>30. CASE Undo(w)
      BY <2>30 DEF Undo
    <2>31. CASE PauseBundle(w)
      BY <2>31 DEF PauseBundle
    <2>32. CASE Handle(w)
      BY <2>32 DEF Handle
    <2>33. QED
      BY <1>5, <2>1, <2>2, <2>3, <2>4, <2>5, <2>6, <2>7, <2>8, <2>9, <2>10, <2>11, <2>12,
            <2>13, <2>14, <2>15, <2>16, <2>17, <2>18, <2>19, <2>20, <2>21, <2>22, <2>23, <2>24,
            <2>25, <2>26, <2>27, <2>28, <2>29, <2>30, <2>31, <2>32 DEF Work
  <1>6. ASSUME NEW w \in Worker, WorkFault(w) PROVE CleanUntilBuilt'
    <2>1. CASE Crash(w)
      BY <2>1 DEF Crash
    <2>2. CASE StepFails(w)
      BY <2>2 DEF StepFails
    <2>3. CASE CallFails(w)
      <3>1. ~blocked => holder = w /\ status = "executing"
        BY CallFailure, <2>3
      <3>2. ~Early(w)'
        BY <2>3, CallFailure
      <3>3. UNCHANGED <<status, holder, live, blocked>>
        BY <2>3, CallFailure
      <3> QED BY <3>1, <3>2, <3>3
    <2>4. CASE FinishFails(w)
      BY <2>4 DEF FinishFails
    <2>5. ASSUME NEW reason \in {"transient", "failed"}, EarlyFails(w, reason)
          PROVE CleanUntilBuilt'
      BY <2>5 DEF EarlyFails
    <2>6. QED
      BY <1>6, <2>1, <2>2, <2>3, <2>4, <2>5 DEF WorkFault
  <1>7. CASE UNCHANGED vars
    BY <1>7 DEF vars
  <1>8. QED
    BY <1>1, <1>2, <1>3, <1>4, <1>5, <1>6, <1>7 DEF Next

-----------------------------------------------------------------------------
(* The theorems.                                                            *)

\* The initial state satisfies the inductive invariant.
LEMMA InitInv == Init => IInv
  <1> SUFFICES ASSUME Init PROVE IInv
    OBVIOUS
  <1> USE ReplacementAssumption DEF Init
  <1>1. TypeOK
    <2>1. PlaceTypeOK /\ MindTypeOK
      BY DEF PlaceTypeOK, MindTypeOK, Step
    <2>2. RowTypeOK /\ FlagTypeOK
      BY DEF RowTypeOK, FlagTypeOK
    <2>3. CountTypeOK /\ MadeTypeOK
      BY DEF CountTypeOK, MadeTypeOK
    <2> QED BY <2>1, <2>2, <2>3 DEF TypeOK, PlaceTypeOK, MindTypeOK, RowTypeOK, FlagTypeOK,
                                    CountTypeOK, MadeTypeOK
  <1>2. CompletedHasDraft /\ ClosedIsFree /\ HeldUntilBlocked /\ ActivatesInOrder
    BY DEF CompletedHasDraft, ClosedIsFree, HeldUntilBlocked, ActivatesInOrder
  <1>3. OwnerKnows /\ SwapIsRecorded /\ RecordedIsMade /\ ServingIsKnown
    BY DEF OwnerKnows, SwapIsRecorded, RecordedIsMade, ServingIsKnown, Creating, Swapping, Part
  <1>4. CallsAreFenced /\ MadeOnce /\ HolderSwaps
    BY DEF CallsAreFenced, MadeOnce, HolderSwaps, InCall, Part
  <1>5. SucceededIsSwapped /\ CleanUntilBuilt
    BY DEF SucceededIsSwapped, CleanUntilBuilt, Clean, Part
  <1> QED BY <1>1, <1>2, <1>3, <1>4, <1>5 DEF IInv

\* Every step keeps the type invariant.
LEMMA TypeStep == TypeOK /\ OwnerKnows /\ ActivatesInOrder /\ [Next]_vars => TypeOK'
  <1> SUFFICES ASSUME TypeOK, OwnerKnows, ActivatesInOrder, [Next]_vars PROVE TypeOK'
    OBVIOUS
  <1>1. PlaceTypeOK' /\ MindTypeOK' /\ RowTypeOK' /\ FlagTypeOK' /\ CountTypeOK' /\ MadeTypeOK'
    BY PlaceStep, MindStep, RowStep, FlagStep, CountStep, MadeTypeStep
  <1> QED BY <1>1 DEF TypeOK, PlaceTypeOK, MindTypeOK, RowTypeOK, FlagTypeOK, CountTypeOK,
        MadeTypeOK

\* Every step keeps the inductive invariant.
LEMMA NextInv == IInv /\ [Next]_vars => IInv'
  <1> SUFFICES ASSUME IInv, [Next]_vars PROVE IInv'
    OBVIOUS
  <1> USE DEF IInv
  <1>1. TypeOK'
    BY TypeStep
  <1>2. CompletedHasDraft' /\ ClosedIsFree' /\ HeldUntilBlocked' /\ ActivatesInOrder'
    BY DraftStep, FreeStep, HeldStep, OrderStep
  <1>3. OwnerKnows' /\ SwapIsRecorded' /\ RecordedIsMade' /\ ServingIsKnown'
    BY OwnerStep, SwapStep, RecordedStep, ServingStep
  <1>4. CallsAreFenced' /\ MadeOnce' /\ HolderSwaps'
    BY CallStep, MadeStep, HolderStep
  <1>5. SucceededIsSwapped' /\ CleanUntilBuilt'
    BY SwappedStep, CleanStep
  <1> QED BY <1>1, <1>2, <1>3, <1>4, <1>5

\* The inductive invariant holds in every reachable state.
THEOREM Invariance == Spec => []IInv
  <1>1. QED BY InitInv, NextInv, PTL DEF Spec

\* Every variable keeps its type: no count passes its bound and no part beyond
\* the bundle is created.
THEOREM TypeCorrect == Spec => []TypeOK
  <1>1. IInv => TypeOK
    BY DEF IInv
  <1>2. QED BY Invariance, <1>1, PTL

\* One draft and one resource per part, whatever workers crash, overrun their
\* leases, lose answers or take over (replacements._claim_generation,
\* meta_pipeline.publish_replacement_paused).
THEOREM Uniqueness == Spec => []OneOfEach
  <1>1. IInv => OneOfEach
    BY DEF IInv, CompletedHasDraft, MadeOnce, OneOfEach
  <1>2. QED BY Invariance, <1>1, PTL

\* Whatever serves is recorded and exists, so that a successor can pause it.
THEOREM Recoverable == Spec => []ServingIsRecorded
  <1>1. IInv => ServingIsRecorded
    <2> SUFFICES ASSUME IInv, active > 0
                 PROVE  recorded = Parts /\ \A p \in Part : made[p] > 0
      BY DEF ServingIsRecorded
    <2>1. recorded = Parts
      BY DEF IInv, ServingIsKnown
    <2>2. \A p \in Part : p <= recorded
      BY <2>1, ReplacementAssumption DEF Part
    <2> QED BY <2>1, <2>2 DEF IInv, RecordedIsMade
  <1>2. QED BY Invariance, <1>1, PTL

\* A success means that the new ads serve and the source does not
\* (executor._replace up to finish_action).
THEOREM Swapped == Spec => []SucceededIsSwapped
  <1>1. IInv => SucceededIsSwapped
    BY DEF IInv
  <1>2. QED BY Invariance, <1>1, PTL

\* What is tried again or dropped without ever being blocked left no trace in
\* Meta (the handlers of executor.execute_action).
THEOREM Retried == Spec => []RetriedIsClean
  <1>1. IInv => RetriedIsClean
    BY DEF IInv, CleanUntilBuilt, Clean, RetriedIsClean
  <1>2. QED BY Invariance, <1>1, PTL

\* A step of the agent that pauses the source is taken by the holder of the
\* action, while the whole bundle serves (executor._replace).
LEMMA PauseStep ==
    ASSUME IInv, Next, edits = 0, lateCalls = 0, source = "active", source' = "paused",
           edits' = edits
    PROVE  active = Ads /\ \E w \in Worker : pc[w] = "pausing" /\ Fenced(w)
  <1> USE DEF IInv
  <1>1. PICK w \in Worker : PauseSource(w) \/ (CallFails(w) /\ pc[w] = "pausing")
    <2>1. ~FounderSwitches
      BY DEF FounderSwitches, TypeOK
    <2>2. ~(OrphanLeaseExpires \/ LeaseOverrun \/ LateCall)
      BY DEF OrphanLeaseExpires, LeaseOverrun, LateCall, metaVars
    <2>3. PICK w \in Worker : Work(w) \/ WorkFault(w)
      BY <2>1, <2>2 DEF Next
    <2>4. CASE Work(w)
      <3> USE DEF metaVars, Settle, Expect
      <3>1. ~(Claim(w) \/ Begin(w) \/ Refuse(w) \/ Approve(w) \/ ClaimGeneration(w)
              \/ PersistDraft(w) \/ ReadSource(w) \/ AcquirePublication(w) \/ Revalidate(w))
        BY DEF Claim, Begin, Refuse, Approve, ClaimGeneration, PersistDraft, ReadSource,
               AcquirePublication, Revalidate
      <3>2. ~(Shoot(w) \/ Request(w) \/ Look(w) \/ Make(w) \/ Record(w) \/ Observe(w)
              \/ Repause(w) \/ Disown(w) \/ Declare(w) \/ Finalize(w))
        BY DEF Shoot, Request, Look, Make, Record, Observe, Repause, Disown, Declare, Finalize
      <3>3. ~(Verify(w) \/ Fence(w) \/ Activate(w) \/ CheckActive(w) \/ RecheckSource(w)
              \/ RenewForPause(w) \/ Confirm(w) \/ Finish(w) \/ Fail(w) \/ Undo(w)
              \/ PauseBundle(w) \/ Handle(w))
        BY DEF Verify, Fence, Activate, CheckActive, RecheckSource, RenewForPause, Confirm,
               Finish, Fail, Undo, PauseBundle, Handle
      <3> QED BY <2>4, <3>1, <3>2, <3>3 DEF Work
    <2>5. CASE WorkFault(w)
      <3>1. ~(Crash(w) \/ StepFails(w) \/ FinishFails(w)
              \/ \E reason \in {"transient", "failed"} : EarlyFails(w, reason))
        BY DEF Crash, StepFails, FinishFails, EarlyFails, metaVars
      <3>2. CallFails(w)
        BY <2>5, <3>1 DEF WorkFault
      <3> QED BY <3>2, CallFailure
    <2> QED BY <2>3, <2>4, <2>5
  <1>2. pc[w] = "pausing"
    BY <1>1 DEF PauseSource
  <1>3. Fenced(w)
    BY <1>2 DEF CallsAreFenced, InCall, Fenced
  <1> QED BY <1>2, <1>3 DEF HolderSwaps

\* The action property follows from the inductive invariant.
THEOREM PausedUnderTheLease == Spec => SourceOutlivesSwap
  <1>1. IInv /\ [Next]_vars =>
          [edits = 0 /\ lateCalls = 0 /\ source = "active" /\ source' = "paused"
                /\ edits' = edits =>
             active = Ads /\ \E w \in Worker : pc[w] = "pausing" /\ Fenced(w)]_vars
    BY PauseStep
  <1>2. QED BY Invariance, <1>1, PTL DEF Spec, SourceOutlivesSwap

=============================================================================
