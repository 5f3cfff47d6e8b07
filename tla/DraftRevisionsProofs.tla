------------------------ MODULE DraftRevisionsProofs ------------------------
(***************************************************************************)
(* Proofs about DraftRevisions for any number of workers, replies,         *)
(* revisions and attempts: the inductive invariant IInv, the safety        *)
(* properties it implies, and the implementation of DraftLineage.          *)
(***************************************************************************)
EXTENDS DraftRevisions, TLAPS, WellFoundedInduction

-----------------------------------------------------------------------------
(* The oldest reply of a batch.                                             *)

BelowOnNat == {p \in Nat \X Nat : p[1] < p[2]}

\* The order of the naturals, written as a set of pairs, is well founded.
LEMMA BelowWellFounded == IsWellFoundedOn(BelowOnNat, Nat)
<1>1. OpToRel(<, Nat) = BelowOnNat
  BY DEF OpToRel, BelowOnNat
<1>2. QED
  BY <1>1, NatLessThanWellFounded, Zenon

\* Every nonempty set of naturals has a least element.
LEMMA LeastElement ==
  ASSUME NEW S \in SUBSET Nat, S # {}
  PROVE  \E x \in S : \A y \in S : x <= y
<1>1. PICK x \in S : \A y \in S : ~ (<<y, x>> \in BelowOnNat)
  BY WFMin, BelowWellFounded, Zenon
<1>2. \A y \in S : <<y, x>> \in BelowOnNat <=> y < x
  BY DEF BelowOnNat
<1>3. \A y \in S : x <= y
  <2> TAKE y \in S
  <2>1. ~ (y < x)
    BY <1>1, <1>2
  <2>2. x \in Nat /\ y \in Nat
    OBVIOUS
  <2> QED
    BY <2>1, <2>2
<1>4. QED
  BY <1>3

\* A batch has an oldest reply, and it is one of the batch.
LEMMA FirstOfBatch ==
  ASSUME NEW B \in SUBSET Feedback, B # {}
  PROVE  FirstOf(B) \in B
<1>1. B \in SUBSET Nat
  BY FeedbackAssumption
<1>2. \E f \in B : \A g \in B : f <= g
  BY <1>1, LeastElement
<1>3. QED
  BY <1>2 DEF FirstOf

-----------------------------------------------------------------------------
(* The inductive invariant.                                                 *)

\* A thread starts with its root draft alone, no reply and no lease.
LEMMA InitIInv == Init => IInv
<1> SUFFICES ASSUME Init
             PROVE  IInv
  OBVIOUS
<1> USE DEF Init
<1>1. TypeOK
  <2>1. /\ status \in [Draft -> DraftStatus]
        /\ rev \in [Draft -> Nat]
        /\ parent \in [Draft -> Draft]
        /\ pred \in [Worker -> Draft]
    BY BoundsAssumption DEF Draft, DraftStatus
  <2>2. /\ source \in [Draft -> SUBSET Feedback]
        /\ outbox \subseteq [draft : Draft, key : Feedback]
        /\ batch \in [Worker -> SUBSET Feedback]
    OBVIOUS
  <2>3. /\ fbStatus \in [Feedback -> FeedbackStatus]
        /\ fbOwner \in [Feedback -> Worker \cup {NoWorker}]
        /\ fbLive \subseteq Feedback
        /\ fbAttempts \in [Feedback -> 0 .. MaxAttempts]
        /\ fbCategory \in [Feedback -> {"none", "operational", "permanent"}]
        /\ aged \subseteq Feedback
        /\ backoff \in [Feedback -> Feedback \cup {0}]
    BY BoundsAssumption DEF FeedbackStatus
  <2>4. /\ binding \in {"unbound", "bound"}
        /\ leaseOwner \in Worker \cup {NoWorker}
        /\ leaseExpiry \in {"past", "future"}
        /\ pc \in [Worker -> Step]
        /\ faults \in 0 .. MaxFaults
    BY BoundsAssumption DEF Step
  <2>5. QED
    BY <2>1, <2>2, <2>3, <2>4 DEF TypeOK
<1>2. NumberedLine
  BY BoundsAssumption DEF NumberedLine, Exists, Draft
<1>3. AppliedExactlyOnce /\ SourcesOfDrafts
  BY DEF AppliedExactlyOnce, SourcesOfDrafts, Exists
<1>4. LeaseGuardsBatch /\ ProcessingIsLeased /\ HolderHasAll
  BY DEF LeaseGuardsBatch, ProcessingIsLeased, HolderHasAll
<1>5. QED
  BY <1>1, <1>2, <1>3, <1>4 DEF IInv

\* The types of what a worker keeps in memory and of the lease row.
WorkerTypeOK ==
    /\ pc \in [Worker -> Step]
    /\ batch \in [Worker -> SUBSET Feedback]
    /\ pred \in [Worker -> Draft]

\* Moving on or finishing keeps the types of a worker's memory.
LEMMA WorkerTypes ==
  ASSUME TypeOK, NEW w \in Worker,
         Done(w) \/ \E step \in Step : Goto(w, step)
  PROVE  WorkerTypeOK'
<1>1. 0 \in Draft
  BY BoundsAssumption DEF Draft
<1>2. "idle" \in Step
  BY DEF Step
<1>3. QED
  BY <1>1, <1>2 DEF Done, Goto, TypeOK, WorkerTypeOK

\* Deleting the lease row keeps the types of its columns.
LEMMA LeaseTypes ==
  ASSUME TypeOK, NEW w \in Worker, DropLease(w)
  PROVE  /\ leaseOwner' \in Worker \cup {NoWorker}
         /\ leaseExpiry' \in {"past", "future"}
BY DEF DropLease, TypeOK

\* Counting a fault stays within the bound.
LEMMA FaultTypes ==
  ASSUME TypeOK, faults < MaxFaults, faults' = faults + 1
  PROVE  faults' \in 0 .. MaxFaults
BY BoundsAssumption DEF TypeOK

\* Every step keeps the types.  A batch of a worker at work is not empty, so
\* that the oldest of its replies names the message and the backoff group.
LEMMA TypeStep ==
  ASSUME TypeOK, HolderHasAll, [Next]_vars
  PROVE  TypeOK'
<1> USE DEF TypeOK
<1>1. ASSUME BindRoot \/ DebounceElapses \/ OrphanLeaseExpires \/ HeartbeatStalls
      PROVE  TypeOK'
  BY <1>1, BoundsAssumption DEF BindRoot, DebounceElapses, OrphanLeaseExpires, HeartbeatStalls,
     ExpireLease, draftVars, fbVars, leaseVars, workerVars
<1>2. ASSUME NEW f \in Feedback, Reply(f) \/ RetryFailed(f) \/ BackoffElapses(f)
      PROVE  TypeOK'
  BY <1>2 DEF Reply, RetryFailed, BackoffElapses, FeedbackStatus,
     draftVars, fbVars, leaseVars, workerVars
<1>3. ASSUME NEW d \in Draft, NEW verdict \in {"approved", "rejected"},
             Decide(d, verdict) \/ Publish(d)
      PROVE  TypeOK'
  BY <1>3 DEF Decide, Publish, DraftStatus, draftVars, fbVars, leaseVars, workerVars
<1>4. ASSUME NEW w \in Worker, Claim(w)
      PROVE  TypeOK'
  BY <1>4, BoundsAssumption DEF Claim, LeaseFree, Due, Expired, FeedbackStatus, Step, draftVars
<1>5. ASSUME NEW w \in Worker, NEW outcome \in {"persisting", "permanent"},
             Load(w) \/ LoadFails(w) \/ Generate(w, outcome) \/ OperationalError(w)
             \/ PersistConflict(w) \/ PersistRefused(w) \/ GiveUp(w) \/ Renew(w)
      PROVE  TypeOK'
  <2>1. CASE Load(w) \/ Renew(w)
    BY <2>1 DEF Load, Renew, Queued, Step, draftVars, fbVars, leaseVars, workerVars
  <2>2. CASE ~(Load(w) \/ Renew(w))
    <3>1. Done(w) \/ \E step \in Step : Goto(w, step)
      BY <1>5, <2>2 DEF LoadFails, Generate, OperationalError, PersistConflict,
         PersistRefused, GiveUp, Step
    <3>2. WorkerTypeOK'
      BY <3>1, WorkerTypes
    <3>3. QED
      BY <1>5, <2>2, <3>2 DEF WorkerTypeOK, LoadFails, Generate, OperationalError,
         PersistConflict, PersistRefused, GiveUp, draftVars, fbVars, leaseVars
  <2>3. QED
    BY <2>1, <2>2
<1>6. ASSUME NEW w \in Worker, Requeue(w) \/ Cancel(w) \/ Crash(w)
      PROVE  TypeOK'
  <2>1. WorkerTypeOK'
    BY <1>6, WorkerTypes DEF Requeue, Cancel, Crash, ReturnBatch
  <2>2. faults' \in 0 .. MaxFaults
    BY <1>6, FaultTypes DEF Requeue, Cancel, Crash
  <2>3. CASE Requeue(w) \/ Cancel(w)
    BY <2>1, <2>2, <2>3, LeaseTypes
       DEF Requeue, Cancel, ReturnBatch, WorkerTypeOK, FeedbackStatus, draftVars
  <2>4. CASE Crash(w)
    BY <2>1, <2>2, <2>4 DEF Crash, WorkerTypeOK, draftVars, fbVars, leaseVars
  <2>5. QED
    BY <1>6, <2>3, <2>4
<1>7. ASSUME NEW w \in Worker, Retry(w) \/ Fail(w)
      PROVE  TypeOK'
  <2>1. FirstOf(batch[w]) \in Feedback
    BY <1>7, FirstOfBatch DEF HolderHasAll, Retry, Fail
  <2>2. WorkerTypeOK'
    BY <1>7, WorkerTypes DEF Retry, Fail
  <2>3. QED
    BY <1>7, <2>1, <2>2, LeaseTypes
       DEF Retry, Fail, WorkerTypeOK, FeedbackStatus, draftVars
<1>8. ASSUME NEW w \in Worker, CommitRevision(w),
             \/ Persist(w)
             \/ \E handler \in {"retryable", "conflict"} : PersistUnacknowledged(w, handler)
      PROVE  TypeOK'
  <2>1. FirstOf(batch[w]) \in Feedback
    BY <1>8, FirstOfBatch DEF HolderHasAll, CommitRevision
  <2>2. WorkerTypeOK'
    BY <1>8, WorkerTypes DEF Persist, PersistUnacknowledged, Step
  <2>3. faults' \in 0 .. MaxFaults
    BY <1>8, FaultTypes DEF Persist, PersistUnacknowledged
  <2>4. /\ status' \in [Draft -> DraftStatus]
        /\ rev' \in [Draft -> Nat]
        /\ parent' \in [Draft -> Draft]
        /\ source' \in [Draft -> SUBSET Feedback]
        /\ outbox' \subseteq [draft : Draft, key : Feedback]
    BY <1>8, <2>1 DEF CommitRevision, Superseding, DraftStatus
  <2>5. QED
    BY <1>8, <2>2, <2>3, <2>4, LeaseTypes
       DEF CommitRevision, WorkerTypeOK, FeedbackStatus
<1>9. CASE UNCHANGED vars
  BY <1>9 DEF vars, draftVars, fbVars, leaseVars, workerVars
<1>10. QED
  BY <1>1, <1>2, <1>3, <1>4, <1>5, <1>6, <1>7, <1>8, <1>9
     DEF Next, Founder, WorkerStep, WorkerFault, Persist, PersistUnacknowledged

DraftsInv == NumberedLine /\ AppliedExactlyOnce /\ SourcesOfDrafts
LeaseInv == LeaseGuardsBatch /\ ProcessingIsLeased /\ HolderHasAll

\* A step that adds no draft and applies no reply keeps the line of variants;
\* a decision or publication does so because it leaves superseded drafts alone.
LEMMA DraftsKept ==
  ASSUME TypeOK, DraftsInv, UNCHANGED <<rev, source, outbox>>,
         \A d \in Draft : (Exists(d))' <=> Exists(d),
         \A d \in Draft : status[d] = "superseded" => status'[d] = "superseded",
         \A f \in Feedback : fbStatus'[f] = "applied" <=> fbStatus[f] = "applied"
  PROVE  DraftsInv'
<1> USE DEF DraftsInv
<1>1. NumberedLine'
  <2>1. 0 \in Draft
    BY BoundsAssumption DEF Draft
  <2>2. QED
    BY <2>1 DEF NumberedLine
<1>2. AppliedExactlyOnce'
  BY DEF AppliedExactlyOnce
<1>3. SourcesOfDrafts'
  BY DEF SourcesOfDrafts
<1>4. QED
  BY <1>1, <1>2, <1>3

\* Only a commit applies a reply.
LEMMA AppliedUnlessCommit ==
  ASSUME TypeOK, [Next]_vars, \A w \in Worker : ~CommitRevision(w)
  PROVE  \A f \in Feedback : fbStatus'[f] = "applied" <=> fbStatus[f] = "applied"
<1>1. ASSUME NEW w \in Worker, Claim(w)
      PROVE  \A f \in Feedback : fbStatus'[f] = "applied" <=> fbStatus[f] = "applied"
  BY <1>1 DEF Claim, LeaseFree, Due, Expired, TypeOK
<1>2. ASSUME NEW w \in Worker, Requeue(w) \/ Cancel(w) \/ Retry(w) \/ Fail(w)
      PROVE  \A f \in Feedback : fbStatus'[f] = "applied" <=> fbStatus[f] = "applied"
  BY <1>2 DEF Requeue, Cancel, ReturnBatch, Retry, Fail, Owned, TypeOK
<1>3. ASSUME NEW f \in Feedback, Reply(f) \/ RetryFailed(f)
      PROVE  \A g \in Feedback : fbStatus'[g] = "applied" <=> fbStatus[g] = "applied"
  BY <1>3 DEF Reply, RetryFailed, TypeOK
<1>4. CASE UNCHANGED fbStatus
  BY <1>4
<1>5. QED
  BY <1>1, <1>2, <1>3, <1>4
     DEF Next, Founder, WorkerStep, WorkerFault, Persist, PersistUnacknowledged,
         BindRoot, Decide, Publish, DebounceElapses, BackoffElapses,
         OrphanLeaseExpires, HeartbeatStalls, ExpireLease, Load, LoadFails,
         Generate, OperationalError, PersistConflict, PersistRefused, GiveUp,
         Crash, Renew, vars, fbVars

\* Only a commit, a decision or a publication writes a draft.
LEMMA DraftsUnlessCommit ==
  ASSUME [Next]_vars, \A w \in Worker : ~CommitRevision(w)
  PROVE  UNCHANGED draftVars \/ \E d \in Draft, verdict \in {"approved", "rejected"} :
                                   Decide(d, verdict) \/ Publish(d)
BY DEF Next, Founder, WorkerStep, WorkerFault, Persist, PersistUnacknowledged,
       BindRoot, Reply, RetryFailed, DebounceElapses, BackoffElapses,
       OrphanLeaseExpires, HeartbeatStalls, ExpireLease, Claim, Load, LoadFails,
       Generate, OperationalError, PersistConflict, PersistRefused, Requeue,
       Cancel, ReturnBatch, Retry, Fail, GiveUp, Crash, Renew, vars

\* Everything but a commit keeps the line of variants.
LEMMA DraftsStep ==
  ASSUME TypeOK, DraftsInv, [Next]_vars,
         \A w \in Worker : ~CommitRevision(w)
  PROVE  DraftsInv'
<1>1. ASSUME NEW d \in Draft, NEW verdict \in {"approved", "rejected"},
             Decide(d, verdict) \/ Publish(d)
      PROVE  DraftsInv'
  BY <1>1, DraftsKept DEF Exists, Decide, Publish, TypeOK, fbVars
<1>2. CASE UNCHANGED draftVars
  BY <1>2, AppliedUnlessCommit, DraftsKept DEF Exists, draftVars
<1>3. QED
  BY <1>1, <1>2, DraftsUnlessCommit

\* The successor of a queued newest draft takes the next number, and nothing
\* exists beyond it.
LEMMA NextAfterNewest ==
  ASSUME TypeOK, NumberedLine, NEW p \in Draft, IsLatest(p),
         NEW d \in Draft, NextDraft(d)
  PROVE  d = p + 1 /\ \A e \in Draft : Exists(e) <=> e <= p
<1>1. \A e \in Draft : Exists(e) => e <= p
  BY DEF NumberedLine, IsLatest, Draft
<1>2. \A e \in Draft : e <= p => Exists(e)
  BY DEF NumberedLine, IsLatest, Exists, Draft
<1>3. d > p
  BY <1>2 DEF NextDraft, Draft
<1>4. p + 1 \in Draft
  BY <1>3, BoundsAssumption DEF Draft
<1>5. d <= p + 1
  BY <1>1, <1>4 DEF NextDraft, Draft
<1>6. QED
  BY <1>1, <1>2, <1>3, <1>5 DEF Draft

\* A commit adds one variant made of processing replies, hence of replies no
\* variant was made from, and supersedes the newest draft.
LEMMA DraftsCommit ==
  ASSUME TypeOK, DraftsInv, HolderHasAll, TypeOK',
         NEW w \in Worker, CommitRevision(w)
  PROVE  DraftsInv'
<1> DEFINE B == batch[w]
           p == pred[w]
<1>1. /\ p \in Draft /\ IsLatest(p) /\ status[p] = "queued"
      /\ B \subseteq Feedback /\ B # {}
      /\ \A f \in B : fbStatus[f] = "processing"
  BY DEF CommitRevision, CanSupersede, Owned, HolderHasAll, TypeOK
<1>2. PICK d \in Draft :
         /\ NextDraft(d)
         /\ status' = Superseding(w, d)
         /\ rev' = [rev EXCEPT ![d] = rev[p] + 1]
         /\ source' = [source EXCEPT ![d] = B]
         /\ outbox' = outbox \cup {[draft |-> d, key |-> FirstOf(B)]}
  BY DEF CommitRevision
<1>3. fbStatus' = [f \in Feedback |-> IF f \in B THEN "applied" ELSE fbStatus[f]]
  BY DEF CommitRevision
<1>4. NumberedLine
  BY DEF DraftsInv
<1>5. d = p + 1 /\ \A e \in Draft : Exists(e) <=> e <= p
  BY <1>1, <1>2, <1>4, NextAfterNewest
<1>6. status' = [status EXCEPT ![p] = "superseded", ![d] = "queued"]
  BY <1>2 DEF Superseding
<1>7. FirstOf(B) \in B
  BY <1>1, FirstOfBatch
<1>8. \A e \in Draft : (Exists(e))' <=> Exists(e) \/ e = d
  BY <1>1, <1>6 DEF Exists, TypeOK
<1>9. ~Exists(d) /\ source[d] = {} /\ d # 0
  BY <1>1, <1>2, <1>4 DEF NextDraft, DraftsInv, SourcesOfDrafts, NumberedLine
<1> HIDE DEF B, p
<1>10. NumberedLine'
  <2>1. 0 \in Draft
    BY BoundsAssumption DEF Draft
  <2>2. (Exists(0))'
    BY <1>4, <1>8, <2>1 DEF NumberedLine
  <2>3. ASSUME NEW e \in Draft, (Exists(e))'
        PROVE  rev'[e] = e /\ \A g \in Draft : g < e => status'[g] = "superseded"
    <3>1. CASE e = d
      <4>1. rev'[e] = e
        BY <1>1, <1>2, <1>4, <1>5, <3>1 DEF TypeOK, NumberedLine, IsLatest
      <4>2. ASSUME NEW g \in Draft, g < e
            PROVE  status'[g] = "superseded"
        <5>1. g = p \/ g < p
          BY <1>1, <1>5, <3>1, <4>2 DEF Draft
        <5>2. g # d
          BY <3>1, <4>2 DEF Draft
        <5>3. QED
          BY <1>1, <1>4, <1>6, <5>1, <5>2 DEF TypeOK, NumberedLine, IsLatest
      <4>3. QED
        BY <4>1, <4>2
    <3>2. CASE e # d
      <4>1. Exists(e) /\ e <= p
        BY <1>5, <1>8, <2>3, <3>2
      <4>2. rev'[e] = e
        BY <1>2, <1>4, <3>2, <4>1 DEF TypeOK, NumberedLine
      <4>3. ASSUME NEW g \in Draft, g < e
            PROVE  status'[g] = "superseded"
        <5>1. status[g] = "superseded" /\ g # d
          BY <1>1, <1>4, <1>5, <4>1, <4>3 DEF NumberedLine, Draft
        <5>2. QED
          BY <1>1, <1>6, <5>1 DEF TypeOK
      <4>4. QED
        BY <4>2, <4>3
    <3>3. QED
      BY <3>1, <3>2
  <2>4. QED
    BY <2>2, <2>3 DEF NumberedLine
<1>11. AppliedExactlyOnce'
  <2>1. ASSUME NEW e \in Draft
        PROVE  source'[e] = IF e = d THEN B ELSE source[e]
    BY <1>2 DEF TypeOK
  <2>2. \A f \in Feedback : fbStatus'[f] = "applied" <=>
                              \E e \in Draft : (Exists(e))' /\ f \in source'[e]
    <3> TAKE f \in Feedback
    <3>1. fbStatus'[f] = "applied" <=> f \in B \/ fbStatus[f] = "applied"
      BY <1>3
    <3>2. fbStatus[f] = "applied" <=> \E e \in Draft : Exists(e) /\ f \in source[e]
      BY DEF DraftsInv, AppliedExactlyOnce
    <3>3. (Exists(d))' /\ source'[d] = B
      BY <1>8, <2>1
    <3>4. \A e \in Draft : e # d => ((Exists(e))' <=> Exists(e)) /\ source'[e] = source[e]
      BY <1>8, <2>1
    <3> QED
      BY <3>1, <3>2, <3>3, <3>4, <1>9, Zenon
  <2>3. \A e \in Draft : e # d => B \cap source[e] = {}
    BY <1>1 DEF DraftsInv, AppliedExactlyOnce, SourcesOfDrafts, TypeOK
  <2>4. \A e, g \in Draft : e # g => source'[e] \cap source'[g] = {}
    BY <2>1, <2>3 DEF DraftsInv, AppliedExactlyOnce
  <2>5. \A e \in Draft \ {0} :
          (Exists(e))' <=> \E m \in outbox' : m.draft = e /\ m.key \in source'[e]
    <3> TAKE e \in Draft \ {0}
    <3>1. CASE e = d
      <4>1. [draft |-> d, key |-> FirstOf(B)] \in outbox'
        BY <1>2
      <4>2. QED
        BY <1>7, <1>8, <2>1, <3>1, <4>1
    <3>2. CASE e # d
      <4>1. \A m : m \in outbox' /\ m.draft = e <=> m \in outbox /\ m.draft = e
        BY <1>2, <3>2
      <4>2. QED
        BY <1>8, <2>1, <3>2, <4>1 DEF DraftsInv, AppliedExactlyOnce
    <3> QED
      BY <3>1, <3>2
  <2>6. QED
    BY <2>2, <2>4, <2>5 DEF AppliedExactlyOnce
<1>12. SourcesOfDrafts'
  BY <1>2, <1>7, <1>8, <1>9 DEF DraftsInv, SourcesOfDrafts, TypeOK
<1>13. QED
  BY <1>10, <1>11, <1>12 DEF DraftsInv

\* However a batch ends, exactly the replies the worker still owned leave
\* "processing", and the lease row goes if and only if it was the worker's.
LEMMA BatchLeaves ==
  ASSUME TypeOK, LeaseInv, NEW w \in Worker, pc[w] # "idle", DropLease(w),
         \A f \in Feedback :
           fbStatus'[f] = "processing" <=>
             fbStatus[f] = "processing" /\ ~(f \in batch[w] /\ fbOwner[f] = w),
         \A f \in Feedback : fbStatus'[f] = "processing" =>
           /\ fbOwner'[f] = fbOwner[f] /\ backoff'[f] = backoff[f]
           /\ f \in fbLive' <=> f \in fbLive,
         \A v \in Worker : pc'[v] # "idle" => pc[v] # "idle" /\ batch'[v] = batch[v]
  PROVE  LeaseInv'
<1>1. CASE leaseOwner = w
  <2>1. \A f \in Feedback : fbStatus'[f] # "processing"
    BY <1>1 DEF LeaseInv, LeaseGuardsBatch, HolderHasAll
  <2>2. leaseOwner' = NoWorker
    BY <1>1 DEF DropLease
  <2>3. QED
    BY <2>1, <2>2, WorkerAssumption
       DEF LeaseInv, LeaseGuardsBatch, ProcessingIsLeased, HolderHasAll
<1>2. CASE leaseOwner # w
  <2>1. \A f \in Feedback : fbStatus'[f] = "processing" <=> fbStatus[f] = "processing"
    BY <1>2 DEF LeaseInv, LeaseGuardsBatch
  <2>2. UNCHANGED <<leaseOwner, leaseExpiry>>
    BY <1>2 DEF DropLease
  <2>3. QED
    BY <2>1, <2>2 DEF LeaseInv, LeaseGuardsBatch, ProcessingIsLeased, HolderHasAll
<1>3. QED
  BY <1>1, <1>2

\* Only Claim, CommitRevision, the returns, RetryFailed and the passing of time
\* touch the lease and the rows it covers.
LEMMA LeaseStep ==
  ASSUME TypeOK, LeaseInv, [Next]_vars
  PROVE  LeaseInv'
<1> USE DEF LeaseInv
<1> DEFINE Processing == {f \in Feedback : fbStatus[f] = "processing"}
<1>1. CASE UNCHANGED <<fbStatus, fbOwner, backoff, fbLive, leaseVars, batch, pc>>
  BY <1>1 DEF LeaseGuardsBatch, ProcessingIsLeased, HolderHasAll, leaseVars
<1>2. ASSUME NEW f \in Feedback, Reply(f) \/ RetryFailed(f)
      PROVE  LeaseInv'
  <2>1. \A g \in Feedback : fbStatus'[g] = "processing" <=> fbStatus[g] = "processing"
    BY <1>2 DEF Reply, RetryFailed, TypeOK
  <2>2. \A g \in Feedback : fbStatus[g] = "processing" =>
          /\ fbOwner'[g] = fbOwner[g] /\ backoff'[g] = backoff[g]
          /\ g \in fbLive' <=> g \in fbLive
    BY <1>2 DEF Reply, RetryFailed, TypeOK, fbVars
  <2>3. UNCHANGED <<leaseOwner, leaseExpiry, batch, pc>>
    BY <1>2 DEF Reply, RetryFailed, leaseVars, workerVars
  <2>4. LeaseGuardsBatch'
    BY <2>1, <2>2, <2>3 DEF LeaseGuardsBatch
  <2>5. ProcessingIsLeased' /\ HolderHasAll'
    BY <2>1, <2>2, <2>3 DEF ProcessingIsLeased, HolderHasAll
  <2>6. QED
    BY <2>4, <2>5
<1>3. ASSUME NEW f \in Feedback, BackoffElapses(f)
      PROVE  LeaseInv'
  BY <1>3 DEF BackoffElapses, LeaseGuardsBatch, ProcessingIsLeased, HolderHasAll,
     TypeOK, leaseVars, workerVars
<1>4. CASE ExpireLease
  BY <1>4 DEF ExpireLease, LeaseGuardsBatch, ProcessingIsLeased, HolderHasAll,
     TypeOK, workerVars
<1>5. ASSUME NEW w \in Worker, Renew(w)
      PROVE  LeaseInv'
  BY <1>5 DEF Renew, LeaseGuardsBatch, ProcessingIsLeased, HolderHasAll,
     TypeOK, workerVars
<1>6. ASSUME NEW w \in Worker, Claim(w)
      PROVE  LeaseInv'
  <2>1. Processing \subseteq Due
    BY <1>6 DEF Claim, LeaseFree, Due, Expired, LeaseGuardsBatch, ProcessingIsLeased
  <2>2. \A f \in Feedback : fbStatus'[f] = "processing" <=> f \in Due
    BY <1>6, <2>1 DEF Claim, LeaseFree, Due, Expired
  <2>3. Due # {} /\ Due \subseteq Feedback
    BY <1>6 DEF Claim, LeaseFree, Due
  <2>4. LeaseGuardsBatch'
    BY <1>6, <2>2, <2>3 DEF Claim, LeaseFree, LeaseGuardsBatch
  <2>5. ProcessingIsLeased'
    BY <1>6, <2>2, WorkerAssumption DEF Claim, LeaseFree, Due, ProcessingIsLeased
  <2>6. HolderHasAll'
    BY <1>6, <2>2, <2>3 DEF Claim, LeaseFree, HolderHasAll, TypeOK
  <2>7. QED
    BY <2>4, <2>5, <2>6
<1>7. ASSUME NEW w \in Worker,
             Load(w) \/ LoadFails(w) \/ OperationalError(w) \/ PersistConflict(w)
             \/ PersistRefused(w) \/ GiveUp(w) \/ Crash(w)
             \/ \E outcome \in {"persisting", "permanent"} : Generate(w, outcome)
      PROVE  LeaseInv'
  <2>1. UNCHANGED <<fbStatus, fbOwner, backoff, fbLive, leaseOwner, leaseExpiry>>
    BY <1>7 DEF Load, LoadFails, OperationalError, PersistConflict, PersistRefused,
       GiveUp, Crash, Generate, fbVars, leaseVars
  <2>2. \A v \in Worker : pc'[v] # "idle" => pc[v] # "idle" /\ batch'[v] = batch[v]
    BY <1>7 DEF Load, LoadFails, OperationalError, PersistConflict, PersistRefused,
       GiveUp, Crash, Generate, Goto, Done, TypeOK
  <2>3. QED
    BY <2>1, <2>2 DEF LeaseGuardsBatch, ProcessingIsLeased, HolderHasAll
<1>8. ASSUME NEW w \in Worker, Requeue(w) \/ Cancel(w)
      PROVE  LeaseInv'
  BY <1>8, BatchLeaves DEF Requeue, Cancel, ReturnBatch, Done, TypeOK
<1>9. ASSUME NEW w \in Worker, Retry(w) \/ Fail(w)
      PROVE  LeaseInv'
  BY <1>9, BatchLeaves DEF Retry, Fail, Owned, Done, TypeOK
<1>10. ASSUME NEW w \in Worker, CommitRevision(w),
              Done(w) \/ \E handler \in {"retryable", "conflict"} : Goto(w, handler)
       PROVE  LeaseInv'
  BY <1>10, BatchLeaves DEF CommitRevision, Owned, Done, Goto, TypeOK
<1>11. QED
  <2>1. CASE UNCHANGED <<fbVars, leaseVars, workerVars>>
    BY <1>1, <2>1 DEF fbVars, workerVars
  <2>2. CASE DebounceElapses
    BY <1>1, <2>2 DEF DebounceElapses, workerVars
  <2>3. CASE OrphanLeaseExpires \/ HeartbeatStalls
    BY <1>4, <2>3 DEF OrphanLeaseExpires, HeartbeatStalls
  <2>4. CASE \E w \in Worker : WorkerStep(w) \/ Renew(w) \/ WorkerFault(w)
    BY <1>5, <1>6, <1>7, <1>8, <1>9, <1>10, <2>4
       DEF WorkerStep, WorkerFault, Persist, PersistUnacknowledged
  <2>5. CASE \E f \in Feedback : Reply(f) \/ RetryFailed(f) \/ BackoffElapses(f)
    BY <1>2, <1>3, <2>5
  <2>6. QED
    BY <2>1, <2>2, <2>3, <2>4, <2>5
       DEF Next, Founder, BindRoot, Decide, Publish, vars

\* Every step of a worker, the founder, the bridge and time keeps the invariant.
THEOREM StepIInv == IInv /\ [Next]_vars => IInv'
<1> SUFFICES ASSUME IInv, [Next]_vars
             PROVE  IInv'
  OBVIOUS
<1>1. TypeOK /\ DraftsInv /\ LeaseInv
  BY DEF IInv, DraftsInv, LeaseInv
<1>2. TypeOK'
  BY <1>1, TypeStep DEF LeaseInv
<1>3. DraftsInv'
  <2>1. CASE \E w \in Worker : CommitRevision(w)
    BY <1>1, <1>2, <2>1, DraftsCommit DEF LeaseInv
  <2>2. CASE \A w \in Worker : ~CommitRevision(w)
    BY <1>1, <2>2, DraftsStep
  <2>3. QED
    BY <2>1, <2>2
<1>4. LeaseInv'
  BY <1>1, LeaseStep
<1>5. QED
  BY <1>2, <1>3, <1>4 DEF IInv, DraftsInv, LeaseInv

-----------------------------------------------------------------------------
(* The properties.                                                          *)

\* IInv holds in every reachable state of every thread.
THEOREM Invariance == Spec => []IInv
<1>1. Init => IInv
  BY InitIInv
<1>2. IInv /\ [Next]_vars => IInv'
  BY StepIInv
<1>3. QED
  BY <1>1, <1>2, PTL DEF Spec

\* Rows, leases and worker memory keep the types of their columns.
THEOREM TypeCorrect == Spec => []TypeOK
<1>1. IInv => TypeOK
  BY DEF IInv
<1>2. QED
  BY <1>1, Invariance, PTL

\* revisions.py applies each reply to exactly one variant and enqueues each
\* variant's approval message once, whatever fails or is taken over.
THEOREM AppliedOnce == Spec => []AppliedExactlyOnce
<1>1. IInv => AppliedExactlyOnce
  BY DEF IInv
<1>2. QED
  BY <1>1, Invariance, PTL

\* The generation lease and the processing replies always belong together.
THEOREM LeaseAndBatchAgree == Spec => []LeaseGuardsBatch
<1>1. IInv => LeaseGuardsBatch
  BY DEF IInv
<1>2. QED
  BY <1>1, Invariance, PTL

\* At most one draft of a thread awaits the founder, and it is the newest.
THEOREM OneLiveVariant == Spec => []SingleLiveVariant
<1>1. IInv => SingleLiveVariant
  <2> SUFFICES ASSUME IInv, NEW d \in Draft, status[d] = "queued",
                      NEW e \in Draft, e # d, Exists(e)
               PROVE  status[e] # "queued" /\ rev[e] < rev[d]
    BY DEF SingleLiveVariant
  <2>1. Exists(d)
    BY DEF Exists
  <2>2. ~ (d < e)
    BY DEF IInv, NumberedLine
  <2>3. e < d
    BY <2>2 DEF Draft
  <2>4. QED
    BY <2>1, <2>3 DEF IInv, NumberedLine
<1>2. QED
  BY <1>1, Invariance, PTL

\* A commit whose ownership and predecessor checks pass finds a fresh revision
\* number and a fresh message key: the conflict branches of persist are dead.
THEOREM CommitIsFresh == Spec => []CommitNeverCollides
<1>1. IInv => CommitNeverCollides
  <2> SUFFICES ASSUME IInv, NEW w \in Worker, pc[w] = "persisting",
                      Owned(w), CanSupersede(w)
               PROVE  /\ \A d \in Draft : Exists(d) => rev[d] # rev[pred[w]] + 1
                      /\ \A m \in outbox : m.key # FirstOf(batch[w])
    BY DEF CommitNeverCollides
  <2> USE DEF IInv
  <2>1. \A d \in Draft : Exists(d) => rev[d] # rev[pred[w]] + 1
    BY DEF CanSupersede, IsLatest, TypeOK
  <2>2. FirstOf(batch[w]) \in batch[w]
    BY FirstOfBatch DEF HolderHasAll, TypeOK
  <2>3. fbStatus[FirstOf(batch[w])] = "processing"
    BY <2>2 DEF Owned
  <2>4. ASSUME NEW m \in outbox
        PROVE  fbStatus[m.key] = "applied"
    <3>1. m.draft \in Draft /\ m.key \in Feedback /\ m.key \in source[m.draft]
      BY DEF TypeOK, SourcesOfDrafts
    <3>2. Exists(m.draft)
      BY <3>1 DEF SourcesOfDrafts
    <3>3. QED
      BY <3>1, <3>2 DEF AppliedExactlyOnce
  <2>5. QED
    BY <2>1, <2>3, <2>4
<1>2. QED
  BY <1>1, Invariance, PTL

\* In an open thread only the newest draft can be decided or superseded.
LEMMA DecidedIsNewest ==
  ASSUME TypeOK, NumberedLine, NEW d \in Draft,
         status[d] \in {"approved", "rejected", "published"}
  PROVE  \A e \in Draft : status[e] # "queued" /\ (IsLatest(e) => e = d)
<1>1. Exists(d)
  BY DEF Exists
<1>2. \A e \in Draft : Exists(e) => e <= d
  BY DEF NumberedLine, Draft
<1>3. \A e \in Draft : e < d => status[e] = "superseded"
  BY <1>1 DEF NumberedLine
<1>4. ASSUME NEW e \in Draft, status[e] = "queued"
      PROVE  FALSE
  <2>1. Exists(e)
    BY <1>4 DEF Exists
  <2>2. e <= d
    BY <1>2, <2>1
  <2>3. e < d \/ e = d
    BY <2>2 DEF Draft
  <2>4. QED
    BY <1>3, <1>4, <2>3
<1>5. ASSUME NEW e \in Draft, IsLatest(e)
      PROVE  e = d
  <2>1. Exists(e) /\ rev[e] = e /\ rev[d] = d /\ rev[d] <= rev[e]
    BY <1>1, <1>5 DEF IsLatest, NumberedLine
  <2>2. QED
    BY <1>2, <2>1 DEF Draft
<1>6. QED
  BY <1>4, <1>5

\* A decided thread gets no further variant and no second decision.
THEOREM DecidedStaysDecided == Spec => DecidedThreadFrozen
<1> DEFINE Frozen == \A d \in Draft :
             \/ status'[d] = status[d]
             \/ status[d] = "approved" /\ status'[d] = "published"
<1>1. IInv /\ [Next]_vars => [Decided => Frozen]_vars
  <2> SUFFICES ASSUME IInv, Next, Decided
               PROVE  Frozen
    BY DEF vars
  <2>1. PICK d \in Draft : status[d] \in {"approved", "rejected", "published"}
    BY DEF Decided
  <2>2. \A e \in Draft : status[e] # "queued" /\ (IsLatest(e) => e = d)
    BY <2>1, DecidedIsNewest DEF IInv
  <2>3. \A w \in Worker : ~CommitRevision(w)
    BY <2>2 DEF CommitRevision, CanSupersede, IInv, TypeOK
  <2>4. \A e \in Draft, verdict \in {"approved", "rejected"} : ~Decide(e, verdict)
    BY <2>2 DEF Decide
  <2>5. CASE \E e \in Draft : Publish(e)
    BY <2>5 DEF Publish, IInv, TypeOK
  <2>6. CASE UNCHANGED draftVars
    BY <2>6 DEF draftVars
  <2>7. QED
    BY <2>3, <2>4, <2>5, <2>6, DraftsUnlessCommit
<1>2. QED
  BY <1>1, Invariance, PTL DEF Spec, DecidedThreadFrozen

-----------------------------------------------------------------------------
(* The detailed thread implements the line of variants.                     *)

\* A thread always has a newest draft.
LEMMA NewestExists ==
  ASSUME TypeOK, NumberedLine
  PROVE  \E d \in Draft : IsLatest(d)
<1> DEFINE S == {d \in Draft : \A e \in Draft : Exists(e) => e <= d}
<1>1. S \in SUBSET Nat /\ S # {}
  BY BoundsAssumption DEF Draft
<1>2. PICK x \in S : \A y \in S : x <= y
  BY <1>1, LeastElement
<1>3. Exists(x)
  <2>1. CASE x = 0
    BY <2>1 DEF NumberedLine
  <2>2. CASE x # 0
    <3>1. x - 1 \in Draft /\ ~ (x <= x - 1)
      BY <1>2, <2>2, BoundsAssumption DEF Draft
    <3>2. PICK e \in Draft : Exists(e) /\ ~ (e <= x - 1)
      BY <1>2, <3>1
    <3>3. e = x
      BY <1>2, <3>2 DEF Draft
    <3>4. QED
      BY <3>2, <3>3
  <2>3. QED
    BY <2>1, <2>2
<1>4. \A e \in Draft : Exists(e) => rev[e] <= rev[x]
  BY <1>2, <1>3 DEF NumberedLine
<1>5. QED
  BY <1>3, <1>4 DEF IsLatest

\* The newest draft is unique, so Newest is it.
LEMMA NewestIsLatest ==
  ASSUME TypeOK, NumberedLine, NEW d \in Draft, IsLatest(d)
  PROVE  Newest = d
<1>1. ASSUME NEW e \in Draft, IsLatest(e)
      PROVE  e = d
  BY <1>1 DEF IsLatest, NumberedLine, Draft
<1>2. QED
  BY <1>1 DEF Newest

Applied == {f \in Feedback : fbStatus[f] = "applied"}

\* A commit is one Revise of the batch.
LEMMA CommitRefines ==
  ASSUME IInv, IInv', NEW w \in Worker, CommitRevision(w)
  PROVE  \E B \in SUBSET Feedback : Lineage!Revise(B)
<1> DEFINE p == pred[w]
<1>1. /\ p \in Draft /\ IsLatest(p) /\ status[p] = "queued"
      /\ batch[w] \subseteq Feedback /\ batch[w] # {}
      /\ \A f \in batch[w] : fbStatus[f] = "processing"
  BY DEF CommitRevision, CanSupersede, Owned, IInv, HolderHasAll, TypeOK
<1>2. Newest = p
  BY <1>1, NewestIsLatest DEF IInv
<1>3. PICK d \in Draft :
         /\ NextDraft(d)
         /\ status' = Superseding(w, d)
         /\ rev' = [rev EXCEPT ![d] = rev[p] + 1]
  BY DEF CommitRevision
<1>4. d = p + 1 /\ \A e \in Draft : Exists(e) <=> e <= p
  BY <1>1, <1>3, NextAfterNewest DEF IInv
<1>5. status'[d] = "queued" /\ rev'[d] = rev[p] + 1
  BY <1>3 DEF Superseding, IInv, TypeOK
<1>6. (IsLatest(d))'
  <2>1. \A e \in Draft : (Exists(e))' => e <= d
    BY <1>1, <1>3, <1>4 DEF Superseding, Exists, IInv, TypeOK, Draft
  <2>2. \A e \in Draft : (Exists(e))' => rev'[e] = e
    BY DEF IInv, NumberedLine
  <2>3. (Exists(d))'
    BY <1>5 DEF Exists
  <2>4. QED
    BY <2>1, <2>2, <2>3 DEF IsLatest
<1>7. Newest' = d
  <2>1. TypeOK' /\ NumberedLine'
    BY DEF IInv
  <2>2. ASSUME NEW e \in Draft, (IsLatest(e))'
        PROVE  e = d
    BY <1>6, <2>1, <2>2 DEF IsLatest, NumberedLine, Draft
  <2>3. QED
    BY <1>6, <2>2 DEF Newest
<1>8. batch[w] \cap Applied = {}
  BY <1>1 DEF Applied
<1>9. Applied' = Applied \cup batch[w]
  BY <1>1 DEF Applied, CommitRevision, IInv, TypeOK
<1>10. batch[w] \in SUBSET Feedback
  BY <1>1
<1>11. /\ status[Newest] = "queued" /\ batch[w] # {}
       /\ batch[w] \cap Applied = {}
       /\ rev'[Newest'] = rev[Newest] + 1
       /\ Applied' = Applied \cup batch[w]
       /\ status'[Newest'] = status[Newest]
  BY <1>1, <1>2, <1>5, <1>7, <1>8, <1>9
<1>12. QED
  BY <1>10, <1>11 DEF Lineage!Revise, Applied

\* Founder, lease and retry steps are a decision, a publication or invisible.
LEMMA OtherStepsRefine ==
  ASSUME IInv, [Next]_vars, \A w \in Worker : ~CommitRevision(w)
  PROVE  Lineage!Decide \/ Lineage!Publish \/ UNCHANGED Lineage!vars
<1>1. PICK n \in Draft : IsLatest(n)
  BY NewestExists DEF IInv
<1>2. Newest = n
  BY <1>1, NewestIsLatest DEF IInv
<1>3. ASSUME NEW d \in Draft, NEW verdict \in {"approved", "rejected"},
             Decide(d, verdict) \/ Publish(d)
      PROVE  Lineage!Decide \/ Lineage!Publish
  <2>1. d = n
    BY <1>1, <1>3, DecidedIsNewest, NewestIsLatest, <1>2 DEF Decide, Publish, IInv
  <2>2. \A e \in Draft : (IsLatest(e))' <=> IsLatest(e)
    BY <1>3 DEF Decide, Publish, IsLatest, Exists, IInv, TypeOK
  <2>3. Newest' = n
    <3>1. \A e \in Draft : (IsLatest(e))' <=> e = n
      BY <1>1, <1>2, <2>2, NewestIsLatest DEF IInv
    <3>2. QED
      BY <3>1 DEF Newest
  <2>4. UNCHANGED <<rev, fbStatus>>
    BY <1>3 DEF Decide, Publish, fbVars
  <2>5. \/ status'[n] = verdict /\ status[n] = "queued"
        \/ status'[n] = "published" /\ status[n] = "approved"
    BY <1>3, <2>1 DEF Decide, Publish, IInv, TypeOK
  <2>6. QED
    BY <1>2, <2>3, <2>4, <2>5 DEF Lineage!Decide, Lineage!Publish
<1>4. CASE UNCHANGED draftVars
  <2>1. Newest' = Newest
    BY <1>4 DEF Newest, IsLatest, Exists, draftVars
  <2>2. \A f \in Feedback : fbStatus'[f] = "applied" <=> fbStatus[f] = "applied"
    BY <1>4, AppliedUnlessCommit DEF IInv
  <2>3. QED
    BY <1>4, <2>1, <2>2 DEF Lineage!vars, draftVars
<1>5. QED
  BY <1>3, <1>4, DraftsUnlessCommit

\* revisions.py implements DraftLineage, for any number of workers and replies.
THEOREM LineageImplemented == Spec => ImplementsLineage
<1>1. Init => Lineage!Init
  <2> SUFFICES ASSUME Init
               PROVE  Lineage!Init
    OBVIOUS
  <2>1. 0 \in Draft
    BY BoundsAssumption DEF Draft
  <2>2. IsLatest(0)
    BY <2>1 DEF Init, IsLatest, Exists
  <2>3. IInv
    BY InitIInv
  <2>4. Newest = 0
    BY <2>1, <2>2, <2>3, NewestIsLatest DEF IInv
  <2>5. QED
    BY <2>1, <2>4 DEF Init, Lineage!Init
<1>2. IInv /\ IInv' /\ [Next]_vars => [Lineage!Next]_(Lineage!vars)
  <2> SUFFICES ASSUME IInv, IInv', [Next]_vars
               PROVE  [Lineage!Next]_(Lineage!vars)
    OBVIOUS
  <2>1. CASE \E w \in Worker : CommitRevision(w)
    <3>1. \E B \in SUBSET Feedback : Lineage!Revise(B)
      BY <2>1, CommitRefines
    <3>2. QED
      BY <3>1 DEF Lineage!Next
  <2>2. CASE \A w \in Worker : ~CommitRevision(w)
    BY <2>2, OtherStepsRefine DEF Lineage!Next
  <2>3. QED
    BY <2>1, <2>2
<1>3. QED
  BY <1>1, <1>2, Invariance, PTL DEF Spec, ImplementsLineage, Lineage!Spec

=============================================================================
