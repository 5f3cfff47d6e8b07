--------------------------- MODULE DraftRevisions ---------------------------
(***************************************************************************)
(* One Slack approval thread: the root draft and the variants revised from *)
(* it, the founder's feedback replies, and the workers that turn a batch   *)
(* of replies into the next variant under a generation lease               *)
(* (revisions.py, agent/loops/revisions.py, slack_bridge/ack_handler.py).  *)
(*                                                                         *)
(* Every transaction on the thread is one action: each of them takes the   *)
(* thread's advisory lock or the row lock of the draft it changes.  Between *)
(* two transactions of a worker anything may happen.  Threads share only   *)
(* the workers, so one thread with several workers is the whole question.  *)
(***************************************************************************)
EXTENDS Integers, FiniteSets

CONSTANTS
    Worker,        \* processes that run run_pending_revisions
    NoWorker,      \* SQL NULL in an owner column
    Feedback,      \* founder replies, numbered in Slack timestamp order
    MaxRevisions,  \* bound: drafts of the thread are 0 .. MaxRevisions
    MaxAttempts,   \* MAX_GENERATION_ATTEMPTS
    MaxFaults      \* bound: crashes, shutdowns and heartbeat stalls

ASSUME WorkerAssumption == NoWorker \notin Worker
ASSUME FeedbackAssumption == Feedback \subseteq Nat \ {0} /\ IsFiniteSet(Feedback)
ASSUME BoundsAssumption ==
    /\ MaxRevisions \in Nat
    /\ MaxAttempts \in Nat \ {0}
    /\ MaxFaults \in Nat

VARIABLES
    binding,     \* "bound" once the root draft carries its Slack channel and timestamp
    status,      \* drafts.status, "absent" before the row is inserted
    rev,         \* drafts.revision_number
    parent,      \* drafts.parent_draft_id
    source,      \* the replies a variant was generated from (revision_feedback)
    outbox,      \* thread_approval rows of slack_outbox: draft and idempotency key
    fbStatus,    \* draft_revision_feedback.status, "none" before the reply
    fbOwner,     \* processing_owner
    fbLive,      \* replies whose processing_lease_expires_at is in the future
    fbAttempts,  \* processing_attempts, saturating at MaxAttempts
    fbCategory,  \* failure_category, as far as the loop tells it apart
    aged,        \* replies received at least 15 seconds ago
    backoff,     \* 0, or the retried batch whose next_attempt_at is in the future
    leaseOwner,  \* draft_revision_generation_leases.lease_owner, NoWorker: no row
    leaseExpiry, \* its lease_expires_at lies in the "past" or the "future"
    pc,          \* where a worker stands in run_pending_revisions
    batch,       \* the worker's FeedbackBatch.feedback_ids
    pred,        \* the worker's predecessor_id
    faults       \* crashes, shutdowns and stalls so far

draftVars == <<status, rev, parent, source, outbox>>
fbVars == <<fbStatus, fbOwner, fbLive, fbAttempts, fbCategory, aged, backoff>>
leaseVars == <<leaseOwner, leaseExpiry>>
workerVars == <<pc, batch, pred>>
vars == <<binding, draftVars, fbVars, leaseVars, workerVars, faults>>

Draft == 0 .. MaxRevisions

DraftStatus == {"absent", "queued", "approved", "rejected", "superseded", "published"}
FeedbackStatus == {"none", "pending", "processing", "applied", "failed"}
Step == {"idle", "loading", "generating", "persisting", "conflict", "retryable", "permanent"}

TypeOK ==
    /\ binding \in {"unbound", "bound"}
    /\ status \in [Draft -> DraftStatus]
    /\ rev \in [Draft -> Nat]
    /\ parent \in [Draft -> Draft]
    /\ source \in [Draft -> SUBSET Feedback]
    /\ outbox \subseteq [draft : Draft, key : Feedback]
    /\ fbStatus \in [Feedback -> FeedbackStatus]
    /\ fbOwner \in [Feedback -> Worker \cup {NoWorker}]
    /\ fbLive \subseteq Feedback
    /\ fbAttempts \in [Feedback -> 0 .. MaxAttempts]
    /\ fbCategory \in [Feedback -> {"none", "operational", "permanent"}]
    /\ aged \subseteq Feedback
    /\ backoff \in [Feedback -> Feedback \cup {0}]
    /\ leaseOwner \in Worker \cup {NoWorker}
    /\ leaseExpiry \in {"past", "future"}
    /\ pc \in [Worker -> Step]
    /\ batch \in [Worker -> SUBSET Feedback]
    /\ pred \in [Worker -> Draft]
    /\ faults \in 0 .. MaxFaults

Exists(d) == status[d] # "absent"
IsLatest(d) == Exists(d) /\ \A e \in Draft : Exists(e) => rev[e] <= rev[d]

Init ==
    /\ binding = "unbound"
    /\ status = [d \in Draft |-> IF d = 0 THEN "queued" ELSE "absent"]
    /\ rev = [d \in Draft |-> 0]
    /\ parent = [d \in Draft |-> 0]
    /\ source = [d \in Draft |-> {}]
    /\ outbox = {}
    /\ fbStatus = [f \in Feedback |-> "none"]
    /\ fbOwner = [f \in Feedback |-> NoWorker]
    /\ fbLive = {}
    /\ fbAttempts = [f \in Feedback |-> 0]
    /\ fbCategory = [f \in Feedback |-> "none"]
    /\ aged = {}
    /\ backoff = [f \in Feedback |-> 0]
    /\ leaseOwner = NoWorker
    /\ leaseExpiry = "past"
    /\ pc = [w \in Worker |-> "idle"]
    /\ batch = [w \in Worker |-> {}]
    /\ pred = [w \in Worker |-> 0]
    /\ faults = 0

-----------------------------------------------------------------------------
(* The founder and the Slack bridge.                                        *)

\* The outbox worker posted the root message and stores its timestamp.  It
\* does not look at the draft's status.
BindRoot ==
    /\ binding = "unbound"
    /\ binding' = "bound"
    /\ UNCHANGED <<draftVars, fbVars, leaseVars, workerVars, faults>>

\* A reply in the thread.  A redelivered event meets the unique event id or
\* message timestamp and changes nothing.
Reply(f) ==
    /\ binding = "bound"
    /\ fbStatus[f] = "none"
    /\ fbStatus' = [fbStatus EXCEPT ![f] = "pending"]
    /\ UNCHANGED <<binding, draftVars, fbOwner, fbLive, fbAttempts, fbCategory,
                   aged, backoff, leaseVars, workerVars, faults>>

\* Mutant: the newest draft can be decided again.
DecideAgain(d, verdict) ==
    /\ IsLatest(d)
    /\ status' = [status EXCEPT ![d] = verdict]
    /\ UNCHANGED <<binding, rev, parent, source, outbox, fbVars, leaseVars,
                   workerVars, faults>>

\* A check mark or a cross for draft d; anything but the latest queued variant
\* is answered without a change.
Decide(d, verdict) ==
    /\ IsLatest(d)
    /\ status[d] = "queued"
    /\ status' = [status EXCEPT ![d] = verdict]
    /\ UNCHANGED <<binding, rev, parent, source, outbox, fbVars, leaseVars,
                   workerVars, faults>>

\* The Meta pipeline finalized the approved draft.
Publish(d) ==
    /\ status[d] = "approved"
    /\ status' = [status EXCEPT ![d] = "published"]
    /\ UNCHANGED <<binding, rev, parent, source, outbox, fbVars, leaseVars,
                   workerVars, faults>>

\* Mutant: an applied reply can be retried.
RetryAnyClosed(f) ==
    /\ fbStatus[f] \in {"failed", "applied"}
    /\ fbStatus' = [fbStatus EXCEPT ![f] = "pending"]
    /\ fbOwner' = [fbOwner EXCEPT ![f] = NoWorker]
    /\ fbLive' = fbLive \ {f}
    /\ fbCategory' = [fbCategory EXCEPT ![f] = "none"]
    /\ backoff' = [backoff EXCEPT ![f] = 0]
    /\ UNCHANGED <<binding, draftVars, fbAttempts, aged, leaseVars, workerVars, faults>>

\* An operator makes a permanently failed reply available again; its attempts
\* are not reset.
RetryFailed(f) ==
    /\ fbStatus[f] = "failed"
    /\ fbStatus' = [fbStatus EXCEPT ![f] = "pending"]
    /\ fbOwner' = [fbOwner EXCEPT ![f] = NoWorker]
    /\ fbLive' = fbLive \ {f}
    /\ fbCategory' = [fbCategory EXCEPT ![f] = "none"]
    /\ backoff' = [backoff EXCEPT ![f] = 0]
    /\ UNCHANGED <<binding, draftVars, fbAttempts, aged, leaseVars, workerVars, faults>>

-----------------------------------------------------------------------------
(* Time.                                                                    *)

\* Fifteen seconds pass since the last reply received so far.
DebounceElapses ==
    LET received == {f \in Feedback : fbStatus[f] # "none"} IN
    /\ aged # received
    /\ aged' = received
    /\ UNCHANGED <<binding, draftVars, fbStatus, fbOwner, fbLive, fbAttempts,
                   fbCategory, backoff, leaseVars, workerVars, faults>>

\* The replies of one retried batch share their next_attempt_at.
BackoffElapses(g) ==
    /\ \E f \in Feedback : backoff[f] = g
    /\ backoff' = [f \in Feedback |-> IF backoff[f] = g THEN 0 ELSE backoff[f]]
    /\ UNCHANGED <<binding, draftVars, fbStatus, fbOwner, fbLive, fbAttempts,
                   fbCategory, aged, leaseVars, workerVars, faults>>

\* The lease row and the replies claimed under it were given one expiry by one
\* transaction, so they run out together.  A lease outlasts the debounce.
ExpireLease ==
    /\ leaseOwner # NoWorker
    /\ leaseExpiry = "future"
    /\ leaseExpiry' = "past"
    /\ fbLive' = {f \in fbLive : fbOwner[f] # leaseOwner}
    /\ aged' = aged \cup {f \in fbLive : fbOwner[f] = leaseOwner}
    /\ UNCHANGED <<binding, draftVars, fbStatus, fbOwner, fbAttempts, fbCategory,
                   backoff, leaseOwner, workerVars>>

\* Nobody renews the lease of a worker that crashed.
OrphanLeaseExpires ==
    /\ ~ \E w \in Worker : w = leaseOwner /\ pc[w] # "idle"
    /\ ExpireLease
    /\ UNCHANGED faults

\* The heartbeat of a worker at work stalls past the expiry.
HeartbeatStalls ==
    /\ \E w \in Worker : w = leaseOwner /\ pc[w] # "idle"
    /\ faults < MaxFaults
    /\ faults' = faults + 1
    /\ ExpireLease

-----------------------------------------------------------------------------
(* A worker.  lease_owner is a fresh uuid per claim; a worker handles one   *)
(* batch at a time, so its name stands for it.                              *)

\* Mutant: the updates do not ask for status "processing".
OwnedWhateverStatus(w) == \A f \in batch[w] : fbOwner[f] = w

\* The checks of persist and the row counts of retry and mark_failed: the whole
\* batch is still processing for this worker.
Owned(w) == \A f \in batch[w] : fbStatus[f] = "processing" /\ fbOwner[f] = w

Done(w) ==
    /\ pc' = [pc EXCEPT ![w] = "idle"]
    /\ batch' = [batch EXCEPT ![w] = {}]
    /\ pred' = [pred EXCEPT ![w] = 0]

Goto(w, step) ==
    /\ pc' = [pc EXCEPT ![w] = step]
    /\ UNCHANGED <<batch, pred>>

\* Mutant: the lease row is deleted whoever owns it.
DropAnyLease(w) ==
    /\ leaseOwner' = NoWorker
    /\ leaseExpiry' = "past"

\* DELETE FROM draft_revision_generation_leases WHERE lease_owner = w.
DropLease(w) ==
    /\ leaseOwner' = IF leaseOwner = w THEN NoWorker ELSE leaseOwner
    /\ leaseExpiry' = IF leaseOwner = w THEN "past" ELSE leaseExpiry

Expired == {f \in Feedback : fbStatus[f] = "processing" /\ f \notin fbLive}
\* Mutant: replies of an expired lease are not taken back.
DueWithoutExpired == {f \in Feedback : fbStatus[f] = "pending" /\ backoff[f] = 0}

Due == {f \in Feedback : (fbStatus[f] = "pending" \/ f \in Expired) /\ backoff[f] = 0}

LeaseFree == leaseOwner = NoWorker \/ leaseExpiry = "past"

\* Take the free or expired lease and every due reply, once the oldest of them
\* has waited out the debounce.
Claim(w) ==
    /\ binding = "bound"
    /\ pc[w] = "idle"
    /\ LeaseFree
    /\ \E f \in Due : f \in aged
    /\ leaseOwner' = w
    /\ leaseExpiry' = "future"
    /\ fbStatus' = [f \in Feedback |->
                      CASE f \in Due -> "processing"
                        [] f \in Expired \ Due -> "pending"
                        [] OTHER -> fbStatus[f]]
    /\ fbOwner' = [f \in Feedback |->
                      CASE f \in Due -> w
                        [] f \in Expired \ Due -> NoWorker
                        [] OTHER -> fbOwner[f]]
    /\ fbLive' = fbLive \cup Due
    /\ fbAttempts' = [f \in Feedback |->
                        IF f \in Due /\ fbAttempts[f] < MaxAttempts
                        THEN fbAttempts[f] + 1 ELSE fbAttempts[f]]
    /\ pc' = [pc EXCEPT ![w] = "loading"]
    /\ batch' = [batch EXCEPT ![w] = Due]
    /\ UNCHANGED <<binding, draftVars, fbCategory, aged, backoff, pred, faults>>

\* The heartbeat extends the lease and the replies under it, expired or not,
\* as long as the worker still owns the lease.
Renew(w) ==
    /\ pc[w] # "idle"
    /\ leaseOwner = w
    /\ leaseExpiry = "past"
    /\ leaseExpiry' = "future"
    /\ fbLive' = fbLive \cup
                 {f \in Feedback : fbStatus[f] = "processing" /\ fbOwner[f] = w}
    /\ UNCHANGED <<binding, draftVars, fbStatus, fbOwner, fbAttempts, fbCategory,
                   aged, backoff, leaseOwner, workerVars, faults>>

Queued == {d \in Draft : status[d] = "queued"}

\* Read the newest queued draft of the thread; newer decided ones do not count.
Load(w) ==
    /\ pc[w] = "loading"
    /\ \E d \in Queued :
         /\ \A e \in Queued : rev[e] <= rev[d]
         /\ pred' = [pred EXCEPT ![w] = d]
    /\ pc' = [pc EXCEPT ![w] = "generating"]
    /\ UNCHANGED <<binding, draftVars, fbVars, leaseVars, batch, faults>>

\* The thread has no queued draft any more: a ValueError.
LoadFails(w) ==
    /\ pc[w] = "loading"
    /\ Queued = {}
    /\ Goto(w, "permanent")
    /\ UNCHANGED <<binding, draftVars, fbVars, leaseVars, faults>>

\* Claude returned a valid revision that passes the brand gate, or not.
Generate(w, outcome) ==
    /\ pc[w] = "generating"
    /\ Goto(w, outcome)
    /\ UNCHANGED <<binding, draftVars, fbVars, leaseVars, faults>>

\* A provider, network or database error in any step of the attempt.
OperationalError(w) ==
    /\ pc[w] \in {"loading", "generating", "persisting"}
    /\ Goto(w, "retryable")
    /\ UNCHANGED <<binding, draftVars, fbVars, leaseVars, faults>>

FirstOf(B) == CHOOSE f \in B : \A g \in B : f <= g
NextDraft(d) == ~Exists(d) /\ \A e \in Draft : e < d => Exists(e)

\* Mutant: the predecessor only has to be the newest draft.
CanSupersedeDecided(w) == IsLatest(pred[w])

CanSupersede(w) == IsLatest(pred[w]) /\ status[pred[w]] = "queued"

\* Mutant: the predecessor stays queued.
SupersedingNothing(w, d) == [status EXCEPT ![d] = "queued"]

Superseding(w, d) == [status EXCEPT ![pred[w]] = "superseded", ![d] = "queued"]

\* One transaction: the variant, its predecessor's supersession, the applied
\* replies, the approval message and the end of the lease.
CommitRevision(w) ==
    /\ pc[w] = "persisting"
    /\ Owned(w)
    /\ CanSupersede(w)
    /\ \E d \in Draft :
         /\ NextDraft(d)
         /\ status' = Superseding(w, d)
         /\ rev' = [rev EXCEPT ![d] = rev[pred[w]] + 1]
         /\ parent' = [parent EXCEPT ![d] = pred[w]]
         /\ source' = [source EXCEPT ![d] = batch[w]]
         /\ outbox' = outbox \cup {[draft |-> d, key |-> FirstOf(batch[w])]}
    /\ fbStatus' = [f \in Feedback |->
                      IF f \in batch[w] THEN "applied" ELSE fbStatus[f]]
    /\ DropLease(w)
    /\ UNCHANGED <<binding, fbOwner, fbLive, fbAttempts, fbCategory, aged, backoff>>

Persist(w) ==
    /\ CommitRevision(w)
    /\ Done(w)
    /\ UNCHANGED faults

\* The database committed but the worker saw a connection error, or the
\* shutdown reached it while it awaited the commit.
PersistUnacknowledged(w, handler) ==
    /\ CommitRevision(w)
    /\ faults < MaxFaults
    /\ faults' = faults + 1
    /\ Goto(w, handler)

\* The predecessor was decided or superseded meanwhile: RevisionConflictError.
PersistConflict(w) ==
    /\ pc[w] = "persisting"
    /\ Owned(w)
    /\ ~CanSupersede(w)
    /\ Goto(w, "conflict")
    /\ UNCHANGED <<binding, draftVars, fbVars, leaseVars, faults>>

\* Another worker took the batch over: a ValueError, handled as a permanent
\* failure of the attempt.
PersistRefused(w) ==
    /\ pc[w] = "persisting"
    /\ ~Owned(w)
    /\ Goto(w, "permanent")
    /\ UNCHANGED <<binding, draftVars, fbVars, leaseVars, faults>>

\* requeue_feedback_batch: whatever the worker still owns goes back at once.
ReturnBatch(w) ==
    LET mine == {f \in batch[w] : fbStatus[f] = "processing" /\ fbOwner[f] = w} IN
    /\ fbStatus' = [f \in Feedback |-> IF f \in mine THEN "pending" ELSE fbStatus[f]]
    /\ fbOwner' = [f \in Feedback |-> IF f \in mine THEN NoWorker ELSE fbOwner[f]]
    /\ fbLive' = fbLive \ mine
    /\ DropLease(w)
    /\ Done(w)
    /\ UNCHANGED <<binding, draftVars, fbAttempts, fbCategory, aged, backoff>>

Requeue(w) ==
    /\ pc[w] = "conflict"
    /\ ReturnBatch(w)
    /\ UNCHANGED faults

\* A shutdown cancels the attempt.
Cancel(w) ==
    /\ pc[w] \in {"loading", "generating", "persisting"}
    /\ faults < MaxFaults
    /\ faults' = faults + 1
    /\ ReturnBatch(w)

\* The process dies, or the database fails while a failure is being recorded.
Crash(w) ==
    /\ pc[w] # "idle"
    /\ faults < MaxFaults
    /\ faults' = faults + 1
    /\ Done(w)
    /\ UNCHANGED <<binding, draftVars, fbVars, leaseVars>>

\* MAX(processing_attempts) over the batch, against MAX_GENERATION_ATTEMPTS.
AttemptsLeft(w) == \A f \in batch[w] : fbAttempts[f] < MaxAttempts

\* retry_feedback_batch: back to pending, due after the backoff.
Retry(w) ==
    /\ pc[w] = "retryable"
    /\ AttemptsLeft(w)
    /\ Owned(w)
    /\ fbStatus' = [f \in Feedback |-> IF f \in batch[w] THEN "pending" ELSE fbStatus[f]]
    /\ fbOwner' = [f \in Feedback |-> IF f \in batch[w] THEN NoWorker ELSE fbOwner[f]]
    /\ fbLive' = fbLive \ batch[w]
    /\ fbCategory' = [f \in Feedback |->
                        IF f \in batch[w] THEN "operational" ELSE fbCategory[f]]
    /\ backoff' = [f \in Feedback |->
                     IF f \in batch[w] THEN FirstOf(batch[w]) ELSE backoff[f]]
    /\ DropLease(w)
    /\ Done(w)
    /\ UNCHANGED <<binding, draftVars, fbAttempts, aged, faults>>

\* mark_feedback_failed: the processing columns keep their values.
Fail(w) ==
    /\ \/ pc[w] = "permanent"
       \/ pc[w] = "retryable" /\ ~AttemptsLeft(w)
    /\ Owned(w)
    /\ fbStatus' = [f \in Feedback |-> IF f \in batch[w] THEN "failed" ELSE fbStatus[f]]
    /\ fbCategory' = [f \in Feedback |->
                        IF f \notin batch[w] THEN fbCategory[f]
                        ELSE IF pc[w] = "retryable" THEN "operational" ELSE "permanent"]
    /\ DropLease(w)
    /\ Done(w)
    /\ UNCHANGED <<binding, draftVars, fbOwner, fbLive, fbAttempts, aged, backoff, faults>>

\* The update of either handler finds the batch changed: a RuntimeError ends
\* the poll.
GiveUp(w) ==
    /\ pc[w] \in {"retryable", "permanent"}
    /\ ~Owned(w)
    /\ Done(w)
    /\ UNCHANGED <<binding, draftVars, fbVars, leaseVars, faults>>

-----------------------------------------------------------------------------

WorkerStep(w) ==
    \/ Claim(w)
    \/ Load(w) \/ LoadFails(w)
    \/ \E outcome \in {"persisting", "permanent"} : Generate(w, outcome)
    \/ OperationalError(w)
    \/ Persist(w) \/ PersistConflict(w) \/ PersistRefused(w)
    \/ Requeue(w) \/ Retry(w) \/ Fail(w) \/ GiveUp(w)

WorkerFault(w) ==
    \/ \E handler \in {"retryable", "conflict"} : PersistUnacknowledged(w, handler)
    \/ Cancel(w) \/ Crash(w)

Founder ==
    \/ \E f \in Feedback : Reply(f)
    \/ \E d \in Draft, verdict \in {"approved", "rejected"} : Decide(d, verdict)

Next ==
    \/ BindRoot
    \/ Founder
    \/ \E d \in Draft : Publish(d)
    \/ \E f \in Feedback : RetryFailed(f)
    \/ DebounceElapses
    \/ \E g \in Feedback : BackoffElapses(g)
    \/ OrphanLeaseExpires
    \/ HeartbeatStalls
    \/ \E w \in Worker : WorkerStep(w) \/ Renew(w) \/ WorkerFault(w)

Spec == Init /\ [][Next]_vars

\* The poll loop runs forever and swallows the errors of a round; time passes.
\* Nothing obliges the founder, an operator, the pipeline or a fault.
Fairness ==
    /\ \A w \in Worker : WF_vars(WorkerStep(w))
    /\ WF_vars(DebounceElapses)
    /\ \A g \in Feedback : WF_vars(BackoffElapses(g))
    /\ WF_vars(OrphanLeaseExpires)

FairSpec == Spec /\ Fairness

-----------------------------------------------------------------------------
(* Safety.                                                                  *)

\* The founder always has at most one draft to decide, and it is the newest
\* one: supersession, approvals and a second worker's variant never leave an
\* older draft open behind a newer one.
SingleLiveVariant ==
    \A d \in Draft : status[d] = "queued" => \A e \in Draft \ {d} :
        Exists(e) => status[e] # "queued" /\ rev[e] < rev[d]

\* A reply is consumed by exactly one variant when it is applied, by none
\* before: retries, takeovers and commits whose answer was lost neither apply a
\* reply twice nor mark it applied without a variant, and each variant's
\* approval message is enqueued exactly once.
AppliedExactlyOnce ==
    /\ \A f \in Feedback :
         fbStatus[f] = "applied" <=> \E d \in Draft : Exists(d) /\ f \in source[d]
    /\ \A d, e \in Draft : d # e => source[d] \cap source[e] = {}
    /\ \A d \in Draft \ {0} :
         Exists(d) <=> \E m \in outbox : m.draft = d /\ m.key \in source[d]

\* The lease row stands for the replies being processed: every processing
\* reply belongs to the current lease and expires with it, and a lease row
\* never outlives its batch, so an abandoned thread is always claimable again.
LeaseGuardsBatch ==
    /\ \A f \in Feedback : fbStatus[f] = "processing" =>
         fbOwner[f] = leaseOwner /\ (f \in fbLive <=> leaseExpiry = "future")
    /\ leaseOwner # NoWorker =>
         \E f \in Feedback : fbStatus[f] = "processing" /\ fbOwner[f] = leaseOwner

\* A worker whose ownership and predecessor checks pass never meets the unique
\* index on (root, revision) nor the outbox's idempotency conflict, however
\* stale the predecessor it loaded before the model calls.
CommitNeverCollides ==
    \A w \in Worker : pc[w] = "persisting" /\ Owned(w) /\ CanSupersede(w) =>
        /\ \A d \in Draft : Exists(d) => rev[d] # rev[pred[w]] + 1
        /\ \A m \in outbox : m.key # FirstOf(batch[w])

\* Once the newest draft is decided the thread is closed: whatever workers are
\* still generating, no draft is added, reopened or superseded, and the only
\* change left is an approved draft's publication.
Decided == \E d \in Draft : status[d] \in {"approved", "rejected", "published"}

DecidedThreadFrozen ==
    [][Decided => \A d \in Draft :
         \/ status'[d] = status[d]
         \/ status[d] = "approved" /\ status'[d] = "published"]_vars

\* A reply that a worker released or lost is never left behind: each pending
\* reply ends applied to a variant or recorded as failed, although workers
\* crash, stall, race decisions and meet operational errors.
FeedbackResolved ==
    \A f \in Feedback : fbStatus[f] = "pending" ~> fbStatus[f] \in {"applied", "failed"}

\* What the operations guide promises: provider, network and database failures
\* are retried three times before a reply is failed.  The code counts the
\* batch's oldest reply.
OperationalFailuresRetried ==
    \A f \in Feedback :
        fbStatus[f] = "failed" /\ fbCategory[f] = "operational" =>
            fbAttempts[f] >= MaxAttempts

-----------------------------------------------------------------------------
(* What the thread shows: the newest draft's number and verdict, and the    *)
(* replies applied so far.                                                  *)

Newest == CHOOSE d \in Draft : IsLatest(d)

Lineage == INSTANCE DraftLineage WITH
    revision <- rev[Newest],
    verdict <- status[Newest],
    consumed <- {f \in Feedback : fbStatus[f] = "applied"}

\* The workers' leases, claims and retries implement the line of variants the
\* founder sees: each commit is one fresh variant of an open thread, and every
\* other step is a decision, a publication or invisible.
ImplementsLineage == Lineage!Spec

-----------------------------------------------------------------------------
(* The inductive invariant behind the safety properties: draft d is number  *)
(* d and every older draft is superseded; messages belong to variants; a    *)
(* lease holder at work holds exactly the replies being processed.          *)

NumberedLine ==
    /\ Exists(0)
    /\ \A d \in Draft : Exists(d) =>
         rev[d] = d /\ \A e \in Draft : e < d => status[e] = "superseded"

SourcesOfDrafts ==
    /\ \A d \in Draft : ~Exists(d) \/ d = 0 => source[d] = {}
    /\ \A m \in outbox : m.key \in source[m.draft]

HolderHasAll ==
    \A w \in Worker : pc[w] # "idle" =>
        /\ batch[w] # {}
        /\ leaseOwner = w => batch[w] = {f \in Feedback : fbStatus[f] = "processing"}

ProcessingIsLeased ==
    \A f \in Feedback : fbStatus[f] = "processing" =>
        leaseOwner # NoWorker /\ backoff[f] = 0

\* What every transaction maintains; it implies the safety properties above.
IInv ==
    /\ TypeOK
    /\ NumberedLine
    /\ AppliedExactlyOnce
    /\ SourcesOfDrafts
    /\ LeaseGuardsBatch
    /\ ProcessingIsLeased
    /\ HolderHasAll

=============================================================================
