----------------------------- MODULE SlackOutbox -----------------------------
(***************************************************************************)
(* The durable Slack outbox: rows enqueued with the state change they      *)
(* announce, and deliverers that lease one row at a time, check it again,  *)
(* post it and record the outcome (slack_outbox.py).  The rows are those   *)
(* of one draft thread (root and variant approvals) and of one autonomy    *)
(* campaign (lifecycle audits, agent/loops/autonomy.py).                   *)
(*                                                                         *)
(* Posting is not transactional: a deliverer can die, lose its lease or    *)
(* lose Slack's answer between the post and the record of it.              *)
(***************************************************************************)
EXTENDS Integers, FiniteSetsExt

CONSTANTS
    Deliverer,    \* concurrent calls of deliver_pending_outbox
    NoDeliverer,  \* SQL NULL in lease_owner
    AuditKey,     \* idempotency keys of audits: decision and outcome
    MaxRevision,  \* bound: variants of the thread are 1 .. MaxRevision
    MaxFaults     \* bound: crashes, lost answers, errors, overrun leases

ASSUME DelivererAssumption == NoDeliverer \notin Deliverer
ASSUME BoundsAssumption ==
    /\ MaxRevision \in Nat
    /\ MaxFaults \in Nat
    /\ IsFiniteSet(AuditKey)
    /\ AuditKey \cap Nat = {}

VARIABLES
    draftStatus,  \* of the newest draft of the thread
    newest,       \* its revision number
    binding,      \* slack_root_ts: which post of the root row, 0 when NULL
    kind,         \* message_kind by row id, "none" before the row exists
    key,          \* what the row announces: a revision number or an audit key
    status,       \* status by row id
    owner,        \* lease_owner
    live,         \* rows whose lease_expires_at is in the future
    delayed,      \* rows whose next_attempt_at is in the future
    posts,        \* how often Slack accepted the row's message
    pc,           \* where a deliverer stands in its loop
    row,          \* the row it claimed, 0 for none
    ts,           \* the post that Slack answered with
    lastAudit,    \* key of the campaign's newest lifecycle event (history)
    faults        \* faults so far

threadVars == <<draftStatus, newest>>
rowVars == <<kind, key>>
leaseVars == <<owner, live, delayed>>
workerVars == <<pc, row, ts>>
vars == <<threadVars, binding, rowVars, status, leaseVars, posts, workerVars,
          lastAudit, faults>>

Row == 1 .. (MaxRevision + 1 + Cardinality(AuditKey))
NoAudit == 0

TypeOK ==
    /\ draftStatus \in {"queued", "decided"}
    /\ newest \in 0 .. MaxRevision
    /\ binding \in Nat
    /\ kind \in [Row -> {"none", "root_approval", "thread_approval", "autonomy_audit"}]
    /\ key \in [Row -> 0 .. MaxRevision \cup AuditKey]
    /\ status \in [Row -> {"pending", "failed", "delivered", "obsolete"}]
    /\ owner \in [Row -> Deliverer \cup {NoDeliverer}]
    /\ live \subseteq Row
    /\ delayed \subseteq Row
    /\ posts \in [Row -> Nat]
    /\ pc \in [Deliverer -> {"idle", "claimed", "checked", "posted", "error"}]
    /\ row \in [Deliverer -> Row \cup {0}]
    /\ ts \in [Deliverer -> Nat]
    /\ lastAudit \in AuditKey \cup {NoAudit}
    /\ faults \in 0 .. MaxFaults

Exists(m) == kind[m] # "none"
Open(m) == Exists(m) /\ status[m] \in {"pending", "failed"}

Init ==
    /\ draftStatus = "queued"
    /\ newest = 0
    /\ binding = 0
    /\ kind = [m \in Row |-> "none"]
    /\ key = [m \in Row |-> 0]
    /\ status = [m \in Row |-> "pending"]
    /\ owner = [m \in Row |-> NoDeliverer]
    /\ live = {}
    /\ delayed = {}
    /\ posts = [m \in Row |-> 0]
    /\ pc = [w \in Deliverer |-> "idle"]
    /\ row = [w \in Deliverer |-> 0]
    /\ ts = [w \in Deliverer |-> 0]
    /\ lastAudit = NoAudit
    /\ faults = 0

-----------------------------------------------------------------------------
(* Who enqueues.                                                            *)

NextRow(m) == ~Exists(m) /\ \A n \in Row : n < m => Exists(n)

Insert(m, kd, k) ==
    /\ NextRow(m)
    /\ kind' = [kind EXCEPT ![m] = kd]
    /\ key' = [key EXCEPT ![m] = k]

\* The daily loop announces a fresh draft; the key is unique per draft.
EnqueueRoot ==
    /\ newest = 0
    /\ draftStatus = "queued"
    /\ ~ \E m \in Row : kind[m] = "root_approval"
    /\ \E m \in Row : Insert(m, "root_approval", 0)
    /\ UNCHANGED <<threadVars, binding, status, leaseVars, posts, workerVars,
                   lastAudit, faults>>

\* persist_revision_and_supersede, in a thread Slack already knows.
EnqueueVariant ==
    /\ binding # 0
    /\ draftStatus = "queued"
    /\ newest < MaxRevision
    /\ newest' = newest + 1
    /\ \E m \in Row : Insert(m, "thread_approval", newest + 1)
    /\ UNCHANGED <<draftStatus, binding, status, leaseVars, posts, workerVars,
                   lastAudit, faults>>

\* The founder approves or rejects the newest draft.
Decide ==
    /\ draftStatus = "queued"
    /\ draftStatus' = "decided"
    /\ UNCHANGED <<newest, binding, rowVars, status, leaseVars, posts, workerVars,
                   lastAudit, faults>>

\* Mutant: notices that failed once stay open behind a newer one.
SupersededPending(k) ==
    {m \in Row : kind[m] = "autonomy_audit" /\ Exists(m) /\ status[m] = "pending" /\ key[m] # k}

Superseded(k) == {m \in Row : kind[m] = "autonomy_audit" /\ Open(m) /\ key[m] # k}

\* _audit: older undelivered notices become obsolete; the new one is inserted
\* unless its key was used before.
RecordAudit(k) ==
    /\ lastAudit' = k
    /\ status' = [m \in Row |-> IF m \in Superseded(k) THEN "obsolete" ELSE status[m]]
    /\ owner' = [m \in Row |-> IF m \in Superseded(k) THEN NoDeliverer ELSE owner[m]]
    /\ live' = live \ Superseded(k)
    /\ \/ /\ \E m \in Row : kind[m] = "autonomy_audit" /\ key[m] = k
          /\ UNCHANGED rowVars
       \/ /\ ~ \E m \in Row : kind[m] = "autonomy_audit" /\ key[m] = k
          /\ \E m \in Row : Insert(m, "autonomy_audit", k)
    /\ UNCHANGED <<threadVars, binding, delayed, posts, workerVars, faults>>

-----------------------------------------------------------------------------
(* Time.                                                                    *)

\* The retry delay of an hour passes.
RetryDue(m) ==
    /\ m \in delayed
    /\ delayed' = delayed \ {m}
    /\ UNCHANGED <<threadVars, binding, rowVars, status, owner, live, posts,
                   workerVars, lastAudit, faults>>

Expire(m) ==
    /\ m \in live
    /\ live' = live \ {m}
    /\ UNCHANGED <<threadVars, binding, rowVars, status, owner, delayed, posts,
                   workerVars, lastAudit>>

AtWork(m) == \E w \in Deliverer : row[w] = m /\ owner[m] = w

\* The lease of a deliverer that died.
OrphanLeaseExpires(m) ==
    /\ ~AtWork(m)
    /\ Expire(m)
    /\ UNCHANGED faults

\* Nothing renews the lease of a slow deliverer.
LeaseOverrun(m) ==
    /\ AtWork(m)
    /\ faults < MaxFaults
    /\ faults' = faults + 1
    /\ Expire(m)

-----------------------------------------------------------------------------
(* A deliverer.                                                             *)

Goto(w, step) ==
    /\ pc' = [pc EXCEPT ![w] = step]
    /\ UNCHANGED <<row, ts>>

Done(w) ==
    /\ pc' = [pc EXCEPT ![w] = "idle"]
    /\ row' = [row EXCEPT ![w] = 0]
    /\ ts' = [ts EXCEPT ![w] = 0]

Release(m) ==
    /\ owner' = [owner EXCEPT ![m] = NoDeliverer]
    /\ live' = live \ {m}

\* Mutant: the claim does not look at the lease.
DueWhoeverLeases == {m \in Row : Open(m) /\ m \notin delayed}

\* Mutant: an expired lease is not taken over.
DueUnleased == {m \in Row : Open(m) /\ m \notin delayed /\ owner[m] = NoDeliverer}

Due == {m \in Row : Open(m) /\ m \notin delayed /\ (owner[m] = NoDeliverer \/ m \notin live)}

\* Lease the due row with the smallest id.
Claim(w) ==
    /\ pc[w] = "idle"
    /\ \E m \in Due :
         /\ \A n \in Due : m <= n
         /\ owner' = [owner EXCEPT ![m] = w]
         /\ live' = live \cup {m}
         /\ row' = [row EXCEPT ![w] = m]
    /\ pc' = [pc EXCEPT ![w] = "claimed"]
    /\ UNCHANGED <<threadVars, binding, rowVars, status, delayed, posts, ts,
                   lastAudit, faults>>

\* An approval of a draft that is not queued and newest any more, or a notice
\* with a newer one behind it.
Stale(m) ==
    \/ kind[m] # "autonomy_audit" /\ ~(draftStatus = "queued" /\ key[m] = newest)
    \/ kind[m] = "autonomy_audit" /\ \E n \in Row : n > m /\ kind[n] = "autonomy_audit"

Owns(w, m) == owner[m] = w /\ Open(m)

\* _lease_is_current cancels a stale message at the send boundary.
CancelStale(w) ==
    /\ pc[w] = "claimed"
    /\ Owns(w, row[w])
    /\ Stale(row[w])
    /\ status' = [status EXCEPT ![row[w]] = "obsolete"]
    /\ Release(row[w])
    /\ Done(w)
    /\ UNCHANGED <<threadVars, binding, rowVars, delayed, posts, lastAudit, faults>>

\* _lease_is_current, of a message that is not cancelled.
Check(w) ==
    /\ pc[w] = "claimed"
    /\ ~(Owns(w, row[w]) /\ Stale(row[w]))
    /\ IF Owns(w, row[w]) /\ row[w] \in live THEN Goto(w, "checked") ELSE Done(w)
    /\ UNCHANGED <<threadVars, binding, rowVars, status, leaseVars, posts,
                   lastAudit, faults>>

\* Mutant: the thread is bound as soon as Slack answers.
PostBinding(w, answer) ==
    /\ pc[w] = "checked"
    /\ answer = "posted"
    /\ posts' = [posts EXCEPT ![row[w]] = @ + 1]
    /\ ts' = [ts EXCEPT ![w] = posts'[row[w]]]
    /\ binding' = IF kind[row[w]] = "root_approval" /\ binding = 0
                  THEN posts'[row[w]] ELSE binding
    /\ pc' = [pc EXCEPT ![w] = "posted"]
    /\ UNCHANGED <<row, faults, threadVars, rowVars, status, leaseVars, lastAudit>>

\* Slack accepts the message.  The answer carries the timestamp, or is lost.
Post(w, answer) ==
    /\ pc[w] = "checked"
    /\ posts' = [posts EXCEPT ![row[w]] = @ + 1]
    /\ ts' = [ts EXCEPT ![w] = posts'[row[w]]]
    /\ UNCHANGED row
    /\ \/ /\ answer = "posted"
          /\ pc' = [pc EXCEPT ![w] = "posted"]
          /\ UNCHANGED faults
       \/ /\ answer = "error"
          /\ faults < MaxFaults
          /\ pc' = [pc EXCEPT ![w] = "error"]
          /\ faults' = faults + 1
    /\ UNCHANGED <<threadVars, binding, rowVars, status, leaseVars, lastAudit>>

\* Slack refuses the message, or the database fails while recording a post.
DeliveryError(w) ==
    /\ pc[w] \in {"checked", "posted"}
    /\ faults < MaxFaults
    /\ faults' = faults + 1
    /\ Goto(w, "error")
    /\ UNCHANGED <<threadVars, binding, rowVars, status, leaseVars, posts, lastAudit>>

BindingFree(w) == binding = 0 \/ binding = ts[w]

\* Mutant: only a draft that is still queued is bound.
FinalizeBindingQueued(w) ==
    /\ pc[w] = "posted"
    /\ Owns(w, row[w])
    /\ binding' = IF kind[row[w]] = "root_approval" /\ draftStatus = "queued"
                  THEN ts[w] ELSE binding
    /\ status' = [status EXCEPT ![row[w]] = "delivered"]
    /\ Release(row[w])
    /\ Done(w)
    /\ UNCHANGED <<threadVars, rowVars, delayed, posts, lastAudit, faults>>

\* _finalize_success: the post is recorded and a root post binds the thread.
\* A thread bound to another post would raise; BindNeverRefused says it is not.
FinalizeSuccess(w) ==
    /\ pc[w] = "posted"
    /\ Owns(w, row[w])
    /\ \/ /\ kind[row[w]] = "root_approval"
          /\ BindingFree(w)
          /\ binding' = ts[w]
       \/ /\ kind[row[w]] # "root_approval"
          /\ UNCHANGED binding
    /\ status' = [status EXCEPT ![row[w]] = "delivered"]
    /\ Release(row[w])
    /\ Done(w)
    /\ UNCHANGED <<threadVars, rowVars, delayed, posts, lastAudit, faults>>

\* Mutant: the failure is recorded without asking for the lease.
FinalizeFailureUnowned(w) ==
    /\ pc[w] = "error"
    /\ status' = [status EXCEPT ![row[w]] = "failed"]
    /\ delayed' = delayed \cup {row[w]}
    /\ Release(row[w])
    /\ Done(w)
    /\ UNCHANGED <<threadVars, binding, rowVars, posts, lastAudit, faults>>

\* _finalize_failure: try again in an hour.
FinalizeFailure(w) ==
    /\ pc[w] = "error"
    /\ Owns(w, row[w])
    /\ status' = [status EXCEPT ![row[w]] = "failed"]
    /\ delayed' = delayed \cup {row[w]}
    /\ Release(row[w])
    /\ Done(w)
    /\ UNCHANGED <<threadVars, binding, rowVars, posts, lastAudit, faults>>

\* Either finalizer of a deliverer that lost the row changes nothing.
FinalizeLost(w) ==
    /\ pc[w] \in {"posted", "error"}
    /\ ~Owns(w, row[w])
    /\ Done(w)
    /\ UNCHANGED <<threadVars, binding, rowVars, status, leaseVars, posts,
                   lastAudit, faults>>

\* The process dies, or a database error outside the send ends the call.
Crash(w) ==
    /\ pc[w] # "idle"
    /\ faults < MaxFaults
    /\ faults' = faults + 1
    /\ Done(w)
    /\ UNCHANGED <<threadVars, binding, rowVars, status, leaseVars, posts, lastAudit>>

-----------------------------------------------------------------------------

Deliver(w) ==
    \/ Claim(w) \/ CancelStale(w) \/ Check(w) \/ Post(w, "posted")
    \/ FinalizeSuccess(w) \/ FinalizeFailure(w) \/ FinalizeLost(w)

DeliveryFault(w) == Post(w, "error") \/ DeliveryError(w) \/ Crash(w)

Next ==
    \/ EnqueueRoot \/ EnqueueVariant \/ Decide
    \/ \E k \in AuditKey : RecordAudit(k)
    \/ \E m \in Row : RetryDue(m) \/ OrphanLeaseExpires(m) \/ LeaseOverrun(m)
    \/ \E w \in Deliverer : Deliver(w) \/ DeliveryFault(w)

Spec == Init /\ [][Next]_vars

\* The hourly job and the restart call deliver_pending_outbox again and again,
\* and time passes.
Fairness ==
    /\ \A w \in Deliverer : WF_vars(Deliver(w))
    /\ \A m \in Row : WF_vars(RetryDue(m)) /\ WF_vars(OrphanLeaseExpires(m))

FairSpec == Spec /\ Fairness

-----------------------------------------------------------------------------
(* What the outbox promises.                                                *)

Root == {m \in Row : kind[m] = "root_approval"}
Audit == {m \in Row : kind[m] = "autonomy_audit"}

\* The thread is bound to a post that Slack really has exactly when its root
\* approval is recorded as delivered: the two writes of _finalize_success never
\* come apart, whoever finalizes and however often the root was posted.
BindingIsDelivered ==
    /\ binding # 0 <=> \E m \in Root : status[m] = "delivered"
    /\ \A m \in Root : binding <= posts[m]

\* A deliverer that posted the root approval and still owns its row finds the
\* thread unbound or bound to its own post: the RuntimeError of
\* _finalize_success is never raised, so no root row fails forever.
BindNeverRefused ==
    \A w \in Deliverer :
        pc[w] = "posted" /\ row[w] \in Root /\ Owns(w, row[w]) => BindingFree(w)

\* Slack receives a message again only after something went wrong: every post
\* beyond the first of a row is paid for by a crash, an error, a lost answer or
\* an overrun lease of its own; concurrent deliverers alone never post twice.
DuplicatesNeedAFault ==
    SumFunctionOnSet([m \in Row |-> posts[m] - 1], {m \in Row : posts[m] > 0}) <= faults

\* At most one lifecycle notice of a campaign is waiting to be sent, and no
\* newer notice exists; a recorded notice that was delivered has been posted.
OneOpenNotice ==
    /\ \A m \in Audit : Open(m) => \A n \in Audit : n <= m
    /\ \A m \in Row : status[m] = "delivered" => posts[m] > 0

\* A delivered or obsolete row is never touched again and a bound thread keeps
\* its root message, although deliverers that lost their lease finish late.
OutcomesStand ==
    [][/\ \A m \in Row : status[m] \in {"delivered", "obsolete"} => status'[m] = status[m]
       /\ binding # 0 => binding' = binding]_vars

\* Every enqueued message is eventually delivered or cancelled, although
\* deliverers crash, overrun their leases and meet Slack errors.
AllSettled ==
    \A m \in Row : Exists(m) ~> status[m] \in {"delivered", "obsolete"}

\* What the runbook asks of the campaign channel: the newest lifecycle notice
\* is in Slack or on its way.  An outcome that repeats an earlier one of the
\* same decision cancels the notice in between and inserts none.
NewestNoticeSurvives ==
    lastAudit # NoAudit => \E m \in Audit : key[m] = lastAudit /\ status[m] # "obsolete"

=============================================================================
