# A TLA+ model of the PeerMarket marketing agent

The agent drafts marketing posts, asks the founder for approval in Slack,
revises drafts from the founder's replies, publishes approved ads to Meta and
then watches and tunes them: it pauses, replaces, scales and reallocates ads on
its own. All of its memory is PostgreSQL; several processes and coroutines work
on it at once, and the two systems it talks to (Slack and Meta) take part in no
transaction. What can go wrong is therefore not in one function but between
them: a worker that outlives its lease, an answer that never arrives, a founder
who decides while a model call is running.

This directory models the protocols that carry that risk, checks them with TLC
on small instances, and proves the most important results with TLAPS for every
size of instance. Paths below are relative to `src/src/peermarket_agent/`.

## 1. Inventory

| Component | State | Operations | Talks to |
|---|---|---|---|
| Approval thread and revision worker (`revisions.py`, `agent/loops/revisions.py`) | `drafts`, `draft_revision_feedback`, `draft_revision_generation_leases` | `record_revision_feedback`, `claim_feedback_batch`, `renew_generation_lease`, `load_latest_revision_source`, `persist_revision_and_supersede`, `requeue_`/`retry_feedback_batch`, `mark_feedback_failed`, `retry_failed_feedback` | Claude, the outbox (same transaction) |
| Slack bridge (`slack_bridge/`) | none of its own | `handle_ack`, `handle_revision_reply` | thread, Meta publication (background task) |
| Slack outbox (`slack_outbox.py`) | `slack_outbox`, `drafts.slack_root_ts` | `enqueue_root_approval`, `_claim_pending_outbox`, `_lease_is_current`, `_finalize_success`, `_finalize_failure` | Slack |
| Autonomy evaluation and audit (`agent/loops/autonomy.py`, `autonomy/snapshot.py`) | `autonomous_decisions` (append only) | `run_autonomy_cycle`, `_eligible_campaigns`, `_audit` | policy, queue, outbox |
| Policy (`autonomy/policy.py`, `contracts.py`) | none | `evaluate_campaign` and its arithmetic | |
| Action queue and ledger (`autonomy/store.py`) | `autonomous_actions`, `autonomous_budget_events` | `enqueue_action`, `claim_next_action`, `begin_execution`, `finish_action`, `release_action`, `block_campaign_for_reconciliation` | executor |
| Executor (`autonomy/executor.py`) | the worker's locals, Meta's budgets | `execute_claim`, `_replace`, `_replace_hook_experiment` | Meta, queue |
| Replacement pipeline (`autonomy/replacements.py`, `meta_pipeline.py`) | `autonomous_replacement_publications`, replacement drafts | generation claims, `publish_replacement_paused` | Claude, Meta |
| Meta publication (`meta_pipeline.py`, `meta_ads.py`, `publications.py`) | `publications` | `process_approved_meta_draft`, `replace_terminal_meta_draft`, `_mark_published` | Meta, Slack |
| Hourly collection and alerts (`agent/loops/hourly.py`) | `publications.performance` | snapshot merge, alert claims | Meta, Slack |
| Daily performance and learnings (`agent/loops/performance_daily.py`, `learnings.py`) | learnings, summary rows | summary outbox, evidence windows | Slack |
| Daily drafts (`agent/loops/daily.py`, `agent/cli_draft.py`) | `drafts` | `run_daily_drafts` | Claude, outbox |
| Video workflow (`video_workflow.py`) | `video_assets`, files | `process_video_upload` | Slack, ffmpeg |
| Main loops (`agent/main.py`) | none | hourly, daily, revision loops, startup jobs | all |
| Schema, configuration, commands, prompts, connectors | | | |

What is hard, and what makes each part correct:

- **Thread.** Feedback is claimed in batches under a five-minute generation
  lease; generation takes minutes and holds no transaction. The founder can
  decide, reply again or do nothing meanwhile; the lease can expire under a slow
  worker; a commit can succeed without the worker learning it. Correct means: at
  most one draft is open, each reply ends in exactly one variant or in a recorded
  failure, and a decision is final.
- **Outbox.** Posting to Slack is not transactional and its lease is not renewed.
  Correct means: a message is settled exactly once in the database, posted twice
  only if something failed, and the thread is bound to the root message that was
  recorded.
- **Queue and executor.** A budget change is a saga over several ad sets in an
  external system that the founder edits too. Correct means: one open action per
  campaign, only its holder writes, what succeeded stays, what is retried has
  changed nothing, and the ledger that limits future changes is exact.
- **Replacement.** A worker writes a draft, creates its campaign part by part,
  activates it and pauses the source, under three leases that end at different
  times. Correct means: nothing is created twice, whatever serves is recorded so
  that a successor can pause it, and the source is paused only while its
  replacement serves.
- **Publication.** The run of an approval, an operator's retry and an operator's
  terminal replacement share a draft through an advisory lock held on a
  connection that none of their transactions uses. Correct means: no draft pays
  for two hierarchies, what serves is found by the stored ids, and ids leave the
  row only when their hierarchy is gone for good.
- **Policy.** Decision and execution look at different rows at different times.
  Correct means: the limits of any rolling day hold over every sequence of
  decisions and edits, cents are neither made nor lost, and the two readings of
  the limits agree.
- **Alerts and summaries.** Hourly and daily runs write one JSON document.
  Correct means: the recorded alert is what the founder was told, a window is
  summarized once and in order, and no failure blocks what comes after it.

## 2. Modules

    DraftLineage            the abstract line of variants of one thread
      ^ implemented by
    DraftRevisions          thread, feedback, lease, workers
      ^ extended by         MCDraftRevisions, DraftRevisionsProofs
    SlackOutbox             rows, bindings, deliverers
      ^ extended by         MCSlackOutbox, SlackOutboxProofs
    BudgetActions           queue, ledger, executor, Meta
      ^ extended by         MCBudgetActions, BudgetActionsProofs
    Replacement             replacement and hook experiment, three leases, Meta
      ^ extended by         MCReplacement, ReplacementProofs
    CampaignPolicy          evidence, decisions and limits over days
      ^ extended by         MCCampaignPolicy, CampaignPolicyProofs
    MetaPublication         publication of an approved draft, operators, Meta
      ^ extended by         MCMetaPublication, MetaPublicationProofs
    PublicationPerformance  hourly and daily writers of one document
      ^ extended by         MCPublicationPerformance, PublicationPerformanceProofs
    SumTheorems             sums over finite sets, ranks; used by
                            SlackOutboxProofs and CampaignPolicyProofs

A transaction is one action. Each transaction of these tables takes an advisory
lock or a row lock on what it changes and commits as a whole, so nothing can be
observed inside it; between two transactions, and around every call of Claude,
Slack and Meta, every other action may happen. The one writer that takes no lock,
`persist_autonomy_inputs`, is two actions, its read and its write. Each worker
has a program counter that names the place in its loop. An operator whose comment
begins with "Mutant:" is a plausible wrong version of its neighbour and no part
of the specification.

### DraftRevisions

One thread: threads share nothing but the workers. Draft `d` is the `d`th row
inserted; `rev`, `parent`, `source` are its columns. `fbLive` and `leaseExpiry`
replace the clock: an expiry is in the past or in the future, and `ExpireLease`,
`DebounceElapses` and `BackoffElapses` let time pass. The replies of one retried
batch share their `next_attempt_at`, which is what `backoff` remembers. A fresh
lease uuid per claim is represented by the worker, which has one batch at a time.

| Action | Code |
|---|---|
| `Claim` | `claim_feedback_batch`: lease upsert, return of expired replies, due replies |
| `Load`, `LoadFails` | `load_latest_revision_source` |
| `Generate`, `OperationalError` | the model call and `_is_retryable` |
| `Persist`, `PersistConflict`, `PersistRefused` | `persist_revision_and_supersede` and its two refusals |
| `PersistUnacknowledged` | its commit, without the answer |
| `Requeue`, `Retry`, `Fail`, `GiveUp`, `Cancel` | the handlers of `run_pending_revisions` |
| `Renew`, `HeartbeatStalls` | `_renew_while_generating` |
| `Reply`, `Decide`, `Publish`, `RetryFailed`, `BindRoot` | bridge, pipeline, operator, outbox |
| `Crash` | the process dies anywhere |

`DraftLineage` is what the founder sees: a numbered line, one open variant, each
made of fresh replies, closed by a decision. `ImplementsLineage` is the
refinement: revision and verdict of the newest draft, and the applied replies.

### SlackOutbox

The rows of one draft thread and one campaign, which are the two things that
make a row stale. `posts[m]` counts what Slack accepted; `ts` is the post a
deliverer has the timestamp of; `binding` is the thread's root timestamp. `Post`
with answer "error" is an accepted message whose answer is lost. `RecordAudit`
is `_audit`, both of its statements. `Decide` and `EnqueueVariant` stand for the
transactions of the thread, reduced to what the outbox reads of a draft.

### BudgetActions

The actions of one campaign. Meta is a budget per ad set, "old" (the frozen
approval), "new" (what the action wants) or "other" (the founder's); `writer`
remembers who wrote it last. The executor's three loops (check, read and write,
verify) are walked ad set by ad set, `at` being the position and `wrote` the
length of `allocation_writes`; a pause or a single scale is the case of one ad
set without the check loop and without rollback. `Fenced` is the WHERE clause
that every renewal and every outcome shares. A call to Meta is two steps, the
renewal of the lease (`Renew`) and the call (`Send`), as in `_write_external`;
its errors leave Meta changed or not (`SendFails`, `CrashInCall`). `Raise` sends
an exception to the rollback if something was written and `Handle` gives the
three outcomes: cancelled, released, blocked. A worker that a claim refused by
the settings leaves behind is `Crash`: the row stays leased in the same way.

`events` is the number of ledger rows of an action, `blocked` the actions that
were ever declared uncertain, both as history of what the tables keep.

### Replacement

One action that replaces an ad, by `_replace` or, when `hook` is chosen, by
`_replace_hook_experiment`; what the policy says of the claim is an input
(`Refuse`, `Approve`). Three rows carry a lease each: the action (`status`,
`holder`, `live`), the generation of the draft (`gen...`) and the publication
(`pub...`), whose progress (`recorded`, `asked`, `imaged`) says which part was
created last and whether the next one was asked for. `made[p]` is the number of
resources in Meta that bear the request name of part `p`. The heartbeat of a
worker renews what `_heartbeat_once` renews, so that only the lease of a worker
that is gone expires freely (`OrphanLeaseExpires`), any other by a fault
(`LeaseOverrun`), and between a check and the call it guards by `LateCall`. The
publication lease of a hook experiment is renewed by nobody.

| Action | Code |
|---|---|
| `Claim`, `Begin`, `Settle` | `claim_next_action`, `begin_execution`, the outcomes of `store.py` |
| `ClaimGeneration`, `PersistDraft` | `replacements._claim_generation`, `_persist` |
| `AcquirePublication`, `Revalidate`, `Shoot`, `Request`, `Look`, `Make`, `Record`, `Observe`, `Finalize` | `publish_replacement_paused`, its progress callbacks, the bundle loop of the hook experiment |
| `Repause`, `Disown`, `Declare` | the except branches that pause and mark `reconciliation_required`; a failed validation goes there too (`Abort`), and the mark follows whether the pause worked or not |
| `Verify`, `Fence`, `Activate`, `CheckActive`, `RecheckSource`, `RenewForPause`, `PauseSource`, `Confirm`, `Finish` | the swap in `_replace` |
| `Fail`, `Undo`, `PauseBundle`, `Handle` | its compensation and the handlers of `execute_claim` |
| `StepFails`, `CallFails`, `EarlyFails`, `FinishFails`, `Crash` | errors, lost answers, cancellation, death |

### MetaPublication

One draft. Runs are the background task of `handle_ack` (`AckRun`) and operators
who call the commands of `cli_meta.py`. `hier` is Meta: how many of the four parts
of a hierarchy were made, and one status for campaign, ad set and ad, which the
code always sets together; `ids[p]` is the hierarchy whose part `p` the row
stores. The lock belongs to a connection: `Acquire` waits for it, `End` gives it
back, `LoseLock` breaks the connection while its run goes on. The budget is
only frozen or not (`frozen`), and the metadata of a row never changes.

| Action | Code |
|---|---|
| `Approve`, `Reject` | `handle_ack` and its background task |
| `Reconcile`, `Check`, `Adopt` | `reconcile_draft` in `cli_meta.py` |
| `Replace`, `Inspect`, `Begin`, `Result`, `Finalize` | `replace_terminal_meta_draft` and the history of `publications.py` |
| `Read`, `Freeze`, `Image`, `CreatePart`, `Store`, `Activate`, `Mark`, `Undo`, `Record` | `_process_approved_meta_draft`, `meta_ads.py`, `_mark_published`, `_record_failure` |
| `Refused`, `BrokenOff`, `ActivateFails`, `MarkFails`, `UndoFails`, `DatabaseFails`, `Crash`, `LoseLock` | which exception is caught where |

The founder archives and pauses in Meta and does not activate. `Reconcile` takes
the ids of complete hierarchies that the runs made.

### CampaignPolicy

The budgets of one campaign over several days. `basis` is what the last
collection stored: when, the rate of each publication, and `healthy`, one boolean
for all evidence gates (complete, attributed, delivering, above the floors of
spend, impressions and confidence). `Evaluate` is `evaluate_campaign` in the
order of its verdicts, with the arithmetic of `_scale`, `_scale_allocations` and
`_allocation`, and the freezing of the decision; `Execute` is one step, the
checks of `_policy_reason`, the comparison with the live budgets, and the
writes (their interleavings are in BudgetActions). `approved` is what the
publication was approved with: the code never updates it. `rank` is the order of the
draft ids as text, in which 10 comes before 9; `Orders` says which orders are
possible (in the run: none and both ways in which ids like 9, 10, 11 turn). The
changes of a decision are a function from publications to old and new budgets.
Hours are scaled down: a day is three, a cooldown two.

### PublicationPerformance

The performance document of one publication, `This` (`doc`), what the daily run
uses of the `Others` (`others`: latest window and observations), and the summary
outbox. Hourly runs collect under the row lock (`Collect`), claim, send and finish an alert
(`Claim`, `Post`, `Finish`: `_claim_alert`, `_deliver`, `_finish_alert`), and then
read and write the inputs of the policy (`Read`, `Write`:
`persist_autonomy_inputs`). The `Others` stand for publications that
`persist_autonomy_inputs` does not write back: it selects active ones and skips those
without an `autonomy_basis` (`agent/loops/autonomy.py:492`, 504). The daily run observes
every collected window and enqueues the summaries in one transaction (`Observe`) and
drains them (`ClaimSummary`, `Send`, `FinishSummary`). A summary is of a window and of
the publications that have an observation of it, as `_enqueue_summary` groups them
(`Keys`); its identity (`Key`) is the window with the publications and their evidence.
The evidence id of a publication is fixed by the window, so the set of publications
determines it. A window is thus summarized again when the set has changed. A claim's age is measured from the `now` its run began with, as
in the code; a run may take `MaxAge` ticks, a claim lasts `Lease`. A condition
stands for the pair of condition and observed state that the code compares, and
"healthy" for every condition it does not alert. There is one daily run; a second
hourly run stands for a second process (`overlaps`).

## 3. Runs

| Run | Instance | Distinct states | Question |
|---|---|---|---|
| `revision` | 2 workers, 2 replies, 2 variants, 2 attempts, 2 faults | 352 000 | one live variant, each reply once, decided threads frozen, the lineage implemented, every reply resolved |
| `outbox` | 2 deliverers, root, 1 variant, 2 notices, 1 fault | 399 000 | bindings, outcomes, duplicates only after a fault, every message settled |
| `action` | 2 workers, 2 ad sets, 2 actions, 1 edit, 1 fault, 1 late call | 1 090 000 | fencing, ledger, rollback, every action decided |
| `replacement` | 2 workers, 2 parts, 2 ads, 1 edit, 2 faults, 1 late call | 1 050 000 | nothing twice, what serves is recorded, the swap, every replacement decided |
| `publication` | the approval's run, 2 operators, 1 terminal replacement, 1 fault, 1 lost lock | 988 000 | what serves is stored, ids are kept, no second hierarchy, approvals settle |
| `policy` | 3 publications, budgets 4 and 6, rates 1 and 2, 20 percent, 6 hours, 1 edit | 3 090 000 | limits of a rolling day, shares to the cent, both readings agree |
| `performance` | 2 publications, 2 hourly runs, 2 windows, 2 changes, 1 fault or overlap | 1 520 000 | alerts, evidence, summaries, and that they get through |
| `outbox_notices` | 1 deliverer, 2 notices, no fault | | newest notice survives (fails) |
| `action_blocked` | 1 worker, 1 ad set, 1 fault | | blocking is terminal (fails) |
| `action_total` | 1 worker, 2 ad sets, 1 fault | | a reallocation never raises the total (fails) |
| `policy_replacement` | 2 publications, no edit | | a fresh replacement is carried out (fails) |
| `performance_lost` | 2 publications, 1 hourly run, no fault | | observations are kept (fails) |

Each passing run checks safety, action properties and liveness of one module
together and takes one to three minutes.

Bounds. Two replies give every merge: batched together, the second overtaking
the first in its backoff, the second arriving during a generation. Two variants
after the root make the newest draft's predecessor itself a variant. Two workers
take over from each other again and again, since a worker that lost its lease
claims anew; two faults are a crash and then a lost answer of the worker that
took over. Where one fault is allowed the safety part is proved for any number
(section 5), or, in MetaPublication, the second actor provides what a second
fault would: a run that meets the remains of another. Two notices are enough for
one to be superseded and come back. Two ad sets, two parts or two ads are the
shortest saga that can stop half way; two actions make a successor of every
closed action, and one founder edit is enough to make any read of the saga fail.
One late call distinguishes a write in time from one that is not. One terminal
replacement competes with a reconciliation and with the approval's run, which is
three runs for one lock. Three publications are the first number for which the
remainder of a scale can be two cents and for which the loser and winner of a
reallocation leave a third one alone; budgets of 4 and 6 make 20 percent fall
between cents, and the ceiling of 17 lies between the reachable totals. Six
hours hold two changes within a rolling day and one after it. A tick of age and a
lease of one tick suffice for a claim that is free before its run has posted.
Two publications, of which the other was collected on the first day, are enough for a
window to be summarized with both, with the new one added, and with the new one lost
again; two changes are any two of a new window, another delivery condition and a
collection of the other publication.
`CHECK_DEADLOCK FALSE` is stated in every configuration because the system does
stop: a thread that is decided, an outbox that is empty, a queue that has used
its bounded number of actions or a horizon that is reached.

No symmetry is used, since every passing run but `policy` checks liveness.

The five failing runs show disagreements between the documentation and the code;
each has an entry under `findings` in `PROJECT.json` with the sentence and the
lines. In short: a repeated lifecycle outcome deletes the newest notice; a
"terminally" blocked action is leased again by the next claim; the rollback of a
reallocation restores the loser before it takes the money back; a replacement is
always refused at execution, because its frozen basis has keys that the stored one
lacks; and the write-back of the hourly inputs loses an observation that the
daily run appended meanwhile.

## 4. Fairness

- The revision loop polls every 15 seconds and swallows the errors of a round
  (`agent/main.py`, `_revisions_forever`); the hourly loop runs the outbox and
  the autonomy cycle in the same way, and so does the start of the process.
  Hence weak fairness of each worker's own steps, taken together: a worker that
  can go on does go on. A crashed worker is one that starts again.
- Leases, backoffs and retry delays are times, and time passes: weak fairness of
  the expiry of a lease that nobody renews, of the debounce and of the delays.
- The publication runs (`MetaPublication`) are not repeated by anything, but a
  run that has begun goes on: weak fairness of each run's work. PostgreSQL grants
  an advisory lock in the order of the requests, so a run cannot wait forever
  behind others: strong fairness of `Acquire`.
- The hourly and daily loops start again and again, their runs end, and claims
  and summary leases grow old (`PublicationPerformance`): weak fairness of each
  hourly run, of the daily run, of `Tick` and of `SummaryLeaseExpires`.
- `CampaignPolicy` states no fairness and no liveness.
- Nothing obliges the founder, an operator, the publication pipeline, an
  enqueuing loop, a heartbeat, or any fault.

Faults are bounded, which is the usual assumption that after some point nothing
fails for long enough to make progress.

## 5. What is proved

Seven modules of proofs, one for each component, show for any sets of workers,
replies, deliverers, notices, operators and publications and any bounds the type
invariants of their modules, all safety invariants that the runs check, their
action properties and one refinement. Each follows the same pattern: an inductive
invariant `IInv`, which is the conjunction of named parts, a lemma or a few for
each part that goes through the actions, and the theorems as consequences. What
is claimed under a hypothesis, because the code relies on it, names it below.

**Thread.** The assumptions are those of the module: `NoWorker` is not a worker,
replies are positive numbers, `MaxAttempts` is positive. None of the safety
properties is inductive alone. `IInv` adds

- `NumberedLine`: draft `d` has revision number `d` and every older one is
  superseded. It turns "newest" into "largest", and gives `SingleLiveVariant` and
  the freshness of the next revision number;
- `SourcesOfDrafts`: a message's key is a reply its variant was made from. With
  `AppliedExactlyOnce` it shows that a commit's key is fresh, for the batch is
  still processing and so in no source;
- `HolderHasAll`, `ProcessingIsLeased`, `LeaseGuardsBatch`: the holder at work
  has exactly the replies being processed. This is the fact behind the loop's
  row-count checks: a worker that lost its lease owns no reply of its batch, so
  each of its updates is refused or matches no row.

The step proof goes by what an action touches: only a commit applies replies
(`AppliedUnlessCommit`), only commits, decisions and publications write drafts
(`DraftsUnlessCommit`), and every way a batch ends is one lemma (`BatchLeaves`).
`LineageImplemented` is the refinement: a commit maps to `Revise` of the batch
(`CommitRefines`), every other step to a decision, a publication or a stutter.

**Queue and executor.** `IInv` has twelve parts. The chain of the argument is:
a worker inside `execute_claim` holds its action until the action was blocked
(`HeldUntilBlocked`), because a takeover of an executing action passes through
`reconciliation_required`; therefore a call in flight is fenced
(`CallsAreFenced`), a worker that has written nothing runs a clean action
(`CleanUntilWritten`), which gives `RetriedIsClean`; and what the holder has
sent so far is what Meta shows (`SentIsLive`), which gives `SucceededIsLive` when
the last loop ends. The steps fall into three kinds that leave alone what the
others change, with one lemma each: `QuietStep` (the worker's memory), `PutStep`
(Meta) and `SettleStep` (the queue). `SuccessStands` and `FencedWrites` carry
the hypothesis `lateCalls = 0`, that no call to Meta outlives the lease it was
checked under; without it both are false, and the code has no way to enforce it.

**Outbox.** The parts of `IInv` that carry the argument: an open root row implies
an unbound thread and a delivered one a bound thread, so that the binding and the
delivery are one fact (`BindingWithDelivery`) and the unique index never meets a
second root (`BindingAccepted`); an open notice is the last one that was inserted,
because inserting one closes the others (`NoticesInOrder`); and a deliverer that
finishes late finds the row with another owner or settled (`SettledStays`).
`DuplicatesNeedAFault` is not inductive, since a second post can become
unavoidable long before it is made. `RepeatsArePaid` counts for each row the posts
made, the deliverers about to post it (`Sending`) and one more if it is open and
nobody guards it (`Future`): a row is guarded from the send boundary to the record
of the post, as long as its lease runs. A guard goes only by a fault
(`FaultOwes`, `OverrunOnce`), and no other step makes a row owe more (`NoMore`);
so the excess over one post for each row, summed, stays within the faults.

**Replacement.** `IInv` has fourteen parts. `OwnerKnows` says that the owner of the
publication row knows its progress, from which follow `SwapIsRecorded` (the swap
begins with every part recorded) and `ServingIsKnown`; with `RecordedIsMade` this
is `Recoverable`. `CallsAreFenced` says that a worker in a call still holds the
action, unless a lease ran out late: then what it looked up stays true until it
creates the part (`MadeOnce`, hence `Uniqueness`) and what it has read of the ads
stays true until the swap is recorded (`HolderSwaps`, hence `Swapped` and
`PausedUnderTheLease`). `CleanUntilBuilt` is `Retried`. A call that takes effect
and whose answer is lost is described once, in `CallFailure`. `Uniqueness` of the
parts, `Swapped` and `PausedUnderTheLease` carry the hypothesis `lateCalls = 0`;
that there is one draft does not, since draft and completion are one transaction.

**Publication.** `IInv` has fifteen parts. `LockHeld` says that a run past its wait
has the lock, unless a connection broke; so nobody changes the row between the
transactions of a run, and what the run holds in memory is what the row stores
(`UseIsStored`). A run therefore activates only stored ids, and ids leave the row
only through a replacement that found their hierarchy terminal (`BeginsTerminal`,
stable because Meta does not revive what was deleted): this is `Serving` and
`Kept`. A hierarchy that is not terminal is stored or in the hands of the one run
at work (`HierarchyIsKnown`), so a run that creates finds no other
(`OneHierarchy`). `WorkIsAuthorized` and `AttemptIsAccounted` carry `Published`
over the replacement of a published draft. Two facts need no lock: two runs never
add parts to the same hierarchy (`CreatorsApart`), and ids are never removed
before their hierarchy is terminal. Everything else carries the hypothesis
`losses = 0`, and `OneHierarchy` also that no run has ended without a record
(`~lost`), as the code does for other exceptions (`FailureKeepsIds` in section 6).

**Alerts and summaries.** The hourly runs are any finite set. The parts of `IInv`:
without overlapping runs what a run posts and records is its own claim
(`SoloRun`), hence `RecordIsTold`; rows are posted and sent from the first one on
(`SentFirst`, `RowIsNext`, `PostedFirst`), hence `SummariesInOrder`; what a
copy has, and what a summary was made from, was observed (`CopiesKnown`, `RowsKnown`).
`EvidenceSummarized` is part of the invariant: a daily run inserts a summary of what
each window has now, unless that summary is there already, and each of them once
(`ObserveAdds`, by the pigeonhole principle). What an earlier summary has and a later
one of the same window lacks was therefore observed and is gone, which only a
write-back can do, and only to `This`. `RepeatsHaveACause` needs `Accounted`:
the repeats made and the debt of those that are still to come (`AlertDebt`,
`SummaryDebt`) stay within one for each fault and two for each overlapping run.

**Policy.** Publications, budgets, rates, limits and the order of the draft ids are
arbitrary; budgets are more than a cent, since they are approved in whole euros
(`meta_pipeline.py:1175`). The open decision is one about the approved budgets,
which nothing changes (`ActionIsDecided`). That a scale hands out its total to the
cent (`ScaleHandsOutShares`) is the argument about largest remainders: the quotas
fall short of the total by fewer cents than there are publications, and as many of
them as cents are left have so few ahead of them (`RanksCount`), because remainder
and id order them. `MoneyGoesToTheBetter` compares two choices of a least
publication; it needs the rates to differ, which `Conclusive` provides. For the
limits, `HistoryIsExplained` says that a reallocation leaves the sum of its two
budgets and that a scale starts at the approved total and adds at most what is
permitted of it; `HistoryIsSpaced` that changes are a cooldown apart and scales a
day. So a day holds one scale and no other increase (`DailyLimitOfApproved`, for any
cooldown). `IncreasesBounded` and `ScaleSurvivesRecheck` measure from the budget
that the day began with, which a reallocation may have recorded: that of its two
publications, which is at most the total. They carry the hypothesis
`Day <= 2 * Cooldown`: then a day holds two changes at most, and the window of an
open scale one (`ScaleIsWithin`); when that one leaves it, the budget to measure from
becomes the total, so the limit only widens while the scale waits. The default
cooldown is 24 hours (`config.py`, 1 to 168 are allowed). Below half a day the
second is false: with a cooldown of an hour, two reallocations of which the older
has the larger budget, and a scale decided after them, the opening budget has
become the smaller one when the executor looks again, and it refuses
(`Policy.cfg` with `Budgets = {2, 10}`, `Ceiling = 26`, `Cooldown = 1`, `MaxEdits = 2`,
`Horizon = 4` shows it). Whether the first holds there is open.

**Sums.** `SumTheorems` holds what these two arguments need to know of the
folds of the community modules: that a sum over a finite set is what its recursion
says, can be taken apart at any element or subset, and is monotone, linear and
counts. The library's induction rules take an operator, which the provers cannot
instantiate; its well-founded minimum does not. `NoLeast` and `NoLeastSet` say that
a set of counterexamples that has a smaller one with each of them is empty, and
each induction here is an instance of one of them, with the set of its
counterexamples.

## 6. What is only model-checked

The liveness properties (`FeedbackResolved`, `AllSettled`, `EveryActionEnds` and
their like), since they need fairness and ENABLED, which the prover does not
support; that the counterexamples to the five disagreements exist; and
`IncreasesBounded` and `ScaleSurvivesRecheck` where a cooldown is less than half a
day.

Seven further disagreements are stated as properties of their modules. They are
false of the code and no configuration here checks them. To see the
counterexample, add the property as an INVARIANT to a copy of the named configuration:

| Property | In | Configuration | What TLC shows |
|---|---|---|---|
| `OperationalFailuresRetried` | DraftRevisions | `Revision.cfg` with `MaxFaults = 0` | a reply is failed without its own retries: attempts are those of the merged batch and count conflicts (`agent/loops/revisions.py:164`); the README of the repository, 70-71, promises retries to each |
| `CancelledIsClean` | BudgetActions | `Actions.cfg` | a saga that meets an outside change, and whose rollback fails, is cancelled with a budget changed (`autonomy/executor.py:1646`) |
| `NoSilentDuplicate` | Replacement | `Replacement.cfg` | a replacement that was blocked while both ads serve is claimed again, refused by the policy and cancelled (`autonomy/executor.py:1387`) |
| `FailureKeepsIds` | MetaPublication | `Publication.cfg` | an exception other than `FacebookRequestError` during creation loses the ids made so far (`meta_ads.py:299`) |
| `OwnChangeIsKnown` | CampaignPolicy | `Policy.cfg` with `MaxEdits = 0` | after one scale the agent takes its own new budgets for a change from outside, because the approved ones are never updated |
| `SummariesGrow` | PublicationPerformance | `Performance.cfg` with `MaxFaults = 0` | a window is summarized over both publications, the stale write-back removes the observation of one of them (`agent/loops/autonomy.py:512`), and the next daily run inserts a summary of the same window over the other one alone, because the key hashes the publications and their evidence (`agent/loops/performance_daily.py:351-360`) |
| `EvidenceNamesLoser` | CampaignPolicy | `Policy.cfg` | with a tie the decision's evidence names another loser than the publication whose budget is lowered |

## 7. What is not modelled, and why

- Text: prompts, parsing, wording, blocks, routing. No property here depends on
  it. Generation is any of its outcomes.
- The clock. Leases and delays are in the past or in the future; lengths are
  used only where the code relies on them (a lease outlasts the debounce, the age
  of an alert claim, the hours of the policy).
- A call to Meta that takes effect after its worker was interrupted: the failing
  step decides at the interruption whether it did.
- Lock order inside a transaction. A deadlock that PostgreSQL breaks appears as an
  operational error.
- The status of single levels of a hierarchy, image upload and payloads
  (`meta_ads.py`); insight parsing and hook metrics (`meta_insights.py`); the
  attribution and confidence arithmetic behind `healthy`.
- The alerts and the write-back of the `Others`, and what follows for their
  observations if two publications are written back by one run: each loses its own as
  `This` does. The rows of one transaction are inserted in the order of the
  publications' ids, of which `This` has the smallest; among windows with equal
  publications the order is arbitrary in the model. When `This` appears, the `Others`
  have been collected.
- The operational attribution alert, which follows the protocol of the delivery
  alert on a field of its own; learnings, which are derived from observations.
- Several campaigns in one queue: the order of claims and the limit of a cycle.
- The video workflow: an upload runs under its draft's lock from claim to result,
  so that uploads of a draft do not interleave.
- The balance alert, configuration, migrations, connectors, layout, reports and
  deployment: no state that interleaves.

## 8. Plan

Done: `DraftRevisions` with `DraftLineage`, `SlackOutbox`, `BudgetActions`,
`Replacement`, `MetaPublication`, `CampaignPolicy` and `PublicationPerformance`, all
modelled, checked and proved. What would add most next:

1. `CampaignQueue`: several campaigns in one queue, the cycle's limit and the id
   order of claims; does one failing campaign hold up the others, and is
   `next_evaluation_at` honoured.
2. An abstract specification of `BudgetActions` and `Replacement`: a campaign
   whose state moves from frozen to approved atomically or is handed to
   reconciliation.
3. `ApprovalThread`: `DraftRevisions` and `SlackOutbox` composed, so that the
   enqueueing of a variant and the binding of the root are the same steps.
4. The video workflow and the operational alert.
