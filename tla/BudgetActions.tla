---------------------------- MODULE BudgetActions ----------------------------
(***************************************************************************)
(* The autonomous actions of one Meta campaign: the queue and leases of    *)
(* autonomy/store.py, and the executor that changes budgets ad set by ad   *)
(* set and undoes a change it cannot finish (autonomy/executor.py).        *)
(*                                                                         *)
(* A decision freezes the approved budget of every ad set it touches and   *)
(* the budget it wants; approvals do not change after an execution, so     *)
(* "old" and "new" mean the same to every decision.  For a pause "new" is  *)
(* the source paused.  The founder edits budgets in Meta at any time.      *)
(***************************************************************************)
EXTENDS Integers, FiniteSets

CONSTANTS
    Worker,        \* runs of run_autonomy_cycle
    NoWorker,      \* SQL NULL in lease_owner and lease_token
    AdSets,        \* number of ad sets of an allocation, in execution order
    MaxActions,    \* bound: actions are 1 .. MaxActions
    MaxEdits,      \* bound: budget edits by the founder
    MaxFaults,     \* bound: crashes, errors, overrun leases, refusals
    MaxLateCalls   \* bound: leases that run out between their check and a write

ASSUME WorkerAssumption == NoWorker \notin Worker
ASSUME BoundsAssumption ==
    /\ AdSets \in Nat \ {0}
    /\ MaxActions \in Nat \ {0}
    /\ MaxEdits \in Nat
    /\ MaxFaults \in Nat
    /\ MaxLateCalls \in Nat

VARIABLES
    status,    \* autonomous_actions.status, "absent" before the row exists
    kind,      \* "pause", "single" (scale of the source ad set), or a saga
    holder,    \* lease_owner and lease_token: a claim has a fresh token
    live,      \* actions whose lease_expires_at is in the future
    events,    \* autonomous_budget_events of the action
    blocked,   \* actions that were ever reconciliation_required (history)
    budget,    \* what Meta shows for an ad set: "old", "new" or "other"
    writer,    \* the action that wrote it last, 0 for the founder (history)
    pc,        \* where a worker stands in execute_claim
    act,       \* the action it claimed, 0 for none
    at,        \* the ad set it works on
    wrote,     \* how many ad sets allocation_writes names
    why,       \* the exception it is handling
    edits,
    faults,
    lateCalls

queueVars == <<status, kind, holder, live, events, blocked>>
metaVars == <<budget, writer>>
workerVars == <<pc, act, at, wrote, why>>
bounds == <<edits, faults, lateCalls>>
vars == <<queueVars, metaVars, workerVars, bounds>>

Action == 1 .. MaxActions
AdSet == 1 .. AdSets

ActiveStatus == {"pending", "leased", "executing", "reconciliation_required"}
ActionStatus == ActiveStatus \cup {"absent", "succeeded", "cancelled"}
Kind == {"pause", "single", "scale", "reallocate"}
Saga == {"scale", "reallocate"}
Step == {"idle", "claimed", "loading", "policy", "check", "read", "write", "sending",
         "verify", "finish", "undo", "undoWrite", "undoing", "handler"}

TypeOK ==
    /\ status \in [Action -> ActionStatus]
    /\ kind \in [Action -> Kind]
    /\ holder \in [Action -> Worker \cup {NoWorker}]
    /\ live \subseteq Action
    /\ events \in [Action -> Nat]
    /\ blocked \subseteq Action
    /\ budget \in [AdSet -> {"old", "new", "other"}]
    /\ writer \in [AdSet -> Action \cup {0}]
    /\ pc \in [Worker -> Step]
    /\ act \in [Worker -> Action \cup {0}]
    /\ at \in [Worker -> AdSet]
    /\ wrote \in [Worker -> AdSet \cup {0}]
    /\ why \in [Worker -> {"none", "changed", "transient", "failed", "shutdown"}]
    /\ edits \in 0 .. MaxEdits
    /\ faults \in 0 .. MaxFaults
    /\ lateCalls \in 0 .. MaxLateCalls

Init ==
    /\ status = [i \in Action |-> "absent"]
    /\ kind = [i \in Action |-> "single"]
    /\ holder = [i \in Action |-> NoWorker]
    /\ live = {}
    /\ events = [i \in Action |-> 0]
    /\ blocked = {}
    /\ budget = [a \in AdSet |-> "old"]
    /\ writer = [a \in AdSet |-> 0]
    /\ pc = [w \in Worker |-> "idle"]
    /\ act = [w \in Worker |-> 0]
    /\ at = [w \in Worker |-> 1]
    /\ wrote = [w \in Worker |-> 0]
    /\ why = [w \in Worker |-> "none"]
    /\ edits = 0
    /\ faults = 0
    /\ lateCalls = 0

Fault == faults < MaxFaults /\ faults' = faults + 1 /\ UNCHANGED <<edits, lateCalls>>

-----------------------------------------------------------------------------
(* The evaluator, the founder and time.                                     *)

Active == {i \in Action : status[i] \in ActiveStatus}

\* enqueue_action: under the campaign's advisory lock, one active action.
Enqueue(kd) ==
    /\ Active = {}
    /\ \E i \in Action :
         /\ status[i] = "absent"
         /\ \A j \in Action : j < i => status[j] # "absent"
         /\ status' = [status EXCEPT ![i] = "pending"]
         /\ kind' = [kind EXCEPT ![i] = kd]
    /\ UNCHANGED <<holder, live, events, blocked, metaVars, workerVars, bounds>>

FounderEdits(a, amount) ==
    /\ edits < MaxEdits
    /\ budget[a] # amount
    /\ budget' = [budget EXCEPT ![a] = amount]
    /\ writer' = [writer EXCEPT ![a] = 0]
    /\ edits' = edits + 1
    /\ UNCHANGED <<queueVars, workerVars, faults, lateCalls>>

AtWork(w, i) == act[w] = i /\ holder[i] = w
InCall(w) == pc[w] \in {"sending", "undoing"}

Expire(i) ==
    /\ i \in live
    /\ live' = live \ {i}
    /\ UNCHANGED <<status, kind, holder, events, blocked, metaVars, workerVars>>

\* The lease of a worker that is gone.
OrphanLeaseExpires(i) ==
    /\ ~ \E w \in Worker : AtWork(w, i)
    /\ Expire(i)
    /\ UNCHANGED bounds

\* The heartbeat of a worker at work stalls past the lease.
LeaseOverrun(i) ==
    /\ \E w \in Worker : AtWork(w, i) /\ ~InCall(w)
    /\ Expire(i)
    /\ Fault

\* The lease runs out between its renewal and the write it guards.
LateCall(i) ==
    /\ \E w \in Worker : AtWork(w, i) /\ InCall(w)
    /\ lateCalls < MaxLateCalls
    /\ lateCalls' = lateCalls + 1
    /\ Expire(i)
    /\ UNCHANGED <<edits, faults>>

-----------------------------------------------------------------------------
(* Claiming.                                                                *)

Crashed == {i \in Action : status[i] = "executing" /\ i \notin live}
\* Mutant: an abandoned lease is not taken over.
ClaimableUnleased ==
    {i \in Action : status[i] = "pending" \/ status[i] = "reconciliation_required"} \cup Crashed

Claimable ==
    {i \in Action : \/ status[i] = "pending"
                    \/ status[i] \in {"leased", "reconciliation_required"} /\ i \notin live}
    \cup Crashed

\* claim_next_action: expired executions become reconciliation_required, then
\* the oldest pending, abandoned or blocked action is leased.
Claim(w) ==
    /\ pc[w] = "idle"
    /\ \E i \in Claimable :
         /\ \A j \in Claimable : i <= j
         /\ status' = [j \in Action |->
                         CASE j = i -> "leased"
                           [] j \in Crashed \ {i} -> "reconciliation_required"
                           [] OTHER -> status[j]]
         /\ holder' = [j \in Action |->
                         CASE j = i -> w
                           [] j \in Crashed \ {i} -> NoWorker
                           [] OTHER -> holder[j]]
         /\ live' = live \cup {i}
         /\ act' = [act EXCEPT ![w] = i]
    /\ blocked' = blocked \cup Crashed
    /\ pc' = [pc EXCEPT ![w] = "claimed"]
    /\ UNCHANGED <<kind, events, metaVars, at, wrote, why, bounds>>

Done(w) ==
    /\ pc' = [pc EXCEPT ![w] = "idle"]
    /\ act' = [act EXCEPT ![w] = 0]
    /\ at' = [at EXCEPT ![w] = 1]
    /\ wrote' = [wrote EXCEPT ![w] = 0]
    /\ why' = [why EXCEPT ![w] = "none"]

Goto(w, step) ==
    /\ pc' = [pc EXCEPT ![w] = step]
    /\ UNCHANGED <<act, at, wrote, why>>

Holds(w) == holder[act[w]] = w /\ act[w] \in live

\* begin_execution, or a lost lease.
Begin(w) ==
    /\ pc[w] = "claimed"
    /\ \/ /\ Holds(w) /\ status[act[w]] = "leased"
          /\ status' = [status EXCEPT ![act[w]] = "executing"]
          /\ Goto(w, "loading")
       \/ /\ ~(Holds(w) /\ status[act[w]] = "leased")
          /\ Done(w)
          /\ UNCHANGED status
    /\ UNCHANGED <<kind, holder, live, events, blocked, metaVars, bounds>>

\* The process dies, the settings refuse the claim, or the publication cannot be
\* read; also an error of the database while an outcome is recorded.
Crash(w) ==
    /\ pc[w] # "idle"
    /\ Done(w)
    /\ Fault
    /\ UNCHANGED <<queueVars, metaVars>>

\* Mutant: the row only has to be executing, for whatever worker.
FencedByStatus(w) == status[act[w]] = "executing"

\* What every renewal and every outcome asks of the row.
Fenced(w) == Holds(w) /\ status[act[w]] = "executing"

\* Mutant: the event is appended although the update matched no row.
SettleWithEvent(w, outcome) ==
    /\ IF Fenced(w)
       THEN /\ status' = [status EXCEPT ![act[w]] = outcome]
            /\ holder' = [holder EXCEPT ![act[w]] = NoWorker]
            /\ live' = live \ {act[w]}
            /\ blocked' = IF outcome = "reconciliation_required"
                          THEN blocked \cup {act[w]} ELSE blocked
       ELSE UNCHANGED <<status, holder, live, blocked>>
    /\ events' = IF outcome = "succeeded" /\ kind[act[w]] # "pause"
                 THEN [events EXCEPT ![act[w]] = @ + 1] ELSE events
    /\ Done(w)
    /\ UNCHANGED <<kind, metaVars>>

\* finish_action, release_action and block_campaign_for_reconciliation.
Settle(w, outcome) ==
    /\ IF Fenced(w)
       THEN /\ status' = [status EXCEPT ![act[w]] = outcome]
            /\ holder' = [holder EXCEPT ![act[w]] = NoWorker]
            /\ live' = live \ {act[w]}
            /\ events' = IF outcome = "succeeded" /\ kind[act[w]] # "pause"
                         THEN [events EXCEPT ![act[w]] = @ + 1] ELSE events
            /\ blocked' = IF outcome = "reconciliation_required"
                          THEN blocked \cup {act[w]} ELSE blocked
       ELSE UNCHANGED <<status, holder, live, events, blocked>>
    /\ Done(w)
    /\ UNCHANGED <<kind, metaVars>>

-----------------------------------------------------------------------------
(* Executing.                                                               *)

Last(w) == IF kind[act[w]] \in Saga THEN AdSets ELSE 1

\* The publication and its identities are as frozen.
Load(w) ==
    /\ pc[w] = "loading"
    /\ Goto(w, "policy")
    /\ UNCHANGED <<queueVars, metaVars, bounds>>

\* A transient error of the read: the action goes back to the queue.
LoadTransient(w) ==
    /\ pc[w] = "loading"
    /\ Settle(w, "pending")
    /\ Fault

\* The publication changed, or _policy_reason refuses: snapshot too old, limits,
\* cooldown, live state.
Refuse(w) ==
    /\ pc[w] \in {"loading", "policy"}
    /\ Settle(w, "cancelled")
    /\ UNCHANGED bounds

Policy(w) ==
    /\ pc[w] = "policy"
    /\ Goto(w, IF kind[act[w]] \in Saga THEN "check" ELSE "read")
    /\ UNCHANGED <<queueVars, metaVars, bounds>>

\* Go through the ad sets in order, then to the next loop.
Advance(w, step) ==
    /\ IF at[w] < Last(w)
       THEN /\ at' = [at EXCEPT ![w] = @ + 1]
            /\ UNCHANGED pc
       ELSE /\ at' = [at EXCEPT ![w] = 1]
            /\ pc' = [pc EXCEPT ![w] = step]
    /\ UNCHANGED <<act, wrote, why>>

FirstUndo(w) == IF kind[act[w]] = "scale" THEN wrote[w] ELSE 1

\* An exception: undo what was written, if anything, and handle it.
Raise(w, reason) ==
    /\ why' = [why EXCEPT ![w] = reason]
    /\ IF kind[act[w]] \in Saga /\ wrote[w] > 0
       THEN /\ pc' = [pc EXCEPT ![w] = "undo"]
            /\ at' = [at EXCEPT ![w] = FirstUndo(w)]
       ELSE /\ pc' = [pc EXCEPT ![w] = "handler"]
            /\ UNCHANGED at
    /\ UNCHANGED <<act, wrote>>

\* The first loop reads every ad set.
Check(w) ==
    /\ pc[w] = "check"
    /\ IF Fenced(w) /\ budget[at[w]] = "old" THEN Advance(w, "read")
       ELSE Raise(w, IF Fenced(w) /\ kind[act[w]] = "scale" THEN "changed" ELSE "failed")
    /\ UNCHANGED <<queueVars, metaVars, bounds>>

\* The second loop reads an ad set again, notes it and writes it.
Read(w) ==
    /\ pc[w] = "read"
    /\ IF Fenced(w) /\ budget[at[w]] = "old"
       THEN /\ wrote' = [wrote EXCEPT ![w] = at[w]]
            /\ pc' = [pc EXCEPT ![w] = "write"]
            /\ UNCHANGED <<act, at, why>>
       ELSE Raise(w, IF Fenced(w) THEN "changed" ELSE "failed")
    /\ UNCHANGED <<queueVars, metaVars, bounds>>

\* Mutant: the lease is not renewed between the read and the write.
RenewUnchecked(w) ==
    /\ pc[w] = "write"
    /\ Goto(w, "sending")
    /\ UNCHANGED <<queueVars, metaVars, bounds>>

\* _write_external renews the lease before it calls Meta.
Renew(w) ==
    /\ pc[w] = "write"
    /\ IF Fenced(w) THEN Goto(w, "sending") ELSE Raise(w, "failed")
    /\ UNCHANGED <<queueVars, metaVars, bounds>>

Put(w, amount) ==
    /\ budget' = [budget EXCEPT ![at[w]] = amount]
    /\ writer' = [writer EXCEPT ![at[w]] = act[w]]

\* Meta takes the new budget and says so.
Send(w) ==
    /\ pc[w] = "sending"
    /\ Put(w, "new")
    /\ IF at[w] < Last(w)
       THEN /\ at' = [at EXCEPT ![w] = @ + 1]
            /\ pc' = [pc EXCEPT ![w] = "read"]
       ELSE /\ at' = [at EXCEPT ![w] = 1]
            /\ pc' = [pc EXCEPT ![w] = "verify"]
    /\ UNCHANGED <<queueVars, act, wrote, why, bounds>>

\* The call fails or is interrupted, whether Meta took the budget or not.
SendFails(w, reason) ==
    /\ pc[w] = "sending"
    /\ Put(w, "new") \/ UNCHANGED metaVars
    /\ Raise(w, reason)
    /\ Fault
    /\ UNCHANGED queueVars

\* The process dies when Meta has the call but the worker has no answer.
CrashInCall(w) ==
    /\ InCall(w)
    /\ Put(w, IF pc[w] = "sending" THEN "new" ELSE "old")
    /\ Done(w)
    /\ Fault
    /\ UNCHANGED queueVars

\* The third loop reads every ad set back.
Verify(w) ==
    /\ pc[w] = "verify"
    /\ IF Fenced(w) /\ budget[at[w]] = "new" THEN Advance(w, "finish")
       ELSE Raise(w, "failed")
    /\ UNCHANGED <<queueVars, metaVars, bounds>>

\* Mutant: an error is transient whether something was written or not.
ReadFailsTransient(w, reason) ==
    /\ pc[w] \in {"policy", "check", "read", "verify"}
    /\ Raise(w, reason)
    /\ Fault
    /\ UNCHANGED <<queueVars, metaVars>>

\* A read fails; it is transient only as long as nothing was written.
ReadFails(w, reason) ==
    /\ pc[w] \in {"policy", "check", "read", "verify"}
    /\ reason = "transient" => wrote[w] = 0
    /\ Raise(w, reason)
    /\ Fault
    /\ UNCHANGED <<queueVars, metaVars>>

\* An interrupt cancels the execution.
Shutdown(w) ==
    /\ pc[w] \in {"policy", "check", "read", "write", "verify"}
    /\ Raise(w, "shutdown")
    /\ Fault
    /\ UNCHANGED <<queueVars, metaVars>>

Finish(w) ==
    /\ pc[w] = "finish"
    /\ Settle(w, "succeeded")
    /\ UNCHANGED bounds

\* A heartbeat failed, or the database refuses the outcome: nothing is undone.
FinishFails(w) ==
    /\ pc[w] = "finish"
    /\ why' = [why EXCEPT ![w] = "failed"]
    /\ pc' = [pc EXCEPT ![w] = "handler"]
    /\ Fault
    /\ UNCHANGED <<queueVars, metaVars, act, at, wrote>>

-----------------------------------------------------------------------------
(* Undoing and handling an exception.                                       *)

\* A scale is undone backwards, a reallocation in the order of its writes.
NextUndo(w) ==
    LET k == IF kind[act[w]] = "scale" THEN at[w] - 1 ELSE at[w] + 1 IN
    /\ IF k \in 1 .. wrote[w]
       THEN /\ at' = [at EXCEPT ![w] = k]
            /\ pc' = [pc EXCEPT ![w] = "undo"]
       ELSE /\ pc' = [pc EXCEPT ![w] = "handler"]
            /\ UNCHANGED at
    /\ UNCHANGED <<act, wrote, why>>

\* Only a budget that is still the new one is written back.  What cannot be
\* proved undone is noted for the audit.
Undo(w) ==
    /\ pc[w] = "undo"
    /\ IF Fenced(w) /\ budget[at[w]] = "new" THEN Goto(w, "undoWrite") ELSE NextUndo(w)
    /\ UNCHANGED <<queueVars, metaVars, bounds>>

UndoRenew(w) ==
    /\ pc[w] = "undoWrite"
    /\ IF Fenced(w) THEN Goto(w, "undoing") ELSE NextUndo(w)
    /\ UNCHANGED <<queueVars, metaVars, bounds>>

UndoSend(w) ==
    /\ pc[w] = "undoing"
    /\ Put(w, "old")
    /\ NextUndo(w)
    /\ UNCHANGED <<queueVars, bounds>>

\* A read or a write of the rollback fails.
UndoFails(w) ==
    /\ pc[w] \in {"undo", "undoing"}
    /\ NextUndo(w)
    /\ Fault
    /\ UNCHANGED <<queueVars, metaVars>>

Outcome(reason) ==
    CASE reason = "changed" -> "cancelled"
      [] reason = "transient" -> "pending"
      [] OTHER -> "reconciliation_required"

Handle(w) ==
    /\ pc[w] = "handler"
    /\ IF why[w] = "shutdown" THEN Done(w) /\ UNCHANGED <<queueVars, metaVars>>
       ELSE Settle(w, Outcome(why[w]))
    /\ UNCHANGED bounds

-----------------------------------------------------------------------------

Work(w) ==
    \/ Claim(w) \/ Begin(w) \/ Load(w) \/ Refuse(w) \/ Policy(w)
    \/ Check(w) \/ Read(w) \/ Renew(w) \/ Send(w) \/ Verify(w) \/ Finish(w)
    \/ Undo(w) \/ UndoRenew(w) \/ UndoSend(w) \/ Handle(w)

WorkFault(w) ==
    \/ Crash(w) \/ CrashInCall(w) \/ LoadTransient(w) \/ Shutdown(w) \/ FinishFails(w) \/ UndoFails(w)
    \/ \E reason \in {"failed", "shutdown"} : SendFails(w, reason)
    \/ \E reason \in {"failed", "transient"} : ReadFails(w, reason)

Next ==
    \/ \E kd \in Kind : Enqueue(kd)
    \/ \E a \in AdSet, amount \in {"old", "new", "other"} : FounderEdits(a, amount)
    \/ \E i \in Action : OrphanLeaseExpires(i) \/ LeaseOverrun(i) \/ LateCall(i)
    \/ \E w \in Worker : Work(w) \/ WorkFault(w)

Spec == Init /\ [][Next]_vars

\* The hourly pulse claims again and again, and time passes.
Fairness ==
    /\ \A w \in Worker : WF_vars(Work(w))
    /\ \A i \in Action : WF_vars(OrphanLeaseExpires(i))

FairSpec == Spec /\ Fairness

-----------------------------------------------------------------------------
(* What the queue and the executor guarantee.                               *)

Target(i) == IF kind[i] \in Saga THEN AdSet ELSE {1}

\* At most one action of the campaign is open, whatever is enqueued, released,
\* taken over or blocked, so the unique index on open actions is never met and
\* a blocked campaign gets no new action.
OneOpenAction == \A i, j \in Active : i = j

\* An action recorded as succeeded left the budget it wanted on every ad set it
\* touched, unless the founder or a later action changed it: no rollback or
\* stale worker undoes it.  It needs writes that do not outlive their lease.
SucceededIsLive ==
    lateCalls = 0 => \A i \in Action : status[i] = "succeeded" =>
        \A a \in Target(i) : budget[a] = "new" \/ writer[a] # i

\* The ledger has one event per budget change that succeeded and none for any
\* other action: retries, takeovers and lost answers neither repeat nor drop one.
LedgerIsExact ==
    \A i \in Action :
        events[i] = IF status[i] = "succeeded" /\ kind[i] # "pause" THEN 1 ELSE 0

\* Only the worker that holds the executing action changes Meta, although other
\* workers that lost it are still running.  It needs writes in time, as above.
WritesAreFenced ==
    [][lateCalls = 0 =>
         \A a \in AdSet, i \in Action :
             writer'[a] = i /\ <<budget[a], writer[a]>>' # <<budget[a], writer[a]>> =>
                 \E w \in Worker : act[w] = i /\ InCall(w) /\ Fenced(w)]_vars

\* An action that waits to be tried again has changed nothing in Meta, unless
\* it was blocked before.
RetriedIsClean ==
    \A i \in Action \ blocked : status[i] \in {"pending", "leased"} =>
        \A a \in AdSet : writer[a] # i

\* Every queued action is eventually decided, although workers crash, lose
\* their leases and meet errors of Meta and of the database.
EveryActionEnds ==
    \A i \in Action :
        status[i] = "pending" ~> status[i] \in {"succeeded", "cancelled", "reconciliation_required"}

-----------------------------------------------------------------------------
(* What the documents say and the code does not keep.                       *)

\* block_campaign_for_reconciliation: "Terminally block a campaign whose
\* external state is uncertain."  claim_next_action leases blocked actions.
BlockIsTerminal ==
    [][\A i \in Action : status[i] = "reconciliation_required" => status'[i] = status[i]]_vars

\* The design: "Stale decision or external state change: cancel safely and
\* re-evaluate."  A saga whose rollback failed is cancelled like any other.
CancelledIsClean ==
    \A i \in Action \ blocked : status[i] = "cancelled" =>
        \A a \in AdSet : writer[a] = i => budget[a] = "old"

\* The design: budget moves from loser to winner "without raising the campaign
\* total".  The rollback restores the loser, ad set 1, before the winner.
ReallocationKeepsTotal ==
    \A i \in Action : kind[i] = "reallocate" /\ writer[1] = i /\ writer[2] = i =>
        ~(budget[1] = "old" /\ budget[2] = "new")

-----------------------------------------------------------------------------
(* The inductive invariant behind the guarantees.                           *)

Running(w) == pc[w] \notin {"idle", "claimed"}

\* Where a worker stands agrees with what it has done.
Agrees(w) ==
    /\ pc[w] = "idle" <=> act[w] = 0
    /\ pc[w] \in {"idle", "claimed", "loading", "policy", "check"} => wrote[w] = 0
    /\ pc[w] \in {"idle", "claimed", "loading", "policy"} => at[w] = 1
    /\ pc[w] \in {"write", "sending", "undo", "undoWrite", "undoing"} => wrote[w] > 0
    /\ why[w] = "transient" => pc[w] = "handler" /\ wrote[w] = 0

WorkersAgree == \A w \in Worker : Agrees(w)

\* Nothing refers to an action that was not enqueued.
AbsentIsFresh ==
    \A i \in Action : status[i] = "absent" =>
        /\ i \notin blocked
        /\ \A w \in Worker : act[w] # i
        /\ \A a \in AdSet : writer[a] # i

BlockedIsRemembered ==
    \A i \in Action : status[i] = "reconciliation_required" => i \in blocked

\* A worker in execute_claim holds its action until the action is blocked.
HeldUntilBlocked ==
    \A w \in Worker : Running(w) /\ act[w] \notin blocked =>
        status[act[w]] = "executing" /\ holder[act[w]] = w

\* A write in flight is fenced, as long as no lease ran out under one.
CallsAreFenced ==
    \A w \in Worker : lateCalls = 0 /\ InCall(w) => Fenced(w)

\* A worker that has written nothing took over a clean action.
CleanUntilWritten ==
    \A w \in Worker : Running(w) /\ wrote[w] = 0 /\ act[w] \notin blocked =>
        \A a \in AdSet : writer[a] # act[w]

Sent(w) ==
    CASE pc[w] \in {"read", "write", "sending"} -> 1 .. (at[w] - 1)
      [] pc[w] \in {"verify", "finish"} -> Target(act[w])
      [] OTHER -> {}

\* What the holder has sent stays, unless the founder changes it.
SentIsLive ==
    \A w \in Worker : lateCalls = 0 /\ Running(w) /\ holder[act[w]] = w =>
        \A a \in Sent(w) : budget[a] = "new" \/ writer[a] # act[w]

\* What every transaction and every call maintains.
IInv ==
    /\ TypeOK
    /\ WorkersAgree
    /\ AbsentIsFresh
    /\ BlockedIsRemembered
    /\ OneOpenAction
    /\ LedgerIsExact
    /\ HeldUntilBlocked
    /\ CallsAreFenced
    /\ CleanUntilWritten
    /\ RetriedIsClean
    /\ SentIsLive
    /\ SucceededIsLive

=============================================================================
