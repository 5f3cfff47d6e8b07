----------------------------- MODULE Replacement -----------------------------
(***************************************************************************)
(* One autonomous replacement of an ad: a worker writes a new draft,       *)
(* creates its campaign paused in Meta, activates it and pauses the source *)
(* (executor._replace, autonomy/replacements.py,                           *)
(* meta_pipeline.publish_replacement_paused), or does the same with the    *)
(* bundles of a hook experiment (executor._replace_hook_experiment).       *)
(*                                                                         *)
(* Three rows carry it, each with a lease: the action, the generation of   *)
(* the draft and the publication, whose progress names what was created.   *)
(* Any of the three may run out alone, and Meta takes part in none.        *)
(***************************************************************************)
EXTENDS Integers, FiniteSets

CONSTANTS
    Worker,        \* runs of run_autonomy_cycle
    NoWorker,      \* SQL NULL in lease_owner and lease_token
    Parts,         \* resources of the new bundle, created in order
    Ads,           \* ads of the bundle, activated in order
    MaxEdits,      \* bound: status changes by the founder in Meta
    MaxFaults,     \* bound: crashes, errors, overrun leases
    MaxLateCalls   \* bound: leases that run out between their check and a write

ASSUME ReplacementAssumption ==
    /\ NoWorker \notin Worker
    /\ Parts \in Nat \ {0}
    /\ Ads \in Nat \ {0}
    /\ MaxEdits \in Nat
    /\ MaxFaults \in Nat
    /\ MaxLateCalls \in Nat

VARIABLES
    hook,      \* the replacement is the configured hook experiment
    status,    \* autonomous_actions.status
    holder,    \* lease_owner and lease_token of the action
    live,      \* its lease_expires_at is in the future
    blocked,   \* it was reconciliation_required before (history)
    gen,       \* autonomous_replacement_generations.state, owner and lease
    genOwner,
    genLive,
    drafts,    \* rows of drafts with this autonomous_action_id
    pub,       \* autonomous_replacement_publications.state, owner and lease
    pubOwner,
    pubLive,
    recorded,  \* progress: how many parts have their id recorded,
    asked,     \* whether the next part's request_name is,
    imaged,    \* and whether local_image_sha256 is
    made,      \* Meta: resources that have the request name of a part
    active,    \* Meta: active ads of the bundle
    source,    \* Meta: the source ad
    pc,        \* where a worker stands
    known,     \* its copy of recorded
    knowsAsk,  \* its copy of asked
    on,        \* ads it has activated
    why,       \* the exception it is handling
    edits,
    faults,
    lateCalls

actionVars == <<status, holder, live, blocked>>
genVars == <<gen, genOwner, genLive, drafts>>
leaseVars == <<pub, pubOwner, pubLive>>
progressVars == <<recorded, asked, imaged>>
metaVars == <<made, active, source>>
workerVars == <<pc, known, knowsAsk, on, why>>
bounds == <<edits, faults, lateCalls>>
vars == <<hook, actionVars, genVars, leaseVars, progressVars, metaVars, workerVars, bounds>>

Part == 1 .. Parts

\* Before the bundle's ids are known to the worker, and after.
Building == {"acquire", "revalidate", "shoot", "request", "look", "make", "record", "observe",
             "repause", "disown", "declare", "finalize"}
Swapping == {"verify", "activate", "activating", "checkActive", "recheck", "pause", "pausing",
             "confirm"}
Step == {"idle", "claimed", "policy", "generate", "writing", "source", "finish", "fail", "undo",
         "undoing", "handler"} \cup Building \cup Swapping

TypeOK ==
    /\ hook \in BOOLEAN
    /\ status \in {"pending", "leased", "executing", "reconciliation_required", "succeeded",
                   "cancelled"}
    /\ holder \in Worker \cup {NoWorker}
    /\ live \in BOOLEAN /\ blocked \in BOOLEAN
    /\ gen \in {"none", "generating", "completed"}
    /\ genOwner \in Worker \cup {NoWorker}
    /\ genLive \in BOOLEAN
    /\ drafts \in Nat
    /\ pub \in {"none", "creating", "paused", "reconciliation_required"}
    /\ pubOwner \in Worker \cup {NoWorker}
    /\ pubLive \in BOOLEAN
    /\ recorded \in 0 .. Parts
    /\ asked \in BOOLEAN /\ imaged \in BOOLEAN
    /\ made \in [Part -> Nat]
    /\ active \in 0 .. Ads
    /\ source \in {"active", "paused"}
    /\ pc \in [Worker -> Step]
    /\ known \in [Worker -> 0 .. Parts]
    /\ knowsAsk \in [Worker -> BOOLEAN]
    /\ on \in [Worker -> 0 .. Ads]
    /\ why \in [Worker -> {"none", "changed", "transient", "failed"}]
    /\ edits \in 0 .. MaxEdits
    /\ faults \in 0 .. MaxFaults
    /\ lateCalls \in 0 .. MaxLateCalls

Init ==
    /\ hook \in BOOLEAN
    /\ status = "pending" /\ holder = NoWorker /\ live = FALSE /\ blocked = FALSE
    /\ gen = "none" /\ genOwner = NoWorker /\ genLive = FALSE /\ drafts = 0
    /\ pub = "none" /\ pubOwner = NoWorker /\ pubLive = FALSE
    /\ recorded = 0 /\ asked = FALSE /\ imaged = FALSE
    /\ made = [p \in Part |-> 0] /\ active = 0 /\ source = "active"
    /\ pc = [w \in Worker |-> "idle"]
    /\ known = [w \in Worker |-> 0]
    /\ knowsAsk = [w \in Worker |-> FALSE]
    /\ on = [w \in Worker |-> 0]
    /\ why = [w \in Worker |-> "none"]
    /\ edits = 0 /\ faults = 0 /\ lateCalls = 0

Fault == faults < MaxFaults /\ faults' = faults + 1 /\ UNCHANGED <<edits, lateCalls>>

-----------------------------------------------------------------------------
(* The founder and time.                                                    *)

FounderSwitches ==
    /\ edits < MaxEdits
    /\ edits' = edits + 1
    /\ \/ source' = (IF source = "active" THEN "paused" ELSE "active") /\ UNCHANGED active
       \/ recorded = Parts /\ active' \in {0, Ads} \ {active} /\ UNCHANGED source
    /\ UNCHANGED <<hook, actionVars, genVars, leaseVars, progressVars, made, workerVars, faults,
                   lateCalls>>

\* A worker past its last check of the leases.  A resumed part's request is
\* already recorded, so nothing is checked between the screenshot and the lookup.
InCall(w) ==
    \/ pc[w] \in {"look", "make", "repause", "activating", "pausing", "undoing"}
    \/ pc[w] = "request" /\ knowsAsk[w]

Busy(w) == pc[w] # "idle"
UsesGen(w) == genOwner = w /\ pc[w] = "writing"
UsesPub(w) == pubOwner = w /\ pc[w] \in Building

ExpireAction == live /\ live' = FALSE /\ UNCHANGED <<status, holder, blocked, genVars, leaseVars>>
ExpireGen ==
    genLive /\ genLive' = FALSE /\ UNCHANGED <<gen, genOwner, drafts, actionVars, leaseVars>>
ExpirePub == pubLive /\ pubLive' = FALSE /\ UNCHANGED <<pub, pubOwner, actionVars, genVars>>

\* A lease nobody renews runs out.  Nothing renews the publication lease of a
\* hook experiment.
OrphanLeaseExpires ==
    /\ \/ ExpireAction /\ ~ \E w \in Worker : holder = w /\ Busy(w)
       \/ ExpireGen /\ ~ \E w \in Worker : UsesGen(w)
       \/ ExpirePub /\ (hook \/ ~ \E w \in Worker : UsesPub(w))
    /\ UNCHANGED <<hook, progressVars, metaVars, workerVars, bounds>>

\* A heartbeat of a worker at work stalls past the lease.
LeaseOverrun ==
    /\ \/ ExpireAction /\ \E w \in Worker : holder = w /\ Busy(w) /\ ~InCall(w)
       \/ ExpireGen /\ \E w \in Worker : UsesGen(w)
       \/ ExpirePub /\ ~hook /\ \E w \in Worker : UsesPub(w) /\ ~InCall(w)
    /\ Fault
    /\ UNCHANGED <<hook, progressVars, metaVars, workerVars>>

\* It runs out between the last check and the write it guards.
LateCall ==
    /\ lateCalls < MaxLateCalls
    /\ lateCalls' = lateCalls + 1
    /\ \/ ExpireAction /\ \E w \in Worker : holder = w /\ InCall(w)
       \/ ExpirePub /\ ~hook /\ \E w \in Worker : UsesPub(w) /\ InCall(w)
    /\ UNCHANGED <<hook, progressVars, metaVars, workerVars, edits, faults>>

-----------------------------------------------------------------------------
(* The action's queue, as in BudgetActions with one action.                 *)

Crashed == status = "executing" /\ ~live

\* Mutant: an execution that nobody renews is left to its worker.
ClaimIdle(w) ==
    /\ pc[w] = "idle"
    /\ \/ status = "pending"
       \/ status \in {"leased", "reconciliation_required"} /\ ~live
    /\ status' = "leased" /\ holder' = w /\ live' = TRUE
    /\ UNCHANGED blocked
    /\ pc' = [pc EXCEPT ![w] = "claimed"]
    /\ UNCHANGED <<hook, genVars, leaseVars, progressVars, metaVars, known, knowsAsk, on, why, bounds>>

\* claim_next_action
Claim(w) ==
    /\ pc[w] = "idle"
    /\ \/ status = "pending"
       \/ status \in {"leased", "executing", "reconciliation_required"} /\ ~live
    /\ status' = "leased" /\ holder' = w /\ live' = TRUE
    /\ blocked' = (blocked \/ Crashed)
    /\ pc' = [pc EXCEPT ![w] = "claimed"]
    /\ UNCHANGED <<hook, genVars, leaseVars, progressVars, metaVars, known, knowsAsk, on, why, bounds>>

Holds(w) == holder = w /\ live

\* Mutant: the owner and the lease are not compared.
FencedByStatus(w) == status = "executing"

\* _renew_action, finish_action, release_action, block_campaign_for_reconciliation
Fenced(w) == Holds(w) /\ status = "executing"

\* _claim_generation and the insertion of the draft
LiveForGeneration(w) == Holds(w) /\ status \in {"leased", "executing"}

\* _require_live_replacement_claim and the updates of the publication row
LiveClaim(w) == Holds(w) /\ status \in {"leased", "executing", "reconciliation_required"}
OwnsPub(w) ==
    pubOwner = w /\ pubLive /\ (hook \/ pub \in {"creating", "reconciliation_required"})

Done(w) ==
    /\ pc' = [pc EXCEPT ![w] = "idle"]
    /\ known' = [known EXCEPT ![w] = 0]
    /\ knowsAsk' = [knowsAsk EXCEPT ![w] = FALSE]
    /\ on' = [on EXCEPT ![w] = 0]
    /\ why' = [why EXCEPT ![w] = "none"]

Goto(w, step) == pc' = [pc EXCEPT ![w] = step] /\ UNCHANGED <<known, knowsAsk, on, why>>

GotoHandler(w, reason) ==
    /\ pc' = [pc EXCEPT ![w] = "handler"]
    /\ why' = [why EXCEPT ![w] = reason]
    /\ UNCHANGED <<known, knowsAsk, on>>

\* begin_execution, or a lost lease
Begin(w) ==
    /\ pc[w] = "claimed"
    /\ IF Holds(w) /\ status = "leased"
       THEN status' = "executing" /\ Goto(w, "policy")
       ELSE Done(w) /\ UNCHANGED status
    /\ UNCHANGED <<hook, holder, live, blocked, genVars, leaseVars, progressVars, metaVars, bounds>>

Settle(w, outcome) ==
    /\ IF Fenced(w)
       THEN /\ status' = outcome /\ holder' = NoWorker /\ live' = FALSE
            /\ blocked' = (blocked \/ outcome = "reconciliation_required")
       ELSE UNCHANGED actionVars
    /\ Done(w)
    /\ UNCHANGED <<hook, genVars, leaseVars, progressVars, metaVars>>

\* The process dies, or is told to stop before the saga has begun.
Crash(w) ==
    /\ pc[w] # "idle"
    /\ Done(w)
    /\ Fault
    /\ UNCHANGED <<hook, actionVars, genVars, leaseVars, progressVars, metaVars>>

-----------------------------------------------------------------------------
(* Before anything is written.                                              *)

\* The settings, the snapshot, the cooldown or the live source differ from the
\* decision.  A blocked action is judged like any other.
Refuse(w) ==
    /\ pc[w] = "policy"
    /\ Settle(w, "cancelled")
    /\ UNCHANGED bounds

Approve(w) ==
    /\ pc[w] = "policy"
    /\ IF ~Fenced(w) THEN GotoHandler(w, "failed")
       ELSE source = "active" /\ Goto(w, "generate")
    /\ UNCHANGED <<hook, actionVars, genVars, leaseVars, progressVars, metaVars, bounds>>

\* _claim_generation: a new row, a finished one, or one whose lease ran out
ClaimGeneration(w) ==
    /\ pc[w] = "generate"
    /\ IF LiveForGeneration(w) /\ gen # "completed" /\ ~genLive
       THEN /\ gen' = "generating" /\ genOwner' = w /\ genLive' = TRUE
            /\ Goto(w, "writing")
       ELSE /\ IF LiveForGeneration(w) /\ gen = "completed" THEN Goto(w, "source")
               ELSE GotoHandler(w, "failed")
            /\ UNCHANGED <<gen, genOwner, genLive>>
    /\ UNCHANGED <<hook, drafts, actionVars, leaseVars, progressVars, metaVars, bounds>>

\* _persist: the draft and the completion are one transaction under both leases.
PersistDraft(w) ==
    /\ pc[w] = "writing"
    /\ IF LiveForGeneration(w) /\ gen = "generating" /\ genOwner = w /\ genLive
       THEN /\ drafts' = drafts + 1
            /\ gen' = "completed" /\ genOwner' = NoWorker /\ genLive' = FALSE
            /\ Goto(w, "source")
       ELSE GotoHandler(w, "failed") /\ UNCHANGED genVars
    /\ UNCHANGED <<hook, actionVars, leaseVars, progressVars, metaVars, bounds>>

\* The source is read again when the draft is there.
ReadSource(w) ==
    /\ pc[w] = "source"
    /\ IF Fenced(w) /\ source = "active" THEN Goto(w, "acquire")
       ELSE GotoHandler(w, IF Fenced(w) THEN "changed" ELSE "failed")
    /\ UNCHANGED <<hook, actionVars, genVars, leaseVars, progressVars, metaVars, bounds>>

\* Claude, Meta or the database fails, the draft is not good enough, or a read
\* meets a transient error.
EarlyFails(w, reason) ==
    /\ pc[w] \in {"policy", "generate", "writing", "source"}
    /\ GotoHandler(w, reason)
    /\ Fault
    /\ UNCHANGED <<hook, actionVars, genVars, leaseVars, progressVars, metaVars>>

-----------------------------------------------------------------------------
(* Creating the bundle paused.                                              *)

\* What an exception leads to: an error of the creation is recorded first, and
\* so is one of pausing the bundle, which is best effort.
Abort(w) ==
    Goto(w, CASE pc[w] \in Swapping /\ ~hook -> "undo"
              [] pc[w] \in {"request", "look", "make", "record", "shoot"} /\ ~hook -> "disown"
              [] pc[w] = "observe" /\ LiveClaim(w) /\ OwnsPub(w) -> "repause"
              [] pc[w] = "revalidate" /\ LiveClaim(w) -> "repause"
              [] pc[w] = "repause" -> "disown"
              [] OTHER -> "fail")

\* The publication row is inserted, or taken over once its lease ran out.
AcquirePublication(w) ==
    /\ pc[w] = "acquire"
    /\ IF Fenced(w) /\ pub # "paused" /\ ~pubLive
       THEN /\ pub' = IF pub = "none" THEN "creating" ELSE pub
            /\ pubOwner' = w /\ pubLive' = TRUE
            /\ known' = [known EXCEPT ![w] = recorded]
            /\ knowsAsk' = [knowsAsk EXCEPT ![w] = asked]
            /\ pc' = [pc EXCEPT ![w] = IF hook /\ recorded = Parts THEN "verify"
                                       ELSE IF hook THEN "request" ELSE "shoot"]
            /\ UNCHANGED <<on, why>>
       ELSE /\ IF Fenced(w) /\ pub = "paused" THEN Goto(w, "revalidate") ELSE Abort(w)
            /\ UNCHANGED leaseVars
    /\ UNCHANGED <<hook, actionVars, genVars, progressVars, metaVars, bounds>>

\* A finished publication is used again if its bundle is still paused.  If it
\* is not, or cannot be read (Abort), it is paused and marked.
Revalidate(w) ==
    /\ pc[w] = "revalidate"
    /\ IF ~LiveClaim(w) THEN Abort(w) ELSE Goto(w, IF active = 0 THEN "verify" ELSE "repause")
    /\ UNCHANGED <<hook, actionVars, genVars, leaseVars, progressVars, metaVars, bounds>>

\* Screenshot and frame.  A resumed publication must get the very same image.
Shoot(w) ==
    /\ pc[w] = "shoot"
    /\ \/ LiveClaim(w) /\ OwnsPub(w) /\ Goto(w, IF known[w] = Parts THEN "observe" ELSE "request")
       \/ (imaged \/ ~(LiveClaim(w) /\ OwnsPub(w))) /\ Abort(w)
    /\ UNCHANGED <<hook, actionVars, genVars, leaseVars, progressVars, metaVars, bounds>>

\* What persist_progress asks of both rows
MayRecord(w) == OwnsPub(w) /\ IF hook THEN Fenced(w) ELSE LiveClaim(w)

\* request_name and local_image_sha256 are recorded before the first lookup.
Request(w) ==
    /\ pc[w] = "request"
    /\ IF knowsAsk[w] THEN Goto(w, "look") /\ UNCHANGED progressVars
       ELSE IF MayRecord(w)
       THEN /\ asked' = TRUE
            /\ imaged' = (imaged \/ (~hook /\ known[w] > 0))
            /\ knowsAsk' = [knowsAsk EXCEPT ![w] = TRUE]
            /\ pc' = [pc EXCEPT ![w] = "look"]
            /\ UNCHANGED <<recorded, known, on, why>>
       ELSE Abort(w) /\ UNCHANGED progressVars
    /\ UNCHANGED <<hook, actionVars, genVars, leaseVars, metaVars, bounds>>

Next1(w) == known[w] + 1

\* Mutant: a part is created without looking for it.
LookNowhere(w) ==
    /\ pc[w] = "look"
    /\ Goto(w, "make")
    /\ UNCHANGED <<hook, actionVars, genVars, leaseVars, progressVars, metaVars, bounds>>

\* The part is looked up by its name: found, missing or ambiguous.
Look(w) ==
    /\ pc[w] = "look"
    /\ CASE made[Next1(w)] = 0 -> Goto(w, "make")
         [] made[Next1(w)] = 1 -> Goto(w, "record")
         [] OTHER -> Abort(w)
    /\ UNCHANGED <<hook, actionVars, genVars, leaseVars, progressVars, metaVars, bounds>>

Make(w) ==
    /\ pc[w] = "make"
    /\ made' = [made EXCEPT ![Next1(w)] = @ + 1]
    /\ Goto(w, "record")
    /\ UNCHANGED <<hook, actionVars, genVars, leaseVars, progressVars, active, source, bounds>>

\* Mutant: the id of a part is kept by the worker alone.
RecordInMemory(w) ==
    /\ pc[w] = "record"
    /\ known' = [known EXCEPT ![w] = Next1(w)]
    /\ knowsAsk' = [knowsAsk EXCEPT ![w] = FALSE]
    /\ pc' = [pc EXCEPT ![w] = IF Next1(w) < Parts THEN "request"
                               ELSE IF hook THEN "verify" ELSE "observe"]
    /\ UNCHANGED <<hook, actionVars, genVars, leaseVars, progressVars, metaVars, on, why, bounds>>

\* Its id is recorded; after the last part the bundle is read back.
Record(w) ==
    /\ pc[w] = "record"
    /\ IF MayRecord(w)
       THEN /\ recorded' = Next1(w) /\ asked' = FALSE
            /\ known' = [known EXCEPT ![w] = Next1(w)]
            /\ knowsAsk' = [knowsAsk EXCEPT ![w] = FALSE]
            /\ pc' = [pc EXCEPT ![w] = IF Next1(w) < Parts THEN "request"
                                       ELSE IF hook THEN "verify" ELSE "observe"]
            /\ UNCHANGED <<imaged, on, why>>
       ELSE Abort(w) /\ UNCHANGED progressVars
    /\ UNCHANGED <<hook, actionVars, genVars, leaseVars, metaVars, bounds>>

Observe(w) ==
    /\ pc[w] = "observe"
    /\ IF active = 0 THEN Goto(w, "finalize") ELSE Abort(w)
    /\ UNCHANGED <<hook, actionVars, genVars, leaseVars, progressVars, metaVars, bounds>>

\* A bundle that is not paused is paused.
Repause(w) ==
    /\ pc[w] = "repause"
    /\ active' = 0
    /\ Goto(w, "disown")
    /\ UNCHANGED <<hook, actionVars, genVars, leaseVars, progressVars, made, source, bounds>>

\* The publication is marked reconciliation_required and let go ...
Disown(w) ==
    /\ pc[w] = "disown"
    /\ IF LiveClaim(w) /\ (pub = "paused" \/ OwnsPub(w))
       THEN /\ pub' = "reconciliation_required" /\ pubOwner' = NoWorker /\ pubLive' = FALSE
            /\ Goto(w, "declare")
       ELSE UNCHANGED leaseVars /\ Goto(w, "fail")
    /\ UNCHANGED <<hook, actionVars, genVars, progressVars, metaVars, bounds>>

\* ... and then the action (require_reconciliation), which keeps its lease.
Declare(w) ==
    /\ pc[w] = "declare"
    /\ IF LiveForGeneration(w) THEN status' = "reconciliation_required" /\ blocked' = TRUE
       ELSE UNCHANGED <<status, blocked>>
    /\ Goto(w, "fail")
    /\ UNCHANGED <<hook, holder, live, genVars, leaseVars, progressVars, metaVars, bounds>>

Finalize(w) ==
    /\ pc[w] = "finalize"
    /\ IF LiveClaim(w) /\ OwnsPub(w)
       THEN /\ pub' = "paused" /\ pubOwner' = NoWorker /\ pubLive' = FALSE
            /\ Goto(w, "verify")
       ELSE UNCHANGED leaseVars /\ Abort(w)
    /\ UNCHANGED <<hook, actionVars, genVars, progressVars, metaVars, bounds>>

-----------------------------------------------------------------------------
(* Swapping the new bundle for the source.                                  *)

\* A read of Meta, under the action's lease, must show what is expected.
Expect(w, here, condition, there) ==
    /\ pc[w] = here
    /\ IF Fenced(w) /\ condition THEN Goto(w, there) ELSE Abort(w)
    /\ UNCHANGED <<hook, actionVars, genVars, leaseVars, progressVars, metaVars, bounds>>

Verify(w) == Expect(w, "verify", active = 0, "activate")

\* fence() before each ad; for a hook experiment the publication's lease too
Fence(w) == Expect(w, "activate", active = on[w] /\ (hook => OwnsPub(w)), "activating")

Activate(w) ==
    /\ pc[w] = "activating"
    /\ active' = IF active < Ads THEN active + 1 ELSE Ads
    /\ on' = [on EXCEPT ![w] = @ + 1]
    /\ pc' = [pc EXCEPT ![w] = IF on[w] + 1 = Ads THEN "checkActive" ELSE "activate"]
    /\ UNCHANGED <<hook, actionVars, genVars, leaseVars, progressVars, made, source, known,
                   knowsAsk, why, bounds>>

CheckActive(w) == Expect(w, "checkActive", active = Ads, "recheck")
RecheckSource(w) == Expect(w, "recheck", source = "active", "pause")

\* Mutant: the source is paused without renewing the lease.
PauseUnrenewed(w) ==
    /\ pc[w] = "pause"
    /\ Goto(w, "pausing")
    /\ UNCHANGED <<hook, actionVars, genVars, leaseVars, progressVars, metaVars, bounds>>

RenewForPause(w) == Expect(w, "pause", TRUE, "pausing")

PauseSource(w) ==
    /\ pc[w] = "pausing"
    /\ source' = "paused"
    /\ Goto(w, "confirm")
    /\ UNCHANGED <<hook, actionVars, genVars, leaseVars, progressVars, made, active, bounds>>

Confirm(w) == Expect(w, "confirm", source = "paused", "finish")

Finish(w) ==
    /\ pc[w] = "finish"
    /\ Settle(w, "succeeded")
    /\ UNCHANGED bounds

\* A heartbeat failed, or the database refuses the outcome: nothing is undone.
FinishFails(w) ==
    /\ pc[w] = "finish"
    /\ GotoHandler(w, "failed")
    /\ Fault
    /\ UNCHANGED <<hook, actionVars, genVars, leaseVars, progressVars, metaVars>>

-----------------------------------------------------------------------------
(* Failing.                                                                 *)

\* A step of the saga fails, or the task is cancelled, which leaves the
\* publication as it is.
Broken(w) == Abort(w) \/ Goto(w, IF pc[w] \in Swapping /\ ~hook THEN "undo" ELSE "fail")

\* It has no effect ...
StepFails(w) ==
    /\ pc[w] \in Building \cup Swapping
    /\ Broken(w)
    /\ Fault
    /\ UNCHANGED <<hook, actionVars, genVars, leaseVars, progressVars, metaVars>>

\* ... or it was a call whose answer is lost, or during which the process dies.
Effect(w) ==
    CASE pc[w] = "make" ->
            made' = [made EXCEPT ![Next1(w)] = @ + 1] /\ UNCHANGED <<active, source>>
      [] pc[w] \in {"repause", "undoing"} ->
            active' \in 0 .. active /\ UNCHANGED <<made, source>>
      [] pc[w] = "activating" ->
            active' = (IF active < Ads THEN active + 1 ELSE Ads) /\ UNCHANGED <<made, source>>
      [] pc[w] = "pausing" ->
            source' = "paused" /\ UNCHANGED <<made, active>>

CallFails(w) ==
    /\ pc[w] \in {"make", "repause", "activating", "pausing", "undoing"}
    /\ Effect(w)
    /\ \/ IF pc[w] = "undoing" THEN GotoHandler(w, "failed") ELSE Broken(w)
       \/ Done(w)
    /\ Fault
    /\ UNCHANGED <<hook, actionVars, genVars, leaseVars, progressVars>>

\* Without the ids in hand the recorded ones are paused, if all are recorded.
Fail(w) ==
    /\ pc[w] = "fail"
    /\ IF Fenced(w) /\ recorded = Parts /\ (hook => OwnsPub(w))
       THEN Goto(w, "undoing") ELSE GotoHandler(w, "failed")
    /\ UNCHANGED <<hook, actionVars, genVars, leaseVars, progressVars, metaVars, bounds>>

\* With them the bundle is read and paused unless it is paused already.
Undo(w) ==
    /\ pc[w] = "undo"
    /\ IF Fenced(w) /\ active > 0 THEN Goto(w, "undoing") ELSE GotoHandler(w, "failed")
    /\ UNCHANGED <<hook, actionVars, genVars, leaseVars, progressVars, metaVars, bounds>>

PauseBundle(w) ==
    /\ pc[w] = "undoing"
    /\ active' = 0
    /\ GotoHandler(w, "failed")
    /\ UNCHANGED <<hook, actionVars, genVars, leaseVars, progressVars, made, source, bounds>>

\* Mutant: whatever fails is tried again.
OutcomeRetry(reason) == IF reason = "changed" THEN "cancelled" ELSE "pending"

Outcome(reason) ==
    CASE reason = "changed" -> "cancelled"
      [] reason = "transient" -> "pending"
      [] OTHER -> "reconciliation_required"

Handle(w) ==
    /\ pc[w] = "handler"
    /\ Settle(w, Outcome(why[w]))
    /\ UNCHANGED bounds

-----------------------------------------------------------------------------

Work(w) ==
    \/ Claim(w) \/ Begin(w) \/ Refuse(w) \/ Approve(w)
    \/ ClaimGeneration(w) \/ PersistDraft(w) \/ ReadSource(w)
    \/ AcquirePublication(w) \/ Revalidate(w) \/ Shoot(w) \/ Request(w) \/ Look(w) \/ Make(w)
    \/ Record(w) \/ Observe(w) \/ Repause(w) \/ Disown(w) \/ Declare(w) \/ Finalize(w)
    \/ Verify(w) \/ Fence(w) \/ Activate(w) \/ CheckActive(w) \/ RecheckSource(w)
    \/ RenewForPause(w) \/ PauseSource(w) \/ Confirm(w) \/ Finish(w)
    \/ Fail(w) \/ Undo(w) \/ PauseBundle(w) \/ Handle(w)

WorkFault(w) ==
    \/ Crash(w) \/ StepFails(w) \/ CallFails(w) \/ FinishFails(w)
    \/ \E reason \in {"transient", "failed"} : EarlyFails(w, reason)

Next ==
    \/ FounderSwitches \/ OrphanLeaseExpires \/ LeaseOverrun \/ LateCall
    \/ \E w \in Worker : Work(w) \/ WorkFault(w)

Spec == Init /\ [][Next]_vars

\* The hourly pulse claims again and again, and time passes.
Fairness == WF_vars(OrphanLeaseExpires) /\ \A w \in Worker : WF_vars(Work(w))

FairSpec == Spec /\ Fairness

-----------------------------------------------------------------------------

\* The generation writes one draft however many workers try, and no part is
\* created twice: a lost answer, a crash after the call and a takeover are met
\* by the lookup.  The parts need writes in time.
OneOfEach ==
    /\ drafts <= 1
    /\ lateCalls = 0 => \A p \in Part : made[p] <= 1

\* What serves can be found again: ads are active only when every part is
\* recorded, so that a successor of a crashed worker can pause them.
ServingIsRecorded == active > 0 => recorded = Parts /\ \A p \in Part : made[p] > 0

\* A replacement recorded as succeeded has swapped the ads.
SucceededIsSwapped ==
    status = "succeeded" /\ edits = 0 /\ lateCalls = 0 => active = Ads /\ source = "paused"

\* A cancelled or requeued action that was never blocked has changed nothing.
RetriedIsClean ==
    status \in {"pending", "cancelled"} /\ ~blocked =>
        active = 0 /\ \A p \in Part : made[p] = 0

\* The agent pauses the source only while its replacement serves and only as
\* the holder of the action, whatever stale workers are still running.
SourceOutlivesSwap ==
    [][edits = 0 /\ lateCalls = 0 /\ source = "active" /\ source' = "paused" /\ edits' = edits =>
         active = Ads /\ \E w \in Worker : pc[w] = "pausing" /\ Fenced(w)]_vars

\* Every replacement is decided, although workers crash and lose their leases.
ReplacementEnds ==
    status = "pending" ~> status \in {"succeeded", "cancelled", "reconciliation_required"}

\* The design: "Partial failures cannot silently leave unintended duplicate
\* spend active."  A blocked replacement that the policy refuses is cancelled.
NoSilentDuplicate ==
    status = "cancelled" /\ edits = 0 => ~(active > 0 /\ source = "active")

=============================================================================
