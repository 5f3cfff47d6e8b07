--------------------------- MODULE MetaPublication ---------------------------
(***************************************************************************)
(* The publication of one approved draft in Meta: the run that an approval *)
(* starts (process_approved_meta_draft), the operator's reconciliation     *)
(* with given ids, and the operator's replacement of a terminal hierarchy  *)
(* (replace_terminal_meta_draft).                                          *)
(*                                                                         *)
(* All three take the draft's advisory lock on a connection of its own and *)
(* then read, call Meta and write through other connections, one           *)
(* transaction at a time.  A hierarchy is a campaign, an ad set, a         *)
(* creative and an ad; it serves once campaign, ad set and ad are active.  *)
(***************************************************************************)
EXTENDS Integers, Sequences

CONSTANTS
    Operator,      \* concurrent invocations of the commands of cli_meta.py
    AckRun,        \* the background task of handle_ack
    NoRun,         \* the advisory lock is free
    MaxAttempts,   \* bound: terminal replacements begun
    MaxFaults,     \* bound: crashes and errors of Meta and the database
    MaxLosses      \* bound: lock connections that break under their run

ASSUME PublicationAssumption ==
    /\ AckRun \notin Operator /\ NoRun \notin Operator \cup {AckRun}
    /\ MaxAttempts \in Nat /\ MaxFaults \in Nat /\ MaxLosses \in Nat

VARIABLES
    draft,     \* drafts.status
    state,     \* publications.state, "none" without a row
    ids,       \* publications.external_ids: the hierarchy of each part, or 0
    failure,   \* publications.failure is not NULL
    frozen,    \* publications.approved_budget_cents is not NULL
    attempts,  \* publications.replacement_history: the state of each attempt
    hier,      \* Meta: the parts made and the status of each hierarchy
    lock,      \* pg_advisory_xact_lock of the draft
    pc,        \* where a run stands
    kind,      \* its command
    use,       \* its ids: given, read or created
    saw,       \* the publication it has read
    attempt,   \* the attempt it began, or 0
    auth,      \* _replacement_authorization is not None
    failed,    \* operational_failure is not None
    lost,      \* a run ended without recording what it did (history)
    faults,
    losses

rowVars == <<draft, state, ids, failure, frozen, attempts>>
runVars == <<pc, kind, use, saw, attempt, auth, failed>>
bounds == <<faults, losses>>
vars == <<rowVars, hier, lock, runVars, lost, bounds>>

Run == Operator \cup {AckRun}

\* campaign, ad set, creative and ad, in the order of their creation
Part == 1 .. 4
Required == {1, 2, 4}

NoIds == [p \in Part |-> 0]
All(h) == [p \in Part |-> h]
Stored(i) == {p \in Part : i[p] # 0}

\* external_ids || EXCLUDED.external_ids
Merge(old, new) == [p \in Part |-> IF new[p] # 0 THEN new[p] ELSE old[p]]

Step == {"idle", "waiting", "check", "adopt", "inspect", "begin", "read", "freeze", "image",
         "create", "store", "activate", "mark", "undo", "record", "result", "finalize"}

TypeOK ==
    /\ draft \in {"queued", "rejected", "approved", "published"}
    /\ state \in {"none", "creating", "created", "failed", "active"}
    /\ ids \in [Part -> 0 .. Len(hier)]
    /\ failure \in BOOLEAN /\ frozen \in BOOLEAN
    /\ attempts \in Seq({"open", "creating", "created", "failed", "active"})
    /\ hier \in Seq([made : Part, status : {"paused", "active", "terminal"}])
    /\ lock \in Run \cup {NoRun}
    /\ pc \in [Run -> Step]
    /\ kind \in [Run -> {"ack", "reconcile", "replace"}]
    /\ use \in [Run -> [Part -> 0 .. Len(hier)]]
    /\ saw \in [Run -> {"none", "thawed", "frozen"}]
    /\ attempt \in [Run -> 0 .. Len(attempts)]
    /\ auth \in [Run -> BOOLEAN] /\ failed \in [Run -> BOOLEAN]
    /\ lost \in BOOLEAN
    /\ faults \in 0 .. MaxFaults /\ losses \in 0 .. MaxLosses

Init ==
    /\ draft = "queued"
    /\ state = "none" /\ ids = NoIds /\ failure = FALSE /\ frozen = FALSE /\ attempts = <<>>
    /\ hier = <<>>
    /\ lock = NoRun
    /\ pc = [r \in Run |-> "idle"]
    /\ kind = [r \in Run |-> "ack"]
    /\ use = [r \in Run |-> NoIds]
    /\ saw = [r \in Run |-> "none"]
    /\ attempt = [r \in Run |-> 0]
    /\ auth = [r \in Run |-> FALSE] /\ failed = [r \in Run |-> FALSE]
    /\ lost = FALSE /\ faults = 0 /\ losses = 0

Fault == faults < MaxFaults /\ faults' = faults + 1 /\ UNCHANGED losses

-----------------------------------------------------------------------------
(* The founder in Meta, and how runs start and end.                         *)

\* Archived and deleted resources cannot come back.
FounderArchives ==
    /\ \E h \in DOMAIN hier : hier' = [hier EXCEPT ![h].status = "terminal"]
    /\ UNCHANGED <<rowVars, lock, runVars, lost, bounds>>

FounderPauses ==
    /\ \E h \in DOMAIN hier : /\ hier[h].status = "active"
                              /\ hier' = [hier EXCEPT ![h].status = "paused"]
    /\ UNCHANGED <<rowVars, lock, runVars, lost, bounds>>

Launch(r, command, given) ==
    /\ pc' = [pc EXCEPT ![r] = "waiting"]
    /\ kind' = [kind EXCEPT ![r] = command]
    /\ use' = [use EXCEPT ![r] = given]
    /\ UNCHANGED <<saw, attempt, auth, failed>>

\* handle_ack commits the approval and then creates the task, which only the
\* process remembers.
Approve ==
    /\ draft = "queued"
    /\ draft' = "approved"
    /\ \/ Launch(AckRun, "ack", NoIds) /\ UNCHANGED <<lost, bounds>>
       \/ Fault /\ lost' = TRUE /\ UNCHANGED runVars
    /\ UNCHANGED <<state, ids, failure, frozen, attempts, hier, lock>>

Reject ==
    /\ draft = "queued"
    /\ draft' = "rejected"
    /\ UNCHANGED <<state, ids, failure, frozen, attempts, hier, lock, runVars, lost, bounds>>

\* reconcile_draft: the ids of a complete hierarchy that do not conflict
Conflict(given) == \E p \in Part : ids[p] # 0 /\ ids[p] # given[p]

Reconcile(r) ==
    /\ pc[r] = "idle"
    /\ \E h \in DOMAIN hier :
          hier[h].made = 4 /\ ~Conflict(All(h)) /\ Launch(r, "reconcile", All(h))
    /\ UNCHANGED <<rowVars, hier, lock, lost, bounds>>

\* replace_terminal_draft_command with the ids the operator finds stored
Replace(r) ==
    /\ pc[r] = "idle"
    /\ Len(attempts) < MaxAttempts
    /\ Stored(ids) = Part
    /\ Launch(r, "replace", ids)
    /\ UNCHANGED <<rowVars, hier, lock, lost, bounds>>

Acquire(r) ==
    /\ pc[r] = "waiting" /\ lock = NoRun
    /\ lock' = r
    /\ pc' = [pc EXCEPT ![r] = CASE kind[r] = "ack" -> "read"
                                 [] kind[r] = "reconcile" -> "check"
                                 [] OTHER -> "inspect"]
    /\ UNCHANGED <<rowVars, hier, kind, use, saw, attempt, auth, failed, lost, bounds>>

Goto(r, step) == pc' = [pc EXCEPT ![r] = step] /\ UNCHANGED <<kind, use, saw, attempt, auth, failed, lock>>

\* The run is over; its lock goes with its connection.
End(r) ==
    /\ lock' = IF lock = r THEN NoRun ELSE lock
    /\ pc' = [pc EXCEPT ![r] = "idle"]
    /\ use' = [use EXCEPT ![r] = NoIds]
    /\ saw' = [saw EXCEPT ![r] = "none"]
    /\ attempt' = [attempt EXCEPT ![r] = 0]
    /\ auth' = [auth EXCEPT ![r] = FALSE]
    /\ failed' = [failed EXCEPT ![r] = FALSE]
    /\ kind' = [kind EXCEPT ![r] = "ack"]

\* _process_approved_meta_draft returns.
Return(r) == IF kind[r] = "replace" THEN Goto(r, "result") ELSE End(r)

\* An exception it does not catch leaves it.
Escape(r) ==
    /\ lost' = TRUE
    /\ IF kind[r] = "replace"
       THEN /\ pc' = [pc EXCEPT ![r] = "result"]
            /\ failed' = [failed EXCEPT ![r] = TRUE]
            /\ UNCHANGED <<kind, use, saw, attempt, auth, lock>>
       ELSE End(r)

Crash(r) ==
    /\ pc[r] # "idle"
    /\ End(r) /\ lost' = TRUE
    /\ Fault
    /\ UNCHANGED <<rowVars, hier>>

\* The idle connection that holds the lock breaks; the run does not notice.
LoseLock(r) ==
    /\ lock = r /\ losses < MaxLosses
    /\ lock' = NoRun /\ losses' = losses + 1
    /\ UNCHANGED <<rowVars, hier, runVars, lost, faults>>

-----------------------------------------------------------------------------
(* Commands of the operator, under the lock.                                *)

Check(r) ==
    /\ pc[r] = "check"
    /\ IF /\ draft \in {"approved", "published"}
          /\ ~Conflict(use[r])
          /\ draft = "published" => Stored(ids) = Part
       THEN Goto(r, IF Stored(ids) = Part THEN "read" ELSE "adopt")
       ELSE End(r)
    /\ UNCHANGED <<rowVars, hier, lost, bounds>>

Adopt(r) ==
    /\ pc[r] = "adopt"
    /\ state' = "created" /\ ids' = Merge(ids, use[r])
    /\ Goto(r, "read")
    /\ UNCHANGED <<draft, failure, frozen, attempts, hier, lost, bounds>>

Terminal(i) == \A p \in Required : hier[i[p]].status = "terminal"

\* Mutant: the statuses are not read from Meta.
InspectStored(r) ==
    /\ pc[r] = "inspect"
    /\ IF draft \in {"approved", "published"} /\ ids = use[r] /\ frozen
       THEN /\ pc' = [pc EXCEPT ![r] = "begin"]
            /\ auth' = [auth EXCEPT ![r] = draft = "published"]
            /\ UNCHANGED <<kind, use, saw, attempt, failed, lock>>
       ELSE End(r)
    /\ UNCHANGED <<rowVars, hier, lost, bounds>>

\* Every refusal of replace_terminal_meta_draft, then the image.
Inspect(r) ==
    /\ pc[r] = "inspect"
    /\ IF draft \in {"approved", "published"} /\ ids = use[r] /\ frozen /\ Terminal(use[r])
       THEN /\ pc' = [pc EXCEPT ![r] = "begin"]
            /\ auth' = [auth EXCEPT ![r] = draft = "published"]
            /\ UNCHANGED <<kind, use, saw, attempt, failed, lock>>
       ELSE End(r)
    /\ UNCHANGED <<rowVars, hier, lost, bounds>>

\* Mutant: the stored ids are not compared again.
BeginUnguarded(r) ==
    /\ pc[r] = "begin"
    /\ ids' = NoIds /\ state' = "creating" /\ failure' = FALSE
    /\ attempts' = Append(attempts, "open")
    /\ attempt' = [attempt EXCEPT ![r] = Len(attempts) + 1]
    /\ pc' = [pc EXCEPT ![r] = "read"]
    /\ UNCHANGED <<kind, use, saw, auth, failed, lock, draft, frozen, hier, lost, bounds>>

\* begin_meta_terminal_replacement
Begin(r) ==
    /\ pc[r] = "begin"
    /\ IF ids = use[r]
       THEN /\ ids' = NoIds /\ state' = "creating" /\ failure' = FALSE
            /\ attempts' = Append(attempts, "open")
            /\ attempt' = [attempt EXCEPT ![r] = Len(attempts) + 1]
            /\ pc' = [pc EXCEPT ![r] = "read"]
            /\ UNCHANGED <<kind, use, saw, auth, failed, lock>>
       ELSE End(r) /\ UNCHANGED <<ids, state, failure, attempts>>
    /\ UNCHANGED <<draft, frozen, hier, lost, bounds>>

-----------------------------------------------------------------------------
(* _process_approved_meta_draft                                             *)

Open(r) == attempt[r] # 0 /\ attempts[attempt[r]] = "open"

Read(r) ==
    /\ pc[r] = "read"
    /\ IF draft = "approved" \/ (draft = "published" /\ auth[r] /\ Open(r))
       THEN /\ use' = [use EXCEPT ![r] = ids]
            /\ saw' = [saw EXCEPT ![r] = CASE state = "none" -> "none"
                                           [] state # "none" /\ frozen -> "frozen"
                                           [] OTHER -> "thawed"]
            /\ pc' = [pc EXCEPT ![r] = "freeze"]
            /\ UNCHANGED <<kind, attempt, auth, failed, lock>>
       ELSE Return(r)
    /\ UNCHANGED <<rowVars, hier, lost, bounds>>

\* The row is inserted, or the budget frozen; a new row is read again.
Freeze(r) ==
    LET known == IF saw[r] = "none" THEN ids ELSE use[r]
    IN  /\ pc[r] = "freeze"
        /\ frozen' = TRUE
        /\ IF Stored(known) # {} /\ ~(Required \subseteq Stored(known))
           THEN \* incomplete ids: no duplicate is created
                /\ failure' = TRUE
                /\ IF failure THEN UNCHANGED <<state, ids>>
                   ELSE state' = "failed" /\ ids' = Merge(ids, known)
                /\ Return(r)
           ELSE /\ state' = IF saw[r] = "none" THEN "creating" ELSE state
                /\ use' = [use EXCEPT ![r] = known]
                /\ pc' = [pc EXCEPT ![r] = CASE Stored(known) # {} -> "activate"
                                             [] Stored(known) = {} /\ kind[r] = "replace" -> "create"
                                             [] OTHER -> "image"]
                /\ UNCHANGED <<ids, failure, kind, saw, attempt, auth, failed, lock>>
        /\ UNCHANGED <<draft, attempts, hier, lost, bounds>>

\* The screenshot; a failed edit falls back to it.
Image(r) ==
    /\ pc[r] = "image"
    /\ Goto(r, "create")
    /\ UNCHANGED <<rowVars, hier, lost, bounds>>

\* The part that comes next in the hierarchy a run is making
Made(r) == use[r][1]
NextPart(r) == IF Made(r) = 0 THEN 1 ELSE hier[Made(r)].made + 1

Grow(r) ==
    hier' = IF Made(r) = 0 THEN Append(hier, [made |-> 1, status |-> "paused"])
            ELSE [hier EXCEPT ![Made(r)].made = @ + 1]

\* _sync_create, one resource per step, each paused
CreatePart(r) ==
    /\ pc[r] = "create"
    /\ Grow(r)
    /\ use' = [use EXCEPT ![r] = [p \in Part |->
                    IF p <= NextPart(r) THEN (IF Made(r) = 0 THEN Len(hier) + 1 ELSE Made(r))
                    ELSE 0]]
    /\ pc' = [pc EXCEPT ![r] = IF NextPart(r) = 4 THEN "store" ELSE "create"]
    /\ UNCHANGED <<rowVars, lock, kind, saw, attempt, auth, failed, lost, bounds>>

\* Mutant: the run activates what it has made without storing its ids.
StoreNothing(r) ==
    /\ pc[r] = "store"
    /\ state' = "created"
    /\ Goto(r, "activate")
    /\ UNCHANGED <<draft, ids, failure, frozen, attempts, hier, lost, bounds>>

Store(r) ==
    /\ pc[r] = "store"
    /\ state' = "created" /\ ids' = Merge(ids, use[r])
    /\ Goto(r, "activate")
    /\ UNCHANGED <<draft, failure, frozen, attempts, hier, lost, bounds>>

Uniform(i) == \A p \in Required : i[p] = i[1]

\* Campaign, ad set and ad are switched on in turn and read back.
Activate(r) ==
    LET h == use[r][1]
    IN  /\ pc[r] = "activate"
        /\ IF Uniform(use[r]) /\ hier[h].status # "terminal"
           THEN hier' = [hier EXCEPT ![h].status = "active"] /\ Goto(r, "mark")
           ELSE UNCHANGED hier /\ Goto(r, "record")
        /\ UNCHANGED <<rowVars, lost, bounds>>

\* _mark_published: one transaction, or nothing of it.
Markable(r) == IF auth[r] THEN draft = "published" /\ Open(r) ELSE draft = "approved"

Mark(r) ==
    /\ pc[r] = "mark"
    /\ IF Markable(r)
       THEN state' = "active" /\ failure' = FALSE /\ draft' = "published" /\ Return(r)
       ELSE UNCHANGED <<state, failure, draft>> /\ Goto(r, "undo")
    /\ UNCHANGED <<ids, frozen, attempts, hier, lost, bounds>>

\* pause_meta_ad
Undo(r) ==
    LET h == use[r][1]
    IN  /\ pc[r] = "undo"
        /\ hier' = [hier EXCEPT ![h].status = IF @ = "terminal" THEN @ ELSE "paused"]
        /\ Goto(r, "record")
        /\ UNCHANGED <<rowVars, lost, bounds>>

\* Mutant: the failure is reported to the founder only.
RecordNothing(r) ==
    /\ pc[r] = "record"
    /\ Return(r)
    /\ UNCHANGED <<rowVars, hier, lost, bounds>>

\* _record_failure
Record(r) ==
    /\ pc[r] = "record"
    /\ state' = "failed" /\ failure' = TRUE /\ ids' = Merge(ids, use[r])
    /\ Return(r)
    /\ UNCHANGED <<draft, frozen, attempts, hier, lost, bounds>>

-----------------------------------------------------------------------------
(* The end of a replacement.                                                *)

\* Mutant: a failed replacement is recorded in its history only.
ResultUnrecorded(r) ==
    /\ pc[r] = "result"
    /\ failed' = [failed EXCEPT ![r] = @ \/ state # "active"]
    /\ pc' = [pc EXCEPT ![r] = "finalize"]
    /\ UNCHANGED <<rowVars, hier, lock, kind, use, saw, attempt, auth, lost, bounds>>

\* What the publication says decides whether the attempt failed.
Result(r) ==
    LET bad == failed[r] \/ (state = "creating" /\ ids = NoIds) \/ state = "failed" \/ failure
    IN  /\ pc[r] = "result"
        /\ IF bad THEN state' = "failed" /\ failure' = TRUE ELSE UNCHANGED <<state, failure>>
        /\ failed' = [failed EXCEPT ![r] = bad]
        /\ pc' = [pc EXCEPT ![r] = "finalize"]
        /\ UNCHANGED <<draft, ids, frozen, attempts, hier, lock, kind, use, saw, attempt, auth,
                       lost, bounds>>

\* record_meta_replacement_result
Finalize(r) ==
    /\ pc[r] = "finalize"
    /\ attempts' = IF Open(r)
                   THEN [attempts EXCEPT ![attempt[r]] = IF failed[r] THEN "failed" ELSE state]
                   ELSE attempts
    /\ End(r)
    /\ UNCHANGED <<draft, state, ids, failure, frozen, hier, lost, bounds>>

-----------------------------------------------------------------------------
(* Errors.                                                                  *)

\* The screenshot fails, or Meta refuses a part: FacebookRequestError.  The
\* parts made so far are paused and recorded.
Refused(r) ==
    /\ pc[r] \in {"image", "create"}
    /\ Goto(r, "record")
    /\ Fault
    /\ UNCHANGED <<rowVars, hier, lost>>

\* The call breaks off with any other exception, whether Meta made the part
\* or not.
BrokenOff(r) ==
    /\ pc[r] = "create"
    /\ Grow(r) \/ UNCHANGED hier
    /\ Escape(r)
    /\ Fault
    /\ UNCHANGED rowVars

\* Activation fails part of the way, and the pause that follows it may too.
ActivateFails(r) ==
    LET h == use[r][1]
    IN  /\ pc[r] = "activate"
        /\ \E s \in {"paused", "active"} :
              hier' = [hier EXCEPT ![h].status = IF @ = "terminal" \/ ~Uniform(use[r]) THEN @ ELSE s]
        /\ Goto(r, "record")
        /\ Fault
        /\ UNCHANGED <<rowVars, lost>>

\* The transaction fails, or commits and its answer is lost.
MarkFails(r) ==
    /\ pc[r] = "mark"
    /\ \/ UNCHANGED <<state, failure, draft>>
       \/ Markable(r) /\ state' = "active" /\ failure' = FALSE /\ draft' = "published"
    /\ Goto(r, "undo")
    /\ Fault
    /\ UNCHANGED <<ids, frozen, attempts, hier, lost>>

UndoFails(r) ==
    /\ pc[r] = "undo"
    /\ Goto(r, "record")
    /\ Fault
    /\ UNCHANGED <<rowVars, hier, lost>>

\* The database fails a read or an upsert outside every handler.
DatabaseFails(r) ==
    /\ pc[r] \in {"read", "freeze", "store", "record"}
    /\ Escape(r)
    /\ Fault
    /\ UNCHANGED <<rowVars, hier>>

-----------------------------------------------------------------------------

Work(r) ==
    \/ Check(r) \/ Adopt(r) \/ Inspect(r) \/ Begin(r)
    \/ Read(r) \/ Freeze(r) \/ Image(r) \/ CreatePart(r) \/ Store(r) \/ Activate(r) \/ Mark(r)
    \/ Undo(r) \/ Record(r) \/ Result(r) \/ Finalize(r)

WorkFault(r) ==
    \/ Crash(r) \/ LoseLock(r) \/ Refused(r) \/ BrokenOff(r) \/ ActivateFails(r)
    \/ MarkFails(r) \/ UndoFails(r) \/ DatabaseFails(r)

Next ==
    \/ FounderArchives \/ FounderPauses \/ Approve \/ Reject
    \/ \E o \in Operator : Reconcile(o) \/ Replace(o)
    \/ \E r \in Run : Acquire(r) \/ Work(r) \/ WorkFault(r)

Spec == Init /\ [][Next]_vars

\* A run goes on by itself; PostgreSQL grants a lock in the order of the
\* requests, so nobody waits behind others for ever.
Fairness == \A r \in Run : WF_vars(Work(r)) /\ SF_vars(Acquire(r))

FairSpec == Spec /\ Fairness

-----------------------------------------------------------------------------

\* What the agent has switched on, in whatever way its run ended, can be found
\* by its stored ids: the hourly collection and an operator's pause need them.
\* So no draft pays for two hierarchies, although runs crash and are repeated.
ServingIsStored ==
    losses = 0 => \A h \in DOMAIN hier :
        hier[h].status = "active" => \A p \in Required : ids[p] = h

\* A published draft is active, or its row says why not: a failure, or a
\* replacement that was begun and not finished.
PublishedIsAccounted ==
    draft = "published" /\ losses = 0 =>
        \/ state = "active" /\ Required \subseteq Stored(ids)
        \/ failure
        \/ \E n \in DOMAIN attempts : attempts[n] = "open"

\* Ids leave the row only after their hierarchy became terminal, even when two
\* replacements run at once; without the lock they may be overwritten.
IdsKeptUntilTerminal ==
    [][\A p \in Part : ids[p] # 0 /\ ids'[p] # ids[p] =>
           IF ids'[p] = 0 THEN p \in Required => hier[ids[p]].status = "terminal"
           ELSE losses > 0]_vars

\* The design: retries reconcile the stored hierarchy "instead of creating
\* duplicates".  A new one is begun only when all the others are terminal.
NoSecondHierarchy ==
    [][Len(hier') > Len(hier) /\ losses = 0 /\ ~lost =>
         \A h \in DOMAIN hier : hier[h].status = "terminal"]_vars

\* An approval ends in a published draft or a recorded failure, unless its run
\* disappeared.
ApprovalSettles == draft = "approved" ~> draft = "published" \/ failure \/ lost

\* The design: on failure "the known external IDs and failure details are
\* retained for reconciliation".  An exception that is no FacebookRequestError
\* leaves a campaign in Meta that no row knows.
FailureKeepsIds ==
    \A h \in DOMAIN hier :
        hier[h].status # "terminal" /\ (\A r \in Run : pc[r] = "idle") =>
            \E p \in Part : ids[p] = h

=============================================================================
