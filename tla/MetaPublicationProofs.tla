-------------------------- MODULE MetaPublicationProofs --------------------------
(***************************************************************************)
(* Proofs about MetaPublication, for any operators and bounds.  IInv is    *)
(* inductive; what the row says of Meta follows from it.                   *)
(***************************************************************************)
EXTENDS MetaPublication, TLAPS

-----------------------------------------------------------------------------
(* The inductive invariant.                                                 *)

\* A run past its wait
Working(r) == pc[r] \notin {"idle", "waiting"}

\* While no connection breaks, a run past its wait has the lock.
LockHeld == losses = 0 => \A r \in Run : Working(r) => lock = r

\* The ids that an operator gave are complete ...
GivenIsComplete ==
    \A r \in Run :
        pc[r] \in {"check", "adopt", "inspect", "begin"} \/ (pc[r] = "waiting" /\ kind[r] # "ack") =>
            \A p \in Part : use[r][p] # 0

\* ... and those of a replacement are terminal.
BeginsTerminal == \A r \in Run : pc[r] = "begin" => Terminal(use[r])

\* Only a reconciliation stores given ids.
CommandKept == \A r \in Run : pc[r] \in {"check", "adopt"} => kind[r] = "reconcile"

\* The approval's own run starts with it.
AckAwaitsApproval == draft = "queued" => pc[AckRun] = "idle"

\* A run creates a hierarchy of its own and goes on with a complete one.
CreatorsApart ==
    \A r \in Run :
        /\ pc[r] = "image" => Made(r) = 0
        /\ pc[r] = "create" /\ Made(r) # 0 =>
              /\ hier[Made(r)].made < 4
              /\ \A s \in Run \ {r} : pc[s] = "create" => Made(s) # Made(r)

\* What is stored has every part, what is activated those that serve.
UseIsComplete ==
    \A r \in Run :
        /\ pc[r] = "store" => use[r][1] # 0 /\ \A p \in Part : use[r][p] = use[r][1]
        /\ pc[r] \in {"activate", "mark", "undo"} => \A p \in Required : use[r][p] # 0
        /\ pc[r] \in {"mark", "undo"} => Uniform(use[r])

\* An attempt has a row, and a row has a state.
AttemptHasRow == state = "none" => attempts = <<>>

\* A run at work knows the row, which nobody else changes.
UseIsStored ==
    losses = 0 => \A r \in Run :
        /\ pc[r] = "adopt" => draft = "approved" /\ \A p \in Part : ids[p] \in {0, use[r][p]}
        /\ pc[r] = "read" /\ kind[r] = "replace" => state = "creating" /\ ids = NoIds
        /\ pc[r] = "freeze" /\ saw[r] # "none" => use[r] = ids
        /\ pc[r] \in {"image", "create", "store"} => ids = NoIds
        /\ pc[r] \in {"activate", "mark", "undo"} => use[r] = ids
        /\ pc[r] = "record" => ids \in {NoIds, use[r]}

\* Only an approval or an open attempt is worked on.
WorkIsAuthorized ==
    losses = 0 => \A r \in Run :
        pc[r] \in {"freeze", "image", "create", "store", "activate", "mark"} =>
            draft = "approved" \/ Open(r)

\* The row of a publication that serves
IsActive == state = "active" /\ Required \subseteq Stored(ids)

\* What a replacement leaves behind when its attempt is closed
AttemptIsAccounted ==
    losses = 0 /\ draft = "published" => \A r \in Run :
        /\ pc[r] = "result" => failed[r] \/ failure \/ (state = "creating" /\ ids = NoIds) \/ IsActive
        /\ pc[r] = "finalize" => failure \/ IsActive

\* A hierarchy that is not terminal is stored or in the hands of a run.
HierarchyIsKnown ==
    losses = 0 /\ ~lost => \A h \in DOMAIN hier :
        \/ hier[h].status = "terminal"
        \/ ids[1] = h
        \/ \E r \in Run : pc[r] \in {"create", "store", "record"} /\ use[r][1] = h

\* The inductive invariant
IInv ==
    /\ TypeOK /\ LockHeld /\ GivenIsComplete /\ BeginsTerminal
    /\ AttemptHasRow /\ CommandKept /\ AckAwaitsApproval
    /\ CreatorsApart /\ UseIsComplete
    /\ UseIsStored /\ WorkIsAuthorized /\ AttemptIsAccounted /\ HierarchyIsKnown
    /\ ServingIsStored /\ PublishedIsAccounted

-----------------------------------------------------------------------------
(* The type invariant in parts, and what the conjuncts need of a step.      *)

SimpleTypeOK ==
    /\ draft \in {"queued", "rejected", "approved", "published"}
    /\ state \in {"none", "creating", "created", "failed", "active"}
    /\ failure \in BOOLEAN /\ frozen \in BOOLEAN
    /\ lock \in Run \cup {NoRun}
    /\ pc \in [Run -> Step]
    /\ kind \in [Run -> {"ack", "reconcile", "replace"}]
    /\ saw \in [Run -> {"none", "thawed", "frozen"}]
    /\ auth \in [Run -> BOOLEAN] /\ failed \in [Run -> BOOLEAN]

BoundsTypeOK ==
    /\ lost \in BOOLEAN
    /\ faults \in 0 .. MaxFaults /\ losses \in 0 .. MaxLosses

AttemptTypeOK ==
    /\ attempts \in Seq({"open", "creating", "created", "failed", "active"})
    /\ attempt \in [Run -> 0 .. Len(attempts)]

IdsTypeOK ==
    /\ ids \in [Part -> 0 .. Len(hier)]
    /\ use \in [Run -> [Part -> 0 .. Len(hier)]]

\* A hierarchy in Meta
Resource == [made : Part, status : {"paused", "active", "terminal"}]

\* What the conjuncts need of Meta: nothing disappears or comes back, and only
\* a run that activates switches on.
MetaGrows ==
    /\ hier' \in Seq(Resource)
    /\ Len(hier') \in {Len(hier), Len(hier) + 1}
    /\ \A h \in DOMAIN hier : hier[h].status = "terminal" => hier'[h].status = "terminal"
    /\ \A h \in DOMAIN hier : hier'[h].status = "active" /\ hier[h].status # "active" =>
          \E r \in Run : pc[r] = "activate" /\ Uniform(use[r]) /\ use[r][1] = h
    /\ Len(hier') > Len(hier) =>
          /\ hier'[Len(hier')].status = "paused"
          /\ \E r \in Run : pc[r] = "create" /\ Made(r) = 0

\* No hierarchy gets another part.
MadeKept == \A h \in DOMAIN hier : hier'[h].made = hier[h].made

\* Only an inspection that finds the hierarchy terminal begins a replacement.
BeginsFrom ==
    \A r \in Run : pc'[r] = "begin" =>
        use'[r] = use[r] /\ (pc[r] = "begin" \/ (pc[r] = "inspect" /\ Terminal(use[r])))

\* What a run holds stays in its hands until the row knows it.
HoldersKeep ==
    \A r \in Run : pc[r] \in {"create", "store", "record"} /\ use[r][1] # 0 =>
        \/ lost'
        \/ pc'[r] \in {"create", "store", "record"} /\ use'[r][1] = use[r][1]
        \/ ids'[1] = use[r][1]

\* A new hierarchy is in the hands of its run.
NewIsHeld ==
    Len(hier') > Len(hier) =>
        lost' \/ \E r \in Run : pc'[r] \in {"create", "store"} /\ use'[r][1] = Len(hier')

\* A loss is remembered.
NothingForgotten == (lost => lost') /\ (losses' = 0 => losses = 0)

\* The step of IdsKeptUntilTerminal
IdsKept ==
    \A p \in Part : ids[p] # 0 /\ ids'[p] # ids[p] =>
        IF ids'[p] = 0 THEN p \in Required => hier[ids[p]].status = "terminal"
        ELSE losses > 0

-----------------------------------------------------------------------------
(* What the steps do to Meta.                                               *)

\* The hierarchies are a sequence of resources.
LEMMA HierTyped == ASSUME TypeOK PROVE /\ hier \in Seq(Resource) /\ DOMAIN hier = 1 .. Len(hier)
                                       /\ Len(hier) \in Nat
  BY DEF TypeOK, Resource

\* One hierarchy gets another status.
LEMMA StatusSet ==
    ASSUME TypeOK, NEW h \in DOMAIN hier, NEW s \in {"paused", "active", "terminal"},
           hier[h].status = "terminal" => s = "terminal",
           s = "active" /\ hier[h].status # "active" =>
               \E r \in Run : pc[r] = "activate" /\ Uniform(use[r]) /\ use[r][1] = h,
           hier' = [hier EXCEPT ![h].status = s]
    PROVE  MetaGrows /\ MadeKept
  <1>1. hier \in Seq(Resource) /\ DOMAIN hier = 1 .. Len(hier) /\ Len(hier) \in Nat
    BY HierTyped
  <1>2. hier[h] \in Resource
    BY <1>1
  <1>3. [hier[h] EXCEPT !.status = s] \in Resource
    BY <1>2 DEF Resource
  <1>4. hier' = [hier EXCEPT ![h] = [hier[h] EXCEPT !.status = s]]
    OBVIOUS
  <1>5. hier' \in Seq(Resource) /\ Len(hier') = Len(hier)
    BY <1>1, <1>3, <1>4
  <1>6. \A g \in DOMAIN hier : g # h => hier'[g] = hier[g]
    BY <1>1, <1>4
  <1>7. hier'[h].status = s /\ hier'[h].made = hier[h].made
    BY <1>1, <1>2, <1>4 DEF Resource
  <1> QED BY <1>1, <1>5, <1>6, <1>7 DEF MetaGrows, MadeKept

\* A hierarchy begins or gets its next part.
LEMMA HierGrown ==
    ASSUME TypeOK, NEW r \in Run, pc[r] = "create",
           Made(r) # 0 => hier[Made(r)].made < 4,
           Grow(r)
    PROVE  /\ MetaGrows
           /\ Made(r) = 0 => Len(hier') = Len(hier) + 1 /\ hier'[Len(hier')].made = 1
                             /\ \A g \in DOMAIN hier : hier'[g] = hier[g]
           /\ Made(r) # 0 =>
                /\ Len(hier') = Len(hier)
                /\ hier'[Made(r)].made = hier[Made(r)].made + 1
                /\ hier'[Made(r)].status = hier[Made(r)].status
                /\ \A g \in DOMAIN hier : g # Made(r) => hier'[g] = hier[g]
  <1>1. hier \in Seq(Resource) /\ DOMAIN hier = 1 .. Len(hier) /\ Len(hier) \in Nat
    BY HierTyped
  <1>2. Made(r) \in 0 .. Len(hier)
    BY DEF TypeOK, Made, Part
  <1>3. CASE Made(r) = 0
    <2>1. hier' = Append(hier, [made |-> 1, status |-> "paused"])
      BY <1>3 DEF Grow
    <2>2. [made |-> 1, status |-> "paused"] \in Resource
      BY DEF Resource, Part
    <2>3. hier' \in Seq(Resource) /\ Len(hier') = Len(hier) + 1
      BY <1>1, <2>1, <2>2
    <2>4. \A g \in DOMAIN hier : hier'[g] = hier[g]
      BY <1>1, <2>1, <2>2
    <2>5. hier'[Len(hier')] = [made |-> 1, status |-> "paused"]
      BY <1>1, <2>1, <2>2, <2>3
    <2> QED BY <1>1, <1>3, <2>3, <2>4, <2>5 DEF MetaGrows
  <1>4. CASE Made(r) # 0
    <2> DEFINE m == Made(r)
    <2>1. m \in DOMAIN hier
      BY <1>1, <1>2, <1>4
    <2>2. hier' = [hier EXCEPT ![m] = [hier[m] EXCEPT !.made = hier[m].made + 1]]
      BY <1>4 DEF Grow
    <2>3. hier[m] \in Resource
      BY <1>1, <2>1
    <2>4. [hier[m] EXCEPT !.made = hier[m].made + 1] \in Resource
      BY <1>4, <2>3 DEF Resource, Part
    <2> HIDE DEF m
    <2>5. hier' \in Seq(Resource) /\ Len(hier') = Len(hier)
      BY <1>1, <2>1, <2>2, <2>4
    <2>6. \A g \in DOMAIN hier : g # m => hier'[g] = hier[g]
      BY <1>1, <2>1, <2>2
    <2>7. /\ hier'[m].made = hier[m].made + 1
          /\ hier'[m].status = hier[m].status
      BY <1>1, <2>1, <2>2, <2>3 DEF Resource
    <2>8. MetaGrows
      BY <1>1, <2>1, <2>5, <2>6, <2>7 DEF MetaGrows
    <2> QED BY <1>4, <2>5, <2>6, <2>7, <2>8 DEF m
  <1> QED BY <1>3, <1>4

\* Nothing happens in Meta.
LEMMA HierKept == ASSUME TypeOK, hier' = hier PROVE MetaGrows /\ MadeKept
  BY HierTyped DEF MetaGrows, MadeKept

\* The founder sets a status.
LEMMA FounderSets == ASSUME TypeOK, FounderArchives \/ FounderPauses PROVE MetaGrows /\ MadeKept
  <1>1. PICK h \in DOMAIN hier, s \in {"terminal", "paused"} :
            (s = "paused" => hier[h].status = "active") /\ hier' = [hier EXCEPT ![h].status = s]
    BY DEF FounderArchives, FounderPauses
  <1> QED BY <1>1, StatusSet

\* So does a run that activates or pauses.
LEMMA RunSets ==
    ASSUME TypeOK, UseIsComplete, NEW r \in Run, Activate(r) \/ Undo(r) \/ ActivateFails(r)
    PROVE  MetaGrows /\ MadeKept
  <1> DEFINE h == use[r][1]
  <1>1. h \in DOMAIN hier
    BY HierTyped DEF Activate, Undo, ActivateFails, TypeOK, UseIsComplete, Part, Required
  <1>2. hier[h].status \in {"paused", "active", "terminal"}
    <2>1. hier[h] \in Resource
      BY <1>1, HierTyped
    <2> QED BY <2>1 DEF Resource
  <1>3. CASE Activate(r)
    <2>1. CASE hier' = hier
      BY <2>1, HierKept
    <2>2. CASE hier' # hier
      BY <1>1, <1>3, <2>2, StatusSet DEF Activate
    <2> QED BY <2>1, <2>2
  <1>4. CASE Undo(r)
    <2> DEFINE s == IF hier[h].status = "terminal" THEN "terminal" ELSE "paused"
    <2>1. hier' = [hier EXCEPT ![h].status = s]
      BY <1>4 DEF Undo
    <2> QED BY <1>1, <2>1, StatusSet
  <1>5. CASE ActivateFails(r)
    <2>1. PICK t \in {"paused", "active"} : hier' = [hier EXCEPT ![h].status =
              IF @ = "terminal" \/ ~Uniform(use[r]) THEN @ ELSE t]
      BY <1>5 DEF ActivateFails
    <2> DEFINE s == IF hier[h].status = "terminal" \/ ~Uniform(use[r]) THEN hier[h].status ELSE t
    <2>2. hier' = [hier EXCEPT ![h].status = s]
      BY <2>1
    <2>3. pc[r] = "activate"
      BY <1>5 DEF ActivateFails
    <2> QED BY <1>1, <1>2, <2>1, <2>2, <2>3, StatusSet
  <1> QED BY <1>3, <1>4, <1>5

-----------------------------------------------------------------------------
(* One lemma for each conjunct and each fact about a step.                  *)

\* The history variables never go back.
LEMMA HistoryStep ==
    TypeOK /\ [Next]_vars => NothingForgotten
  <1> SUFFICES ASSUME TypeOK, [Next]_vars PROVE NothingForgotten
    OBVIOUS
  <1> losses \in Nat
    BY PublicationAssumption DEF TypeOK
  <1> USE PublicationAssumption DEF rowVars, runVars, bounds, Launch, Goto, End, Return, Escape, Fault, NothingForgotten
  <1>1. CASE FounderArchives
    BY <1>1 DEF FounderArchives
  <1>2. CASE FounderPauses
    BY <1>2 DEF FounderPauses
  <1>3. CASE Approve
    BY <1>3 DEF Approve
  <1>4. CASE Reject
    BY <1>4 DEF Reject
  <1>5. ASSUME NEW o \in Operator, Reconcile(o) \/ Replace(o) PROVE NothingForgotten
    <2> o \in Run
      BY DEF Run
    <2>1. CASE Reconcile(o)
      BY <2>1 DEF Reconcile
    <2>2. CASE Replace(o)
      BY <2>2 DEF Replace
    <2> QED
      BY <1>5, <2>1, <2>2
  <1>6. ASSUME NEW r \in Run, Acquire(r) PROVE NothingForgotten
    BY <1>6 DEF Acquire
  <1>7. ASSUME NEW r \in Run, Work(r) PROVE NothingForgotten
    <2>1. CASE Check(r)
      BY <2>1 DEF Check
    <2>2. CASE Adopt(r)
      BY <2>2 DEF Adopt
    <2>3. CASE Inspect(r)
      BY <2>3 DEF Inspect
    <2>4. CASE Begin(r)
      BY <2>4 DEF Begin
    <2>5. CASE Read(r)
      BY <2>5 DEF Read
    <2>6. CASE Freeze(r)
      BY <2>6 DEF Freeze
    <2>7. CASE Image(r)
      BY <2>7 DEF Image
    <2>8. CASE CreatePart(r)
      BY <2>8 DEF CreatePart
    <2>9. CASE Store(r)
      BY <2>9 DEF Store
    <2>10. CASE Activate(r)
      BY <2>10 DEF Activate
    <2>11. CASE Mark(r)
      BY <2>11 DEF Mark
    <2>12. CASE Undo(r)
      BY <2>12 DEF Undo
    <2>13. CASE Record(r)
      BY <2>13 DEF Record
    <2>14. CASE Result(r)
      BY <2>14 DEF Result
    <2>15. CASE Finalize(r)
      BY <2>15 DEF Finalize
    <2> QED
      BY <1>7, <2>1, <2>2, <2>3, <2>4, <2>5, <2>6, <2>7, <2>8, <2>9, <2>10, <2>11, <2>12, <2>13, <2>14, <2>15 DEF Work
  <1>8. ASSUME NEW r \in Run, WorkFault(r) PROVE NothingForgotten
    <2>1. CASE Crash(r)
      BY <2>1 DEF Crash
    <2>2. CASE LoseLock(r)
      BY <2>2 DEF LoseLock
    <2>3. CASE Refused(r)
      BY <2>3 DEF Refused
    <2>4. CASE BrokenOff(r)
      BY <2>4 DEF BrokenOff
    <2>5. CASE ActivateFails(r)
      BY <2>5 DEF ActivateFails
    <2>6. CASE MarkFails(r)
      BY <2>6 DEF MarkFails
    <2>7. CASE UndoFails(r)
      BY <2>7 DEF UndoFails
    <2>8. CASE DatabaseFails(r)
      BY <2>8 DEF DatabaseFails
    <2> QED
      BY <1>8, <2>1, <2>2, <2>3, <2>4, <2>5, <2>6, <2>7, <2>8 DEF WorkFault
  <1>9. CASE UNCHANGED vars
    BY <1>9 DEF vars
  <1> QED
    BY <1>1, <1>2, <1>3, <1>4, <1>5, <1>6, <1>7, <1>8, <1>9 DEF Next

\* The bounded counters stay within their bounds.
LEMMA BoundsTypes ==
    TypeOK /\ [Next]_vars => BoundsTypeOK'
  <1> SUFFICES ASSUME TypeOK, [Next]_vars PROVE BoundsTypeOK'
    OBVIOUS
  <1> BoundsTypeOK
    BY DEF TypeOK, BoundsTypeOK
  <1> USE PublicationAssumption DEF rowVars, runVars, bounds, Launch, Goto, End, Return, Escape, Fault, BoundsTypeOK
  <1>1. CASE FounderArchives
    BY <1>1 DEF FounderArchives
  <1>2. CASE FounderPauses
    BY <1>2 DEF FounderPauses
  <1>3. CASE Approve
    <2>1. losses' = losses /\ lost' \in BOOLEAN
      BY <1>3 DEF Approve
    <2>2. faults' = faults \/ (faults < MaxFaults /\ faults' = faults + 1)
      BY <1>3 DEF Approve
    <2>3. faults' \in 0 .. MaxFaults
      BY <2>2
    <2> QED BY <2>1, <2>3
  <1>4. CASE Reject
    BY <1>4 DEF Reject
  <1>5. ASSUME NEW o \in Operator, Reconcile(o) \/ Replace(o) PROVE BoundsTypeOK'
    <2> o \in Run
      BY DEF Run
    <2>1. CASE Reconcile(o)
      BY <2>1 DEF Reconcile
    <2>2. CASE Replace(o)
      BY <2>2 DEF Replace
    <2> QED
      BY <1>5, <2>1, <2>2
  <1>6. ASSUME NEW r \in Run, Acquire(r) PROVE BoundsTypeOK'
    BY <1>6 DEF Acquire
  <1>7. ASSUME NEW r \in Run, Work(r) PROVE BoundsTypeOK'
    <2>1. CASE Check(r)
      BY <2>1 DEF Check
    <2>2. CASE Adopt(r)
      BY <2>2 DEF Adopt
    <2>3. CASE Inspect(r)
      BY <2>3 DEF Inspect
    <2>4. CASE Begin(r)
      BY <2>4 DEF Begin
    <2>5. CASE Read(r)
      BY <2>5 DEF Read
    <2>6. CASE Freeze(r)
      BY <2>6 DEF Freeze
    <2>7. CASE Image(r)
      BY <2>7 DEF Image
    <2>8. CASE CreatePart(r)
      BY <2>8 DEF CreatePart
    <2>9. CASE Store(r)
      BY <2>9 DEF Store
    <2>10. CASE Activate(r)
      BY <2>10 DEF Activate
    <2>11. CASE Mark(r)
      BY <2>11 DEF Mark
    <2>12. CASE Undo(r)
      BY <2>12 DEF Undo
    <2>13. CASE Record(r)
      BY <2>13 DEF Record
    <2>14. CASE Result(r)
      BY <2>14 DEF Result
    <2>15. CASE Finalize(r)
      BY <2>15 DEF Finalize
    <2> QED
      BY <1>7, <2>1, <2>2, <2>3, <2>4, <2>5, <2>6, <2>7, <2>8, <2>9, <2>10, <2>11, <2>12, <2>13, <2>14, <2>15 DEF Work
  <1>8. ASSUME NEW r \in Run, WorkFault(r) PROVE BoundsTypeOK'
    <2>1. CASE Crash(r)
      BY <2>1 DEF Crash
    <2>2. CASE LoseLock(r)
      BY <2>2 DEF LoseLock
    <2>3. CASE Refused(r)
      BY <2>3 DEF Refused
    <2>4. CASE BrokenOff(r)
      BY <2>4 DEF BrokenOff
    <2>5. CASE ActivateFails(r)
      BY <2>5 DEF ActivateFails
    <2>6. CASE MarkFails(r)
      BY <2>6 DEF MarkFails
    <2>7. CASE UndoFails(r)
      BY <2>7 DEF UndoFails
    <2>8. CASE DatabaseFails(r)
      BY <2>8 DEF DatabaseFails
    <2> QED
      BY <1>8, <2>1, <2>2, <2>3, <2>4, <2>5, <2>6, <2>7, <2>8 DEF WorkFault
  <1>9. CASE UNCHANGED vars
    BY <1>9 DEF vars
  <1> QED
    BY <1>1, <1>2, <1>3, <1>4, <1>5, <1>6, <1>7, <1>8, <1>9 DEF Next

\* The plain columns and the places of the runs keep their types.
LEMMA SimpleTypes ==
    TypeOK /\ [Next]_vars => SimpleTypeOK'
  <1> SUFFICES ASSUME TypeOK, [Next]_vars PROVE SimpleTypeOK'
    OBVIOUS
  <1> SimpleTypeOK
    BY DEF TypeOK, SimpleTypeOK
  <1> AckRun \in Run
    BY DEF Run
  <1> USE PublicationAssumption DEF rowVars, runVars, bounds, Launch, Goto, End, Return, Escape, Fault, SimpleTypeOK, Step
  <1>1. CASE FounderArchives
    BY <1>1 DEF FounderArchives
  <1>2. CASE FounderPauses
    BY <1>2 DEF FounderPauses
  <1>3. CASE Approve
    <2>1. draft' = "approved" /\ UNCHANGED <<state, failure, frozen, lock, saw, auth, failed>>
      BY <1>3 DEF Approve
    <2>2. \/ UNCHANGED <<pc, kind>>
          \/ pc' = [pc EXCEPT ![AckRun] = "waiting"] /\ kind' = [kind EXCEPT ![AckRun] = "ack"]
      BY <1>3 DEF Approve
    <2> QED BY <2>1, <2>2
  <1>4. CASE Reject
    BY <1>4 DEF Reject
  <1>5. ASSUME NEW o \in Operator, Reconcile(o) \/ Replace(o) PROVE SimpleTypeOK'
    <2> o \in Run
      BY DEF Run
    <2>1. CASE Reconcile(o)
      BY <2>1 DEF Reconcile
    <2>2. CASE Replace(o)
      BY <2>2 DEF Replace
    <2> QED
      BY <1>5, <2>1, <2>2
  <1>6. ASSUME NEW r \in Run, Acquire(r) PROVE SimpleTypeOK'
    BY <1>6 DEF Acquire
  <1>7. ASSUME NEW r \in Run, Work(r) PROVE SimpleTypeOK'
    <2>1. CASE Check(r)
      BY <2>1 DEF Check
    <2>2. CASE Adopt(r)
      BY <2>2 DEF Adopt
    <2>3. CASE Inspect(r)
      BY <2>3 DEF Inspect
    <2>4. CASE Begin(r)
      BY <2>4 DEF Begin
    <2>5. CASE Read(r)
      BY <2>5 DEF Read
    <2>6. CASE Freeze(r)
      BY <2>6 DEF Freeze
    <2>7. CASE Image(r)
      BY <2>7 DEF Image
    <2>8. CASE CreatePart(r)
      BY <2>8 DEF CreatePart
    <2>9. CASE Store(r)
      BY <2>9 DEF Store
    <2>10. CASE Activate(r)
      BY <2>10 DEF Activate
    <2>11. CASE Mark(r)
      BY <2>11 DEF Mark
    <2>12. CASE Undo(r)
      BY <2>12 DEF Undo
    <2>13. CASE Record(r)
      BY <2>13 DEF Record
    <2>14. CASE Result(r)
      BY <2>14 DEF Result
    <2>15. CASE Finalize(r)
      BY <2>15 DEF Finalize
    <2> QED
      BY <1>7, <2>1, <2>2, <2>3, <2>4, <2>5, <2>6, <2>7, <2>8, <2>9, <2>10, <2>11, <2>12, <2>13, <2>14, <2>15 DEF Work
  <1>8. ASSUME NEW r \in Run, WorkFault(r) PROVE SimpleTypeOK'
    <2>1. CASE Crash(r)
      BY <2>1 DEF Crash
    <2>2. CASE LoseLock(r)
      BY <2>2 DEF LoseLock
    <2>3. CASE Refused(r)
      BY <2>3 DEF Refused
    <2>4. CASE BrokenOff(r)
      <3>1. UNCHANGED <<draft, state, failure, frozen>> /\ Escape(r)
        BY <2>4 DEF BrokenOff
      <3> QED BY <3>1
    <2>5. CASE ActivateFails(r)
      BY <2>5 DEF ActivateFails
    <2>6. CASE MarkFails(r)
      <3>1. UNCHANGED <<frozen, lock, kind, saw, auth, failed>> /\ pc' = [pc EXCEPT ![r] = "undo"]
        BY <2>6 DEF MarkFails
      <3>2. \/ UNCHANGED <<draft, state, failure>>
            \/ draft' = "published" /\ state' = "active" /\ failure' = FALSE
        BY <2>6 DEF MarkFails
      <3> QED BY <3>1, <3>2
    <2>7. CASE UndoFails(r)
      BY <2>7 DEF UndoFails
    <2>8. CASE DatabaseFails(r)
      <3>1. UNCHANGED <<draft, state, failure, frozen>> /\ Escape(r)
        BY <2>8 DEF DatabaseFails
      <3> QED BY <3>1
    <2> QED
      BY <1>8, <2>1, <2>2, <2>3, <2>4, <2>5, <2>6, <2>7, <2>8 DEF WorkFault
  <1>9. CASE UNCHANGED vars
    BY <1>9 DEF vars
  <1> QED
    BY <1>1, <1>2, <1>3, <1>4, <1>5, <1>6, <1>7, <1>8, <1>9 DEF Next

\* The history of replacements only grows, and a run names one of its entries.
LEMMA AttemptTypes ==
    TypeOK /\ AttemptHasRow /\ [Next]_vars => AttemptTypeOK'
  <1> SUFFICES ASSUME TypeOK, AttemptHasRow, [Next]_vars PROVE AttemptTypeOK'
    OBVIOUS
  <1> TypeOK /\ AttemptTypeOK
    BY DEF TypeOK, AttemptTypeOK
  <1> USE PublicationAssumption DEF rowVars, runVars, bounds, Launch, Goto, End, Return, Escape, Fault, AttemptTypeOK
  <1>1. CASE FounderArchives
    BY <1>1 DEF FounderArchives
  <1>2. CASE FounderPauses
    BY <1>2 DEF FounderPauses
  <1>3. CASE Approve
    BY <1>3 DEF Approve
  <1>4. CASE Reject
    BY <1>4 DEF Reject
  <1>5. ASSUME NEW o \in Operator, Reconcile(o) \/ Replace(o) PROVE AttemptTypeOK'
    <2> o \in Run
      BY DEF Run
    <2>1. CASE Reconcile(o)
      BY <2>1 DEF Reconcile
    <2>2. CASE Replace(o)
      BY <2>2 DEF Replace
    <2> QED
      BY <1>5, <2>1, <2>2
  <1>6. ASSUME NEW r \in Run, Acquire(r) PROVE AttemptTypeOK'
    BY <1>6 DEF Acquire
  <1>7. ASSUME NEW r \in Run, Work(r) PROVE AttemptTypeOK'
    <2>1. CASE Check(r)
      BY <2>1 DEF Check
    <2>2. CASE Adopt(r)
      BY <2>2 DEF Adopt
    <2>3. CASE Inspect(r)
      BY <2>3 DEF Inspect
    <2>4. CASE Begin(r)
      <3> DEFINE A == {"open", "creating", "created", "failed", "active"}
      <3>1. CASE attempts' = attempts
        <4>1. attempt' = attempt \/ attempt' = [attempt EXCEPT ![r] = 0]
          BY <2>4, <3>1 DEF Begin
        <4> QED BY <3>1, <4>1
      <3>2. CASE attempts' = Append(attempts, "open") /\ attempt' = [attempt EXCEPT ![r] = Len(attempts) + 1]
        <4>1. "open" \in A /\ attempts \in Seq(A)
          OBVIOUS
        <4> HIDE DEF A
        <4>2. attempts' \in Seq(A) /\ Len(attempts') = Len(attempts) + 1 /\ Len(attempts) \in Nat
          BY <3>2, <4>1
        <4>3. attempt' \in [Run -> 0 .. Len(attempts')]
          BY <3>2, <4>2
        <4> QED BY <4>2, <4>3 DEF A
      <3> QED BY <2>4, <3>1, <3>2 DEF Begin
    <2>5. CASE Read(r)
      BY <2>5 DEF Read
    <2>6. CASE Freeze(r)
      BY <2>6 DEF Freeze
    <2>7. CASE Image(r)
      BY <2>7 DEF Image
    <2>8. CASE CreatePart(r)
      BY <2>8 DEF CreatePart
    <2>9. CASE Store(r)
      BY <2>9 DEF Store
    <2>10. CASE Activate(r)
      BY <2>10 DEF Activate
    <2>11. CASE Mark(r)
      BY <2>11 DEF Mark
    <2>12. CASE Undo(r)
      BY <2>12 DEF Undo
    <2>13. CASE Record(r)
      <3>1. attempts' = attempts /\ (attempt' = attempt \/ attempt' = [attempt EXCEPT ![r] = 0])
        BY <2>13 DEF Record
      <3> QED BY <3>1
    <2>14. CASE Result(r)
      BY <2>14 DEF Result
    <2>15. CASE Finalize(r)
      <3> DEFINE A == {"open", "creating", "created", "failed", "active"}
      <3>1. attempt' = [attempt EXCEPT ![r] = 0]
        BY <2>15 DEF Finalize
      <3>2. attempts \in Seq(A) /\ Len(attempts) \in Nat /\ DOMAIN attempts = 1 .. Len(attempts)
        OBVIOUS
      <3>3. \/ attempts' = attempts
            \/ /\ attempts' = [attempts EXCEPT ![attempt[r]] = IF failed[r] THEN "failed" ELSE state]
               /\ Open(r)
        BY <2>15 DEF Finalize
      <3>4. (IF failed[r] THEN "failed" ELSE state) \in A \/ state = "none"
        BY DEF TypeOK
      <3>6. Open(r) => state # "none" /\ attempt[r] \in DOMAIN attempts
        BY <3>2 DEF Open, AttemptHasRow
      <3> HIDE DEF A
      <3>5. attempts' \in Seq(A) /\ Len(attempts') = Len(attempts)
        BY <3>2, <3>3, <3>4, <3>6
      <3> QED BY <3>1, <3>5 DEF A
    <2> QED
      BY <1>7, <2>1, <2>2, <2>3, <2>4, <2>5, <2>6, <2>7, <2>8, <2>9, <2>10, <2>11, <2>12, <2>13, <2>14, <2>15 DEF Work
  <1>8. ASSUME NEW r \in Run, WorkFault(r) PROVE AttemptTypeOK'
    <2>1. CASE Crash(r)
      BY <2>1 DEF Crash
    <2>2. CASE LoseLock(r)
      BY <2>2 DEF LoseLock
    <2>3. CASE Refused(r)
      BY <2>3 DEF Refused
    <2>4. CASE BrokenOff(r)
      <3>1. attempts' = attempts /\ (attempt' = attempt \/ attempt' = [attempt EXCEPT ![r] = 0])
        BY <2>4 DEF BrokenOff
      <3> QED BY <3>1
    <2>5. CASE ActivateFails(r)
      BY <2>5 DEF ActivateFails
    <2>6. CASE MarkFails(r)
      BY <2>6 DEF MarkFails
    <2>7. CASE UndoFails(r)
      BY <2>7 DEF UndoFails
    <2>8. CASE DatabaseFails(r)
      <3>1. attempts' = attempts /\ (attempt' = attempt \/ attempt' = [attempt EXCEPT ![r] = 0])
        BY <2>8 DEF DatabaseFails
      <3> QED BY <3>1
    <2> QED
      BY <1>8, <2>1, <2>2, <2>3, <2>4, <2>5, <2>6, <2>7, <2>8 DEF WorkFault
  <1>9. CASE UNCHANGED vars
    BY <1>9 DEF vars
  <1> QED
    BY <1>1, <1>2, <1>3, <1>4, <1>5, <1>6, <1>7, <1>8, <1>9 DEF Next

\* What happens in Meta, for any step.
LEMMA MetaStep ==
    TypeOK /\ CreatorsApart /\ UseIsComplete /\ [Next]_vars => MetaGrows
  <1> SUFFICES ASSUME TypeOK, CreatorsApart, UseIsComplete, [Next]_vars PROVE MetaGrows
    OBVIOUS
  <1> USE PublicationAssumption DEF rowVars, runVars, bounds, Launch, Goto, End, Return, Escape, Fault
  <1>1. CASE FounderArchives
    BY <1>1, FounderSets DEF FounderArchives
  <1>2. CASE FounderPauses
    BY <1>2, FounderSets DEF FounderPauses
  <1>3. CASE Approve
    BY <1>3, HierKept DEF Approve
  <1>4. CASE Reject
    BY <1>4, HierKept DEF Reject
  <1>5. ASSUME NEW o \in Operator, Reconcile(o) \/ Replace(o) PROVE MetaGrows
    <2> o \in Run
      BY DEF Run
    <2>1. CASE Reconcile(o)
      BY <2>1, HierKept DEF Reconcile
    <2>2. CASE Replace(o)
      BY <2>2, HierKept DEF Replace
    <2> QED
      BY <1>5, <2>1, <2>2
  <1>6. ASSUME NEW r \in Run, Acquire(r) PROVE MetaGrows
    BY <1>6, HierKept DEF Acquire
  <1>7. ASSUME NEW r \in Run, Work(r) PROVE MetaGrows
    <2>1. CASE Check(r)
      BY <2>1, HierKept DEF Check
    <2>2. CASE Adopt(r)
      BY <2>2, HierKept DEF Adopt
    <2>3. CASE Inspect(r)
      BY <2>3, HierKept DEF Inspect
    <2>4. CASE Begin(r)
      BY <2>4, HierKept DEF Begin
    <2>5. CASE Read(r)
      BY <2>5, HierKept DEF Read
    <2>6. CASE Freeze(r)
      BY <2>6, HierKept DEF Freeze
    <2>7. CASE Image(r)
      BY <2>7, HierKept DEF Image
    <2>8. CASE CreatePart(r)
      <3>1. Made(r) # 0 => hier[Made(r)].made < 4
        BY <2>8 DEF CreatePart, CreatorsApart
      <3> QED BY <2>8, <3>1, HierGrown DEF CreatePart
    <2>9. CASE Store(r)
      BY <2>9, HierKept DEF Store
    <2>10. CASE Activate(r)
      BY <2>10, RunSets DEF Activate
    <2>11. CASE Mark(r)
      BY <2>11, HierKept DEF Mark
    <2>12. CASE Undo(r)
      BY <2>12, RunSets DEF Undo
    <2>13. CASE Record(r)
      BY <2>13, HierKept DEF Record
    <2>14. CASE Result(r)
      BY <2>14, HierKept DEF Result
    <2>15. CASE Finalize(r)
      BY <2>15, HierKept DEF Finalize
    <2> QED
      BY <1>7, <2>1, <2>2, <2>3, <2>4, <2>5, <2>6, <2>7, <2>8, <2>9, <2>10, <2>11, <2>12, <2>13, <2>14, <2>15 DEF Work
  <1>8. ASSUME NEW r \in Run, WorkFault(r) PROVE MetaGrows
    <2>1. CASE Crash(r)
      BY <2>1, HierKept DEF Crash
    <2>2. CASE LoseLock(r)
      BY <2>2, HierKept DEF LoseLock
    <2>3. CASE Refused(r)
      BY <2>3, HierKept DEF Refused
    <2>4. CASE BrokenOff(r)
      <3>1. Made(r) # 0 => hier[Made(r)].made < 4
        BY <2>4 DEF BrokenOff, CreatorsApart
      <3> QED BY <2>4, <3>1, HierGrown, HierKept DEF BrokenOff
    <2>5. CASE ActivateFails(r)
      BY <2>5, RunSets DEF ActivateFails
    <2>6. CASE MarkFails(r)
      BY <2>6, HierKept DEF MarkFails
    <2>7. CASE UndoFails(r)
      BY <2>7, HierKept DEF UndoFails
    <2>8. CASE DatabaseFails(r)
      BY <2>8, HierKept DEF DatabaseFails
    <2> QED
      BY <1>8, <2>1, <2>2, <2>3, <2>4, <2>5, <2>6, <2>7, <2>8 DEF WorkFault
  <1>9. CASE UNCHANGED vars
    BY <1>9, HierKept DEF vars
  <1> QED
    BY <1>1, <1>2, <1>3, <1>4, <1>5, <1>6, <1>7, <1>8, <1>9 DEF Next

\* Ids name hierarchies that exist.
LEMMA IdsTypes ==
    TypeOK /\ MetaGrows /\ [Next]_vars => IdsTypeOK'
  <1> SUFFICES ASSUME TypeOK, MetaGrows, [Next]_vars PROVE IdsTypeOK'
    OBVIOUS
  <1> /\ Len(hier) \in Nat /\ Len(hier') \in Nat /\ Len(hier) <= Len(hier') /\ DOMAIN hier = 1 .. Len(hier)
      /\ 0 .. Len(hier) \subseteq 0 .. Len(hier')
    BY HierTyped DEF MetaGrows
  <1> ids \in [Part -> 0 .. Len(hier')] /\ use \in [Run -> [Part -> 0 .. Len(hier')]]
    BY DEF TypeOK
  <1> NoIds \in [Part -> 0 .. Len(hier')]
    BY DEF NoIds
  <1> \A i, j \in [Part -> 0 .. Len(hier')] : Merge(i, j) \in [Part -> 0 .. Len(hier')]
    BY DEF Merge
  <1> AckRun \in Run
    BY DEF Run
  <1> pc \in [Run -> Step]
    BY DEF TypeOK
  <1> USE PublicationAssumption DEF rowVars, runVars, bounds, Launch, Goto, End, Return, Escape, Fault, IdsTypeOK
  <1>1. CASE FounderArchives
    BY <1>1 DEF FounderArchives
  <1>2. CASE FounderPauses
    BY <1>2 DEF FounderPauses
  <1>3. CASE Approve
    <2>1. ids' = ids /\ (use' = use \/ use' = [use EXCEPT ![AckRun] = NoIds])
      BY <1>3 DEF Approve
    <2> QED BY <2>1
  <1>4. CASE Reject
    BY <1>4 DEF Reject
  <1>5. ASSUME NEW o \in Operator, Reconcile(o) \/ Replace(o) PROVE IdsTypeOK'
    <2> o \in Run
      BY DEF Run
    <2>1. CASE Reconcile(o)
      <3>1. ids' = ids /\ \E h \in DOMAIN hier : use' = [use EXCEPT ![o] = All(h)]
        BY <2>1 DEF Reconcile
      <3>2. \A h \in DOMAIN hier : All(h) \in [Part -> 0 .. Len(hier')]
        BY DEF All
      <3> QED BY <3>1, <3>2
    <2>2. CASE Replace(o)
      BY <2>2 DEF Replace
    <2> QED
      BY <1>5, <2>1, <2>2
  <1>6. ASSUME NEW r \in Run, Acquire(r) PROVE IdsTypeOK'
    BY <1>6 DEF Acquire
  <1>7. ASSUME NEW r \in Run, Work(r) PROVE IdsTypeOK'
    <2>1. CASE Check(r)
      <3>1. use' = use \/ use' = [use EXCEPT ![r] = NoIds]
        BY <2>1 DEF Check
      <3>2. ids' = ids
        BY <2>1 DEF Check
      <3> QED BY <3>1, <3>2
    <2>2. CASE Adopt(r)
      BY <2>2 DEF Adopt
    <2>3. CASE Inspect(r)
      <3>1. use' = use \/ use' = [use EXCEPT ![r] = NoIds]
        BY <2>3 DEF Inspect
      <3>2. ids' = ids
        BY <2>3 DEF Inspect
      <3> QED BY <3>1, <3>2
    <2>4. CASE Begin(r)
      <3>1. use' = use \/ use' = [use EXCEPT ![r] = NoIds]
        BY <2>4 DEF Begin
      <3>2. ids' = ids \/ ids' = NoIds
        BY <2>4 DEF Begin
      <3> QED BY <3>1, <3>2
    <2>5. CASE Read(r)
      <3>1. use' = use \/ use' = [use EXCEPT ![r] = NoIds] \/ use' = [use EXCEPT ![r] = ids]
        BY <2>5 DEF Read
      <3>2. ids' = ids
        BY <2>5 DEF Read
      <3> QED BY <3>1, <3>2
    <2>6. CASE Freeze(r)
      <3> DEFINE k == IF saw[r] = "none" THEN ids ELSE use[r]
      <3>1. k \in [Part -> 0 .. Len(hier')]
        OBVIOUS
      <3> HIDE DEF k
      <3>2. use' = use \/ use' = [use EXCEPT ![r] = NoIds] \/ use' = [use EXCEPT ![r] = k]
        BY <2>6 DEF Freeze, k
      <3>3. ids' = ids \/ ids' = Merge(ids, k)
        BY <2>6 DEF Freeze, k
      <3>4. Merge(ids, k) \in [Part -> 0 .. Len(hier')]
        BY <3>1
      <3>5. ids' \in [Part -> 0 .. Len(hier')]
        BY <3>3, <3>4
      <3>6. use' \in [Run -> [Part -> 0 .. Len(hier')]]
        BY <3>1, <3>2
      <3> QED BY <3>5, <3>6
    <2>7. CASE Image(r)
      BY <2>7 DEF Image
    <2>8. CASE CreatePart(r)
      <3> DEFINE h == IF Made(r) = 0 THEN Len(hier) + 1 ELSE Made(r)
      <3>1. h \in 0 .. Len(hier')
        <4>1. CASE Made(r) = 0
          <5>1. Len(hier') = Len(hier) + 1
            BY <2>8, <4>1 DEF CreatePart, Grow
          <5> QED BY <4>1, <5>1
        <4>2. CASE Made(r) # 0
          BY <4>2 DEF Made, Part
        <4> QED BY <4>1, <4>2
      <3>2. ids' = ids
        BY <2>8 DEF CreatePart
      <3> DEFINE f == [p \in Part |-> IF p <= NextPart(r) THEN h ELSE 0]
      <3>3. use' = [use EXCEPT ![r] = f]
        BY <2>8 DEF CreatePart
      <3>4. f \in [Part -> 0 .. Len(hier')]
        <4> HIDE DEF h
        <4> QED BY <3>1
      <3> HIDE DEF f
      <3> QED BY <3>2, <3>3, <3>4
    <2>9. CASE Store(r)
      BY <2>9 DEF Store
    <2>10. CASE Activate(r)
      BY <2>10 DEF Activate
    <2>11. CASE Mark(r)
      <3>1. use' = use \/ use' = [use EXCEPT ![r] = NoIds]
        BY <2>11 DEF Mark
      <3>2. ids' = ids
        BY <2>11 DEF Mark
      <3> QED BY <3>1, <3>2
    <2>12. CASE Undo(r)
      BY <2>12 DEF Undo
    <2>13. CASE Record(r)
      <3>1. use' = use \/ use' = [use EXCEPT ![r] = NoIds]
        BY <2>13 DEF Record
      <3>2. ids' = Merge(ids, use[r])
        BY <2>13 DEF Record
      <3> QED BY <3>1, <3>2
    <2>14. CASE Result(r)
      BY <2>14 DEF Result
    <2>15. CASE Finalize(r)
      BY <2>15 DEF Finalize
    <2> QED
      BY <1>7, <2>1, <2>2, <2>3, <2>4, <2>5, <2>6, <2>7, <2>8, <2>9, <2>10, <2>11, <2>12, <2>13, <2>14, <2>15 DEF Work
  <1>8. ASSUME NEW r \in Run, WorkFault(r) PROVE IdsTypeOK'
    <2>1. CASE Crash(r)
      BY <2>1 DEF Crash
    <2>2. CASE LoseLock(r)
      BY <2>2 DEF LoseLock
    <2>3. CASE Refused(r)
      BY <2>3 DEF Refused
    <2>4. CASE BrokenOff(r)
      <3>1. use' = use \/ use' = [use EXCEPT ![r] = NoIds]
        BY <2>4 DEF BrokenOff
      <3>2. ids' = ids
        BY <2>4 DEF BrokenOff
      <3> QED BY <3>1, <3>2
    <2>5. CASE ActivateFails(r)
      BY <2>5 DEF ActivateFails
    <2>6. CASE MarkFails(r)
      BY <2>6 DEF MarkFails
    <2>7. CASE UndoFails(r)
      BY <2>7 DEF UndoFails
    <2>8. CASE DatabaseFails(r)
      <3>1. use' = use \/ use' = [use EXCEPT ![r] = NoIds]
        BY <2>8 DEF DatabaseFails
      <3>2. ids' = ids
        BY <2>8 DEF DatabaseFails
      <3> QED BY <3>1, <3>2
    <2> QED
      BY <1>8, <2>1, <2>2, <2>3, <2>4, <2>5, <2>6, <2>7, <2>8 DEF WorkFault
  <1>9. CASE UNCHANGED vars
    BY <1>9 DEF vars
  <1> QED
    BY <1>1, <1>2, <1>3, <1>4, <1>5, <1>6, <1>7, <1>8, <1>9 DEF Next

\* Only the run that got the lock leaves its wait, and it keeps the lock to its end.
LEMMA LockStep ==
    TypeOK /\ LockHeld /\ [Next]_vars => LockHeld'
  <1> SUFFICES ASSUME TypeOK, LockHeld, [Next]_vars PROVE LockHeld'
    OBVIOUS
  <1> pc \in [Run -> Step]
    BY DEF TypeOK
  <1> NoRun \notin Run
    BY PublicationAssumption DEF Run
  <1> losses \in Nat
    BY PublicationAssumption DEF TypeOK
  <1> USE PublicationAssumption DEF rowVars, runVars, bounds, Launch, Goto, End, Return, Escape, Fault, LockHeld, Working
  <1>1. CASE FounderArchives
    BY <1>1 DEF FounderArchives
  <1>2. CASE FounderPauses
    BY <1>2 DEF FounderPauses
  <1>3. CASE Approve
    BY <1>3 DEF Approve
  <1>4. CASE Reject
    BY <1>4 DEF Reject
  <1>5. ASSUME NEW o \in Operator, Reconcile(o) \/ Replace(o) PROVE LockHeld'
    <2> o \in Run
      BY DEF Run
    <2>1. CASE Reconcile(o)
      BY <2>1 DEF Reconcile
    <2>2. CASE Replace(o)
      BY <2>2 DEF Replace
    <2> QED
      BY <1>5, <2>1, <2>2
  <1>6. ASSUME NEW r \in Run, Acquire(r) PROVE LockHeld'
    BY <1>6 DEF Acquire
  <1>7. ASSUME NEW r \in Run, Work(r) PROVE LockHeld'
    <2>1. CASE Check(r)
      BY <2>1 DEF Check
    <2>2. CASE Adopt(r)
      BY <2>2 DEF Adopt
    <2>3. CASE Inspect(r)
      BY <2>3 DEF Inspect
    <2>4. CASE Begin(r)
      BY <2>4 DEF Begin
    <2>5. CASE Read(r)
      BY <2>5 DEF Read
    <2>6. CASE Freeze(r)
      BY <2>6 DEF Freeze
    <2>7. CASE Image(r)
      BY <2>7 DEF Image
    <2>8. CASE CreatePart(r)
      BY <2>8 DEF CreatePart
    <2>9. CASE Store(r)
      BY <2>9 DEF Store
    <2>10. CASE Activate(r)
      BY <2>10 DEF Activate
    <2>11. CASE Mark(r)
      BY <2>11 DEF Mark
    <2>12. CASE Undo(r)
      BY <2>12 DEF Undo
    <2>13. CASE Record(r)
      BY <2>13 DEF Record
    <2>14. CASE Result(r)
      BY <2>14 DEF Result
    <2>15. CASE Finalize(r)
      BY <2>15 DEF Finalize
    <2> QED
      BY <1>7, <2>1, <2>2, <2>3, <2>4, <2>5, <2>6, <2>7, <2>8, <2>9, <2>10, <2>11, <2>12, <2>13, <2>14, <2>15 DEF Work
  <1>8. ASSUME NEW r \in Run, WorkFault(r) PROVE LockHeld'
    <2>1. CASE Crash(r)
      BY <2>1 DEF Crash
    <2>2. CASE LoseLock(r)
      BY <2>2 DEF LoseLock
    <2>3. CASE Refused(r)
      BY <2>3 DEF Refused
    <2>4. CASE BrokenOff(r)
      BY <2>4 DEF BrokenOff
    <2>5. CASE ActivateFails(r)
      BY <2>5 DEF ActivateFails
    <2>6. CASE MarkFails(r)
      BY <2>6 DEF MarkFails
    <2>7. CASE UndoFails(r)
      BY <2>7 DEF UndoFails
    <2>8. CASE DatabaseFails(r)
      BY <2>8 DEF DatabaseFails
    <2> QED
      BY <1>8, <2>1, <2>2, <2>3, <2>4, <2>5, <2>6, <2>7, <2>8 DEF WorkFault
  <1>9. CASE UNCHANGED vars
    BY <1>9 DEF vars
  <1> QED
    BY <1>1, <1>2, <1>3, <1>4, <1>5, <1>6, <1>7, <1>8, <1>9 DEF Next

\* Only a reconciliation is checked and adopted.
LEMMA CommandStep ==
    TypeOK /\ CommandKept /\ [Next]_vars => CommandKept'
  <1> SUFFICES ASSUME TypeOK, CommandKept, [Next]_vars PROVE CommandKept'
    OBVIOUS
  <1> pc \in [Run -> Step]
    BY DEF TypeOK
  <1> use \in [Run -> [Part -> Nat]] /\ kind \in [Run -> {"ack", "reconcile", "replace"}]
    BY DEF TypeOK
  <1> saw \in [Run -> {"none", "thawed", "frozen"}]
    BY DEF TypeOK
  <1> USE PublicationAssumption DEF rowVars, runVars, bounds, Launch, Goto, End, Return, Escape, Fault, CommandKept
  <1>1. CASE FounderArchives
    BY <1>1 DEF FounderArchives
  <1>2. CASE FounderPauses
    BY <1>2 DEF FounderPauses
  <1>3. CASE Approve
    BY <1>3 DEF Approve
  <1>4. CASE Reject
    BY <1>4 DEF Reject
  <1>5. ASSUME NEW o \in Operator, Reconcile(o) \/ Replace(o) PROVE CommandKept'
    <2> o \in Run
      BY DEF Run
    <2>1. CASE Reconcile(o)
      BY <2>1 DEF Reconcile
    <2>2. CASE Replace(o)
      BY <2>2 DEF Replace
    <2> QED
      BY <1>5, <2>1, <2>2
  <1>6. ASSUME NEW r \in Run, Acquire(r) PROVE CommandKept'
    BY <1>6 DEF Acquire
  <1>7. ASSUME NEW r \in Run, Work(r) PROVE CommandKept'
    <2>1. CASE Check(r)
      BY <2>1 DEF Check
    <2>2. CASE Adopt(r)
      BY <2>2 DEF Adopt
    <2>3. CASE Inspect(r)
      BY <2>3 DEF Inspect
    <2>4. CASE Begin(r)
      BY <2>4 DEF Begin
    <2>5. CASE Read(r)
      BY <2>5 DEF Read
    <2>6. CASE Freeze(r)
      BY <2>6 DEF Freeze
    <2>7. CASE Image(r)
      BY <2>7 DEF Image
    <2>8. CASE CreatePart(r)
      BY <2>8 DEF CreatePart
    <2>9. CASE Store(r)
      BY <2>9 DEF Store
    <2>10. CASE Activate(r)
      BY <2>10 DEF Activate
    <2>11. CASE Mark(r)
      BY <2>11 DEF Mark
    <2>12. CASE Undo(r)
      BY <2>12 DEF Undo
    <2>13. CASE Record(r)
      BY <2>13 DEF Record
    <2>14. CASE Result(r)
      BY <2>14 DEF Result
    <2>15. CASE Finalize(r)
      BY <2>15 DEF Finalize
    <2> QED
      BY <1>7, <2>1, <2>2, <2>3, <2>4, <2>5, <2>6, <2>7, <2>8, <2>9, <2>10, <2>11, <2>12, <2>13, <2>14, <2>15 DEF Work
  <1>8. ASSUME NEW r \in Run, WorkFault(r) PROVE CommandKept'
    <2>1. CASE Crash(r)
      BY <2>1 DEF Crash
    <2>2. CASE LoseLock(r)
      BY <2>2 DEF LoseLock
    <2>3. CASE Refused(r)
      BY <2>3 DEF Refused
    <2>4. CASE BrokenOff(r)
      BY <2>4 DEF BrokenOff
    <2>5. CASE ActivateFails(r)
      BY <2>5 DEF ActivateFails
    <2>6. CASE MarkFails(r)
      BY <2>6 DEF MarkFails
    <2>7. CASE UndoFails(r)
      BY <2>7 DEF UndoFails
    <2>8. CASE DatabaseFails(r)
      BY <2>8 DEF DatabaseFails
    <2> QED
      BY <1>8, <2>1, <2>2, <2>3, <2>4, <2>5, <2>6, <2>7, <2>8 DEF WorkFault
  <1>9. CASE UNCHANGED vars
    BY <1>9 DEF vars
  <1> QED
    BY <1>1, <1>2, <1>3, <1>4, <1>5, <1>6, <1>7, <1>8, <1>9 DEF Next

\* The approval's run begins when the draft leaves the queue, which it never enters again.
LEMMA AckStep ==
    TypeOK /\ AckAwaitsApproval /\ [Next]_vars => AckAwaitsApproval'
  <1> SUFFICES ASSUME TypeOK, AckAwaitsApproval, [Next]_vars PROVE AckAwaitsApproval'
    OBVIOUS
  <1> pc \in [Run -> Step]
    BY DEF TypeOK
  <1> AckRun \in Run /\ AckRun \notin Operator
    BY PublicationAssumption DEF Run
  <1> USE PublicationAssumption DEF rowVars, runVars, bounds, Launch, Goto, End, Return, Escape, Fault, AckAwaitsApproval
  <1>1. CASE FounderArchives
    BY <1>1 DEF FounderArchives
  <1>2. CASE FounderPauses
    BY <1>2 DEF FounderPauses
  <1>3. CASE Approve
    BY <1>3 DEF Approve
  <1>4. CASE Reject
    BY <1>4 DEF Reject
  <1>5. ASSUME NEW o \in Operator, Reconcile(o) \/ Replace(o) PROVE AckAwaitsApproval'
    <2> o \in Run
      BY DEF Run
    <2>1. CASE Reconcile(o)
      BY <2>1 DEF Reconcile
    <2>2. CASE Replace(o)
      BY <2>2 DEF Replace
    <2> QED
      BY <1>5, <2>1, <2>2
  <1>6. ASSUME NEW r \in Run, Acquire(r) PROVE AckAwaitsApproval'
    BY <1>6 DEF Acquire
  <1>7. ASSUME NEW r \in Run, Work(r) PROVE AckAwaitsApproval'
    <2>1. CASE Check(r)
      BY <2>1 DEF Check
    <2>2. CASE Adopt(r)
      BY <2>2 DEF Adopt
    <2>3. CASE Inspect(r)
      BY <2>3 DEF Inspect
    <2>4. CASE Begin(r)
      BY <2>4 DEF Begin
    <2>5. CASE Read(r)
      BY <2>5 DEF Read
    <2>6. CASE Freeze(r)
      BY <2>6 DEF Freeze
    <2>7. CASE Image(r)
      BY <2>7 DEF Image
    <2>8. CASE CreatePart(r)
      BY <2>8 DEF CreatePart
    <2>9. CASE Store(r)
      BY <2>9 DEF Store
    <2>10. CASE Activate(r)
      BY <2>10 DEF Activate
    <2>11. CASE Mark(r)
      BY <2>11 DEF Mark
    <2>12. CASE Undo(r)
      BY <2>12 DEF Undo
    <2>13. CASE Record(r)
      BY <2>13 DEF Record
    <2>14. CASE Result(r)
      BY <2>14 DEF Result
    <2>15. CASE Finalize(r)
      BY <2>15 DEF Finalize
    <2> QED
      BY <1>7, <2>1, <2>2, <2>3, <2>4, <2>5, <2>6, <2>7, <2>8, <2>9, <2>10, <2>11, <2>12, <2>13, <2>14, <2>15 DEF Work
  <1>8. ASSUME NEW r \in Run, WorkFault(r) PROVE AckAwaitsApproval'
    <2>1. CASE Crash(r)
      BY <2>1 DEF Crash
    <2>2. CASE LoseLock(r)
      BY <2>2 DEF LoseLock
    <2>3. CASE Refused(r)
      BY <2>3 DEF Refused
    <2>4. CASE BrokenOff(r)
      BY <2>4 DEF BrokenOff
    <2>5. CASE ActivateFails(r)
      BY <2>5 DEF ActivateFails
    <2>6. CASE MarkFails(r)
      BY <2>6 DEF MarkFails
    <2>7. CASE UndoFails(r)
      BY <2>7 DEF UndoFails
    <2>8. CASE DatabaseFails(r)
      BY <2>8 DEF DatabaseFails
    <2> QED
      BY <1>8, <2>1, <2>2, <2>3, <2>4, <2>5, <2>6, <2>7, <2>8 DEF WorkFault
  <1>9. CASE UNCHANGED vars
    BY <1>9 DEF vars
  <1> QED
    BY <1>1, <1>2, <1>3, <1>4, <1>5, <1>6, <1>7, <1>8, <1>9 DEF Next

\* Every write to the history gives the row a state.
LEMMA RowStep ==
    TypeOK /\ AttemptHasRow /\ [Next]_vars => AttemptHasRow'
  <1> SUFFICES ASSUME TypeOK, AttemptHasRow, [Next]_vars PROVE AttemptHasRow'
    OBVIOUS
  <1> USE PublicationAssumption DEF rowVars, runVars, bounds, Launch, Goto, End, Return, Escape, Fault, AttemptHasRow
  <1>1. CASE FounderArchives
    BY <1>1 DEF FounderArchives
  <1>2. CASE FounderPauses
    BY <1>2 DEF FounderPauses
  <1>3. CASE Approve
    BY <1>3 DEF Approve
  <1>4. CASE Reject
    BY <1>4 DEF Reject
  <1>5. ASSUME NEW o \in Operator, Reconcile(o) \/ Replace(o) PROVE AttemptHasRow'
    <2> o \in Run
      BY DEF Run
    <2>1. CASE Reconcile(o)
      BY <2>1 DEF Reconcile
    <2>2. CASE Replace(o)
      BY <2>2 DEF Replace
    <2> QED
      BY <1>5, <2>1, <2>2
  <1>6. ASSUME NEW r \in Run, Acquire(r) PROVE AttemptHasRow'
    BY <1>6 DEF Acquire
  <1>7. ASSUME NEW r \in Run, Work(r) PROVE AttemptHasRow'
    <2>1. CASE Check(r)
      BY <2>1 DEF Check
    <2>2. CASE Adopt(r)
      BY <2>2 DEF Adopt
    <2>3. CASE Inspect(r)
      BY <2>3 DEF Inspect
    <2>4. CASE Begin(r)
      BY <2>4 DEF Begin
    <2>5. CASE Read(r)
      BY <2>5 DEF Read
    <2>6. CASE Freeze(r)
      BY <2>6 DEF Freeze
    <2>7. CASE Image(r)
      BY <2>7 DEF Image
    <2>8. CASE CreatePart(r)
      BY <2>8 DEF CreatePart
    <2>9. CASE Store(r)
      BY <2>9 DEF Store
    <2>10. CASE Activate(r)
      BY <2>10 DEF Activate
    <2>11. CASE Mark(r)
      BY <2>11 DEF Mark
    <2>12. CASE Undo(r)
      BY <2>12 DEF Undo
    <2>13. CASE Record(r)
      BY <2>13 DEF Record
    <2>14. CASE Result(r)
      BY <2>14 DEF Result
    <2>15. CASE Finalize(r)
      BY <2>15 DEF Finalize
    <2> QED
      BY <1>7, <2>1, <2>2, <2>3, <2>4, <2>5, <2>6, <2>7, <2>8, <2>9, <2>10, <2>11, <2>12, <2>13, <2>14, <2>15 DEF Work
  <1>8. ASSUME NEW r \in Run, WorkFault(r) PROVE AttemptHasRow'
    <2>1. CASE Crash(r)
      BY <2>1 DEF Crash
    <2>2. CASE LoseLock(r)
      BY <2>2 DEF LoseLock
    <2>3. CASE Refused(r)
      BY <2>3 DEF Refused
    <2>4. CASE BrokenOff(r)
      BY <2>4 DEF BrokenOff
    <2>5. CASE ActivateFails(r)
      BY <2>5 DEF ActivateFails
    <2>6. CASE MarkFails(r)
      BY <2>6 DEF MarkFails
    <2>7. CASE UndoFails(r)
      BY <2>7 DEF UndoFails
    <2>8. CASE DatabaseFails(r)
      BY <2>8 DEF DatabaseFails
    <2> QED
      BY <1>8, <2>1, <2>2, <2>3, <2>4, <2>5, <2>6, <2>7, <2>8 DEF WorkFault
  <1>9. CASE UNCHANGED vars
    BY <1>9 DEF vars
  <1> QED
    BY <1>1, <1>2, <1>3, <1>4, <1>5, <1>6, <1>7, <1>8, <1>9 DEF Next

\* A command starts with complete ids and keeps them until it has begun.
LEMMA GivenStep ==
    TypeOK /\ GivenIsComplete /\ [Next]_vars => GivenIsComplete'
  <1> SUFFICES ASSUME TypeOK, GivenIsComplete, [Next]_vars PROVE GivenIsComplete'
    OBVIOUS
  <1> pc \in [Run -> Step]
    BY DEF TypeOK
  <1> use \in [Run -> [Part -> Nat]] /\ kind \in [Run -> {"ack", "reconcile", "replace"}]
    BY DEF TypeOK
  <1> ids \in [Part -> Nat]
    BY DEF TypeOK
  <1> USE PublicationAssumption DEF rowVars, runVars, bounds, Launch, Goto, End, Return, Escape, Fault, GivenIsComplete
  <1>1. CASE FounderArchives
    BY <1>1 DEF FounderArchives
  <1>2. CASE FounderPauses
    BY <1>2 DEF FounderPauses
  <1>3. CASE Approve
    BY <1>3 DEF Approve
  <1>4. CASE Reject
    BY <1>4 DEF Reject
  <1>5. ASSUME NEW o \in Operator, Reconcile(o) \/ Replace(o) PROVE GivenIsComplete'
    <2> o \in Run
      BY DEF Run
    <2>1. CASE Reconcile(o)
      <3>1. PICK h \in DOMAIN hier : Launch(o, "reconcile", All(h))
        BY <2>1 DEF Reconcile
      <3>2. h # 0
        BY HierTyped
      <3>3. \A p \in Part : All(h)[p] # 0
        BY <3>2 DEF All
      <3> QED BY <2>1, <3>1, <3>3 DEF Reconcile
    <2>2. CASE Replace(o)
      <3>1. \A p \in Part : ids[p] # 0
        BY <2>2 DEF Replace, Stored
      <3> QED BY <2>2, <3>1 DEF Replace
    <2> QED
      BY <1>5, <2>1, <2>2
  <1>6. ASSUME NEW r \in Run, Acquire(r) PROVE GivenIsComplete'
    BY <1>6 DEF Acquire
  <1>7. ASSUME NEW r \in Run, Work(r) PROVE GivenIsComplete'
    <2>1. CASE Check(r)
      BY <2>1 DEF Check
    <2>2. CASE Adopt(r)
      BY <2>2 DEF Adopt
    <2>3. CASE Inspect(r)
      BY <2>3 DEF Inspect
    <2>4. CASE Begin(r)
      BY <2>4 DEF Begin
    <2>5. CASE Read(r)
      BY <2>5 DEF Read
    <2>6. CASE Freeze(r)
      BY <2>6 DEF Freeze
    <2>7. CASE Image(r)
      BY <2>7 DEF Image
    <2>8. CASE CreatePart(r)
      BY <2>8 DEF CreatePart
    <2>9. CASE Store(r)
      BY <2>9 DEF Store
    <2>10. CASE Activate(r)
      BY <2>10 DEF Activate
    <2>11. CASE Mark(r)
      BY <2>11 DEF Mark
    <2>12. CASE Undo(r)
      BY <2>12 DEF Undo
    <2>13. CASE Record(r)
      BY <2>13 DEF Record
    <2>14. CASE Result(r)
      BY <2>14 DEF Result
    <2>15. CASE Finalize(r)
      BY <2>15 DEF Finalize
    <2> QED
      BY <1>7, <2>1, <2>2, <2>3, <2>4, <2>5, <2>6, <2>7, <2>8, <2>9, <2>10, <2>11, <2>12, <2>13, <2>14, <2>15 DEF Work
  <1>8. ASSUME NEW r \in Run, WorkFault(r) PROVE GivenIsComplete'
    <2>1. CASE Crash(r)
      BY <2>1 DEF Crash
    <2>2. CASE LoseLock(r)
      BY <2>2 DEF LoseLock
    <2>3. CASE Refused(r)
      BY <2>3 DEF Refused
    <2>4. CASE BrokenOff(r)
      BY <2>4 DEF BrokenOff
    <2>5. CASE ActivateFails(r)
      BY <2>5 DEF ActivateFails
    <2>6. CASE MarkFails(r)
      BY <2>6 DEF MarkFails
    <2>7. CASE UndoFails(r)
      BY <2>7 DEF UndoFails
    <2>8. CASE DatabaseFails(r)
      BY <2>8 DEF DatabaseFails
    <2> QED
      BY <1>8, <2>1, <2>2, <2>3, <2>4, <2>5, <2>6, <2>7, <2>8 DEF WorkFault
  <1>9. CASE UNCHANGED vars
    BY <1>9 DEF vars
  <1> QED
    BY <1>1, <1>2, <1>3, <1>4, <1>5, <1>6, <1>7, <1>8, <1>9 DEF Next

\* What a replacement begins with was terminal when it looked.
LEMMA BeginStep ==
    TypeOK /\ [Next]_vars => BeginsFrom
  <1> SUFFICES ASSUME TypeOK, [Next]_vars PROVE BeginsFrom
    OBVIOUS
  <1> pc \in [Run -> Step]
    BY DEF TypeOK
  <1> use \in [Run -> [Part -> Nat]] /\ kind \in [Run -> {"ack", "reconcile", "replace"}]
    BY DEF TypeOK
  <1> saw \in [Run -> {"none", "thawed", "frozen"}]
    BY DEF TypeOK
  <1> USE PublicationAssumption DEF rowVars, runVars, bounds, Launch, Goto, End, Return, Escape, Fault, BeginsFrom
  <1>1. CASE FounderArchives
    BY <1>1 DEF FounderArchives
  <1>2. CASE FounderPauses
    BY <1>2 DEF FounderPauses
  <1>3. CASE Approve
    BY <1>3 DEF Approve
  <1>4. CASE Reject
    BY <1>4 DEF Reject
  <1>5. ASSUME NEW o \in Operator, Reconcile(o) \/ Replace(o) PROVE BeginsFrom
    <2> o \in Run
      BY DEF Run
    <2>1. CASE Reconcile(o)
      BY <2>1 DEF Reconcile
    <2>2. CASE Replace(o)
      BY <2>2 DEF Replace
    <2> QED
      BY <1>5, <2>1, <2>2
  <1>6. ASSUME NEW r \in Run, Acquire(r) PROVE BeginsFrom
    BY <1>6 DEF Acquire
  <1>7. ASSUME NEW r \in Run, Work(r) PROVE BeginsFrom
    <2>1. CASE Check(r)
      BY <2>1 DEF Check
    <2>2. CASE Adopt(r)
      BY <2>2 DEF Adopt
    <2>3. CASE Inspect(r)
      BY <2>3 DEF Inspect
    <2>4. CASE Begin(r)
      BY <2>4 DEF Begin
    <2>5. CASE Read(r)
      BY <2>5 DEF Read
    <2>6. CASE Freeze(r)
      BY <2>6 DEF Freeze
    <2>7. CASE Image(r)
      BY <2>7 DEF Image
    <2>8. CASE CreatePart(r)
      BY <2>8 DEF CreatePart
    <2>9. CASE Store(r)
      BY <2>9 DEF Store
    <2>10. CASE Activate(r)
      BY <2>10 DEF Activate
    <2>11. CASE Mark(r)
      BY <2>11 DEF Mark
    <2>12. CASE Undo(r)
      BY <2>12 DEF Undo
    <2>13. CASE Record(r)
      BY <2>13 DEF Record
    <2>14. CASE Result(r)
      BY <2>14 DEF Result
    <2>15. CASE Finalize(r)
      BY <2>15 DEF Finalize
    <2> QED
      BY <1>7, <2>1, <2>2, <2>3, <2>4, <2>5, <2>6, <2>7, <2>8, <2>9, <2>10, <2>11, <2>12, <2>13, <2>14, <2>15 DEF Work
  <1>8. ASSUME NEW r \in Run, WorkFault(r) PROVE BeginsFrom
    <2>1. CASE Crash(r)
      BY <2>1 DEF Crash
    <2>2. CASE LoseLock(r)
      BY <2>2 DEF LoseLock
    <2>3. CASE Refused(r)
      BY <2>3 DEF Refused
    <2>4. CASE BrokenOff(r)
      BY <2>4 DEF BrokenOff
    <2>5. CASE ActivateFails(r)
      BY <2>5 DEF ActivateFails
    <2>6. CASE MarkFails(r)
      BY <2>6 DEF MarkFails
    <2>7. CASE UndoFails(r)
      BY <2>7 DEF UndoFails
    <2>8. CASE DatabaseFails(r)
      BY <2>8 DEF DatabaseFails
    <2> QED
      BY <1>8, <2>1, <2>2, <2>3, <2>4, <2>5, <2>6, <2>7, <2>8 DEF WorkFault
  <1>9. CASE UNCHANGED vars
    BY <1>9 DEF vars
  <1> QED
    BY <1>1, <1>2, <1>3, <1>4, <1>5, <1>6, <1>7, <1>8, <1>9 DEF Next

\* Two runs never add parts to the same hierarchy, even when the lock is lost.
LEMMA CreatorsStep ==
    TypeOK /\ CreatorsApart /\ UseIsComplete /\ [Next]_vars => CreatorsApart'
  <1> SUFFICES ASSUME TypeOK, CreatorsApart, UseIsComplete, [Next]_vars PROVE CreatorsApart'
    OBVIOUS
  <1> pc \in [Run -> Step]
    BY DEF TypeOK
  <1> use \in [Run -> [Part -> Nat]] /\ kind \in [Run -> {"ack", "reconcile", "replace"}]
    BY DEF TypeOK
  <1> ids \in [Part -> Nat]
    BY DEF TypeOK
  <1> \A s \in Run : Made(s) # 0 => Made(s) \in DOMAIN hier
    BY HierTyped DEF TypeOK, Made, Part
  <1> USE PublicationAssumption DEF rowVars, runVars, bounds, Launch, Goto, End, Return, Escape, Fault, CreatorsApart, Made
  <1>1. CASE FounderArchives
    <2>1. MadeKept /\ UNCHANGED <<pc, use>>
      BY <1>1, FounderSets DEF FounderArchives, FounderPauses
    <2> QED BY <2>1 DEF MadeKept
  <1>2. CASE FounderPauses
    <2>1. MadeKept /\ UNCHANGED <<pc, use>>
      BY <1>2, FounderSets DEF FounderArchives, FounderPauses
    <2> QED BY <2>1 DEF MadeKept
  <1>3. CASE Approve
    BY <1>3 DEF Approve
  <1>4. CASE Reject
    BY <1>4 DEF Reject
  <1>5. ASSUME NEW o \in Operator, Reconcile(o) \/ Replace(o) PROVE CreatorsApart'
    <2> o \in Run
      BY DEF Run
    <2>1. CASE Reconcile(o)
      BY <2>1 DEF Reconcile
    <2>2. CASE Replace(o)
      BY <2>2 DEF Replace
    <2> QED
      BY <1>5, <2>1, <2>2
  <1>6. ASSUME NEW r \in Run, Acquire(r) PROVE CreatorsApart'
    BY <1>6 DEF Acquire
  <1>7. ASSUME NEW r \in Run, Work(r) PROVE CreatorsApart'
    <2>1. CASE Check(r)
      BY <2>1 DEF Check
    <2>2. CASE Adopt(r)
      BY <2>2 DEF Adopt
    <2>3. CASE Inspect(r)
      BY <2>3 DEF Inspect
    <2>4. CASE Begin(r)
      BY <2>4 DEF Begin
    <2>5. CASE Read(r)
      <3>1. /\ pc'[r] \notin {"image", "create"} /\ hier' = hier
            /\ \A s \in Run \ {r} : pc'[s] = pc[s] /\ use'[s] = use[s]
        BY <2>5 DEF Read
      <3> QED BY <3>1
    <2>6. CASE Freeze(r)
      <3>1. /\ hier' = hier /\ \A s \in Run \ {r} : pc'[s] = pc[s] /\ use'[s] = use[s]
        BY <2>6 DEF Freeze
      <3>2. pc'[r] \in {"image", "create"} => \E k \in [Part -> Nat] : Stored(k) = {} /\ use'[r] = k
        <4> DEFINE k == IF saw[r] = "none" THEN ids ELSE use[r]
        <4>1. k \in [Part -> Nat]
          OBVIOUS
        <4>2. pc'[r] \in {"image", "create"} => Stored(k) = {} /\ use' = [use EXCEPT ![r] = k]
          <5> HIDE DEF k
          <5>1. \/ pc'[r] \in {"idle", "result"}
                \/ /\ pc' = [pc EXCEPT ![r] = CASE Stored(k) # {} -> "activate"
                                                  [] Stored(k) = {} /\ kind[r] = "replace" -> "create"
                                                  [] OTHER -> "image"]
                   /\ use' = [use EXCEPT ![r] = k]
            BY <2>6 DEF Freeze, k
          <5> QED BY <5>1
        <4> HIDE DEF k
        <4> QED BY <4>1, <4>2
      <3>3. pc'[r] \in {"image", "create"} => use'[r][1] = 0
        BY <3>2 DEF Stored, Part
      <3> QED BY <3>1, <3>3
    <2>7. CASE Image(r)
      BY <2>7 DEF Image
    <2>8. CASE CreatePart(r)
      <3>1. Made(r) # 0 => hier[Made(r)].made < 4
        BY <2>8 DEF CreatePart
      <3>2. /\ pc[r] = "create" /\ Grow(r)
            /\ \A s \in Run \ {r} : pc'[s] = pc[s] /\ use'[s] = use[s]
            /\ pc'[r] \in {"create", "store"} /\ (NextPart(r) = 4 => pc'[r] = "store")
        BY <2>8 DEF CreatePart
      <3>3. CASE Made(r) = 0
        <4>1. /\ Len(hier') = Len(hier) + 1 /\ hier'[Len(hier')].made = 1
              /\ \A g \in DOMAIN hier : hier'[g] = hier[g]
          BY <3>1, <3>2, <3>3, HierGrown
        <4>2. use'[r][1] = Len(hier) + 1
          BY <2>8, <3>3, HierTyped DEF CreatePart, NextPart, Part
        <4>3. Len(hier) + 1 \notin DOMAIN hier
          BY HierTyped
        <4> QED BY <3>2, <3>3, <4>1, <4>2, <4>3
      <3>4. CASE Made(r) # 0
        <4>1. /\ hier'[Made(r)].made = hier[Made(r)].made + 1
              /\ \A g \in DOMAIN hier : g # Made(r) => hier'[g] = hier[g]
          BY <3>1, <3>2, <3>4, HierGrown
        <4>2. use'[r][1] = Made(r)
          <5>1. 1 \in Part /\ hier[Made(r)].made \in Nat /\ Made(r) \in Nat
            <6>1. hier[Made(r)] \in Resource
              BY <3>4, HierTyped
            <6> QED BY <3>4, <6>1, HierTyped DEF Resource, Part
          <5>2. use' = [use EXCEPT ![r] = [p \in Part |-> IF p <= NextPart(r) THEN Made(r) ELSE 0]]
            BY <2>8, <3>4 DEF CreatePart
          <5>3. NextPart(r) = hier[Made(r)].made + 1
            BY <3>4 DEF NextPart
          <5> QED BY <5>1, <5>2, <5>3
        <4>3. hier[Made(r)].made \in 1 .. 3
          <5>1. hier[Made(r)] \in Resource
            BY <3>4, HierTyped
          <5> QED BY <3>1, <3>4, <5>1 DEF Resource, Part
        <4>4. pc'[r] = "create" => hier[Made(r)].made + 1 < 4
          BY <3>2, <3>4, <4>3 DEF NextPart
        <4>5. \A s \in Run \ {r} : pc[s] = "create" => use[s][1] # Made(r)
          BY <3>2, <3>4
        <4> DEFINE m == Made(r)
        <4>6. m = use[r][1] /\ m # 0 /\ m \in DOMAIN hier
          BY <3>4
        <4> HIDE DEF m
        <4>7. /\ hier'[m].made = hier[m].made + 1
              /\ \A g \in DOMAIN hier : g # m => hier'[g] = hier[g]
              /\ use'[r][1] = m /\ (pc'[r] = "create" => hier[m].made + 1 < 4)
              /\ \A s \in Run \ {r} : pc[s] = "create" => use[s][1] # m
          BY <4>1, <4>2, <4>4, <4>5 DEF m
        <4>8. \A s \in Run \ {r} : use[s][1] # 0 => use[s][1] \in DOMAIN hier
          OBVIOUS
        <4>9. hier'[use'[r][1]].made < 4 \/ pc'[r] = "store"
          BY <3>2, <4>7
        <4>10. \A s \in Run \ {r} : pc'[s] = "create" /\ use'[s][1] # 0 =>
                  /\ hier'[use'[s][1]].made < 4
                  /\ use'[s][1] # m
                  /\ \A t \in Run \ {r, s} : pc'[t] = "create" => use'[t][1] # use'[s][1]
          BY <3>2, <4>7, <4>8
        <4>11. \A s \in Run : pc'[s] = "image" => use'[s][1] = 0
          BY <3>2
        <4> HIDE DEF Run
        <4> QED BY <4>6, <4>7, <4>9, <4>10, <4>11
      <3> QED BY <3>3, <3>4
    <2>9. CASE Store(r)
      BY <2>9 DEF Store
    <2>10. CASE Activate(r)
      <3>1. MadeKept
        BY <2>10, RunSets
      <3>2. \A s \in Run : pc'[s] \in {"image", "create"} => pc[s] = pc'[s] /\ use'[s] = use[s]
        BY <2>10 DEF Activate
      <3>3. \A s \in Run : pc[s] = "create" => pc'[s] = "create"
        BY <2>10 DEF Activate
      <3> QED BY <3>1, <3>2, <3>3 DEF MadeKept
    <2>11. CASE Mark(r)
      BY <2>11 DEF Mark
    <2>12. CASE Undo(r)
      <3>1. MadeKept
        BY <2>12, RunSets
      <3>2. \A s \in Run : pc'[s] \in {"image", "create"} => pc[s] = pc'[s] /\ use'[s] = use[s]
        BY <2>12 DEF Undo
      <3>3. \A s \in Run : pc[s] = "create" => pc'[s] = "create"
        BY <2>12 DEF Undo
      <3> QED BY <3>1, <3>2, <3>3 DEF MadeKept
    <2>13. CASE Record(r)
      BY <2>13 DEF Record
    <2>14. CASE Result(r)
      BY <2>14 DEF Result
    <2>15. CASE Finalize(r)
      BY <2>15 DEF Finalize
    <2> QED
      BY <1>7, <2>1, <2>2, <2>3, <2>4, <2>5, <2>6, <2>7, <2>8, <2>9, <2>10, <2>11, <2>12, <2>13, <2>14, <2>15 DEF Work
  <1>8. ASSUME NEW r \in Run, WorkFault(r) PROVE CreatorsApart'
    <2>1. CASE Crash(r)
      BY <2>1 DEF Crash
    <2>2. CASE LoseLock(r)
      BY <2>2 DEF LoseLock
    <2>3. CASE Refused(r)
      BY <2>3 DEF Refused
    <2>4. CASE BrokenOff(r)
      <3>1. Made(r) # 0 => hier[Made(r)].made < 4
        BY <2>4 DEF BrokenOff
      <3>2. /\ pc[r] = "create" /\ pc'[r] \notin {"image", "create"}
            /\ \A s \in Run \ {r} : pc'[s] = pc[s] /\ use'[s] = use[s]
        BY <2>4 DEF BrokenOff
      <3>3. \A g \in DOMAIN hier : g # Made(r) => hier'[g] = hier[g]
        <4>1. CASE Grow(r)
          BY <3>1, <3>2, <4>1, HierGrown
        <4> QED BY <2>4, <4>1 DEF BrokenOff
      <3>4. \A s \in Run \ {r} : pc[s] = "create" => use[s][1] # Made(r) \/ use[s][1] = 0
        BY <3>2
      <3>5. \A s \in Run \ {r} : pc[s] = "create" /\ use[s][1] # 0 => hier'[use[s][1]] = hier[use[s][1]]
        BY <3>3, <3>4
      <3>6. \A s \in Run : pc'[s] \in {"image", "create"} => s # r /\ pc[s] = pc'[s] /\ use'[s] = use[s]
        BY <3>2
      <3> HIDE DEF Run
      <3> QED BY <3>5, <3>6
    <2>5. CASE ActivateFails(r)
      <3>1. MadeKept
        BY <2>5, RunSets
      <3>2. \A s \in Run : pc'[s] \in {"image", "create"} => pc[s] = pc'[s] /\ use'[s] = use[s]
        BY <2>5 DEF ActivateFails
      <3>3. \A s \in Run : pc[s] = "create" => pc'[s] = "create"
        BY <2>5 DEF ActivateFails
      <3> QED BY <3>1, <3>2, <3>3 DEF MadeKept
    <2>6. CASE MarkFails(r)
      BY <2>6 DEF MarkFails
    <2>7. CASE UndoFails(r)
      BY <2>7 DEF UndoFails
    <2>8. CASE DatabaseFails(r)
      BY <2>8 DEF DatabaseFails
    <2> QED
      BY <1>8, <2>1, <2>2, <2>3, <2>4, <2>5, <2>6, <2>7, <2>8 DEF WorkFault
  <1>9. CASE UNCHANGED vars
    BY <1>9 DEF vars
  <1> QED
    BY <1>1, <1>2, <1>3, <1>4, <1>5, <1>6, <1>7, <1>8, <1>9 DEF Next

\* What is stored and activated is complete.
LEMMA UseStep ==
    TypeOK /\ UseIsComplete /\ [Next]_vars => UseIsComplete'
  <1> SUFFICES ASSUME TypeOK, UseIsComplete, [Next]_vars PROVE UseIsComplete'
    OBVIOUS
  <1> pc \in [Run -> Step]
    BY DEF TypeOK
  <1> use \in [Run -> [Part -> Nat]] /\ kind \in [Run -> {"ack", "reconcile", "replace"}]
    BY DEF TypeOK
  <1> ids \in [Part -> Nat]
    BY DEF TypeOK
  <1> USE PublicationAssumption DEF rowVars, runVars, bounds, Launch, Goto, End, Return, Escape, Fault, UseIsComplete
  <1>1. CASE FounderArchives
    BY <1>1 DEF FounderArchives
  <1>2. CASE FounderPauses
    BY <1>2 DEF FounderPauses
  <1>3. CASE Approve
    BY <1>3 DEF Approve
  <1>4. CASE Reject
    BY <1>4 DEF Reject
  <1>5. ASSUME NEW o \in Operator, Reconcile(o) \/ Replace(o) PROVE UseIsComplete'
    <2> o \in Run
      BY DEF Run
    <2>1. CASE Reconcile(o)
      BY <2>1 DEF Reconcile
    <2>2. CASE Replace(o)
      BY <2>2 DEF Replace
    <2> QED
      BY <1>5, <2>1, <2>2
  <1>6. ASSUME NEW r \in Run, Acquire(r) PROVE UseIsComplete'
    BY <1>6 DEF Acquire
  <1>7. ASSUME NEW r \in Run, Work(r) PROVE UseIsComplete'
    <2>1. CASE Check(r)
      BY <2>1 DEF Check
    <2>2. CASE Adopt(r)
      BY <2>2 DEF Adopt
    <2>3. CASE Inspect(r)
      BY <2>3 DEF Inspect
    <2>4. CASE Begin(r)
      <3>1. CASE End(r)
        BY <3>1
      <3> QED BY <2>4, <3>1 DEF Begin
    <2>5. CASE Read(r)
      BY <2>5 DEF Read
    <2>6. CASE Freeze(r)
      <3>1. CASE pc'[r] \in {"activate", "image", "create"} /\ (pc'[r] = "activate" => Required \subseteq Stored(use'[r]))
                  /\ \A s \in Run \ {r} : pc'[s] = pc[s] /\ use'[s] = use[s]
        BY <3>1 DEF Stored, Required, Part
      <3>2. CASE Return(r)
        BY <3>2
      <3> QED BY <2>6, <3>1, <3>2 DEF Freeze
    <2>7. CASE Image(r)
      BY <2>7 DEF Image
    <2>8. CASE CreatePart(r)
      <3>1. \E step \in {"store", "create"} : pc' = [pc EXCEPT ![r] = step]
        BY <2>8 DEF CreatePart
      <3>2. pc'[r] = "store" => NextPart(r) = 4 /\ Made(r) # 0
        BY <2>8 DEF CreatePart, NextPart
      <3>3. pc'[r] = "store" => \A p \in Part : use'[r][p] = Made(r)
        BY <2>8, <3>2 DEF CreatePart, Part
      <3>4. Made(r) = Made(r) /\ 1 \in Part
        BY DEF Part
      <3>5. \A s \in Run \ {r} : use'[s] = use[s] /\ pc'[s] = pc[s]
        BY <2>8 DEF CreatePart
      <3>6. pc'[r] \in {"store", "create"}
        BY <3>1
      <3> QED BY <3>2, <3>3, <3>4, <3>5, <3>6
    <2>9. CASE Store(r)
      <3>1. /\ pc' = [pc EXCEPT ![r] = "activate"] /\ use' = use /\ pc[r] = "store"
        BY <2>9 DEF Store
      <3> QED BY <3>1 DEF Required, Part
    <2>10. CASE Activate(r)
      BY <2>10 DEF Activate
    <2>11. CASE Mark(r)
      BY <2>11 DEF Mark
    <2>12. CASE Undo(r)
      BY <2>12 DEF Undo
    <2>13. CASE Record(r)
      BY <2>13 DEF Record
    <2>14. CASE Result(r)
      BY <2>14 DEF Result
    <2>15. CASE Finalize(r)
      BY <2>15 DEF Finalize
    <2> QED
      BY <1>7, <2>1, <2>2, <2>3, <2>4, <2>5, <2>6, <2>7, <2>8, <2>9, <2>10, <2>11, <2>12, <2>13, <2>14, <2>15 DEF Work
  <1>8. ASSUME NEW r \in Run, WorkFault(r) PROVE UseIsComplete'
    <2>1. CASE Crash(r)
      BY <2>1 DEF Crash
    <2>2. CASE LoseLock(r)
      BY <2>2 DEF LoseLock
    <2>3. CASE Refused(r)
      BY <2>3 DEF Refused
    <2>4. CASE BrokenOff(r)
      BY <2>4 DEF BrokenOff
    <2>5. CASE ActivateFails(r)
      BY <2>5 DEF ActivateFails
    <2>6. CASE MarkFails(r)
      BY <2>6 DEF MarkFails
    <2>7. CASE UndoFails(r)
      BY <2>7 DEF UndoFails
    <2>8. CASE DatabaseFails(r)
      BY <2>8 DEF DatabaseFails
    <2> QED
      BY <1>8, <2>1, <2>2, <2>3, <2>4, <2>5, <2>6, <2>7, <2>8 DEF WorkFault
  <1>9. CASE UNCHANGED vars
    BY <1>9 DEF vars
  <1> QED
    BY <1>1, <1>2, <1>3, <1>4, <1>5, <1>6, <1>7, <1>8, <1>9 DEF Next

\* Under the lock the row does not change behind the back of its run.
LEMMA StoredStep ==
    TypeOK /\ LockHeld /\ UseIsComplete /\ CommandKept /\ UseIsStored /\ [Next]_vars => UseIsStored'
  <1> SUFFICES ASSUME TypeOK, LockHeld, UseIsComplete, CommandKept, UseIsStored, [Next]_vars
               PROVE  UseIsStored'
    OBVIOUS
  <1> pc \in [Run -> Step]
    BY DEF TypeOK
  <1> NoRun \notin Run
    BY PublicationAssumption DEF Run
  <1> losses \in Nat
    BY PublicationAssumption DEF TypeOK
  <1> use \in [Run -> [Part -> Nat]] /\ kind \in [Run -> {"ack", "reconcile", "replace"}]
    BY DEF TypeOK
  <1> saw \in [Run -> {"none", "thawed", "frozen"}]
    BY DEF TypeOK
  <1> ids \in [Part -> Nat]
    BY DEF TypeOK
  <1> USE PublicationAssumption DEF rowVars, runVars, bounds, Launch, Goto, End, Return, Escape, Fault, LockHeld, UseIsStored, Working
  <1>1. CASE FounderArchives
    BY <1>1 DEF FounderArchives
  <1>2. CASE FounderPauses
    BY <1>2 DEF FounderPauses
  <1>3. CASE Approve
    BY <1>3 DEF Approve
  <1>4. CASE Reject
    BY <1>4 DEF Reject
  <1>5. ASSUME NEW o \in Operator, Reconcile(o) \/ Replace(o) PROVE UseIsStored'
    <2> o \in Run
      BY DEF Run
    <2>1. CASE Reconcile(o)
      BY <2>1 DEF Reconcile
    <2>2. CASE Replace(o)
      BY <2>2 DEF Replace
    <2> QED
      BY <1>5, <2>1, <2>2
  <1>6. ASSUME NEW r \in Run, Acquire(r) PROVE UseIsStored'
    BY <1>6 DEF Acquire
  <1>7. ASSUME NEW r \in Run, Work(r) PROVE UseIsStored'
    <2>1. CASE Check(r)
      <3>1. \A s \in Run \ {r} : pc'[s] = pc[s] /\ use'[s] = use[s] /\ kind'[s] = kind[s] /\ saw'[s] = saw[s]
        BY <2>1 DEF Check
      <3>2. losses'=0 => losses = 0 /\ \A s \in Run \ {r} : pc'[s] \in {"idle", "waiting"}
        BY <2>1, <3>1 DEF Check
      <3>3. pc'[r] \in {"adopt", "read", "idle"} /\ draft' = draft /\ ids' = ids
        BY <2>1 DEF Check
      <3>4. pc'[r] = "adopt" => draft = "approved" /\ ~Conflict(use[r]) /\ use'[r] = use[r]
        BY <2>1 DEF Check
      <3>5. pc'[r] = "adopt" => \A p \in Part : ids[p] \in {0, use[r][p]}
        BY <3>4 DEF Conflict
      <3>6. pc'[r] = "read" => kind'[r] = "reconcile"
        BY <2>1 DEF Check, CommandKept
      <3> QED BY <3>1, <3>2, <3>3, <3>4, <3>5, <3>6
    <2>2. CASE Adopt(r)
      <3>1. \A s \in Run \ {r} : pc'[s] = pc[s] /\ use'[s] = use[s] /\ kind'[s] = kind[s] /\ saw'[s] = saw[s]
        BY <2>2 DEF Adopt
      <3>2. losses'=0 => losses = 0 /\ \A s \in Run \ {r} : pc'[s] \in {"idle", "waiting"}
        BY <2>2, <3>1 DEF Adopt
      <3>3. pc'[r] = "read" /\ kind'[r] = "reconcile"
        BY <2>2 DEF Adopt, CommandKept
      <3> QED BY <3>1, <3>2, <3>3
    <2>3. CASE Inspect(r)
      BY <2>3 DEF Inspect
    <2>4. CASE Begin(r)
      <3>1. \A s \in Run \ {r} : pc'[s] = pc[s] /\ use'[s] = use[s] /\ kind'[s] = kind[s] /\ saw'[s] = saw[s]
        BY <2>4 DEF Begin
      <3>2. losses'=0 => losses = 0 /\ \A s \in Run \ {r} : pc'[s] \in {"idle", "waiting"}
        BY <2>4, <3>1 DEF Begin
      <3>3. \/ pc'[r] = "idle"
            \/ pc'[r] = "read" /\ state' = "creating" /\ ids' = NoIds
        <4>1. CASE ids = use[r]
          BY <2>4, <4>1 DEF Begin
        <4>2. CASE ids # use[r]
          BY <2>4, <4>2 DEF Begin
        <4> QED BY <4>1, <4>2
      <3> QED BY <3>1, <3>2, <3>3
    <2>5. CASE Read(r)
      BY <2>5 DEF Read
    <2>6. CASE Freeze(r)
      <3>1. \A s \in Run \ {r} : pc'[s] = pc[s] /\ use'[s] = use[s] /\ kind'[s] = kind[s] /\ saw'[s] = saw[s]
        BY <2>6 DEF Freeze
      <3>2. losses'=0 => losses = 0 /\ \A s \in Run \ {r} : pc'[s] \in {"idle", "waiting"}
        BY <2>6, <3>1 DEF Freeze
      <3> DEFINE k == IF saw[r] = "none" THEN ids ELSE use[r]
      <3>3. losses = 0 => k = ids
        BY <2>6 DEF Freeze
      <3> HIDE DEF k
      <3>4. \/ pc'[r] \in {"idle", "result"}
            \/ /\ pc'[r] \in {"activate", "image", "create"} /\ ids' = ids /\ use'[r] = k
               /\ pc'[r] # "activate" => Stored(k) = {}
        BY <2>6 DEF Freeze, k
      <3>5. Stored(ids) = {} => ids = NoIds
        <4>1. \A p \in Part : Stored(ids) = {} => ids[p] = 0
          BY DEF Stored
        <4> QED BY <4>1 DEF NoIds
      <3> QED BY <3>1, <3>2, <3>3, <3>4, <3>5
    <2>7. CASE Image(r)
      BY <2>7 DEF Image
    <2>8. CASE CreatePart(r)
      BY <2>8 DEF CreatePart
    <2>9. CASE Store(r)
      <3>1. \A s \in Run \ {r} : pc'[s] = pc[s] /\ use'[s] = use[s] /\ kind'[s] = kind[s] /\ saw'[s] = saw[s]
        BY <2>9 DEF Store
      <3>2. losses'=0 => losses = 0 /\ \A s \in Run \ {r} : pc'[s] \in {"idle", "waiting"}
        BY <2>9, <3>1 DEF Store
      <3>3. pc'[r] = "activate" /\ use'[r] = use[r] /\ ids' = Merge(ids, use[r])
        BY <2>9 DEF Store
      <3>4. \A p \in Part : use[r][p] # 0
        BY <2>9 DEF Store, UseIsComplete
      <3>5. Merge(ids, use[r]) = use[r]
        BY <3>4 DEF Merge
      <3> QED BY <3>1, <3>2, <3>3, <3>5
    <2>10. CASE Activate(r)
      BY <2>10 DEF Activate
    <2>11. CASE Mark(r)
      BY <2>11 DEF Mark
    <2>12. CASE Undo(r)
      BY <2>12 DEF Undo
    <2>13. CASE Record(r)
      BY <2>13 DEF Record
    <2>14. CASE Result(r)
      BY <2>14 DEF Result
    <2>15. CASE Finalize(r)
      BY <2>15 DEF Finalize
    <2> QED
      BY <1>7, <2>1, <2>2, <2>3, <2>4, <2>5, <2>6, <2>7, <2>8, <2>9, <2>10, <2>11, <2>12, <2>13, <2>14, <2>15 DEF Work
  <1>8. ASSUME NEW r \in Run, WorkFault(r) PROVE UseIsStored'
    <2>1. CASE Crash(r)
      BY <2>1 DEF Crash
    <2>2. CASE LoseLock(r)
      BY <2>2 DEF LoseLock
    <2>3. CASE Refused(r)
      BY <2>3 DEF Refused
    <2>4. CASE BrokenOff(r)
      BY <2>4 DEF BrokenOff
    <2>5. CASE ActivateFails(r)
      BY <2>5 DEF ActivateFails
    <2>6. CASE MarkFails(r)
      BY <2>6 DEF MarkFails
    <2>7. CASE UndoFails(r)
      BY <2>7 DEF UndoFails
    <2>8. CASE DatabaseFails(r)
      BY <2>8 DEF DatabaseFails
    <2> QED
      BY <1>8, <2>1, <2>2, <2>3, <2>4, <2>5, <2>6, <2>7, <2>8 DEF WorkFault
  <1>9. CASE UNCHANGED vars
    BY <1>9 DEF vars
  <1> QED
    BY <1>1, <1>2, <1>3, <1>4, <1>5, <1>6, <1>7, <1>8, <1>9 DEF Next

\* What authorized a run still holds when it creates, stores and activates.
LEMMA AuthStep ==
    TypeOK /\ LockHeld /\ UseIsStored /\ WorkIsAuthorized /\ [Next]_vars => WorkIsAuthorized'
  <1> SUFFICES ASSUME TypeOK, LockHeld, UseIsStored, WorkIsAuthorized, [Next]_vars
               PROVE  WorkIsAuthorized'
    OBVIOUS
  <1> pc \in [Run -> Step]
    BY DEF TypeOK
  <1> NoRun \notin Run
    BY PublicationAssumption DEF Run
  <1> losses \in Nat
    BY PublicationAssumption DEF TypeOK
  <1> USE PublicationAssumption DEF rowVars, runVars, bounds, Launch, Goto, End, Return, Escape, Fault, LockHeld, WorkIsAuthorized, Working, Open
  <1>1. CASE FounderArchives
    BY <1>1 DEF FounderArchives
  <1>2. CASE FounderPauses
    BY <1>2 DEF FounderPauses
  <1>3. CASE Approve
    BY <1>3 DEF Approve
  <1>4. CASE Reject
    BY <1>4 DEF Reject
  <1>5. ASSUME NEW o \in Operator, Reconcile(o) \/ Replace(o) PROVE WorkIsAuthorized'
    <2> o \in Run
      BY DEF Run
    <2>1. CASE Reconcile(o)
      BY <2>1 DEF Reconcile
    <2>2. CASE Replace(o)
      BY <2>2 DEF Replace
    <2> QED
      BY <1>5, <2>1, <2>2
  <1>6. ASSUME NEW r \in Run, Acquire(r) PROVE WorkIsAuthorized'
    BY <1>6 DEF Acquire
  <1>7. ASSUME NEW r \in Run, Work(r) PROVE WorkIsAuthorized'
    <2>1. CASE Check(r)
      BY <2>1 DEF Check
    <2>2. CASE Adopt(r)
      BY <2>2 DEF Adopt
    <2>3. CASE Inspect(r)
      BY <2>3 DEF Inspect
    <2>4. CASE Begin(r)
      BY <2>4 DEF Begin
    <2>5. CASE Read(r)
      BY <2>5 DEF Read
    <2>6. CASE Freeze(r)
      BY <2>6 DEF Freeze
    <2>7. CASE Image(r)
      BY <2>7 DEF Image
    <2>8. CASE CreatePart(r)
      BY <2>8 DEF CreatePart
    <2>9. CASE Store(r)
      BY <2>9 DEF Store
    <2>10. CASE Activate(r)
      BY <2>10 DEF Activate
    <2>11. CASE Mark(r)
      BY <2>11 DEF Mark
    <2>12. CASE Undo(r)
      BY <2>12 DEF Undo
    <2>13. CASE Record(r)
      BY <2>13 DEF Record
    <2>14. CASE Result(r)
      BY <2>14 DEF Result
    <2>15. CASE Finalize(r)
      BY <2>15 DEF Finalize
    <2> QED
      BY <1>7, <2>1, <2>2, <2>3, <2>4, <2>5, <2>6, <2>7, <2>8, <2>9, <2>10, <2>11, <2>12, <2>13, <2>14, <2>15 DEF Work
  <1>8. ASSUME NEW r \in Run, WorkFault(r) PROVE WorkIsAuthorized'
    <2>1. CASE Crash(r)
      BY <2>1 DEF Crash
    <2>2. CASE LoseLock(r)
      BY <2>2 DEF LoseLock
    <2>3. CASE Refused(r)
      BY <2>3 DEF Refused
    <2>4. CASE BrokenOff(r)
      BY <2>4 DEF BrokenOff
    <2>5. CASE ActivateFails(r)
      BY <2>5 DEF ActivateFails
    <2>6. CASE MarkFails(r)
      BY <2>6 DEF MarkFails
    <2>7. CASE UndoFails(r)
      BY <2>7 DEF UndoFails
    <2>8. CASE DatabaseFails(r)
      BY <2>8 DEF DatabaseFails
    <2> QED
      BY <1>8, <2>1, <2>2, <2>3, <2>4, <2>5, <2>6, <2>7, <2>8 DEF WorkFault
  <1>9. CASE UNCHANGED vars
    BY <1>9 DEF vars
  <1> QED
    BY <1>1, <1>2, <1>3, <1>4, <1>5, <1>6, <1>7, <1>8, <1>9 DEF Next

\* A replacement that returns has left a failure, nothing at all, or an active row.
LEMMA AttemptStep ==
    /\ TypeOK /\ LockHeld /\ UseIsComplete /\ UseIsStored /\ AttemptIsAccounted
    /\ [Next]_vars
    => AttemptIsAccounted'
  <1> SUFFICES ASSUME TypeOK, LockHeld, UseIsComplete, UseIsStored, AttemptIsAccounted, [Next]_vars
               PROVE  AttemptIsAccounted'
    OBVIOUS
  <1> pc \in [Run -> Step]
    BY DEF TypeOK
  <1> NoRun \notin Run
    BY PublicationAssumption DEF Run
  <1> losses \in Nat
    BY PublicationAssumption DEF TypeOK
  <1> use \in [Run -> [Part -> Nat]] /\ kind \in [Run -> {"ack", "reconcile", "replace"}]
    BY DEF TypeOK
  <1> saw \in [Run -> {"none", "thawed", "frozen"}]
    BY DEF TypeOK
  <1> ids \in [Part -> Nat]
    BY DEF TypeOK
  <1> USE PublicationAssumption DEF rowVars, runVars, bounds, Launch, Goto, End, Return, Escape, Fault, LockHeld, AttemptIsAccounted, UseIsStored, Working, IsActive
  <1>1. CASE FounderArchives
    BY <1>1 DEF FounderArchives
  <1>2. CASE FounderPauses
    BY <1>2 DEF FounderPauses
  <1>3. CASE Approve
    BY <1>3 DEF Approve
  <1>4. CASE Reject
    BY <1>4 DEF Reject
  <1>5. ASSUME NEW o \in Operator, Reconcile(o) \/ Replace(o) PROVE AttemptIsAccounted'
    <2> o \in Run
      BY DEF Run
    <2>1. CASE Reconcile(o)
      BY <2>1 DEF Reconcile
    <2>2. CASE Replace(o)
      BY <2>2 DEF Replace
    <2> QED
      BY <1>5, <2>1, <2>2
  <1>6. ASSUME NEW r \in Run, Acquire(r) PROVE AttemptIsAccounted'
    BY <1>6 DEF Acquire
  <1>7. ASSUME NEW r \in Run, Work(r) PROVE AttemptIsAccounted'
    <2>1. CASE Check(r)
      BY <2>1 DEF Check
    <2>2. CASE Adopt(r)
      BY <2>2 DEF Adopt
    <2>3. CASE Inspect(r)
      BY <2>3 DEF Inspect
    <2>4. CASE Begin(r)
      BY <2>4 DEF Begin
    <2>5. CASE Read(r)
      BY <2>5 DEF Read
    <2>6. CASE Freeze(r)
      BY <2>6 DEF Freeze
    <2>7. CASE Image(r)
      BY <2>7 DEF Image
    <2>8. CASE CreatePart(r)
      BY <2>8 DEF CreatePart
    <2>9. CASE Store(r)
      BY <2>9 DEF Store
    <2>10. CASE Activate(r)
      BY <2>10 DEF Activate
    <2>11. CASE Mark(r)
      <3>1. \/ /\ state' = "active" /\ ids' = ids /\ failure' = FALSE /\ draft' = "published"
               /\ pc'[r] # "finalize"
            \/ pc'[r] = "undo" /\ UNCHANGED <<state, failure, draft, ids>>
        BY <2>11 DEF Mark
      <3>2. losses' = 0 => Required \subseteq Stored(ids)
        BY <2>11 DEF Mark, Stored, Required, Part, UseIsComplete
      <3>3. losses' = 0 => losses = 0 /\ \A s \in Run \ {r} : pc'[s] \in {"idle", "waiting"}
        BY <2>11 DEF Mark
      <3>4. UNCHANGED <<ids, losses>>
        BY <2>11 DEF Mark
      <3> QED BY <3>1, <3>2, <3>3, <3>4
    <2>12. CASE Undo(r)
      BY <2>12 DEF Undo
    <2>13. CASE Record(r)
      BY <2>13 DEF Record
    <2>14. CASE Result(r)
      BY <2>14 DEF Result
    <2>15. CASE Finalize(r)
      BY <2>15 DEF Finalize
    <2> QED
      BY <1>7, <2>1, <2>2, <2>3, <2>4, <2>5, <2>6, <2>7, <2>8, <2>9, <2>10, <2>11, <2>12, <2>13, <2>14, <2>15 DEF Work
  <1>8. ASSUME NEW r \in Run, WorkFault(r) PROVE AttemptIsAccounted'
    <2>1. CASE Crash(r)
      BY <2>1 DEF Crash
    <2>2. CASE LoseLock(r)
      BY <2>2 DEF LoseLock
    <2>3. CASE Refused(r)
      BY <2>3 DEF Refused
    <2>4. CASE BrokenOff(r)
      <3>1. (pc'[r] = "result" => failed'[r]) /\ pc'[r] # "finalize"
        BY <2>4 DEF BrokenOff, TypeOK
      <3>2. losses' = 0 => losses = 0 /\ \A s \in Run \ {r} : pc'[s] \in {"idle", "waiting"}
        BY <2>4 DEF BrokenOff
      <3> QED BY <3>1, <3>2
    <2>5. CASE ActivateFails(r)
      BY <2>5 DEF ActivateFails
    <2>6. CASE MarkFails(r)
      BY <2>6 DEF MarkFails
    <2>7. CASE UndoFails(r)
      BY <2>7 DEF UndoFails
    <2>8. CASE DatabaseFails(r)
      <3>1. (pc'[r] = "result" => failed'[r]) /\ pc'[r] # "finalize"
        BY <2>8 DEF DatabaseFails, TypeOK
      <3>2. losses' = 0 => losses = 0 /\ \A s \in Run \ {r} : pc'[s] \in {"idle", "waiting"}
        BY <2>8 DEF DatabaseFails
      <3> QED BY <3>1, <3>2
    <2> QED
      BY <1>8, <2>1, <2>2, <2>3, <2>4, <2>5, <2>6, <2>7, <2>8 DEF WorkFault
  <1>9. CASE UNCHANGED vars
    BY <1>9 DEF vars
  <1> QED
    BY <1>1, <1>2, <1>3, <1>4, <1>5, <1>6, <1>7, <1>8, <1>9 DEF Next

\* Ids leave the row only through the beginning of a replacement.
LEMMA IdsStep ==
    TypeOK /\ UseIsStored /\ BeginsTerminal /\ [Next]_vars => IdsKept
  <1> SUFFICES ASSUME TypeOK, UseIsStored, BeginsTerminal, [Next]_vars PROVE IdsKept
    OBVIOUS
  <1> pc \in [Run -> Step]
    BY DEF TypeOK
  <1> losses \in Nat
    BY PublicationAssumption DEF TypeOK
  <1> use \in [Run -> [Part -> Nat]] /\ kind \in [Run -> {"ack", "reconcile", "replace"}]
    BY DEF TypeOK
  <1> saw \in [Run -> {"none", "thawed", "frozen"}]
    BY DEF TypeOK
  <1> ids \in [Part -> Nat]
    BY DEF TypeOK
  <1> USE PublicationAssumption DEF rowVars, runVars, bounds, Launch, Goto, End, Return, Escape, Fault, IdsKept
  <1>1. CASE FounderArchives
    BY <1>1 DEF FounderArchives
  <1>2. CASE FounderPauses
    BY <1>2 DEF FounderPauses
  <1>3. CASE Approve
    BY <1>3 DEF Approve
  <1>4. CASE Reject
    BY <1>4 DEF Reject
  <1>5. ASSUME NEW o \in Operator, Reconcile(o) \/ Replace(o) PROVE IdsKept
    <2> o \in Run
      BY DEF Run
    <2>1. CASE Reconcile(o)
      BY <2>1 DEF Reconcile
    <2>2. CASE Replace(o)
      BY <2>2 DEF Replace
    <2> QED
      BY <1>5, <2>1, <2>2
  <1>6. ASSUME NEW r \in Run, Acquire(r) PROVE IdsKept
    BY <1>6 DEF Acquire
  <1>7. ASSUME NEW r \in Run, Work(r) PROVE IdsKept
    <2>1. CASE Check(r)
      BY <2>1 DEF Check
    <2>2. CASE Adopt(r)
      <3>1. \A p \in Part : ids[p] # 0 /\ ids'[p] # ids[p] => losses > 0
        <4>1. ids' = Merge(ids, use[r]) /\ pc[r] = "adopt"
          BY <2>2 DEF Adopt
        <4>2. \A p \in Part : losses = 0 /\ ids[p] # 0 => use[r][p] \in {0, ids[p]}
          BY <4>1 DEF UseIsStored, NoIds
        <4> QED BY <4>1, <4>2 DEF Merge
      <3>2. \A p \in Part : ids[p] # 0 => ids'[p] # 0
        BY <2>2 DEF Adopt, Merge
      <3> QED BY <3>1, <3>2
    <2>3. CASE Inspect(r)
      BY <2>3 DEF Inspect
    <2>4. CASE Begin(r)
      <3>1. CASE ids' = ids
        BY <3>1
      <3>2. CASE ids' # ids
        <4>1. ids = use[r] /\ ids' = NoIds /\ Terminal(use[r])
          BY <2>4, <3>2 DEF Begin, BeginsTerminal
        <4> QED BY <4>1 DEF Terminal, NoIds
      <3> QED BY <3>1, <3>2
    <2>5. CASE Read(r)
      BY <2>5 DEF Read
    <2>6. CASE Freeze(r)
      <3> DEFINE k == IF saw[r] = "none" THEN ids ELSE use[r]
      <3>1. k \in [Part -> Nat]
        OBVIOUS
      <3>2. losses = 0 => k = ids
        BY <2>6 DEF Freeze, UseIsStored
      <3> HIDE DEF k
      <3>3. ids' = ids \/ ids' = Merge(ids, k)
        BY <2>6 DEF Freeze, k
      <3>4. \A p \in Part : ids[p] # 0 /\ ids'[p] # ids[p] => losses > 0 /\ ids'[p] # 0
        BY <3>1, <3>2, <3>3 DEF Merge
      <3> QED BY <3>4
    <2>7. CASE Image(r)
      BY <2>7 DEF Image
    <2>8. CASE CreatePart(r)
      BY <2>8 DEF CreatePart
    <2>9. CASE Store(r)
      <3>1. \A p \in Part : ids[p] # 0 /\ ids'[p] # ids[p] => losses > 0
        <4>1. ids' = Merge(ids, use[r]) /\ pc[r] = "store"
          BY <2>9 DEF Store
        <4>2. \A p \in Part : losses = 0 /\ ids[p] # 0 => use[r][p] \in {0, ids[p]}
          BY <4>1 DEF UseIsStored, NoIds
        <4> QED BY <4>1, <4>2 DEF Merge
      <3>2. \A p \in Part : ids[p] # 0 => ids'[p] # 0
        BY <2>9 DEF Store, Merge
      <3> QED BY <3>1, <3>2
    <2>10. CASE Activate(r)
      BY <2>10 DEF Activate
    <2>11. CASE Mark(r)
      BY <2>11 DEF Mark
    <2>12. CASE Undo(r)
      BY <2>12 DEF Undo
    <2>13. CASE Record(r)
      <3>1. \A p \in Part : ids[p] # 0 /\ ids'[p] # ids[p] => losses > 0
        <4>1. ids' = Merge(ids, use[r]) /\ pc[r] = "record"
          BY <2>13 DEF Record
        <4>2. \A p \in Part : losses = 0 /\ ids[p] # 0 => use[r][p] \in {0, ids[p]}
          BY <4>1 DEF UseIsStored, NoIds
        <4> QED BY <4>1, <4>2 DEF Merge
      <3>2. \A p \in Part : ids[p] # 0 => ids'[p] # 0
        BY <2>13 DEF Record, Merge
      <3> QED BY <3>1, <3>2
    <2>14. CASE Result(r)
      BY <2>14 DEF Result
    <2>15. CASE Finalize(r)
      BY <2>15 DEF Finalize
    <2> QED
      BY <1>7, <2>1, <2>2, <2>3, <2>4, <2>5, <2>6, <2>7, <2>8, <2>9, <2>10, <2>11, <2>12, <2>13, <2>14, <2>15 DEF Work
  <1>8. ASSUME NEW r \in Run, WorkFault(r) PROVE IdsKept
    <2>1. CASE Crash(r)
      BY <2>1 DEF Crash
    <2>2. CASE LoseLock(r)
      BY <2>2 DEF LoseLock
    <2>3. CASE Refused(r)
      BY <2>3 DEF Refused
    <2>4. CASE BrokenOff(r)
      BY <2>4 DEF BrokenOff
    <2>5. CASE ActivateFails(r)
      BY <2>5 DEF ActivateFails
    <2>6. CASE MarkFails(r)
      BY <2>6 DEF MarkFails
    <2>7. CASE UndoFails(r)
      BY <2>7 DEF UndoFails
    <2>8. CASE DatabaseFails(r)
      BY <2>8 DEF DatabaseFails
    <2> QED
      BY <1>8, <2>1, <2>2, <2>3, <2>4, <2>5, <2>6, <2>7, <2>8 DEF WorkFault
  <1>9. CASE UNCHANGED vars
    BY <1>9 DEF vars
  <1> QED
    BY <1>1, <1>2, <1>3, <1>4, <1>5, <1>6, <1>7, <1>8, <1>9 DEF Next

\* A run that lets go of a hierarchy has stored it, or the loss is remembered.
LEMMA HolderStep ==
    TypeOK /\ AckAwaitsApproval /\ [Next]_vars => HoldersKeep
  <1> SUFFICES ASSUME TypeOK, AckAwaitsApproval, [Next]_vars PROVE HoldersKeep
    OBVIOUS
  <1> pc \in [Run -> Step]
    BY DEF TypeOK
  <1> use \in [Run -> [Part -> Nat]] /\ kind \in [Run -> {"ack", "reconcile", "replace"}]
    BY DEF TypeOK
  <1> saw \in [Run -> {"none", "thawed", "frozen"}]
    BY DEF TypeOK
  <1> ids \in [Part -> Nat]
    BY DEF TypeOK
  <1> AckRun \in Run /\ AckRun \notin Operator
    BY PublicationAssumption DEF Run
  <1> USE PublicationAssumption DEF rowVars, runVars, bounds, Launch, Goto, End, Return, Escape, Fault, HoldersKeep, AckAwaitsApproval
  <1>1. CASE FounderArchives
    BY <1>1 DEF FounderArchives
  <1>2. CASE FounderPauses
    BY <1>2 DEF FounderPauses
  <1>3. CASE Approve
    BY <1>3 DEF Approve
  <1>4. CASE Reject
    BY <1>4 DEF Reject
  <1>5. ASSUME NEW o \in Operator, Reconcile(o) \/ Replace(o) PROVE HoldersKeep
    <2> o \in Run
      BY DEF Run
    <2>1. CASE Reconcile(o)
      BY <2>1 DEF Reconcile
    <2>2. CASE Replace(o)
      BY <2>2 DEF Replace
    <2> QED
      BY <1>5, <2>1, <2>2
  <1>6. ASSUME NEW r \in Run, Acquire(r) PROVE HoldersKeep
    BY <1>6 DEF Acquire
  <1>7. ASSUME NEW r \in Run, Work(r) PROVE HoldersKeep
    <2>1. CASE Check(r)
      BY <2>1 DEF Check
    <2>2. CASE Adopt(r)
      BY <2>2 DEF Adopt
    <2>3. CASE Inspect(r)
      BY <2>3 DEF Inspect
    <2>4. CASE Begin(r)
      BY <2>4 DEF Begin
    <2>5. CASE Read(r)
      BY <2>5 DEF Read
    <2>6. CASE Freeze(r)
      BY <2>6 DEF Freeze
    <2>7. CASE Image(r)
      BY <2>7 DEF Image
    <2>8. CASE CreatePart(r)
      <3>1. /\ pc'[r] \in {"create", "store"}
            /\ \A s \in Run \ {r} : use'[s] = use[s] /\ pc'[s] = pc[s]
        BY <2>8 DEF CreatePart
      <3>2. 1 \in Part /\ (Made(r) # 0 => 1 <= NextPart(r))
        <4>1. Made(r) # 0 => hier[Made(r)].made \in Nat
          <5>1. Made(r) # 0 => hier[Made(r)] \in Resource
            <6>1. 1 \in Part /\ use \in [Run -> [Part -> 0 .. Len(hier)]]
              BY DEF TypeOK, Part
            <6>2. Made(r) \in 0 .. Len(hier)
              BY <6>1 DEF Made
            <6> QED BY <6>2, HierTyped
          <5> QED BY <5>1 DEF Resource, Part
        <4> QED BY <4>1 DEF Part, NextPart
      <3>3. Made(r) # 0 => use'[r][1] = Made(r)
        BY <2>8, <3>2 DEF CreatePart
      <3> QED BY <3>1, <3>3 DEF Made
    <2>9. CASE Store(r)
      <3>1. /\ ids' = Merge(ids, use[r])
            /\ \A s \in Run \ {r} : use'[s] = use[s] /\ pc'[s] = pc[s]
        BY <2>9 DEF Store
      <3>2. use[r][1] # 0 => ids'[1] = use[r][1]
        BY <3>1 DEF Merge, Part
      <3> QED BY <3>1, <3>2
    <2>10. CASE Activate(r)
      BY <2>10 DEF Activate
    <2>11. CASE Mark(r)
      BY <2>11 DEF Mark
    <2>12. CASE Undo(r)
      BY <2>12 DEF Undo
    <2>13. CASE Record(r)
      <3>1. /\ ids' = Merge(ids, use[r])
            /\ \A s \in Run \ {r} : use'[s] = use[s] /\ pc'[s] = pc[s]
        BY <2>13 DEF Record
      <3>2. use[r][1] # 0 => ids'[1] = use[r][1]
        BY <3>1 DEF Merge, Part
      <3> QED BY <3>1, <3>2
    <2>14. CASE Result(r)
      BY <2>14 DEF Result
    <2>15. CASE Finalize(r)
      BY <2>15 DEF Finalize
    <2> QED
      BY <1>7, <2>1, <2>2, <2>3, <2>4, <2>5, <2>6, <2>7, <2>8, <2>9, <2>10, <2>11, <2>12, <2>13, <2>14, <2>15 DEF Work
  <1>8. ASSUME NEW r \in Run, WorkFault(r) PROVE HoldersKeep
    <2>1. CASE Crash(r)
      BY <2>1 DEF Crash
    <2>2. CASE LoseLock(r)
      BY <2>2 DEF LoseLock
    <2>3. CASE Refused(r)
      BY <2>3 DEF Refused
    <2>4. CASE BrokenOff(r)
      BY <2>4 DEF BrokenOff
    <2>5. CASE ActivateFails(r)
      BY <2>5 DEF ActivateFails
    <2>6. CASE MarkFails(r)
      BY <2>6 DEF MarkFails
    <2>7. CASE UndoFails(r)
      BY <2>7 DEF UndoFails
    <2>8. CASE DatabaseFails(r)
      BY <2>8 DEF DatabaseFails
    <2> QED
      BY <1>8, <2>1, <2>2, <2>3, <2>4, <2>5, <2>6, <2>7, <2>8 DEF WorkFault
  <1>9. CASE UNCHANGED vars
    BY <1>9 DEF vars
  <1> QED
    BY <1>1, <1>2, <1>3, <1>4, <1>5, <1>6, <1>7, <1>8, <1>9 DEF Next

\* A new hierarchy is held by the run that makes it.
LEMMA NewStep ==
    TypeOK /\ CreatorsApart /\ [Next]_vars => NewIsHeld
  <1> SUFFICES ASSUME TypeOK, CreatorsApart, [Next]_vars PROVE NewIsHeld
    OBVIOUS
  <1> pc \in [Run -> Step]
    BY DEF TypeOK
  <1> use \in [Run -> [Part -> Nat]] /\ kind \in [Run -> {"ack", "reconcile", "replace"}]
    BY DEF TypeOK
  <1> saw \in [Run -> {"none", "thawed", "frozen"}]
    BY DEF TypeOK
  <1> ids \in [Part -> Nat]
    BY DEF TypeOK
  <1> USE PublicationAssumption DEF rowVars, runVars, bounds, Launch, Goto, End, Return, Escape, Fault, NewIsHeld
  <1>1. CASE FounderArchives
    BY <1>1 DEF FounderArchives
  <1>2. CASE FounderPauses
    BY <1>2 DEF FounderPauses
  <1>3. CASE Approve
    BY <1>3 DEF Approve
  <1>4. CASE Reject
    BY <1>4 DEF Reject
  <1>5. ASSUME NEW o \in Operator, Reconcile(o) \/ Replace(o) PROVE NewIsHeld
    <2> o \in Run
      BY DEF Run
    <2>1. CASE Reconcile(o)
      BY <2>1 DEF Reconcile
    <2>2. CASE Replace(o)
      BY <2>2 DEF Replace
    <2> QED
      BY <1>5, <2>1, <2>2
  <1>6. ASSUME NEW r \in Run, Acquire(r) PROVE NewIsHeld
    BY <1>6 DEF Acquire
  <1>7. ASSUME NEW r \in Run, Work(r) PROVE NewIsHeld
    <2>1. CASE Check(r)
      BY <2>1 DEF Check
    <2>2. CASE Adopt(r)
      BY <2>2 DEF Adopt
    <2>3. CASE Inspect(r)
      BY <2>3 DEF Inspect
    <2>4. CASE Begin(r)
      BY <2>4 DEF Begin
    <2>5. CASE Read(r)
      BY <2>5 DEF Read
    <2>6. CASE Freeze(r)
      BY <2>6 DEF Freeze
    <2>7. CASE Image(r)
      BY <2>7 DEF Image
    <2>8. CASE CreatePart(r)
      <3>1. /\ pc[r] = "create" /\ Grow(r) /\ pc'[r] \in {"create", "store"}
        BY <2>8 DEF CreatePart
      <3>2. Made(r) # 0 => hier[Made(r)].made < 4
        BY <3>1 DEF CreatorsApart
      <3>3. Len(hier') > Len(hier) => Made(r) = 0 /\ Len(hier') = Len(hier) + 1
        BY <3>1, <3>2, HierGrown, HierTyped
      <3>4. Made(r) = 0 => use'[r][1] = Len(hier) + 1
        BY <2>8 DEF CreatePart, NextPart, Part
      <3> QED BY <3>1, <3>3, <3>4
    <2>9. CASE Store(r)
      BY <2>9 DEF Store
    <2>10. CASE Activate(r)
      BY <2>10 DEF Activate
    <2>11. CASE Mark(r)
      BY <2>11 DEF Mark
    <2>12. CASE Undo(r)
      BY <2>12 DEF Undo
    <2>13. CASE Record(r)
      BY <2>13 DEF Record
    <2>14. CASE Result(r)
      BY <2>14 DEF Result
    <2>15. CASE Finalize(r)
      BY <2>15 DEF Finalize
    <2> QED
      BY <1>7, <2>1, <2>2, <2>3, <2>4, <2>5, <2>6, <2>7, <2>8, <2>9, <2>10, <2>11, <2>12, <2>13, <2>14, <2>15 DEF Work
  <1>8. ASSUME NEW r \in Run, WorkFault(r) PROVE NewIsHeld
    <2>1. CASE Crash(r)
      BY <2>1 DEF Crash
    <2>2. CASE LoseLock(r)
      BY <2>2 DEF LoseLock
    <2>3. CASE Refused(r)
      BY <2>3 DEF Refused
    <2>4. CASE BrokenOff(r)
      BY <2>4 DEF BrokenOff
    <2>5. CASE ActivateFails(r)
      BY <2>5 DEF ActivateFails
    <2>6. CASE MarkFails(r)
      BY <2>6 DEF MarkFails
    <2>7. CASE UndoFails(r)
      BY <2>7 DEF UndoFails
    <2>8. CASE DatabaseFails(r)
      BY <2>8 DEF DatabaseFails
    <2> QED
      BY <1>8, <2>1, <2>2, <2>3, <2>4, <2>5, <2>6, <2>7, <2>8 DEF WorkFault
  <1>9. CASE UNCHANGED vars
    BY <1>9 DEF vars
  <1> QED
    BY <1>1, <1>2, <1>3, <1>4, <1>5, <1>6, <1>7, <1>8, <1>9 DEF Next

\* A published draft stays accounted for.
LEMMA AccountStep ==
    /\ TypeOK /\ UseIsComplete /\ UseIsStored /\ WorkIsAuthorized /\ AttemptIsAccounted /\ PublishedIsAccounted
    /\ [Next]_vars
    => PublishedIsAccounted'
  <1> SUFFICES ASSUME TypeOK, UseIsComplete, UseIsStored, WorkIsAuthorized, AttemptIsAccounted, PublishedIsAccounted, [Next]_vars
               PROVE  PublishedIsAccounted'
    OBVIOUS
  <1> pc \in [Run -> Step]
    BY DEF TypeOK
  <1> losses \in Nat
    BY PublicationAssumption DEF TypeOK
  <1> use \in [Run -> [Part -> Nat]] /\ kind \in [Run -> {"ack", "reconcile", "replace"}]
    BY DEF TypeOK
  <1> saw \in [Run -> {"none", "thawed", "frozen"}]
    BY DEF TypeOK
  <1> ids \in [Part -> Nat]
    BY DEF TypeOK
  <1> USE PublicationAssumption DEF rowVars, runVars, bounds, Launch, Goto, End, Return, Escape, Fault, AttemptIsAccounted, PublishedIsAccounted, IsActive
  <1>1. CASE FounderArchives
    BY <1>1 DEF FounderArchives
  <1>2. CASE FounderPauses
    BY <1>2 DEF FounderPauses
  <1>3. CASE Approve
    BY <1>3 DEF Approve
  <1>4. CASE Reject
    BY <1>4 DEF Reject
  <1>5. ASSUME NEW o \in Operator, Reconcile(o) \/ Replace(o) PROVE PublishedIsAccounted'
    <2> o \in Run
      BY DEF Run
    <2>1. CASE Reconcile(o)
      BY <2>1 DEF Reconcile
    <2>2. CASE Replace(o)
      BY <2>2 DEF Replace
    <2> QED
      BY <1>5, <2>1, <2>2
  <1>6. ASSUME NEW r \in Run, Acquire(r) PROVE PublishedIsAccounted'
    BY <1>6 DEF Acquire
  <1>7. ASSUME NEW r \in Run, Work(r) PROVE PublishedIsAccounted'
    <2>1. CASE Check(r)
      BY <2>1 DEF Check
    <2>2. CASE Adopt(r)
      <3>1. losses' = 0 => draft' = "approved"
        BY <2>2 DEF Adopt, UseIsStored
      <3> QED BY <3>1
    <2>3. CASE Inspect(r)
      BY <2>3 DEF Inspect
    <2>4. CASE Begin(r)
      BY <2>4 DEF Begin
    <2>5. CASE Read(r)
      BY <2>5 DEF Read
    <2>6. CASE Freeze(r)
      <3>1. losses' = 0 => draft = "approved" \/ (attempt[r] \in DOMAIN attempts /\ attempts[attempt[r]] = "open")
        BY <2>6 DEF Freeze, WorkIsAuthorized, Open, TypeOK
      <3>2. UNCHANGED <<draft, attempts, losses>>
        BY <2>6 DEF Freeze
      <3> QED BY <3>1, <3>2
    <2>7. CASE Image(r)
      BY <2>7 DEF Image
    <2>8. CASE CreatePart(r)
      BY <2>8 DEF CreatePart
    <2>9. CASE Store(r)
      <3>1. losses' = 0 => draft = "approved" \/ (attempt[r] \in DOMAIN attempts /\ attempts[attempt[r]] = "open")
        BY <2>9 DEF Store, WorkIsAuthorized, Open, TypeOK
      <3>2. UNCHANGED <<draft, attempts, losses>>
        BY <2>9 DEF Store
      <3> QED BY <3>1, <3>2
    <2>10. CASE Activate(r)
      BY <2>10 DEF Activate
    <2>11. CASE Mark(r)
      <3>1. losses' = 0 => Required \subseteq Stored(ids)
        BY <2>11 DEF Mark, Stored, Required, Part, UseIsComplete, UseIsStored
      <3>2. UNCHANGED <<ids, attempts, losses>>
        BY <2>11 DEF Mark
      <3>3. \/ state' = "active"
            \/ UNCHANGED <<state, failure, draft>>
        BY <2>11 DEF Mark
      <3> QED BY <3>1, <3>2, <3>3
    <2>12. CASE Undo(r)
      BY <2>12 DEF Undo
    <2>13. CASE Record(r)
      BY <2>13 DEF Record
    <2>14. CASE Result(r)
      BY <2>14 DEF Result
    <2>15. CASE Finalize(r)
      BY <2>15 DEF Finalize
    <2> QED
      BY <1>7, <2>1, <2>2, <2>3, <2>4, <2>5, <2>6, <2>7, <2>8, <2>9, <2>10, <2>11, <2>12, <2>13, <2>14, <2>15 DEF Work
  <1>8. ASSUME NEW r \in Run, WorkFault(r) PROVE PublishedIsAccounted'
    <2>1. CASE Crash(r)
      BY <2>1 DEF Crash
    <2>2. CASE LoseLock(r)
      BY <2>2 DEF LoseLock
    <2>3. CASE Refused(r)
      BY <2>3 DEF Refused
    <2>4. CASE BrokenOff(r)
      BY <2>4 DEF BrokenOff
    <2>5. CASE ActivateFails(r)
      BY <2>5 DEF ActivateFails
    <2>6. CASE MarkFails(r)
      <3>1. losses' = 0 => Required \subseteq Stored(ids)
        BY <2>6 DEF MarkFails, Stored, Required, Part, UseIsComplete, UseIsStored
      <3>2. UNCHANGED <<ids, attempts, losses>>
        BY <2>6 DEF MarkFails
      <3>3. \/ state' = "active"
            \/ UNCHANGED <<state, failure, draft>>
        BY <2>6 DEF MarkFails
      <3> QED BY <3>1, <3>2, <3>3
    <2>7. CASE UndoFails(r)
      BY <2>7 DEF UndoFails
    <2>8. CASE DatabaseFails(r)
      BY <2>8 DEF DatabaseFails
    <2> QED
      BY <1>8, <2>1, <2>2, <2>3, <2>4, <2>5, <2>6, <2>7, <2>8 DEF WorkFault
  <1>9. CASE UNCHANGED vars
    BY <1>9 DEF vars
  <1> QED
    BY <1>1, <1>2, <1>3, <1>4, <1>5, <1>6, <1>7, <1>8, <1>9 DEF Next

-----------------------------------------------------------------------------
(* What follows of Meta from the steps of the runs.                         *)

\* At most one hierarchy is new.
LEMMA OneIsNew ==
    ASSUME TypeOK, MetaGrows, NEW h \in DOMAIN hier'
    PROVE  h \in DOMAIN hier \/ (h = Len(hier') /\ Len(hier') > Len(hier))
  <1>1. \A n \in Nat : \A m \in {n, n + 1} : \A i \in 1 .. m : i \in 1 .. n \/ (i = m /\ m > n)
    OBVIOUS
  <1>2. DOMAIN hier = 1 .. Len(hier) /\ Len(hier) \in Nat
    BY HierTyped
  <1>3. DOMAIN hier' = 1 .. Len(hier') /\ Len(hier') \in {Len(hier), Len(hier) + 1}
    BY DEF MetaGrows
  <1> QED BY <1>1, <1>2, <1>3

\* Terminal hierarchies stay terminal, so a replacement still begins from one
\* when Meta has changed since it looked.
LEMMA TerminalStep ==
    TypeOK /\ GivenIsComplete /\ BeginsTerminal /\ MetaGrows /\ BeginsFrom => BeginsTerminal'
  <1> SUFFICES ASSUME TypeOK, GivenIsComplete, BeginsTerminal, MetaGrows, BeginsFrom,
                      NEW r \in Run, pc'[r] = "begin", NEW p \in Required
               PROVE  hier'[use'[r][p]].status = "terminal"
    BY DEF BeginsTerminal, Terminal
  <1>1. use'[r] = use[r] /\ Terminal(use[r]) /\ pc[r] \in {"inspect", "begin"}
    BY DEF BeginsFrom, BeginsTerminal
  <1>2. p \in Part
    BY DEF Required, Part
  <1>3. use[r][p] \in DOMAIN hier
    BY <1>1, <1>2, HierTyped DEF GivenIsComplete, TypeOK
  <1> QED BY <1>1, <1>3 DEF Terminal, MetaGrows

\* An active hierarchy was active before and keeps its ids, or a run has just
\* activated what the row stores.
LEMMA ServingStep ==
    /\ TypeOK /\ UseIsComplete /\ UseIsStored /\ ServingIsStored
    /\ MetaGrows /\ IdsKept /\ NothingForgotten
    => ServingIsStored'
  <1> SUFFICES ASSUME TypeOK, UseIsComplete, UseIsStored, ServingIsStored,
                      MetaGrows, IdsKept, NothingForgotten,
                      losses' = 0, NEW h \in DOMAIN hier', hier'[h].status = "active", NEW p \in Required
               PROVE  ids'[p] = h
    BY DEF ServingIsStored
  <1>1. losses = 0
    BY DEF NothingForgotten
  <1>2. p \in Part
    BY DEF Required, Part
  <1>3. h \in DOMAIN hier
    <2>1. Len(hier') > Len(hier) => hier'[Len(hier')].status = "paused"
      BY DEF MetaGrows
    <2> QED BY <2>1, OneIsNew
  <1>4. ids[p] = h /\ h # 0
    <2>1. CASE hier[h].status = "active"
      BY <1>1, <1>3, <2>1, HierTyped DEF ServingIsStored
    <2>2. CASE hier[h].status # "active"
      <3>1. PICK r \in Run : pc[r] = "activate" /\ Uniform(use[r]) /\ use[r][1] = h
        BY <1>3, <2>2 DEF MetaGrows
      <3> QED BY <1>1, <1>3, <3>1, HierTyped DEF UseIsStored, Uniform
    <2> QED BY <2>1, <2>2
  <1>5. hier[h].status # "terminal"
    BY <1>3 DEF MetaGrows
  <1> QED BY <1>1, <1>2, <1>4, <1>5 DEF IdsKept

\* A run that holds a hierarchy passes it on to the row.
LEMMA KnownStep ==
    /\ TypeOK /\ HierarchyIsKnown
    /\ MetaGrows /\ IdsKept /\ HoldersKeep /\ NewIsHeld /\ NothingForgotten
    => HierarchyIsKnown'
  <1> SUFFICES ASSUME TypeOK, HierarchyIsKnown,
                      MetaGrows, IdsKept, HoldersKeep, NewIsHeld, NothingForgotten,
                      losses' = 0, ~lost', NEW h \in DOMAIN hier', hier'[h].status # "terminal"
               PROVE  \/ ids'[1] = h
                      \/ \E r \in Run : pc'[r] \in {"create", "store", "record"} /\ use'[r][1] = h
    BY DEF HierarchyIsKnown
  <1>1. losses = 0 /\ ~lost
    BY DEF NothingForgotten
  <1>2. 1 \in Part /\ 1 \in Required
    BY DEF Part, Required
  <1>3. CASE h \in DOMAIN hier
    <2>1. hier[h].status # "terminal" /\ h # 0
      <3>1. hier[h].status # "terminal"
        BY <1>3 DEF MetaGrows
      <3> QED BY <1>3, <3>1, HierTyped
    <2>2. CASE ids[1] = h
      BY <1>1, <1>2, <2>1, <2>2 DEF IdsKept
    <2>3. ASSUME NEW r \in Run, pc[r] \in {"create", "store", "record"}, use[r][1] = h
          PROVE  \/ ids'[1] = h
                 \/ pc'[r] \in {"create", "store", "record"} /\ use'[r][1] = h
      BY <2>1, <2>3 DEF HoldersKeep
    <2> QED BY <1>1, <1>3, <2>1, <2>2, <2>3 DEF HierarchyIsKnown
  <1>4. CASE h \notin DOMAIN hier
    <2>1. h = Len(hier') /\ Len(hier') > Len(hier)
      BY <1>4, OneIsNew
    <2> QED BY <2>1 DEF NewIsHeld
  <1> QED BY <1>3, <1>4

-----------------------------------------------------------------------------
(* The invariant and what it says.                                          *)

\* The parts of the type invariant.
LEMMA TypeParts == SimpleTypeOK /\ BoundsTypeOK /\ AttemptTypeOK /\ IdsTypeOK /\ hier \in Seq(Resource) => TypeOK
  BY DEF SimpleTypeOK, BoundsTypeOK, AttemptTypeOK, IdsTypeOK, Resource, TypeOK

\* Nothing is begun and nobody is at work.
LEMMA InitInv == Init => IInv
  <1> SUFFICES ASSUME Init PROVE IInv
    OBVIOUS
  <1>1. TypeOK
    <2>1. SimpleTypeOK
      BY DEF Init, SimpleTypeOK, Step
    <2>2. BoundsTypeOK
      <3>1. lost \in BOOLEAN
        BY DEF Init
      <3>2. 0 \in 0 .. MaxFaults /\ 0 \in 0 .. MaxLosses
        BY PublicationAssumption
      <3> QED BY <3>1, <3>2 DEF Init, BoundsTypeOK
    <2>3. AttemptTypeOK /\ IdsTypeOK /\ hier \in Seq(Resource)
      BY DEF Init, AttemptTypeOK, IdsTypeOK, NoIds
    <2> QED BY <2>1, <2>2, <2>3, TypeParts
  <1>2. \A r \in Run : pc[r] = "idle"
    BY DEF Init
  <1>3. LockHeld /\ GivenIsComplete /\ BeginsTerminal /\ AttemptHasRow /\ CommandKept /\ AckAwaitsApproval
    BY <1>2 DEF Init, LockHeld, Working, GivenIsComplete, BeginsTerminal, AttemptHasRow, CommandKept,
                AckAwaitsApproval, Run
  <1>4. CreatorsApart /\ UseIsComplete /\ UseIsStored /\ WorkIsAuthorized /\ AttemptIsAccounted
    BY <1>2 DEF CreatorsApart, UseIsComplete, UseIsStored, WorkIsAuthorized, AttemptIsAccounted
  <1>5. HierarchyIsKnown /\ ServingIsStored /\ PublishedIsAccounted
    <2>1. DOMAIN hier = {}
      BY DEF Init
    <2> QED BY <2>1 DEF Init, HierarchyIsKnown, ServingIsStored, PublishedIsAccounted
  <1> QED BY <1>1, <1>3, <1>4, <1>5 DEF IInv

\* Every conjunct has its own lemma above.
LEMMA NextInv == IInv /\ [Next]_vars => IInv'
  <1> SUFFICES ASSUME IInv, [Next]_vars PROVE IInv'
    OBVIOUS
  <1> USE DEF IInv
  <1>1. MetaGrows /\ BeginsFrom /\ IdsKept /\ HoldersKeep /\ NewIsHeld /\ NothingForgotten
    BY MetaStep, BeginStep, IdsStep, HolderStep, NewStep, HistoryStep
  <1>2. TypeOK'
    <2>1. SimpleTypeOK' /\ BoundsTypeOK' /\ AttemptTypeOK' /\ IdsTypeOK'
      BY <1>1, SimpleTypes, BoundsTypes, AttemptTypes, IdsTypes
    <2>2. hier' \in Seq(Resource)
      BY <1>1 DEF MetaGrows
    <2> QED BY <2>1, <2>2 DEF SimpleTypeOK, BoundsTypeOK, AttemptTypeOK, IdsTypeOK, Resource, TypeOK
  <1>3. LockHeld' /\ GivenIsComplete' /\ AttemptHasRow' /\ CommandKept' /\ AckAwaitsApproval'
    BY LockStep, GivenStep, RowStep, CommandStep, AckStep
  <1>4. CreatorsApart' /\ UseIsComplete' /\ UseIsStored' /\ WorkIsAuthorized'
    BY CreatorsStep, UseStep, StoredStep, AuthStep
  <1>5. AttemptIsAccounted' /\ PublishedIsAccounted'
    BY AttemptStep, AccountStep
  <1>6. BeginsTerminal' /\ ServingIsStored' /\ HierarchyIsKnown'
    BY <1>1, TerminalStep, ServingStep, KnownStep
  <1> QED BY <1>2, <1>3, <1>4, <1>5, <1>6

\* The inductive invariant holds in every behaviour.
THEOREM Invariance == Spec => []IInv
  BY InitInv, NextInv, PTL DEF Spec

\* The variables keep their types.
THEOREM TypeCorrect == Spec => []TypeOK
  <1>1. IInv => TypeOK
    BY DEF IInv
  <1> QED BY Invariance, <1>1, PTL

\* What serves in Meta can be found by the stored ids, however many commands
\* run, crash and fail.
THEOREM Serving == Spec => []ServingIsStored
  <1>1. IInv => ServingIsStored
    BY DEF IInv
  <1> QED BY Invariance, <1>1, PTL

\* The row of a published draft is active or says why it is not.
THEOREM Published == Spec => []PublishedIsAccounted
  <1>1. IInv => PublishedIsAccounted
    BY DEF IInv
  <1> QED BY Invariance, <1>1, PTL

\* Ids leave the row only after their hierarchy became terminal.
THEOREM Kept == Spec => IdsKeptUntilTerminal
  <1>1. IInv /\ [Next]_vars => IdsKept
    BY IdsStep DEF IInv
  <1>2. IdsKept => [\A p \in Part : ids[p] # 0 /\ ids'[p] # ids[p] =>
                        IF ids'[p] = 0 THEN p \in Required => hier[ids[p]].status = "terminal"
                        ELSE losses > 0]_vars
    BY DEF IdsKept
  <1> QED BY Invariance, <1>1, <1>2, PTL DEF Spec, IdsKeptUntilTerminal

\* A second hierarchy is begun only when all the others are terminal.
THEOREM OneHierarchy == Spec => NoSecondHierarchy
  <1>1. ASSUME IInv, [Next]_vars, Len(hier') > Len(hier), losses = 0, ~lost, NEW h \in DOMAIN hier
        PROVE  hier[h].status = "terminal"
    <2>1. TypeOK /\ LockHeld /\ UseIsStored /\ HierarchyIsKnown /\ MetaGrows
      BY <1>1, MetaStep DEF IInv
    <2>2. PICK r \in Run : pc[r] = "create" /\ Made(r) = 0
      BY <1>1, <2>1 DEF MetaGrows
    <2>3. lock = r /\ ids = NoIds
      BY <1>1, <2>1, <2>2 DEF LockHeld, Working, UseIsStored
    <2>4. ids[1] # h
      BY <2>1, <2>3, HierTyped DEF NoIds, Part
    <2>5. ASSUME NEW s \in Run, pc[s] \in {"create", "store", "record"}, use[s][1] = h PROVE FALSE
      <3>1. s = r
        BY <1>1, <2>1, <2>3, <2>5 DEF LockHeld, Working
      <3> QED BY <2>1, <2>2, <2>5, <3>1, HierTyped DEF Made
    <2> QED BY <1>1, <2>1, <2>4, <2>5 DEF HierarchyIsKnown
  <1>2. IInv /\ [Next]_vars =>
          [Len(hier') > Len(hier) /\ losses = 0 /\ ~lost =>
              \A h \in DOMAIN hier : hier[h].status = "terminal"]_vars
    BY <1>1
  <1> QED BY Invariance, <1>2, PTL DEF Spec, NoSecondHierarchy

=============================================================================
