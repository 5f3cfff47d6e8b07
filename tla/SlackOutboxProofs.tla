-------------------------- MODULE SlackOutboxProofs --------------------------
(***************************************************************************)
(* Proofs about SlackOutbox, for any deliverers, notices, variants and     *)
(* number of faults.  IInv is inductive; the guarantees about bindings,    *)
(* notices, outcomes and repeated messages follow from it.                 *)
(***************************************************************************)
EXTENDS SlackOutbox, SumTheorems

-----------------------------------------------------------------------------
(* The inductive invariant.                                                 *)

\* Rows are inserted in the order of their ids, and a row that is not there
\* yet has been neither posted nor settled.
RowsInOrder ==
    \A m \in Row : ~Exists(m) =>
        /\ \A n \in Row : n > m => ~Exists(n)
        /\ status[m] = "pending" /\ posts[m] = 0

\* A thread is announced once.
OneRoot == \A m, n \in Root : m = n

\* A deliverer at work has a row, and after an answer of Slack a post of it.
DeliverersHold ==
    \A w \in Deliverer :
        /\ pc[w] # "idle" => row[w] \in Row /\ Exists(row[w])
        /\ pc[w] = "posted" => 1 <= ts[w] /\ ts[w] <= posts[row[w]]

\* Deliverers that are about to post a row
Sending(m) == {w \in Deliverer : row[w] = m /\ pc[w] = "checked"}

FewSend == \A m \in Row : IsFiniteSet(Sending(m))

\* A row is guarded while the holder of its lease posts it and records the post.
Guarded(m) ==
    /\ m \in live
    /\ \E w \in Deliverer : owner[m] = w /\ row[w] = m /\ pc[w] \in {"checked", "posted"}

\* An open row that nobody guards will be posted once more.
Future(m) == IF Open(m) /\ ~Guarded(m) THEN 1 ELSE 0
Expected(m) == posts[m] + Cardinality(Sending(m)) + Future(m)

\* Every post beyond the first of its row is paid for by a fault when it becomes
\* unavoidable: when a guard goes, by a crash, an error or an overrun lease.
Excess == [m \in Row |-> IF Expected(m) > 0 THEN Expected(m) - 1 ELSE 0]
RepeatsArePaid == SumFunctionOnSet(Excess, Row) <= faults

IInv ==
    /\ TypeOK
    /\ RowsInOrder
    /\ OneRoot
    /\ DeliverersHold
    /\ BindingIsDelivered
    /\ OneOpenNotice
    /\ FewSend
    /\ RepeatsArePaid

-----------------------------------------------------------------------------
(* Types.                                                                   *)

\* Row ids are numbers.
LEMMA RowIds == Row \subseteq Nat
  <1>1. Cardinality(AuditKey) \in Nat
    BY BoundsAssumption, FS_CardinalityType
  <1>2. QED
    BY <1>1, BoundsAssumption DEF Row

\* The initial state is typed.
LEMMA InitTypes == Init => TypeOK
  BY BoundsAssumption DEF Init, TypeOK, NoAudit

\* What a step leaves of the rows.
RowTypeOK ==
    /\ kind \in [Row -> {"none", "root_approval", "thread_approval", "autonomy_audit"}]
    /\ key \in [Row -> 0 .. MaxRevision \cup AuditKey]

\* An insertion keeps the types of the rows.
LEMMA InsertTypes ==
    ASSUME RowTypeOK, NEW m \in Row, NEW kd \in {"root_approval", "thread_approval", "autonomy_audit"},
           NEW k \in 0 .. MaxRevision \cup AuditKey, Insert(m, kd, k)
    PROVE  RowTypeOK'
  BY DEF RowTypeOK, Insert

\* Every step of an enqueuer, of time or of a deliverer is typed.
LEMMA TypesStep == TypeOK /\ DeliverersHold /\ [Next]_vars => TypeOK'
  <1> SUFFICES ASSUME TypeOK, DeliverersHold, [Next]_vars PROVE TypeOK'
    OBVIOUS
  <1>1. CASE EnqueueRoot
    BY <1>1, InsertTypes, BoundsAssumption
       DEF EnqueueRoot, TypeOK, RowTypeOK, threadVars, leaseVars, workerVars
  <1>2. CASE EnqueueVariant
    BY <1>2, InsertTypes, BoundsAssumption
       DEF EnqueueVariant, TypeOK, RowTypeOK, threadVars, leaseVars, workerVars
  <1>3. CASE Decide
    BY <1>3 DEF Decide, TypeOK, rowVars, leaseVars, workerVars
  <1>4. ASSUME NEW k \in AuditKey, RecordAudit(k) PROVE TypeOK'
    BY <1>4, InsertTypes
       DEF RecordAudit, Superseded, TypeOK, RowTypeOK, threadVars, rowVars, workerVars
  <1>5. ASSUME NEW m \in Row, RetryDue(m) \/ OrphanLeaseExpires(m) \/ LeaseOverrun(m)
        PROVE  TypeOK'
    BY <1>5, BoundsAssumption
       DEF RetryDue, OrphanLeaseExpires, LeaseOverrun, Expire, TypeOK, threadVars, rowVars, workerVars
  <1>6. ASSUME NEW w \in Deliverer, Deliver(w) PROVE TypeOK'
    <2> USE DEF TypeOK, threadVars, rowVars, leaseVars, Goto, Done, Release
    <2>1. CASE Claim(w)
      BY <2>1 DEF Claim, Due
    <2>2. CASE CancelStale(w)
      BY <2>2 DEF CancelStale
    <2>3. CASE Check(w)
      BY <2>3 DEF Check
    <2>4. CASE Post(w, "posted")
      BY <2>4 DEF Post, DeliverersHold
    <2>5. CASE FinalizeSuccess(w)
      <3>1. row[w] \in Row /\ ts[w] \in Nat
        BY <2>5 DEF FinalizeSuccess, DeliverersHold
      <3>2. binding' \in Nat
        BY <2>5, <3>1 DEF FinalizeSuccess
      <3>3. QED
        BY <2>5, <3>1, <3>2 DEF FinalizeSuccess
    <2>6. CASE FinalizeFailure(w)
      BY <2>6 DEF FinalizeFailure, DeliverersHold
    <2>7. CASE FinalizeLost(w)
      BY <2>7 DEF FinalizeLost
    <2>8. QED
      BY <1>6, <2>1, <2>2, <2>3, <2>4, <2>5, <2>6, <2>7 DEF Deliver
  <1>7. ASSUME NEW w \in Deliverer, DeliveryFault(w) PROVE TypeOK'
    <2> USE BoundsAssumption DEF TypeOK, threadVars, rowVars, leaseVars, Goto, Done
    <2>1. CASE Post(w, "error")
      BY <2>1 DEF Post, DeliverersHold
    <2>2. CASE DeliveryError(w)
      BY <2>2 DEF DeliveryError
    <2>3. CASE Crash(w)
      BY <2>3 DEF Crash
    <2>4. QED
      BY <1>7, <2>1, <2>2, <2>3 DEF DeliveryFault
  <1>8. CASE UNCHANGED vars
    BY <1>8 DEF vars, TypeOK, threadVars, rowVars, leaseVars, workerVars
  <1>9. QED
    BY <1>1, <1>2, <1>3, <1>4, <1>5, <1>6, <1>7, <1>8 DEF Next

-----------------------------------------------------------------------------
(* Rows and deliverers.                                                     *)

\* A new row comes after all others.
LEMMA InsertLast ==
    ASSUME TypeOK, RowsInOrder, NEW m \in Row, NEW kd, kd # "none", NEW k, Insert(m, kd, k)
    PROVE  /\ ~Exists(m)
           /\ \A n \in Row : Exists(n)' <=> Exists(n) \/ n = m
           /\ \A n \in Row : n > m => ~Exists(n)
           /\ \A n \in Row \ {m} : kind'[n] = kind[n] /\ key'[n] = key[n]
           /\ kind'[m] = kd /\ key'[m] = k
  BY DEF Insert, NextRow, Exists, TypeOK, RowsInOrder

\* An insertion that leaves other rows as they are keeps them in order.
LEMMA InsertOrder ==
    ASSUME TypeOK, RowsInOrder, NEW m \in Row, NEW kd, kd # "none", NEW k, Insert(m, kd, k),
           posts' = posts, \A n \in Row : ~Exists(n) => status'[n] = status[n]
    PROVE  RowsInOrder'
  <1>1. \A n \in Row : ~Exists(n)' => ~Exists(n) /\ n # m
    BY InsertLast
  <1>2. \A n, o \in Row : ~Exists(n)' /\ o > n => ~Exists(o)'
    <2> SUFFICES ASSUME NEW n \in Row, NEW o \in Row, ~Exists(n)', o > n PROVE ~Exists(o)'
      OBVIOUS
    <2>1. ~Exists(n) /\ n # m /\ ~Exists(o)
      BY <1>1 DEF RowsInOrder
    <2>2. o # m
      BY <2>1, RowIds DEF Insert, NextRow
    <2>3. QED
      BY <2>1, <2>2, InsertLast
  <1>3. QED
    BY <1>1, <1>2 DEF RowsInOrder

\* Rows stay in order.
LEMMA OrderStep == TypeOK /\ RowsInOrder /\ DeliverersHold /\ [Next]_vars => RowsInOrder'
  <1> SUFFICES ASSUME TypeOK, RowsInOrder, DeliverersHold, [Next]_vars PROVE RowsInOrder'
    OBVIOUS
  <1>1. CASE EnqueueRoot
    BY <1>1, InsertOrder DEF EnqueueRoot
  <1>2. CASE EnqueueVariant
    BY <1>2, InsertOrder DEF EnqueueVariant
  <1>3. ASSUME NEW k \in AuditKey, RecordAudit(k) PROVE RowsInOrder'
    <2>1. \A n \in Row : ~Exists(n) => status'[n] = status[n]
      BY <1>3 DEF RecordAudit, Superseded, Open, TypeOK
    <2>2. CASE \E m \in Row : Insert(m, "autonomy_audit", k)
      BY <1>3, <2>1, <2>2, InsertOrder DEF RecordAudit
    <2>3. CASE UNCHANGED rowVars
      BY <1>3, <2>1, <2>3 DEF RecordAudit, RowsInOrder, Exists, rowVars
    <2>4. QED
      BY <1>3, <2>2, <2>3 DEF RecordAudit
  <1>4. ASSUME NEW w \in Deliverer, Deliver(w) \/ DeliveryFault(w) PROVE RowsInOrder'
    <2>1. UNCHANGED kind
      BY <1>4 DEF Deliver, DeliveryFault, Claim, CancelStale, Check, Post, FinalizeSuccess,
           FinalizeFailure, FinalizeLost, DeliveryError, Crash, rowVars
    <2>2. \A m \in Row : ~Exists(m) => status'[m] = status[m]
      BY <1>4 DEF Deliver, DeliveryFault, Claim, CancelStale, Check, Post, FinalizeSuccess,
           FinalizeFailure, FinalizeLost, DeliveryError, Crash, Owns, Open, TypeOK
    <2>3. \A m \in Row : ~Exists(m) => posts'[m] = posts[m]
      BY <1>4 DEF Deliver, DeliveryFault, Claim, CancelStale, Check, Post, FinalizeSuccess,
           FinalizeFailure, FinalizeLost, DeliveryError, Crash, DeliverersHold, TypeOK
    <2>4. QED
      BY <2>1, <2>2, <2>3 DEF RowsInOrder, Exists
  <1>5. CASE \/ Decide \/ UNCHANGED vars
             \/ \E m \in Row : RetryDue(m) \/ OrphanLeaseExpires(m) \/ LeaseOverrun(m)
    BY <1>5 DEF Decide, RetryDue, OrphanLeaseExpires, LeaseOverrun, Expire, vars, rowVars,
         RowsInOrder, Exists
  <1>6. QED
    BY <1>1, <1>2, <1>3, <1>4, <1>5 DEF Next

\* The thread keeps its one root row: only EnqueueRoot inserts one.
LEMMA RootStep == TypeOK /\ RowsInOrder /\ OneRoot /\ [Next]_vars => OneRoot'
  <1> SUFFICES ASSUME TypeOK, RowsInOrder, OneRoot, [Next]_vars PROVE OneRoot'
    OBVIOUS
  <1>1. CASE EnqueueRoot
    BY <1>1, InsertLast DEF EnqueueRoot, OneRoot, Root
  <1>2. CASE EnqueueVariant
    BY <1>2, InsertLast DEF EnqueueVariant, OneRoot, Root
  <1>3. CASE UNCHANGED kind
    BY <1>3 DEF OneRoot, Root
  <1>4. ASSUME NEW k \in AuditKey, RecordAudit(k) PROVE OneRoot'
    <2>1. CASE \E m \in Row : Insert(m, "autonomy_audit", k)
      BY <2>1, InsertLast DEF OneRoot, Root
    <2>2. QED
      BY <1>3, <1>4, <2>1 DEF RecordAudit, rowVars
  <1>5. QED
    BY <1>1, <1>2, <1>3, <1>4
       DEF Next, Decide, RetryDue, OrphanLeaseExpires, LeaseOverrun, Expire, Deliver,
           DeliveryFault, Claim, CancelStale, Check, Post, FinalizeSuccess, FinalizeFailure,
           FinalizeLost, DeliveryError, Crash, rowVars, vars

\* A deliverer keeps its row and a timestamp that Slack gave.
LEMMA HoldStep == TypeOK /\ RowsInOrder /\ DeliverersHold /\ [Next]_vars => DeliverersHold'
  <1> SUFFICES ASSUME TypeOK, RowsInOrder, DeliverersHold, [Next]_vars PROVE DeliverersHold'
    OBVIOUS
  <1>1. \A m \in Row : Exists(m) => Exists(m)'
    <2>1. CASE UNCHANGED kind
      BY <2>1 DEF Exists
    <2>2. CASE EnqueueRoot
      BY <2>2, InsertLast DEF EnqueueRoot
    <2>3. CASE EnqueueVariant
      BY <2>3, InsertLast DEF EnqueueVariant
    <2>4. ASSUME NEW k \in AuditKey, RecordAudit(k) PROVE \A m \in Row : Exists(m) => Exists(m)'
      BY <2>1, <2>4, InsertLast DEF RecordAudit, rowVars
    <2>5. QED
      BY <2>1, <2>2, <2>3, <2>4
         DEF Next, Decide, RetryDue, OrphanLeaseExpires, LeaseOverrun, Expire, Deliver,
             DeliveryFault, Claim, CancelStale, Check, Post, FinalizeSuccess, FinalizeFailure,
             FinalizeLost, DeliveryError, Crash, rowVars, vars
  <1>2. CASE UNCHANGED <<workerVars, posts>>
    BY <1>1, <1>2 DEF DeliverersHold, workerVars
  <1>3. ASSUME NEW w \in Deliverer, Deliver(w) \/ DeliveryFault(w) PROVE DeliverersHold'
    <2>1. CASE Claim(w)
      BY <1>1, <2>1 DEF Claim, Due, Open, DeliverersHold, TypeOK
    <2>2. ASSUME NEW answer, Post(w, answer) PROVE DeliverersHold'
      <3>1. row[w] \in Row
        BY <2>2 DEF Post, DeliverersHold
      <3>2. \A m \in Row : posts[m] \in Nat /\ posts'[m] \in Nat /\ posts[m] <= posts'[m]
        BY <2>2, <3>1 DEF Post, TypeOK
      <3>3. ts'[w] = posts'[row[w]] /\ posts'[row[w]] >= 1
        BY <2>2, <3>1 DEF Post, TypeOK
      <3>4. UNCHANGED row /\ \A v \in Deliverer \ {w} : pc'[v] = pc[v] /\ ts'[v] = ts[v]
        BY <2>2 DEF Post, TypeOK
      <3>5. \A v \in Deliverer : ts[v] \in Nat /\ ts'[v] \in Nat
        BY <3>1, <3>2, <3>3, <3>4 DEF TypeOK
      <3>6. pc[w] # "idle"
        BY <2>2 DEF Post
      <3>7. QED
        BY <1>1, <3>1, <3>2, <3>3, <3>4, <3>5, <3>6 DEF DeliverersHold
    <2>3. CASE Done(w) /\ UNCHANGED posts
      BY <1>1, <2>3 DEF Done, DeliverersHold, TypeOK
    <2>4. ASSUME NEW step \in {"checked", "error"}, Goto(w, step), UNCHANGED posts, pc[w] # "idle"
          PROVE  DeliverersHold'
      BY <1>1, <2>4 DEF Goto, DeliverersHold, TypeOK
    <2>5. QED
      BY <1>3, <2>1, <2>2, <2>3, <2>4
         DEF Deliver, DeliveryFault, CancelStale, Check, FinalizeSuccess, FinalizeFailure,
             FinalizeLost, DeliveryError, Crash
  <1>4. QED
    BY <1>2, <1>3
       DEF Next, EnqueueRoot, EnqueueVariant, Decide, RecordAudit, RetryDue,
           OrphanLeaseExpires, LeaseOverrun, Expire, vars

-----------------------------------------------------------------------------
(* Bindings and notices.                                                    *)

\* Root rows stay root rows with their status and posts: nothing about the
\* binding changes.
LEMMA BindingUnchanged ==
    ASSUME BindingIsDelivered, binding' = binding, Root' = Root,
           \A m \in Root : posts[m] \in Nat /\ posts'[m] \in Nat /\ posts[m] <= posts'[m],
           \A m \in Root : status'[m] = "delivered" <=> status[m] = "delivered",
           binding \in Nat
    PROVE  BindingIsDelivered'
  BY DEF BindingIsDelivered

\* The binding and the delivery of the root are written together.
LEMMA BindingStep ==
    TypeOK /\ RowsInOrder /\ OneRoot /\ DeliverersHold /\ BindingIsDelivered /\ [Next]_vars
        => BindingIsDelivered'
  <1> SUFFICES ASSUME TypeOK, RowsInOrder, OneRoot, DeliverersHold, BindingIsDelivered,
                      [Next]_vars
               PROVE  BindingIsDelivered'
    OBVIOUS
  <1> USE BindingUnchanged
  <1>1. CASE EnqueueRoot
    <2>1. PICK m \in Row : Insert(m, "root_approval", 0)
      BY <1>1 DEF EnqueueRoot
    <2>2. Root = {} /\ Root' = {m} /\ status'[m] = "pending" /\ posts'[m] = 0
      BY <1>1, <2>1, InsertLast DEF EnqueueRoot, Root, RowsInOrder
    <2>3. binding' = 0
      BY <1>1, <2>2 DEF EnqueueRoot, BindingIsDelivered
    <2>4. QED
      BY <2>2, <2>3 DEF BindingIsDelivered
  <1>2. CASE EnqueueVariant
    <2>1. Root' = Root
      BY <1>2, InsertLast DEF EnqueueVariant, Root, Exists
    <2>2. QED
      BY <1>2, <2>1 DEF EnqueueVariant, TypeOK, Root
  <1>3. ASSUME NEW k \in AuditKey, RecordAudit(k) PROVE BindingIsDelivered'
    <2>1. Root' = Root
      <3>1. CASE \E m \in Row : Insert(m, "autonomy_audit", k)
        BY <3>1, InsertLast DEF Root, Exists
      <3>2. QED
        BY <1>3, <3>1 DEF RecordAudit, rowVars, Root
    <2>2. \A m \in Root : status'[m] = status[m]
      BY <1>3 DEF RecordAudit, Superseded, Root, TypeOK
    <2>3. QED
      BY <1>3, <2>1, <2>2 DEF RecordAudit, TypeOK, Root
  <1>4. CASE UNCHANGED <<binding, kind, status, posts>>
    BY <1>4 DEF BindingIsDelivered, Root
  <1>5. ASSUME NEW w \in Deliverer, Deliver(w) \/ DeliveryFault(w) PROVE BindingIsDelivered'
    <2>1. CASE CancelStale(w)
      <3>1. row[w] \in Row /\ status[row[w]] # "delivered"
        BY <2>1 DEF CancelStale, DeliverersHold, Owns, Open
      <3>2. QED
        BY <2>1, <3>1 DEF CancelStale, rowVars, TypeOK, Root
    <2>2. ASSUME NEW answer, Post(w, answer) PROVE BindingIsDelivered'
      <3>1. row[w] \in Row
        BY <2>2 DEF Post, DeliverersHold
      <3>2. \A m \in Row : posts[m] \in Nat /\ posts'[m] \in Nat /\ posts[m] <= posts'[m]
        BY <2>2, <3>1 DEF Post, TypeOK
      <3>3. QED
        BY <2>2, <3>2 DEF Post, rowVars, TypeOK, Root
    <2>3. CASE FinalizeSuccess(w)
      <3>1. row[w] \in Row /\ status[row[w]] # "delivered" /\ 1 <= ts[w] /\ ts[w] <= posts[row[w]]
        BY <2>3 DEF FinalizeSuccess, DeliverersHold, Owns, Open
      <3>2. CASE row[w] \in Root
        <4>1. Root' = {row[w]} /\ binding' = ts[w] /\ status'[row[w]] = "delivered"
          BY <2>3, <3>1, <3>2 DEF FinalizeSuccess, OneRoot, Root, TypeOK, rowVars
        <4>2. posts' = posts /\ ts[w] # 0
          BY <2>3, <3>1 DEF FinalizeSuccess, TypeOK
        <4>3. QED
          BY <3>1, <4>1, <4>2 DEF BindingIsDelivered
      <3>3. CASE row[w] \notin Root
        BY <2>3, <3>1, <3>3 DEF FinalizeSuccess, Root, TypeOK, rowVars
      <3>4. QED
        BY <3>2, <3>3
    <2>4. CASE FinalizeFailure(w)
      <3>1. row[w] \in Row /\ status[row[w]] # "delivered"
        BY <2>4 DEF FinalizeFailure, DeliverersHold, Owns, Open
      <3>2. QED
        BY <2>4, <3>1 DEF FinalizeFailure, rowVars, TypeOK, Root
    <2>5. QED
      BY <1>4, <1>5, <2>1, <2>2, <2>3, <2>4
         DEF Deliver, DeliveryFault, Claim, Check, FinalizeLost, DeliveryError, Crash, rowVars
  <1>6. QED
    BY <1>1, <1>2, <1>3, <1>4, <1>5
       DEF Next, Decide, RetryDue, OrphanLeaseExpires, LeaseOverrun, Expire, rowVars, vars

\* Notices that only close, and posts that only grow, keep OneOpenNotice.
LEMMA NoticesClose ==
    ASSUME OneOpenNotice, kind' = kind,
           \A m \in Row : Open(m)' => Open(m),
           \A m \in Row : status'[m] = "delivered" => posts'[m] > 0
    PROVE  OneOpenNotice'
  BY DEF OneOpenNotice, Audit

\* A new notice closes the ones before it.
LEMMA NoticeStep ==
    TypeOK /\ RowsInOrder /\ DeliverersHold /\ OneOpenNotice /\ [Next]_vars => OneOpenNotice'
  <1> SUFFICES ASSUME TypeOK, RowsInOrder, DeliverersHold, OneOpenNotice, [Next]_vars
               PROVE  OneOpenNotice'
    OBVIOUS
  <1> USE NoticesClose
  <1>1. ASSUME UNCHANGED <<status, posts>>,
               NEW m \in Row, NEW kd \in {"root_approval", "thread_approval"}, NEW k,
               Insert(m, kd, k)
        PROVE  OneOpenNotice'
    <2>1. Audit' = Audit /\ \A n \in Audit : Open(n)' <=> Open(n)
      BY <1>1, InsertLast DEF Audit, Open, Exists
    <2>2. QED
      BY <1>1, <2>1 DEF OneOpenNotice
  <1>2. ASSUME NEW k \in AuditKey, RecordAudit(k) PROVE OneOpenNotice'
    <2>1. \A m \in Row : status'[m] = "delivered" => status[m] = "delivered"
      BY <1>2 DEF RecordAudit, TypeOK
    <2>2. posts' = posts
      BY <1>2 DEF RecordAudit
    <2>3. CASE UNCHANGED rowVars
      <3>1. \A m \in Row : Open(m)' => Open(m)
        BY <1>2, <2>3 DEF RecordAudit, rowVars, Open, Exists, TypeOK, Superseded
      <3>2. QED
        BY <2>1, <2>2, <2>3, <3>1 DEF rowVars, OneOpenNotice
    <2>4. ASSUME NEW m \in Row, Insert(m, "autonomy_audit", k),
                 ~ \E n \in Row : kind[n] = "autonomy_audit" /\ key[n] = k
          PROVE  OneOpenNotice'
      <3>1. \A n \in Audit : ~Open(n)' /\ n < m
        <4> SUFFICES ASSUME NEW n \in Audit PROVE ~Open(n)' /\ n < m
          OBVIOUS
        <4>1. n \in Row /\ kind[n] = "autonomy_audit" /\ n # m /\ key[n] # k
          BY <2>4, InsertLast DEF Audit, Exists
        <4>2. ~(n > m)
          BY <2>4, <4>1, InsertLast DEF Exists
        <4>3. Open(n) => status'[n] = "obsolete"
          BY <1>2, <4>1 DEF RecordAudit, Superseded
        <4>4. ~Open(n) => status'[n] = status[n]
          BY <1>2, <4>1 DEF RecordAudit, Superseded
        <4>5. Exists(n)
          BY <4>1 DEF Exists
        <4>6. QED
          BY <4>1, <4>2, <4>3, <4>4, <4>5, RowIds DEF Open
      <3>2. Audit' = Audit \cup {m}
        BY <2>4, InsertLast DEF Audit, Exists
      <3>3. ASSUME NEW o \in Audit', Open(o)', NEW n \in Audit' PROVE n <= o
        <4>1. o = m /\ (n = m \/ n < m)
          BY <3>1, <3>2, <3>3
        <4>2. QED
          BY <4>1, RowIds
      <3>4. QED
        BY <2>1, <2>2, <3>3 DEF OneOpenNotice
    <2>5. QED
      BY <1>2, <2>3, <2>4 DEF RecordAudit
  <1>3. CASE UNCHANGED <<kind, status, posts>>
    BY <1>3 DEF OneOpenNotice, Audit, Open, Exists
  <1>4. ASSUME NEW w \in Deliverer, Deliver(w) \/ DeliveryFault(w) PROVE OneOpenNotice'
    <2>1. CASE CancelStale(w) \/ FinalizeFailure(w)
      <3>1. row[w] \in Row /\ Open(row[w])
        BY <2>1 DEF CancelStale, FinalizeFailure, DeliverersHold, Owns
      <3>2. QED
        BY <2>1, <3>1 DEF CancelStale, FinalizeFailure, rowVars, TypeOK, Open, Exists, OneOpenNotice
    <2>2. ASSUME NEW answer, Post(w, answer) PROVE OneOpenNotice'
      <3>1. row[w] \in Row
        BY <2>2 DEF Post, DeliverersHold
      <3>2. \A m \in Row : posts[m] > 0 => posts'[m] > 0
        BY <2>2, <3>1 DEF Post, TypeOK
      <3>3. QED
        BY <2>2, <3>2 DEF Post, rowVars, Open, Exists, OneOpenNotice
    <2>3. CASE FinalizeSuccess(w)
      <3>1. row[w] \in Row /\ 1 <= ts[w] /\ ts[w] <= posts[row[w]] /\ ts[w] \in Nat
        BY <2>3 DEF FinalizeSuccess, DeliverersHold, TypeOK
      <3>2. posts[row[w]] > 0
        BY <3>1 DEF TypeOK
      <3>3. QED
        BY <2>3, <3>1, <3>2 DEF FinalizeSuccess, rowVars, TypeOK, Open, Exists, OneOpenNotice
    <2>4. QED
      BY <1>3, <1>4, <2>1, <2>2, <2>3
         DEF Deliver, DeliveryFault, Claim, Check, FinalizeLost, DeliveryError, Crash, rowVars
  <1>5. CASE EnqueueRoot
    BY <1>1, <1>5 DEF EnqueueRoot
  <1>6. CASE EnqueueVariant
    BY <1>1, <1>6 DEF EnqueueVariant
  <1>7. QED
    BY <1>2, <1>3, <1>4, <1>5, <1>6
       DEF Next, Decide, RetryDue, OrphanLeaseExpires, LeaseOverrun, Expire, rowVars, vars

-----------------------------------------------------------------------------
(* Repeated messages.                                                       *)

\* What deliverers leave of each other: their places in the loop.
Others(w) == \A v \in Deliverer \ {w} : pc'[v] = pc[v] /\ row'[v] = row[v]

\* A deliverer starts or stops sending for one row.
LEMMA SendersOf ==
    ASSUME NEW w \in Deliverer, Others(w), NEW m \in Row
    PROVE  Sending(m)' = IF row'[w] = m /\ pc'[w] = "checked" THEN Sending(m) \cup {w}
                         ELSE Sending(m) \ {w}
  BY DEF Others, Sending

\* One sender more or less.
LEMMA SendersCount ==
    ASSUME NEW w \in Deliverer, Others(w), NEW m \in Row, IsFiniteSet(Sending(m))
    PROVE  /\ IsFiniteSet(Sending(m)') /\ Cardinality(Sending(m)) \in Nat /\ Cardinality(Sending(m)') \in Nat
           /\ w \in Sending(m) /\ w \notin Sending(m)' =>
                Cardinality(Sending(m)) = Cardinality(Sending(m)') + 1
           /\ w \notin Sending(m) /\ w \in Sending(m)' =>
                Cardinality(Sending(m)') = Cardinality(Sending(m)) + 1
           /\ (w \in Sending(m) <=> w \in Sending(m)') => Sending(m)' = Sending(m)
  <1> DEFINE s == Sending(m)
             t == Sending(m)'
  <1>1. t = s \cup {w} \/ t = s \ {w}
    BY SendersOf
  <1>2. IsFiniteSet(s)
    OBVIOUS
  <1> HIDE DEF s, t
  <1>3. /\ IsFiniteSet(s \cup {w}) /\ IsFiniteSet(s \ {w}) /\ Cardinality(s) \in Nat
        /\ Cardinality(s \cup {w}) = IF w \in s THEN Cardinality(s) ELSE Cardinality(s) + 1
        /\ Cardinality(s \ {w}) = IF w \in s THEN Cardinality(s) - 1 ELSE Cardinality(s)
    BY <1>2, FS_AddElement, FS_RemoveElement, FS_CardinalityType
  <1>4. IsFiniteSet(t) /\ Cardinality(t) \in Nat
    BY <1>1, <1>3, FS_CardinalityType
  <1>5. w \in s /\ w \notin t => Cardinality(s) = Cardinality(t) + 1
    <2> SUFFICES ASSUME w \in s, w \notin t PROVE Cardinality(s) = Cardinality(t) + 1
      OBVIOUS
    <2>1. t = s \ {w}
      BY <1>1
    <2> QED BY <2>1, <1>3
  <1>6. w \notin s /\ w \in t => Cardinality(t) = Cardinality(s) + 1
    <2> SUFFICES ASSUME w \notin s, w \in t PROVE Cardinality(t) = Cardinality(s) + 1
      OBVIOUS
    <2>1. t = s \cup {w}
      BY <1>1
    <2> QED BY <2>1, <1>3
  <1>7. (w \in s <=> w \in t) => t = s
    BY <1>1
  <1> QED BY <1>3, <1>4, <1>5, <1>6, <1>7 DEF s, t

\* The posts that are due are a number.
LEMMA ExpectedIs ==
    ASSUME TypeOK, FewSend, NEW m \in Row
    PROVE  /\ posts[m] \in Nat /\ Cardinality(Sending(m)) \in Nat /\ Future(m) \in {0, 1}
           /\ Expected(m) = posts[m] + Cardinality(Sending(m)) + Future(m)
           /\ Expected(m) \in Nat
  <1>1. posts[m] \in Nat /\ Cardinality(Sending(m)) \in Nat
    BY FS_CardinalityType DEF TypeOK, FewSend
  <1>2. Future(m) \in {0, 1}
    BY DEF Future
  <1> QED BY <1>1, <1>2 DEF Expected

\* No row is owed more posts than before, but the first one of a new row.
NoMore == faults' = faults /\ \A m \in Row : Expected(m)' <= Expected(m) \/ Expected(m)' <= 1

\* A fault makes one more post due, of one row.
OneMore ==
    /\ faults' = faults + 1
    /\ \E n \in Row : /\ Expected(n)' <= Expected(n) + 1
                      /\ \A m \in Row \ {n} : Expected(m)' <= Expected(m)

\* Where nobody starts or ends a send, a row is owed less unless it opens or
\* its guard goes.
LEMMA QuietRow ==
    ASSUME UNCHANGED <<pc, row, posts>>, TypeOK, TypeOK', FewSend, NEW m \in Row,
           Open(m)' /\ ~Guarded(m)' => Open(m) /\ ~Guarded(m)
    PROVE  Expected(m)' <= Expected(m)
  <1>1. Sending(m)' = Sending(m) /\ FewSend'
    BY DEF Sending, FewSend
  <1>2. Future(m)' <= Future(m) /\ posts'[m] = posts[m]
    BY DEF Future
  <1>3. /\ Expected(m) = posts[m] + Cardinality(Sending(m)) + Future(m)
        /\ Expected(m)' = posts[m] + Cardinality(Sending(m)) + Future(m)'
    BY <1>1, <1>2 DEF Expected
  <1>4. Future(m) \in {0, 1} /\ Future(m)' \in {0, 1} /\ posts[m] \in Nat /\ Cardinality(Sending(m)) \in Nat
    BY ExpectedIs DEF Future
  <1> QED BY <1>2, <1>3, <1>4

\* The rows that a deliverer is not at work on.
Aside(w) ==
    /\ Others(w)
    /\ row'[w] \in {row[w], 0}
    /\ \A m \in Row \ {row[w]} : /\ owner'[m] = owner[m] /\ (m \in live' <=> m \in live)
                                 /\ status'[m] = status[m] /\ kind'[m] = kind[m] /\ posts'[m] = posts[m]

\* They are owed what they were.
LEMMA AsideRow ==
    ASSUME NEW w \in Deliverer, Aside(w), NEW m \in Row \ {row[w]}
    PROVE  Expected(m)' = Expected(m)
  <1>1. m # row'[w] /\ m # row[w]
    BY RowIds DEF Aside, Row
  <1>2. Sending(m)' = Sending(m)
    BY <1>1 DEF Sending, Aside, Others
  <1>3. Guarded(m)' <=> Guarded(m)
    BY <1>1 DEF Guarded, Aside, Others
  <1>4. Open(m)' <=> Open(m)
    BY DEF Open, Exists, Aside
  <1> QED BY <1>2, <1>3, <1>4 DEF Expected, Future, Aside

\* Enqueuing opens rows that were not there; deciding changes no row, a notice
\* closes others, time passes for rows that nobody guards.
LEMMA QuietSteps ==
    ASSUME TypeOK, TypeOK', RowsInOrder, DeliverersHold, FewSend,
           \/ EnqueueRoot \/ EnqueueVariant \/ Decide \/ \E k \in AuditKey : RecordAudit(k)
           \/ \E m \in Row : RetryDue(m) \/ OrphanLeaseExpires(m)
           \/ UNCHANGED vars
    PROVE  NoMore
  <1>1. UNCHANGED <<pc, row, posts, faults>>
    BY DEF EnqueueRoot, EnqueueVariant, Decide, RecordAudit, RetryDue, OrphanLeaseExpires, Expire,
           workerVars, vars
  <1> SUFFICES ASSUME NEW m \in Row PROVE Expected(m)' <= Expected(m) \/ Expected(m)' <= 1
    BY <1>1 DEF NoMore
  <1>2. CASE ~Exists(m)
    <2>1. posts'[m] = 0 /\ Sending(m)' = {}
      BY <1>1, <1>2 DEF RowsInOrder, DeliverersHold, Sending
    <2>2. Expected(m)' = 0 + 0 + Future(m)'
      BY <2>1, FS_EmptySet DEF Expected
    <2> QED BY <2>2 DEF Future
  <1>3. CASE Exists(m)
    <2>1. Open(m)' => Open(m)
      <3>1. CASE UNCHANGED kind
        BY <3>1, <1>3 DEF Open, Exists, EnqueueRoot, EnqueueVariant, Decide, RecordAudit, RetryDue,
             OrphanLeaseExpires, Expire, vars, TypeOK
      <3>2. CASE \E n \in Row, kd \in {"root_approval", "thread_approval", "autonomy_audit"},
                    k \in 0 .. MaxRevision \cup AuditKey : Insert(n, kd, k)
        BY <3>2, <1>3 DEF Open, Exists, EnqueueRoot, EnqueueVariant, Decide, RecordAudit, RetryDue,
             OrphanLeaseExpires, Expire, vars, TypeOK, Insert, NextRow
      <3>3. UNCHANGED kind \/ \E n \in Row, kd \in {"root_approval", "thread_approval", "autonomy_audit"},
                                 k \in 0 .. MaxRevision \cup AuditKey : Insert(n, kd, k)
        BY BoundsAssumption DEF EnqueueRoot, EnqueueVariant, Decide, RecordAudit, RetryDue,
             OrphanLeaseExpires, Expire, vars, rowVars, TypeOK
      <3> QED BY <3>1, <3>2, <3>3
    <2>2. Open(m)' /\ Guarded(m) => Guarded(m)'
      <3> SUFFICES ASSUME Open(m)', Guarded(m) PROVE Guarded(m)'
        OBVIOUS
      <3>1. PICK w \in Deliverer : owner[m] = w /\ row[w] = m /\ pc[w] \in {"checked", "posted"}
        BY DEF Guarded
      <3>2. m \in live /\ AtWork(m)
        BY <3>1 DEF Guarded, AtWork
      <3>3. m \in live' /\ owner'[m] = owner[m]
        <4>1. CASE UNCHANGED <<owner, live>>
          BY <4>1, <3>2
        <4>2. CASE \E k \in AuditKey : RecordAudit(k)
          BY <4>2, <3>2, <2>1 DEF RecordAudit, Superseded, Open, TypeOK
        <4>3. CASE \E n \in Row : OrphanLeaseExpires(n)
          BY <4>3, <3>2 DEF OrphanLeaseExpires, Expire
        <4> QED BY <4>1, <4>2, <4>3 DEF EnqueueRoot, EnqueueVariant, Decide, RetryDue, vars, leaseVars
      <3> QED BY <3>1, <3>3, <1>1 DEF Guarded
    <2> QED BY <1>1, <2>1, <2>2, QuietRow
  <1> QED BY <1>2, <1>3

\* An overrun lease unguards one row.
LEMMA OverrunOnce ==
    ASSUME TypeOK, TypeOK', FewSend, NEW n \in Row, LeaseOverrun(n)
    PROVE  OneMore
  <1>1. UNCHANGED <<pc, row, posts, owner, kind, status>> /\ faults' = faults + 1 /\ live' = live \ {n}
    BY DEF LeaseOverrun, Expire, workerVars, rowVars
  <1>2. ASSUME NEW m \in Row \ {n} PROVE Expected(m)' <= Expected(m)
    <2>1. (Open(m)' <=> Open(m)) /\ (Guarded(m)' <=> Guarded(m))
      BY <1>1 DEF Open, Exists, Guarded
    <2> QED BY <1>1, <2>1, QuietRow
  <1>3. Expected(n)' <= Expected(n) + 1
    <2>1. Sending(n)' = Sending(n) /\ posts'[n] = posts[n]
      BY <1>1 DEF Sending
    <2>2. Expected(n)' = posts[n] + Cardinality(Sending(n)) + Future(n)'
      BY <2>1 DEF Expected
    <2>3. Future(n)' \in {0, 1}
      BY DEF Future
    <2> QED BY <2>2, <2>3, ExpectedIs
  <1> QED BY <1>1, <1>2, <1>3 DEF OneMore

\* A claim takes a row that nobody guards.
LEMMA ClaimOwes ==
    ASSUME TypeOK, TypeOK', FewSend, NEW w \in Deliverer, Claim(w)
    PROVE  NoMore
  <1>1. PICK n \in Due : owner' = [owner EXCEPT ![n] = w] /\ live' = live \cup {n}
                         /\ row' = [row EXCEPT ![w] = n]
    BY DEF Claim
  <1>2. /\ pc[w] = "idle" /\ pc' = [pc EXCEPT ![w] = "claimed"]
        /\ UNCHANGED <<posts, kind, status, faults>>
    BY DEF Claim, rowVars
  <1>3. n \in Row /\ Open(n) /\ ~Guarded(n)
    BY <1>1, DelivererAssumption DEF Due, Guarded
  <1>4. \A v \in Deliverer : pc'[v] = "checked" \/ pc'[v] = "posted" => pc'[v] = pc[v] /\ row'[v] = row[v] /\ v # w
    BY <1>1, <1>2 DEF TypeOK
  <1>5. \A v \in Deliverer : pc[v] = "checked" \/ pc[v] = "posted" => pc'[v] = pc[v] /\ row'[v] = row[v]
    BY <1>1, <1>2 DEF TypeOK
  <1> SUFFICES ASSUME NEW m \in Row PROVE Expected(m)' <= Expected(m)
    BY <1>2 DEF NoMore
  <1>6. Sending(m)' = Sending(m)
    BY <1>4, <1>5 DEF Sending
  <1>7. Future(m)' <= Future(m)
    <2>1. CASE m = n
      BY <2>1, <1>3 DEF Future
    <2>2. CASE m # n
      <3>1. owner'[m] = owner[m] /\ (m \in live' <=> m \in live) /\ (Open(m)' <=> Open(m))
        BY <2>2, <1>1, <1>2 DEF TypeOK, Open, Exists
      <3>2. Guarded(m) => Guarded(m)'
        BY <3>1, <1>5 DEF Guarded
      <3> QED BY <3>1, <3>2 DEF Future
    <2> QED BY <2>1, <2>2
  <1>8. Expected(m)' = posts[m] + Cardinality(Sending(m)) + Future(m)'
    BY <1>2, <1>6 DEF Expected
  <1>9. Future(m)' \in {0, 1}
    BY DEF Future
  <1> QED BY <1>7, <1>8, <1>9, ExpectedIs

\* What a deliverer at work changes: its own row and its place in the loop.
LEMMA WorkIsAside ==
    ASSUME TypeOK, DeliverersHold, NEW w \in Deliverer,
           \/ CancelStale(w) \/ Check(w) \/ Post(w, "posted") \/ FinalizeSuccess(w)
           \/ FinalizeFailure(w) \/ FinalizeLost(w) \/ DeliveryFault(w)
    PROVE  Aside(w) /\ row[w] \in Row /\ pc[w] # "idle"
  <1>1. pc[w] # "idle" /\ row[w] \in Row
    BY DEF CancelStale, Check, Post, FinalizeSuccess, FinalizeFailure, FinalizeLost, DeliveryFault,
           DeliveryError, Crash, DeliverersHold
  <1>2. Others(w) /\ row'[w] \in {row[w], 0}
    BY DEF CancelStale, Check, Post, FinalizeSuccess, FinalizeFailure, FinalizeLost, DeliveryFault,
           DeliveryError, Crash, Goto, Done, Others, TypeOK
  <1>3. UNCHANGED kind
    BY DEF CancelStale, Check, Post, FinalizeSuccess, FinalizeFailure, FinalizeLost, DeliveryFault,
           DeliveryError, Crash, rowVars
  <1>4. ASSUME NEW m \in Row \ {row[w]}
        PROVE  /\ owner'[m] = owner[m] /\ (m \in live' <=> m \in live)
               /\ status'[m] = status[m] /\ posts'[m] = posts[m]
    BY <1>1 DEF CancelStale, Check, Post, FinalizeSuccess, FinalizeFailure, FinalizeLost, DeliveryFault,
           DeliveryError, Crash, Release, leaseVars, TypeOK
  <1> QED BY <1>1, <1>2, <1>3, <1>4 DEF Aside

\* Finitely many deliverers send, since one at a time begins.
LEMMA FewStep == TypeOK /\ DeliverersHold /\ FewSend /\ [Next]_vars => FewSend'
  <1> SUFFICES ASSUME TypeOK, DeliverersHold, FewSend, [Next]_vars PROVE FewSend'
    OBVIOUS
  <1>1. ASSUME NEW w \in Deliverer, Others(w) PROVE FewSend'
    BY <1>1, SendersCount DEF FewSend
  <1>2. CASE UNCHANGED <<pc, row>>
    BY <1>2 DEF FewSend, Sending
  <1>3. ASSUME NEW w \in Deliverer, Deliver(w) \/ DeliveryFault(w) PROVE Others(w)
    <2>1. CASE Claim(w)
      BY <2>1 DEF Claim, Others, TypeOK
    <2> QED BY <1>3, <2>1, WorkIsAside DEF Deliver, Aside
  <1> QED BY <1>1, <1>2, <1>3 DEF Next, EnqueueRoot, EnqueueVariant, Decide, RecordAudit, RetryDue,
            OrphanLeaseExpires, LeaseOverrun, Expire, workerVars, vars

\* A step at the send boundary, an answer and a record: no post is owed that
\* was not owed before.
LEMMA WorkOwes ==
    ASSUME TypeOK, TypeOK', DeliverersHold, FewSend, FewSend', NEW w \in Deliverer,
           \/ CancelStale(w) \/ Check(w) \/ Post(w, "posted") \/ FinalizeSuccess(w)
           \/ FinalizeFailure(w) \/ FinalizeLost(w)
    PROVE  NoMore
  <1>0. PICK r \in Row : r = row[w]
    BY WorkIsAside
  <1>1. Aside(w) /\ Others(w)
    BY WorkIsAside DEF Aside
  <1>2. \A m \in Row \ {r} : Expected(m)' = Expected(m) /\ Expected(m) \in Nat
    BY <1>0, <1>1, AsideRow, ExpectedIs
  <1>3. faults' = faults
    BY DEF CancelStale, Check, Post, FinalizeSuccess, FinalizeFailure, FinalizeLost
  <1>4. /\ posts[r] \in Nat /\ Cardinality(Sending(r)) \in Nat /\ Future(r) \in {0, 1}
        /\ Expected(r) = posts[r] + Cardinality(Sending(r)) + Future(r)
    BY <1>1, ExpectedIs
  <1>5. /\ posts'[r] \in Nat /\ Cardinality(Sending(r)') \in Nat /\ Future(r)' \in {0, 1}
        /\ Expected(r)' = posts'[r] + Cardinality(Sending(r)') + Future(r)'
    BY <1>1, FS_CardinalityType DEF Expected, Future, TypeOK, FewSend
  <1>6. /\ w \in Sending(r) <=> pc[w] = "checked"
        /\ w \in Sending(r)' <=> row'[w] = r /\ pc'[w] = "checked"
    BY <1>0 DEF Sending
  <1>7. \A v \in Deliverer \ {w} : pc'[v] = pc[v] /\ row'[v] = row[v]
    BY <1>1 DEF Others
  <1>8. Expected(r)' <= Expected(r)
    <2>1. CASE CancelStale(w) \/ FinalizeSuccess(w)
      <3>1. pc[w] # "checked" /\ pc'[w] = "idle" /\ posts' = posts /\ ~Open(r)'
        BY <1>0, <2>1 DEF CancelStale, FinalizeSuccess, Done, Open, TypeOK
      <3>2. Sending(r)' = Sending(r)
        BY <3>1, <1>1, <1>6, SendersCount DEF FewSend
      <3>3. Future(r)' = 0
        BY <3>1 DEF Future
      <3> QED BY <3>1, <3>2, <3>3, <1>4, <1>5
    <2>2. CASE FinalizeFailure(w)
      <3>1. /\ pc[w] = "error" /\ pc'[w] = "idle" /\ posts' = posts
            /\ Open(r) /\ owner[r] = w
        BY <1>0, <2>2 DEF FinalizeFailure, Done, TypeOK, Owns
      <3>2. Sending(r)' = Sending(r)
        BY <3>1, <1>1, <1>6, SendersCount DEF FewSend
      <3>3. Future(r) = 1
        BY <1>0, <3>1 DEF Future, Guarded
      <3> QED BY <3>1, <3>2, <3>3, <1>4, <1>5
    <2>3. CASE FinalizeLost(w)
      <3>1. /\ pc[w] # "checked" /\ pc'[w] = "idle" /\ posts' = posts /\ ~Owns(w, r)
            /\ UNCHANGED <<owner, live>> /\ (Open(r)' <=> Open(r))
        BY <1>0, <2>3 DEF FinalizeLost, Done, TypeOK, leaseVars, rowVars, Open, Exists
      <3>2. Sending(r)' = Sending(r)
        BY <3>1, <1>1, <1>6, SendersCount DEF FewSend
      <3>3. Open(r) /\ Guarded(r) => Guarded(r)'
        BY <1>0, <3>1, <1>7 DEF Guarded, Owns
      <3>4. Future(r)' <= Future(r)
        BY <3>1, <3>3 DEF Future
      <3> QED BY <3>1, <3>2, <3>4, <1>4, <1>5
    <2>4. CASE Check(w) /\ Owns(w, r) /\ r \in live
      <3>1. /\ pc[w] = "claimed" /\ pc'[w] = "checked" /\ row'[w] = r /\ posts' = posts
            /\ owner' = owner /\ live' = live
        BY <1>0, <2>4 DEF Check, Goto, TypeOK, leaseVars
      <3>2. Cardinality(Sending(r)') = Cardinality(Sending(r)) + 1
        BY <3>1, <1>1, <1>6, SendersCount DEF FewSend
      <3>3. Future(r) = 1
        BY <1>0, <2>4, <3>1 DEF Future, Guarded, Owns
      <3>4. Guarded(r)'
        BY <1>0, <2>4, <3>1 DEF Guarded, Owns
      <3>5. Future(r)' = 0
        BY <3>4 DEF Future
      <3> QED BY <3>1, <3>2, <3>3, <3>5, <1>4, <1>5
    <2>5. CASE Check(w) /\ ~(Owns(w, r) /\ r \in live)
      <3>1. /\ pc[w] = "claimed" /\ pc'[w] = "idle" /\ posts' = posts
            /\ UNCHANGED <<owner, live>> /\ (Open(r)' <=> Open(r))
        BY <1>0, <2>5 DEF Check, Done, TypeOK, leaseVars, rowVars, Open, Exists
      <3>2. Sending(r)' = Sending(r)
        BY <3>1, <1>1, <1>6, SendersCount DEF FewSend
      <3>3. Guarded(r) => Guarded(r)'
        BY <1>0, <3>1, <1>7 DEF Guarded
      <3>4. Future(r)' <= Future(r)
        BY <3>1, <3>3 DEF Future
      <3> QED BY <3>1, <3>2, <3>4, <1>4, <1>5
    <2>6. CASE Post(w, "posted")
      <3>1. /\ pc[w] = "checked" /\ pc'[w] = "posted" /\ row' = row /\ posts'[r] = posts[r] + 1
            /\ UNCHANGED <<owner, live>> /\ (Open(r)' <=> Open(r))
        BY <1>0, <2>6 DEF Post, TypeOK, leaseVars, rowVars, Open, Exists
      <3>2. Cardinality(Sending(r)) = Cardinality(Sending(r)') + 1
        BY <3>1, <1>1, <1>6, SendersCount DEF FewSend
      <3>3. Guarded(r) => Guarded(r)'
        BY <1>0, <3>1, <1>7 DEF Guarded
      <3>4. Future(r)' <= Future(r)
        BY <3>1, <3>3 DEF Future
      <3> QED BY <3>1, <3>2, <3>4, <1>4, <1>5
    <2> QED BY <2>1, <2>2, <2>3, <2>4, <2>5, <2>6
  <1>9. \A m \in Row : Expected(m)' <= Expected(m)
    <2> SUFFICES ASSUME NEW m \in Row PROVE Expected(m)' <= Expected(m)
      OBVIOUS
    <2>1. CASE m = r
      BY <2>1, <1>8
    <2>2. CASE m # r
      <3>1. Expected(m)' = Expected(m) /\ Expected(m) \in Nat
        BY <1>2, <2>2
      <3> QED BY <3>1
    <2> QED BY <2>1, <2>2
  <1> QED BY <1>3, <1>9 DEF NoMore

\* A lost answer, an error or a crash makes one more post due.
LEMMA FaultOwes ==
    ASSUME TypeOK, TypeOK', DeliverersHold, FewSend, FewSend', NEW w \in Deliverer, DeliveryFault(w)
    PROVE  OneMore
  <1>0. PICK r \in Row : r = row[w]
    BY WorkIsAside
  <1>1. Aside(w) /\ Others(w)
    BY WorkIsAside DEF Aside
  <1>2. \A m \in Row \ {r} : Expected(m)' = Expected(m) /\ Expected(m) \in Nat
    BY <1>0, <1>1, AsideRow, ExpectedIs
  <1>3. faults' = faults + 1
    BY DEF DeliveryFault, Post, DeliveryError, Crash
  <1>4. /\ posts[r] \in Nat /\ Cardinality(Sending(r)) \in Nat /\ Future(r) \in {0, 1}
        /\ Expected(r) = posts[r] + Cardinality(Sending(r)) + Future(r)
    BY <1>1, ExpectedIs
  <1>5. /\ posts'[r] \in Nat /\ Cardinality(Sending(r)') \in Nat /\ Future(r)' \in {0, 1}
        /\ Expected(r)' = posts'[r] + Cardinality(Sending(r)') + Future(r)'
    BY <1>1, FS_CardinalityType DEF Expected, Future, TypeOK, FewSend
  <1>6. /\ w \in Sending(r) <=> pc[w] = "checked"
        /\ w \notin Sending(r)'
    BY <1>0 DEF Sending, DeliveryFault, Post, DeliveryError, Crash, Goto, Done, TypeOK
  <1>7. /\ w \in Sending(r) => Cardinality(Sending(r)) = Cardinality(Sending(r)') + 1
        /\ w \notin Sending(r) => Sending(r)' = Sending(r)
    BY <1>1, <1>6, SendersCount DEF FewSend
  <1>8. posts'[r] = posts[r] \/ (posts'[r] = posts[r] + 1 /\ w \in Sending(r))
    BY <1>0, <1>6 DEF DeliveryFault, Post, DeliveryError, Crash, TypeOK
  <1>9. Expected(r)' <= Expected(r) + 1
    BY <1>4, <1>5, <1>7, <1>8
  <1>10. \A m \in Row \ {r} : Expected(m)' <= Expected(m)
    <2> SUFFICES ASSUME NEW m \in Row \ {r} PROVE Expected(m)' <= Expected(m)
      OBVIOUS
    <2>1. Expected(m)' = Expected(m) /\ Expected(m) \in Nat
      BY <1>2
    <2> QED BY <2>1
  <1> QED BY <1>1, <1>3, <1>9, <1>10 DEF OneMore

\* A sum that grows by one at most in one place.
LEMMA SumGrows ==
    ASSUME NEW S, IsFiniteSet(S), NEW f, NEW g, NEW n \in S,
           \A x \in S : f[x] \in Nat /\ g[x] \in Nat,
           \A x \in S \ {n} : g[x] <= f[x], g[n] <= f[n] + 1
    PROVE  SumFunctionOnSet(g, S) <= SumFunctionOnSet(f, S) + 1
  <1> DEFINE s == S \ {n}
             a == SumFunctionOnSet(f, s)
             b == SumFunctionOnSet(g, s)
  <1>1. IsFiniteSet(s) /\ s \subseteq S
    BY FS_Subset
  <1>2. b <= a
    BY <1>1, SumOrdered
  <1>3. a \in Int /\ b \in Int
    BY <1>1, SumType
  <1>4. SumFunctionOnSet(f, S) = f[n] + a /\ SumFunctionOnSet(g, S) = g[n] + b
    BY SumRemove
  <1> HIDE DEF a, b
  <1> QED BY <1>2, <1>3, <1>4

\* Every row has a number, and there are finitely many.
LEMMA RowsFinite == IsFiniteSet(Row)
  <1>1. Cardinality(AuditKey) \in Nat
    BY BoundsAssumption, FS_CardinalityType
  <1> QED BY <1>1, BoundsAssumption, FS_Interval DEF Row

\* A post that becomes due twice is paid for by the fault of the step.
LEMMA PaidStep ==
    ASSUME TypeOK, TypeOK', FewSend, FewSend', RepeatsArePaid, NoMore \/ OneMore
    PROVE  RepeatsArePaid'
  <1> DEFINE f == Excess
             g == Excess'
             a == SumFunctionOnSet(f, Row)
             b == SumFunctionOnSet(g, Row)
  <1>1. \A m \in Row : Expected(m) \in Nat
    BY ExpectedIs
  <1>2. \A m \in Row : Expected(m)' \in Nat
    <2> SUFFICES ASSUME NEW m \in Row PROVE Expected(m)' \in Nat
      OBVIOUS
    <2>1. posts'[m] \in Nat /\ Cardinality(Sending(m)') \in Nat /\ Future(m)' \in {0, 1}
      BY FS_CardinalityType DEF TypeOK, FewSend, Future
    <2> QED BY <2>1 DEF Expected
  <1>3. \A m \in Row : /\ f[m] = (IF Expected(m) > 0 THEN Expected(m) - 1 ELSE 0)
                       /\ g[m] = (IF Expected(m)' > 0 THEN Expected(m)' - 1 ELSE 0)
    BY DEF Excess
  <1>4. \A m \in Row : f[m] \in Nat /\ g[m] \in Nat
    <2> SUFFICES ASSUME NEW m \in Row PROVE f[m] \in Nat /\ g[m] \in Nat
      OBVIOUS
    <2>1. /\ f[m] = (IF Expected(m) > 0 THEN Expected(m) - 1 ELSE 0) /\ Expected(m) \in Nat
          /\ g[m] = (IF Expected(m)' > 0 THEN Expected(m)' - 1 ELSE 0) /\ Expected(m)' \in Nat
      BY <1>1, <1>2, <1>3
    <2> HIDE DEF f, g
    <2> QED BY <2>1
  <1>5. a <= faults /\ a \in Int /\ b \in Int /\ faults \in Int /\ faults' \in Int
    BY <1>4, RowsFinite, SumType DEF RepeatsArePaid, TypeOK
  <1>6. CASE NoMore
    <2>1. \A m \in Row : g[m] <= f[m]
      <3> SUFFICES ASSUME NEW m \in Row PROVE g[m] <= f[m]
        OBVIOUS
      <3>1. /\ f[m] = (IF Expected(m) > 0 THEN Expected(m) - 1 ELSE 0) /\ Expected(m) \in Nat
            /\ g[m] = (IF Expected(m)' > 0 THEN Expected(m)' - 1 ELSE 0) /\ Expected(m)' \in Nat
            /\ Expected(m)' <= Expected(m) \/ Expected(m)' <= 1
        BY <1>1, <1>2, <1>3, <1>6 DEF NoMore
      <3> HIDE DEF f, g
      <3> QED BY <3>1
    <2>2. b <= a /\ faults' = faults
      BY <1>4, <1>6, <2>1, RowsFinite, SumOrdered DEF NoMore
    <2>3. b <= faults'
      <3> HIDE DEF a, b
      <3> QED BY <1>5, <2>2
    <2> QED BY <2>3 DEF RepeatsArePaid
  <1>7. CASE OneMore
    <2>1. PICK n \in Row : /\ Expected(n)' <= Expected(n) + 1
                           /\ \A m \in Row \ {n} : Expected(m)' <= Expected(m)
      BY <1>7 DEF OneMore
    <2>2. g[n] <= f[n] + 1
      <3>1. /\ f[n] = (IF Expected(n) > 0 THEN Expected(n) - 1 ELSE 0) /\ Expected(n) \in Nat
            /\ g[n] = (IF Expected(n)' > 0 THEN Expected(n)' - 1 ELSE 0) /\ Expected(n)' \in Nat
        BY <1>1, <1>2, <1>3
      <3> HIDE DEF f, g
      <3> QED BY <2>1, <3>1
    <2>3. \A m \in Row \ {n} : g[m] <= f[m]
      <3> SUFFICES ASSUME NEW m \in Row \ {n} PROVE g[m] <= f[m]
        OBVIOUS
      <3>1. /\ f[m] = (IF Expected(m) > 0 THEN Expected(m) - 1 ELSE 0) /\ Expected(m) \in Nat
            /\ g[m] = (IF Expected(m)' > 0 THEN Expected(m)' - 1 ELSE 0) /\ Expected(m)' \in Nat
            /\ Expected(m)' <= Expected(m)
        BY <1>1, <1>2, <1>3, <2>1
      <3> HIDE DEF f, g
      <3> QED BY <3>1
    <2>4. b <= a + 1
      <3> HIDE DEF f, g
      <3> QED BY <1>4, <2>2, <2>3, RowsFinite, SumGrows
    <2>5. faults' = faults + 1
      BY <1>7 DEF OneMore
    <2>6. b <= faults'
      <3> HIDE DEF a, b
      <3> QED BY <1>5, <2>4, <2>5
    <2> QED BY <2>6 DEF RepeatsArePaid
  <1> QED BY <1>6, <1>7

\* Repeats stay paid for, whatever happens.
LEMMA RepeatStep ==
    TypeOK /\ TypeOK' /\ RowsInOrder /\ DeliverersHold /\ FewSend /\ FewSend' /\ RepeatsArePaid /\ [Next]_vars
      => RepeatsArePaid'
  <1> SUFFICES ASSUME TypeOK, TypeOK', RowsInOrder, DeliverersHold, FewSend, FewSend', RepeatsArePaid,
                      [Next]_vars
               PROVE  NoMore \/ OneMore
    BY PaidStep
  <1>1. ASSUME NEW w \in Deliverer, Deliver(w) PROVE NoMore
    BY <1>1, ClaimOwes, WorkOwes DEF Deliver
  <1>2. ASSUME NEW w \in Deliverer, DeliveryFault(w) PROVE OneMore
    BY <1>2, FaultOwes
  <1>3. ASSUME NEW m \in Row, LeaseOverrun(m) PROVE OneMore
    BY <1>3, OverrunOnce
  <1> QED BY <1>1, <1>2, <1>3, QuietSteps DEF Next

\* No post, nothing to pay for.
LEMMA InitPaid == Init => FewSend /\ RepeatsArePaid
  <1> SUFFICES ASSUME Init PROVE FewSend /\ RepeatsArePaid
    OBVIOUS
  <1>1. TypeOK
    BY InitTypes
  <1>2. \A m \in Row : Sending(m) = {} /\ ~Open(m) /\ posts[m] = 0
    BY DEF Init, Sending, Open, Exists
  <1>3. FewSend
    BY <1>2, FS_EmptySet DEF FewSend
  <1>4. \A m \in Row : Expected(m) = 0
    BY <1>2, FS_EmptySet DEF Expected, Future
  <1>5. \A m \in Row : Excess[m] = 0
    BY <1>4 DEF Excess
  <1> DEFINE zero == [m \in Row |-> IF m \in {} THEN 1 ELSE 0]
  <1>6. \A m \in Row : Excess[m] = zero[m] /\ zero[m] = IF m \in {} THEN 1 ELSE 0
    BY <1>5
  <1>7. SumFunctionOnSet(Excess, Row) = SumFunctionOnSet(zero, Row)
    <2> HIDE DEF zero
    <2> QED BY <1>6, RowsFinite, SumEqual
  <1>8. SumFunctionOnSet(zero, Row) = Cardinality({})
    <2> HIDE DEF zero
    <2> QED BY <1>6, RowsFinite, SumCounts
  <1>9. faults = 0
    BY DEF Init
  <1> QED BY <1>3, <1>7, <1>8, <1>9, FS_EmptySet DEF RepeatsArePaid

-----------------------------------------------------------------------------
(* The theorems.                                                            *)

\* The inductive invariant holds initially.
LEMMA InitInv == Init => IInv
  <1> SUFFICES ASSUME Init PROVE IInv
    OBVIOUS
  <1>1. TypeOK
    BY InitTypes
  <1>2. RowsInOrder /\ OneRoot /\ DeliverersHold
    BY DEF Init, RowsInOrder, OneRoot, DeliverersHold, Exists, Root
  <1>3. BindingIsDelivered /\ OneOpenNotice
    BY DEF Init, BindingIsDelivered, OneOpenNotice, Root, Audit, Open, Exists
  <1>4. QED
    BY <1>1, <1>2, <1>3, InitPaid DEF IInv

\* Every step preserves it.
LEMMA NextInv == IInv /\ [Next]_vars => IInv'
  <1> SUFFICES ASSUME IInv, [Next]_vars PROVE IInv'
    OBVIOUS
  <1>1. TypeOK' /\ RowsInOrder' /\ OneRoot' /\ DeliverersHold' /\ BindingIsDelivered' /\ OneOpenNotice'
    BY TypesStep, OrderStep, RootStep, HoldStep, BindingStep, NoticeStep DEF IInv
  <1>2. FewSend'
    BY FewStep DEF IInv
  <1>3. RepeatsArePaid'
    BY <1>1, <1>2, RepeatStep DEF IInv
  <1>4. QED
    BY <1>1, <1>2, <1>3 DEF IInv

\* IInv holds in every reachable state of the outbox.
THEOREM Invariance == Spec => []IInv
  BY InitInv, NextInv, PTL DEF Spec

\* Every variable keeps its type.
THEOREM TypeCorrect == Spec => []TypeOK
  <1>1. IInv => TypeOK
    BY DEF IInv
  <1>2. QED
    BY <1>1, Invariance, PTL

\* _finalize_success: the thread is bound exactly when its root is delivered.
THEOREM BindingWithDelivery == Spec => []BindingIsDelivered
  <1>1. IInv => BindingIsDelivered
    BY DEF IInv
  <1>2. QED
    BY <1>1, Invariance, PTL

\* _finalize_success never finds the thread bound to another post.
THEOREM BindingAccepted == Spec => []BindNeverRefused
  <1>1. IInv => BindNeverRefused
    <2> SUFFICES ASSUME IInv, NEW w \in Deliverer, row[w] \in Root, Owns(w, row[w])
                 PROVE  binding = 0
      BY DEF BindNeverRefused, BindingFree
    <2>1. \A m \in Root : m = row[w]
      BY DEF IInv, OneRoot
    <2>2. status[row[w]] # "delivered"
      BY DEF Owns, Open
    <2>3. QED
      BY <2>1, <2>2 DEF IInv, BindingIsDelivered
  <1>2. QED
    BY <1>1, Invariance, PTL

\* _audit: only the newest notice of a campaign waits to be sent.
THEOREM NoticesInOrder == Spec => []OneOpenNotice
  <1>1. IInv => OneOpenNotice
    BY DEF IInv
  <1>2. QED
    BY <1>1, Invariance, PTL

\* deliver_pending_outbox: Slack receives a message again only for a fault.
THEOREM RepeatsHaveFaults == Spec => []DuplicatesNeedAFault
  <1>1. IInv => DuplicatesNeedAFault
    <2> SUFFICES ASSUME IInv PROVE DuplicatesNeedAFault
      OBVIOUS
    <2> DEFINE f == [m \in Row |-> posts[m] - 1]
               P == {m \in Row : posts[m] > 0}
               a == SumFunctionOnSet(Excess, Row)
               b == SumFunctionOnSet(Excess, P)
               c == SumFunctionOnSet(Excess, Row \ P)
               d == SumFunctionOnSet(f, P)
    <2>1. IsFiniteSet(Row) /\ P \in SUBSET Row /\ IsFiniteSet(P) /\ IsFiniteSet(Row \ P)
      BY RowsFinite, FS_Subset
    <2>2. \A m \in Row : Excess[m] \in Nat /\ f[m] \in Int /\ (m \in P => f[m] <= Excess[m])
      <3> SUFFICES ASSUME NEW m \in Row
                   PROVE  Excess[m] \in Nat /\ f[m] \in Int /\ (m \in P => f[m] <= Excess[m])
        OBVIOUS
      <3>1. /\ posts[m] \in Nat /\ Cardinality(Sending(m)) \in Nat /\ Future(m) \in {0, 1}
            /\ Expected(m) = posts[m] + Cardinality(Sending(m)) + Future(m)
        BY ExpectedIs DEF IInv
      <3>2. Excess[m] = (IF Expected(m) > 0 THEN Expected(m) - 1 ELSE 0) /\ f[m] = posts[m] - 1
        BY DEF Excess
      <3>3. m \in P => posts[m] > 0
        OBVIOUS
      <3> HIDE DEF f, P
      <3> QED BY <3>1, <3>2, <3>3
    <2> HIDE DEF f, P
    <2>3. a = b + c
      BY <2>1, <2>2, SumSplit
    <2>4. c \in Nat
      <3> DEFINE R == Row \ P
      <3>1. IsFiniteSet(R) /\ \A m \in R : Excess[m] \in Nat
        BY <2>1, <2>2
      <3> HIDE DEF R
      <3>2. SumFunctionOnSet(Excess, R) \in Nat
        BY <3>1, SumNat
      <3> QED BY <3>2 DEF R
    <2>5. d <= b /\ d \in Int /\ b \in Int
      <3>1. \A m \in P : f[m] \in Int /\ Excess[m] \in Int /\ f[m] <= Excess[m]
        BY <2>1, <2>2
      <3> QED BY <2>1, <3>1, SumOrdered, SumType
    <2>6. a <= faults /\ faults \in Int
      BY DEF IInv, RepeatsArePaid, TypeOK
    <2>7. d <= faults
      <3> HIDE DEF a, b, c, d
      <3> QED BY <2>3, <2>4, <2>5, <2>6
    <2> QED BY <2>7 DEF DuplicatesNeedAFault, f, P
  <1>2. QED
    BY <1>1, Invariance, PTL


\* A step leaves delivered and obsolete rows and a bound thread as they are:
\* all it settles is open, and the thread is bound while its root is open.
LEMMA OutcomesStep ==
    IInv /\ [Next]_vars =>
        /\ \A m \in Row : status[m] \in {"delivered", "obsolete"} => status'[m] = status[m]
        /\ binding # 0 => binding' = binding
  <1> SUFFICES ASSUME IInv, [Next]_vars
               PROVE  /\ \A m \in Row : status[m] \in {"delivered", "obsolete"} => status'[m] = status[m]
                      /\ binding # 0 => binding' = binding
    OBVIOUS
  <1>1. CASE UNCHANGED <<status, binding>>
    BY <1>1
  <1>2. ASSUME NEW k \in AuditKey, RecordAudit(k)
        PROVE  /\ binding' = binding
               /\ \A m \in Row : status[m] \in {"delivered", "obsolete"} => status'[m] = status[m]
    BY <1>2 DEF RecordAudit, Superseded, Open
  <1>3. ASSUME NEW w \in Deliverer, CancelStale(w) \/ FinalizeSuccess(w) \/ FinalizeFailure(w)
        PROVE  \A m \in Row : status[m] \in {"delivered", "obsolete"} => status'[m] = status[m]
    BY <1>3 DEF CancelStale, FinalizeSuccess, FinalizeFailure, Owns, Open, IInv, TypeOK
  <1>4. ASSUME NEW w \in Deliverer, CancelStale(w) \/ FinalizeSuccess(w) \/ FinalizeFailure(w),
               binding # 0
        PROVE  binding' = binding
    <2>1. CASE FinalizeSuccess(w) /\ kind[row[w]] = "root_approval"
      <3>1. row[w] \in Root /\ status[row[w]] # "delivered"
        BY <2>1 DEF FinalizeSuccess, IInv, DeliverersHold, Owns, Open, Root
      <3>2. PICK m \in Root : status[m] = "delivered"
        BY <1>4 DEF IInv, BindingIsDelivered
      <3>3. QED
        BY <3>1, <3>2 DEF IInv, OneRoot
    <2>2. QED
      BY <1>4, <2>1 DEF CancelStale, FinalizeSuccess, FinalizeFailure
  <1>5. QED
    BY <1>1, <1>2, <1>3, <1>4
       DEF Next, EnqueueRoot, EnqueueVariant, Decide, RetryDue, OrphanLeaseExpires,
           LeaseOverrun, Expire, Deliver, DeliveryFault, Claim, Check, Post, FinalizeLost,
           DeliveryError, Crash, vars

\* Late finalizers never touch a settled row or rebind a thread.
THEOREM SettledStays == Spec => OutcomesStand
  <1>1. IInv /\ [Next]_vars =>
            [/\ \A m \in Row : status[m] \in {"delivered", "obsolete"} => status'[m] = status[m]
             /\ binding # 0 => binding' = binding]_vars
    BY OutcomesStep
  <1>2. QED
    BY <1>1, Invariance, PTL DEF Spec, OutcomesStand

=============================================================================
