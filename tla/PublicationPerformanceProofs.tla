------------------------ MODULE PublicationPerformanceProofs ------------------------
(***************************************************************************)
(* Proofs about PublicationPerformance, for any finite set of hourly runs, *)
(* any other publications, any conditions and any bounds.  IInv is         *)
(* inductive; the evidence and the order of the summaries, the recorded    *)
(* alert and the causes of repeats follow from it.                         *)
(***************************************************************************)
EXTENDS PublicationPerformance, FiniteSetTheorems, SequenceTheorems, TLAPS

-----------------------------------------------------------------------------
(* The inductive invariant.                                                 *)

\* While no second process ran beside a first one, one hourly run at most is
\* under way; what it posts and what it records is its own claim, and what it
\* writes back has the alert of the row.
SoloRun ==
    overlaps = 0 =>
        /\ \A v, w \in Worker : Running(v) /\ Running(w) => v = w
        /\ \A w \in Worker :
              /\ pc[w] = "post" => doc.claim.by = w /\ doc.claim.of = found[w]
              /\ pc[w] = "finish" /\ doc.claim.by = w /\ sent[w] => doc.claim.of = told
              /\ pc[w] = "write" => copy[w].alert = doc.alert

\* It posted a row and will record it.
Delivering == daily.at = "finish" /\ daily.delivered
Sent(n) == outbox[n].status = "sent"

\* The daily run works on the first row that is not sent, and rows are posted
\* and sent from the first one on.
SentFirst == \A n \in DOMAIN outbox : Sent(n) => \A m \in 1 .. n - 1 : Sent(m)
RowIsNext ==
    daily.at \in {"post", "finish"} =>
        /\ daily.row \in DOMAIN outbox /\ ~Sent(daily.row)
        /\ \A m \in 1 .. daily.row - 1 : Sent(m)
PostedFirst ==
    /\ \A n \in DOMAIN posts : \A m \in 1 .. posts[n] - 1 : Sent(m)
    /\ Delivering => \E k \in DOMAIN posts : posts[k] = daily.row

\* What a copy has, and what a summary is made from, was observed.
CopiesKnown == \A w \in Worker : copy[w].observations \subseteq doc.observations \cup lost
RowsKnown ==
    \A n \in DOMAIN outbox :
       outbox[n].of.kind = "window" => \A p \in outbox[n].of.from : outbox[n].of.day \in Observed(p)

\* The runs that may still post, and a run with no other beside it
Posters == {w \in Worker : pc[w] \in {"collect", "claim", "post"}}
Only(w) == Running(w) /\ \A v \in Worker : Running(v) => v = w

\* It posted what it claimed and will record it; it will post what it claims.
Recording(w) ==
    /\ Only(w) /\ pc[w] = "finish" /\ sent[w]
    /\ doc.claim.by = w /\ doc.claim.of = told
Claiming(w) ==
    /\ Only(w)
    /\ \/ pc[w] \in {"collect", "claim"}
       \/ pc[w] = "post" /\ doc.claim.by = w /\ doc.claim.of = found[w]

\* The row and every copy of it have what the founder was told last.
Faithful ==
    /\ doc.alert = told
    /\ \A w \in Worker :
          /\ pc[w] = "write" => copy[w].alert = told
          /\ pc[w] = "post" => found[w] # told
          /\ pc[w] = "finish" /\ sent[w] =>
                /\ doc.claim.by = w => doc.claim.of = told
                /\ \A v \in Worker : copy[v].claim.by = w => copy[v].claim.of = told

\* The alerts that may still be repeated without another fault or overlap, and
\* the summary that was posted and will be posted again
Recorder == \E w \in Worker : Recording(w)
Claimer == \E w \in Worker : Claiming(w)
Late == IF Claimer THEN 0 ELSE Cardinality(Posters)
Unfaithful == IF Faithful THEN 0 ELSE 1
AlertDebt == IF Recorder THEN 0 ELSE Late + Unfaithful
Posted == {posts[n] : n \in DOMAIN posts}
SummaryDebt == IF Delivering \/ (\A n \in Posted : Sent(n)) THEN 0 ELSE 1

\* Every repeated message, and every one that is to come, has its cause.
Again == Len(posts) - Cardinality(Posted)
Accounted == repeats + AlertDebt + Again + SummaryDebt <= faults + 2 * overlaps

IInv ==
    /\ TypeOK /\ SoloRun /\ SentFirst /\ RowIsNext /\ PostedFirst /\ SummariesInOrder
    /\ CopiesKnown /\ RowsKnown /\ EvidenceSummarized /\ Accounted

-----------------------------------------------------------------------------
(* The operators of the model.                                              *)

\* A claim grows older up to the bound, and is no other claim.
LEMMA OlderType ==
    ASSUME PerformanceAssumption, NEW a \in (0 .. Lease + MaxAge) \cup {-1}
    PROVE  /\ Older(a) \in (0 .. Lease + MaxAge) \cup {-1}
           /\ Older(a) = -1 <=> a = -1
  <1>1. CASE a = -1
    BY <1>1 DEF Older
  <1>2. CASE a \in 0 .. Lease + MaxAge
    <2>1. Lease + MaxAge \in Nat /\ a + 1 \in Nat
      BY <1>2 DEF PerformanceAssumption
    <2>2. \E x \in {a + 1, Lease + MaxAge} : \A y \in {a + 1, Lease + MaxAge} : x <= y
      BY <2>1
    <2>3. Min({a + 1, Lease + MaxAge}) \in {a + 1, Lease + MaxAge}
          /\ \A y \in {a + 1, Lease + MaxAge} : Min({a + 1, Lease + MaxAge}) <= y
      BY <2>2 DEF Min
    <2>4. Min({a + 1, Lease + MaxAge}) \in 0 .. Lease + MaxAge
      BY <2>1, <2>3
    <2> QED BY <1>2, <2>4 DEF Older
  <1> QED BY <1>1, <1>2

\* A document with an older claim is the same document otherwise.
LEMMA OlderDocument ==
    ASSUME PerformanceAssumption, NEW d \in Document
    PROVE  /\ OlderClaim(d) \in Document
           /\ OlderClaim(d).alert = d.alert /\ OlderClaim(d).observations = d.observations
           /\ OlderClaim(d).claim.by = d.claim.by /\ OlderClaim(d).claim.of = d.claim.of
           /\ d = NoCopy => OlderClaim(d) = NoCopy
  <1> DEFINE c == d.claim
             e == [c EXCEPT !.age = Older(@)]
  <1>1. /\ OlderClaim(d) = [d EXCEPT !.claim = e]
        /\ c \in Claims
    BY DEF OlderClaim, Document
  <1>2. e.by = c.by /\ e.of = c.of /\ e \in Claims /\ (c = NoClaim => e = NoClaim)
    <2>1. CASE c = NoClaim
      <3>1. Older(-1) = -1
        BY DEF Older
      <3> QED BY <2>1, <3>1 DEF NoClaim, Claims
    <2>2. CASE c \in [by : Worker \cup {Nobody}, of : Condition, age : 0 .. Lease + MaxAge]
      <3>1. Older(c.age) \in 0 .. Lease + MaxAge
        BY <2>2, OlderType DEF PerformanceAssumption
      <3>2. c # NoClaim
        BY <2>2 DEF NoClaim
      <3> QED BY <2>2, <3>1, <3>2 DEF Claims
    <2> QED BY <1>1, <2>1, <2>2 DEF Claims
  <1>3. d = NoCopy => OlderClaim(d) = NoCopy
    BY <1>1, <1>2 DEF NoCopy
  <1> QED BY <1>1, <1>2, <1>3 DEF Document

\* A run that starts again is not the one behind a token.
LEMMA ForgottenDocument ==
    ASSUME PerformanceAssumption, NEW d \in Document, NEW w \in Worker
    PROVE  /\ Forgotten(d, w) \in Document
           /\ Forgotten(d, w).alert = d.alert /\ Forgotten(d, w).observations = d.observations
           /\ Forgotten(d, w).claim.of = d.claim.of
           /\ \A v \in Worker : Forgotten(d, w).claim.by = v <=> v # w /\ d.claim.by = v
           /\ d = NoCopy => Forgotten(d, w) = NoCopy
  <1>1. NoClaim.by = Nobody /\ Nobody \notin Worker
    BY DEF NoClaim, PerformanceAssumption
  <1>2. CASE d.claim.by # w
    <2>1. Forgotten(d, w) = d
      BY <1>2 DEF Forgotten
    <2> QED BY <1>2, <2>1
  <1>3. CASE d.claim.by = w
    <2> DEFINE c == d.claim
               e == [c EXCEPT !.by = Nobody]
    <2>1. Forgotten(d, w) = [d EXCEPT !.claim = e]
      BY <1>3 DEF Forgotten
    <2>2. c \in [by : Worker \cup {Nobody}, of : Condition, age : 0 .. Lease + MaxAge]
      BY <1>1, <1>3 DEF Document, Claims
    <2>3. e \in [by : Worker \cup {Nobody}, of : Condition, age : 0 .. Lease + MaxAge]
          /\ e.by = Nobody /\ e.of = c.of
      BY <2>2
    <2>4. d # NoCopy
      BY <1>1, <1>3 DEF NoCopy
    <2>5. /\ [d EXCEPT !.claim = e] \in Document /\ [d EXCEPT !.claim = e].claim = e
          /\ [d EXCEPT !.claim = e].alert = d.alert
          /\ [d EXCEPT !.claim = e].observations = d.observations
      BY <2>3 DEF Document, Claims
    <2> QED BY <1>1, <1>3, <2>1, <2>3, <2>4, <2>5
  <1> QED BY <1>2, <1>3

\* A function on 1 .. n is a sequence of length n.
LEMMA SeqOfLength ==
    ASSUME NEW n \in Nat, NEW S, NEW f \in [1 .. n -> S]
    PROVE  f \in Seq(S) /\ Len(f) = n
  <1>1. f \in Seq(S)
    BY SeqDef
  <1>2. Len(f) \in Nat /\ 1 .. Len(f) = 1 .. n
    BY <1>1, LenProperties
  <1>3. \A k, l \in Nat : k < l => l \in 1 .. l /\ l \notin 1 .. k
    OBVIOUS
  <1>4. ~ (Len(f) < n) /\ ~ (n < Len(f))
    BY <1>2, <1>3
  <1> QED BY <1>1, <1>2, <1>4

\* The summaries of a daily run are finitely many.
LEMMA KeysFinite ==
    ASSUME PerformanceAssumption, TypeOK
    PROVE  Keys \subseteq Summary /\ IsFiniteSet(Keys)
  <1> DEFINE windows == {Key("window", d, {p \in Publication : d \in Seen(p)}) : d \in Windows}
             uncollected == {q \in Publication : Latest(q) = 0}
             missing == {Key("missing", day, {p}) : p \in uncollected}
  <1>1. \A p \in Publication : Seen(p) \subseteq Day
    <2>1. \A p \in Publication : Latest(p) \in 0 .. MaxDay /\ Observations(p) \subseteq Day
      BY DEF TypeOK, Document, OtherDocument, Latest, Observations, Publication
    <2> QED BY <2>1, PerformanceAssumption DEF Seen, Day
  <1>2. Windows \subseteq Day /\ day \in Day
    BY <1>1 DEF Windows, TypeOK
  <1>3. windows \subseteq Summary /\ missing \subseteq Summary
    BY <1>2 DEF Summary, Key
  <1>4. Keys = windows \cup missing
    BY DEF Keys
  <1>5. IsFiniteSet(windows)
    <2>1. IsFiniteSet(Windows)
      <3>1. IsFiniteSet(Day)
        BY PerformanceAssumption, FS_Interval DEF Day
      <3> QED BY <1>2, <3>1, FS_Subset
    <2> DEFINE f == [d \in Windows |-> Key("window", d, {p \in Publication : d \in Seen(p)})]
    <2>2. f \in Surjection(Windows, windows)
      BY DEF Surjection
    <2> QED BY <2>1, <2>2, FS_Surjection
  <1>6. IsFiniteSet(missing)
    <2>1. IsFiniteSet(uncollected)
      <3>1. IsFiniteSet(Publication)
        BY PerformanceAssumption, FS_Singleton, FS_Union DEF Publication
      <3> QED BY <3>1, FS_Subset
    <2> DEFINE f == [p \in uncollected |-> Key("missing", day, {p})]
    <2>2. f \in Surjection(uncollected, missing)
      BY DEF Surjection
    <2> QED BY <2>1, <2>2, FS_Surjection
  <1> HIDE DEF windows, missing
  <1> QED BY <1>3, <1>4, <1>5, <1>6, FS_Union

\* Every summary of a batch is in it once.
LEMMA BatchOnce ==
    ASSUME NEW S, IsFiniteSet(S), NEW q \in Batches(S)
    PROVE  /\ Cardinality(S) \in Nat /\ q \in [1 .. Cardinality(S) -> S]
           /\ \A m, n \in 1 .. Cardinality(S) : q[m] = q[n] => m = n
           /\ \A k \in S : \E n \in 1 .. Cardinality(S) : q[n] = k
  <1> DEFINE N == Cardinality(S)
  <1>1. /\ N \in Nat /\ q \in [1 .. N -> S] /\ DOMAIN q = 1 .. N
        /\ \A m, n \in DOMAIN q : q[m] = q[n] => m = n
    BY FS_CardinalityType DEF Batches
  <1>2. IsFiniteSet(1 .. N) /\ Cardinality(1 .. N) = N
    <2> HIDE DEF N
    <2>1. Cardinality(1 .. N) = (IF 1 > N THEN 0 ELSE N - 1 + 1) /\ IsFiniteSet(1 .. N)
      BY <1>1, FS_Interval
    <2> QED BY <1>1, <2>1
  <1>3. q \in Injection(1 .. N, S)
    BY <1>1 DEF Injection, IsInjective
  <1>4. q \in Surjection(1 .. N, S)
    BY <1>2, <1>3, FS_Injection
  <1> QED BY <1>1, <1>4 DEF Surjection

\* The rows that a daily run adds: one for each summary of S, pending
Added(S) ==
    /\ outbox' \in Seq(Row) /\ Len(outbox) <= Len(outbox')
    /\ \A n \in DOMAIN outbox : outbox'[n] = outbox[n]
    /\ \A n \in DOMAIN outbox' \ DOMAIN outbox : outbox'[n].of \in S /\ outbox'[n].status = "pending"
    /\ \A m, n \in DOMAIN outbox' \ DOMAIN outbox : outbox'[m].of = outbox'[n].of => m = n
    /\ \A k \in S : \E n \in DOMAIN outbox' \ DOMAIN outbox : outbox'[n].of = k

LEMMA ObserveAdds ==
    ASSUME TypeOK, Observe
    PROVE  Added(Fresh(Keys))
  <1> DEFINE S == Fresh(Keys)
             N == Cardinality(S)
             L == Len(outbox)
             row(k) == [of |-> k, status |-> "pending", leased |-> FALSE]
  <1>1. S \subseteq Summary /\ IsFiniteSet(S)
    BY PerformanceAssumption, KeysFinite, FS_Subset DEF Fresh
  <1>2. PICK q \in Batches(S) : outbox' = outbox \o [n \in DOMAIN q |-> row(q[n])]
    BY DEF Observe
  <1> HIDE DEF S
  <1>3. /\ N \in Nat /\ q \in [1 .. N -> S] /\ DOMAIN q = 1 .. N
        /\ \A m, n \in 1 .. N : q[m] = q[n] => m = n
        /\ \A k \in S : \E n \in 1 .. N : q[n] = k
    BY <1>1, BatchOnce
  <1> DEFINE rows == [n \in DOMAIN q |-> row(q[n])]
  <1> HIDE DEF N
  <1>4. \A k \in S : row(k) \in Row /\ row(k).of = k /\ row(k).status = "pending"
    BY <1>1 DEF Row
  <1> HIDE DEF row
  <1>5. rows \in [1 .. N -> Row] /\ \A n \in 1 .. N : rows[n] = row(q[n])
    BY <1>3, <1>4
  <1> HIDE DEF rows
  <1>6. rows \in Seq(Row) /\ Len(rows) = N
    BY <1>3, <1>5, SeqOfLength
  <1>7. outbox \in Seq(Row) /\ L \in Nat /\ DOMAIN outbox = 1 .. L
    BY LenProperties DEF TypeOK
  <1>8. /\ outbox' \in Seq(Row) /\ Len(outbox') = L + N
        /\ \A i \in 1 .. L + N : outbox'[i] = IF i <= L THEN outbox[i] ELSE rows[i - L]
    <2>1. outbox' = outbox \o rows
      BY <1>2 DEF rows
    <2> QED BY <2>1, <1>6, <1>7, ConcatProperties
  <1>9. DOMAIN outbox' = 1 .. L + N
    BY <1>8, LenProperties
  <1> HIDE DEF L
  <1>10. L <= L + N /\ \A n \in 1 .. L : n \in 1 .. L + N /\ n <= L
    BY <1>3, <1>7
  <1>11. \A n \in (1 .. L + N) \ (1 .. L) : n - L \in 1 .. N /\ ~(n <= L)
    BY <1>3, <1>7
  <1>12. \A n \in 1 .. N : n + L \in (1 .. L + N) \ (1 .. L) /\ (n + L) - L = n
    BY <1>3, <1>7
  <1>13. \A n \in (1 .. L + N) \ (1 .. L) : outbox'[n] = row(q[n - L]) /\ q[n - L] \in S
    BY <1>3, <1>5, <1>8, <1>11
  <1>14. \A n \in 1 .. L : outbox'[n] = outbox[n]
    BY <1>8, <1>10
  <1>15. \A m, n \in (1 .. L + N) \ (1 .. L) : outbox'[m].of = outbox'[n].of => m = n
    <2>1. SUFFICES ASSUME NEW m \in (1 .. L + N) \ (1 .. L), NEW n \in (1 .. L + N) \ (1 .. L),
                          outbox'[m].of = outbox'[n].of
                   PROVE  m = n
      OBVIOUS
    <2>2. q[m - L] = q[n - L]
      BY <2>1, <1>4, <1>13
    <2>3. m - L = n - L
      BY <2>2, <1>3, <1>11
    <2> QED BY <2>3, <1>3, <1>7
  <1>16. ASSUME NEW k \in S PROVE \E n \in (1 .. L + N) \ (1 .. L) : outbox'[n].of = k
    <2>1. PICK n \in 1 .. N : q[n] = k
      BY <1>3
    <2>2. PICK i \in (1 .. L + N) \ (1 .. L) : i - L = n
      BY <1>12
    <2>3. outbox'[i] = row(q[i - L])
      BY <1>13
    <2>4. q[i - L] = k
      BY <2>1, <2>2
    <2> QED BY <2>2, <2>3, <2>4, <1>4
  <1>17. L <= Len(outbox')
    BY <1>8, <1>10
  <1>18. \A n \in (1 .. L + N) \ (1 .. L) : outbox'[n].of \in S /\ outbox'[n].status = "pending"
    BY <1>4, <1>13
  <1>19. Added(S)
    <2>1. Len(outbox) <= Len(outbox')
      BY <1>17 DEF L
    <2>2. DOMAIN outbox = 1 .. L
      BY <1>7
    <2> HIDE DEF L, N
    <2> QED BY <1>8, <1>9, <1>14, <1>15, <1>16, <1>18, <2>1, <2>2 DEF Added
  <1> QED BY <1>19 DEF S

\* What a step does to the summaries: their rows stay, change at most in
\* their lease or become sent, and new ones are pending.
RowsKept ==
    /\ outbox' \in Seq(Row) /\ Len(outbox) <= Len(outbox')
    /\ \A n \in DOMAIN outbox : outbox'[n].of = outbox[n].of
    /\ \A n \in DOMAIN outbox :
          \/ outbox'[n].status = outbox[n].status
          \/ n = daily.row /\ Delivering /\ outbox'[n].status = "sent"
    /\ \A n \in DOMAIN outbox' \ DOMAIN outbox : outbox'[n].status = "pending"

\* One row gets another lease or becomes sent.
LEMMA RowSet ==
    ASSUME outbox \in Seq(Row), NEW n \in DOMAIN outbox, NEW e \in Row, e.of = outbox[n].of,
           e.status = outbox[n].status \/ (n = daily.row /\ Delivering /\ e.status = "sent"),
           outbox' = [outbox EXCEPT ![n] = e]
    PROVE  RowsKept
  <1>1. /\ outbox' \in Seq(Row) /\ Len(outbox') = Len(outbox) /\ Len(outbox) \in Nat
        /\ \A m \in DOMAIN outbox : outbox'[m] = IF m = n THEN e ELSE outbox[m]
    BY ExceptSeq, LenProperties
  <1>2. Len(outbox) <= Len(outbox') /\ DOMAIN outbox' = DOMAIN outbox
    <2>1. \A k \in Nat : k <= k
      OBVIOUS
    <2> QED BY <1>1, <2>1
  <1>3. \A m \in DOMAIN outbox : outbox'[m].of = outbox[m].of
    BY <1>1
  <1>4. \A m \in DOMAIN outbox :
          \/ outbox'[m].status = outbox[m].status
          \/ m = daily.row /\ Delivering /\ outbox'[m].status = "sent"
    BY <1>1
  <1> QED BY <1>1, <1>2, <1>3, <1>4 DEF RowsKept

-----------------------------------------------------------------------------
(* One lemma for each conjunct.                                             *)

\* Rows are added at the end, and nothing else becomes of them.
LEMMA RowsStep ==
    TypeOK /\ RowIsNext /\ [Next]_vars => RowsKept
  <1> SUFFICES ASSUME TypeOK, RowIsNext, [Next]_vars PROVE RowsKept
    OBVIOUS
  <1>0. /\ outbox \in Seq(Row) /\ Len(outbox) \in Nat
        /\ \A n \in DOMAIN outbox : outbox[n] \in Row
    BY LenProperties, ElementOfSeq DEF TypeOK
  <1>a. UNCHANGED outbox => RowsKept
    BY <1>0 DEF RowsKept
  <1> USE <1>0, PerformanceAssumption DEF rowVars, runVars, worldVars, founderVars, Goto, Forget,
      Fault, CanFail, Running, RowsKept
  <1>1. CASE ConditionChanges
    BY <1>1, <1>a DEF ConditionChanges
  <1>2. CASE NextDay
    BY <1>2, <1>a DEF NextDay
  <1>3. CASE Tick
    BY <1>3, <1>a DEF Tick
  <1>4. CASE SummaryLeaseExpires
    <2>1. PICK n \in DOMAIN outbox : outbox' = [outbox EXCEPT ![n] = [outbox[n] EXCEPT !.leased = FALSE]]
      BY <1>4 DEF SummaryLeaseExpires
    <2> DEFINE e == [outbox[n] EXCEPT !.leased = FALSE]
    <2>2. e \in Row /\ e.of = outbox[n].of /\ e.status = outbox[n].status
      BY <1>0 DEF Row
    <2> HIDE DEF e
    <2> QED BY <1>0, <2>1, <2>2, RowSet DEF e
  <1>5. CASE Observe
    BY <1>0, <1>5, ObserveAdds DEF Added
  <1>6. CASE ClaimSummary
    <2>1. CASE outbox' = outbox
      BY <1>a, <2>1
    <2>2. ASSUME NEW n \in NextRow, outbox' = [outbox EXCEPT ![n] = [outbox[n] EXCEPT !.leased = TRUE]]
          PROVE  RowsKept
      <3> DEFINE e == [outbox[n] EXCEPT !.leased = TRUE]
      <3>1. n \in DOMAIN outbox
        BY DEF NextRow, PendingRows
      <3>2. e \in Row /\ e.of = outbox[n].of /\ e.status = outbox[n].status
        BY <3>1, <1>0 DEF Row
      <3> HIDE DEF e
      <3> QED BY <1>0, <2>2, <3>1, <3>2, RowSet DEF e
    <2> QED BY <1>6, <2>1, <2>2 DEF ClaimSummary
  <1>7. CASE Send
    BY <1>7, <1>a DEF Send
  <1>8. CASE FinishSummary
    <2> DEFINE n == daily.row
               e == [outbox[n] EXCEPT !.leased = FALSE, !.status = IF daily.delivered THEN "sent" ELSE @]
    <2>1. n \in DOMAIN outbox /\ daily.at = "finish" /\ outbox' = [outbox EXCEPT ![n] = e]
      BY <1>8 DEF FinishSummary, RowIsNext
    <2>2. /\ e \in Row /\ e.of = outbox[n].of
          /\ e.status = outbox[n].status \/ (n = daily.row /\ Delivering /\ e.status = "sent")
      <3>1. CASE daily.delivered
        BY <2>1, <1>0, <3>1 DEF Row, Delivering
      <3>2. CASE ~daily.delivered
        BY <2>1, <1>0, <3>2 DEF Row
      <3> QED BY <3>1, <3>2
    <2> HIDE DEF e
    <2> QED BY <1>0, <2>1, <2>2, RowSet
  <1>9. CASE SendFails
    BY <1>9, <1>a DEF SendFails
  <1>10. CASE DailyCrash
    BY <1>10, <1>a DEF DailyCrash
  <1>11. ASSUME NEW w \in Worker, Work(w) PROVE RowsKept
    <2>1. CASE Start(w)
      BY <2>1, <1>a DEF Start
    <2>2. CASE Collect(w)
      BY <2>2, <1>a DEF Collect
    <2>3. CASE Claim(w)
      BY <2>3, <1>a DEF Claim
    <2>4. CASE Post(w)
      BY <2>4, <1>a DEF Post
    <2>5. CASE Finish(w)
      BY <2>5, <1>a DEF Finish
    <2>6. CASE Read(w)
      BY <2>6, <1>a DEF Read
    <2>7. CASE Write(w)
      BY <2>7, <1>a DEF Write
    <2> QED
      BY <1>11, <2>1, <2>2, <2>3, <2>4, <2>5, <2>6, <2>7 DEF Work
  <1>12. ASSUME NEW w \in Worker, WorkFault(w) PROVE RowsKept
    <2>1. CASE CollectFails(w)
      BY <2>1, <1>a DEF CollectFails
    <2>2. CASE PostFails(w)
      BY <2>2, <1>a DEF PostFails
    <2>3. CASE AlertFails(w)
      BY <2>3, <1>a DEF AlertFails
    <2>4. CASE Crash(w)
      BY <2>4, <1>a DEF Crash
    <2> QED
      BY <1>12, <2>1, <2>2, <2>3, <2>4 DEF WorkFault
  <1>13. CASE UNCHANGED vars
    BY <1>13, <1>a DEF vars
  <1>14. ASSUME NEW w \in Worker, WorkOther(w) PROVE RowsKept
    BY <1>14, <1>a DEF WorkOther, CollectOther
  <1> QED
    BY <1>1, <1>2, <1>3, <1>4, <1>5, <1>6, <1>7, <1>8, <1>9, <1>10, <1>11, <1>12, <1>13, <1>14 DEF Next,
       World, Daily, DailyFault

\* The document and its copies.
LEMMA TypeDocument ==
    TypeOK /\ [Next]_vars => (doc \in Document /\ copy \in [Worker -> Document])'
  <1> SUFFICES ASSUME TypeOK, [Next]_vars PROVE (doc \in Document /\ copy \in [Worker -> Document])'
    OBVIOUS
  <1>0. /\ doc \in Document /\ \A v \in Worker : copy[v] \in Document
        /\ OlderClaim(doc) \in Document /\ \A v \in Worker : OlderClaim(copy[v]) \in Document
        /\ \A v, w \in Worker : Forgotten(doc, w) \in Document /\ Forgotten(copy[v], w) \in Document
        /\ NoCopy \in Document
    <2>1. doc \in Document /\ (\A v \in Worker : copy[v] \in Document) /\ NoCopy \in Document
      <3>1. NoClaim \in Claims /\ "healthy" \in Condition /\ 0 \in 0 .. MaxDay
        BY PerformanceAssumption DEF Claims, Condition
      <3>2. NoCopy \in Document
        BY <3>1 DEF NoCopy, Document
      <3> QED BY <3>2 DEF TypeOK
    <2>2. \A d \in Document : OlderClaim(d) \in Document
      BY PerformanceAssumption, OlderDocument
    <2>3. \A d \in Document, w \in Worker : Forgotten(d, w) \in Document
      BY PerformanceAssumption, ForgottenDocument
    <2> QED BY <2>1, <2>2, <2>3
  <1> USE <1>0, PerformanceAssumption DEF rowVars, runVars, worldVars, founderVars, Goto, Forget,
      Fault, CanFail, Running, TypeOK
  <1>1. CASE ConditionChanges
    BY <1>1 DEF ConditionChanges
  <1>2. CASE NextDay
    BY <1>2 DEF NextDay
  <1>3. CASE Tick
    BY <1>3 DEF Tick
  <1>4. CASE SummaryLeaseExpires
    BY <1>4 DEF SummaryLeaseExpires
  <1>5. CASE Observe
    <2>1. Seen(This) \in SUBSET Day
      BY <1>0 DEF Document, Day, Seen, Observations, Latest
    <2>2. doc' = [doc EXCEPT !.observations = Seen(This)]
      BY <1>5 DEF Observe
    <2> QED BY <1>5, <1>0, <2>1, <2>2 DEF Observe, Document
  <1>6. CASE ClaimSummary
    BY <1>6 DEF ClaimSummary
  <1>7. CASE Send
    BY <1>7 DEF Send
  <1>8. CASE FinishSummary
    BY <1>8 DEF FinishSummary
  <1>9. CASE SendFails
    BY <1>9 DEF SendFails
  <1>10. CASE DailyCrash
    BY <1>10 DEF DailyCrash
  <1>11. ASSUME NEW w \in Worker, Work(w) PROVE (doc \in Document /\ copy \in [Worker -> Document])'
    <2>1. CASE Start(w)
      BY <2>1 DEF Start
    <2>2. CASE Collect(w)
      BY <2>2 DEF Collect, Document
    <2>3. CASE Claim(w)
      <3>1. [by |-> w, of |-> found[w], age |-> age[w]] \in Claims
        <4>1. 0 .. MaxAge \subseteq 0 .. Lease + MaxAge
          OBVIOUS
        <4> QED BY <2>3, <4>1 DEF Claims
      <3>2. doc' = doc \/ doc' = [doc EXCEPT !.claim = [by |-> w, of |-> found[w], age |-> age[w]]]
        BY <2>3 DEF Claim
      <3>4. [doc EXCEPT !.claim = [by |-> w, of |-> found[w], age |-> age[w]]] \in Document
        BY <3>1, <1>0 DEF Document
      <3> QED BY <2>3, <3>2, <3>4, <1>0 DEF Claim
    <2>4. CASE Post(w)
      BY <2>4 DEF Post
    <2>5. CASE Finish(w)
      <3>1. NoClaim \in Claims /\ doc.claim.of \in Condition
        BY <2>5, <1>0 DEF Document, Claims, NoClaim, Condition
      <3>2. doc' \in Document
        BY <2>5, <3>1, <1>0 DEF Finish, Document
      <3> QED BY <2>5, <3>2 DEF Finish
    <2>6. CASE Read(w)
      <3>1. CASE doc.latest = 0
        BY <2>6, <3>1 DEF Read
      <3>2. CASE doc.latest # 0
        <4>1. copy' = [copy EXCEPT ![w] = doc] /\ doc' = doc
          BY <2>6, <3>2 DEF Read
        <4> QED BY <4>1, <1>0 DEF TypeOK
      <3> QED BY <3>1, <3>2
    <2>7. CASE Write(w)
      BY <2>7 DEF Write
    <2> QED
      BY <1>11, <2>1, <2>2, <2>3, <2>4, <2>5, <2>6, <2>7 DEF Work
  <1>12. ASSUME NEW w \in Worker, WorkFault(w) PROVE (doc \in Document /\ copy \in [Worker -> Document])'
    <2>1. CASE CollectFails(w)
      BY <2>1 DEF CollectFails
    <2>2. CASE PostFails(w)
      BY <2>2 DEF PostFails
    <2>3. CASE AlertFails(w)
      BY <2>3 DEF AlertFails
    <2>4. CASE Crash(w)
      BY <2>4 DEF Crash
    <2> QED
      BY <1>12, <2>1, <2>2, <2>3, <2>4 DEF WorkFault
  <1>13. CASE UNCHANGED vars
    BY <1>13 DEF vars
  <1>14. ASSUME NEW w \in Worker, WorkOther(w) PROVE (doc \in Document /\ copy \in [Worker -> Document])'
    BY <1>14 DEF WorkOther, CollectOther
  <1> QED
    BY <1>1, <1>2, <1>3, <1>4, <1>5, <1>6, <1>7, <1>8, <1>9, <1>10, <1>11, <1>12, <1>13, <1>14 DEF Next,
       World, Daily, DailyFault

\* Where the hourly runs are.
LEMMA TypeRuns ==
    TypeOK /\ [Next]_vars => (/\ pc \in [Worker -> Step] /\ age \in [Worker -> 0 .. MaxAge]
    /\ window \in [Worker -> 0 .. MaxDay] /\ found \in [Worker -> Condition] /\ sent \in [Worker -> BOOLEAN])'
  <1> SUFFICES ASSUME TypeOK, [Next]_vars
               PROVE  (/\ pc \in [Worker -> Step] /\ age \in [Worker -> 0 .. MaxAge]
    /\ window \in [Worker -> 0 .. MaxDay] /\ found \in [Worker -> Condition] /\ sent \in [Worker -> BOOLEAN])'
    OBVIOUS
  <1>g. ASSUME NEW w \in Worker, NEW s \in Step, Goto(w, s)
        PROVE  (pc \in [Worker -> Step] /\ age \in [Worker -> 0 .. MaxAge])'
    <2>1. pc \in [Worker -> Step] /\ age \in [Worker -> 0 .. MaxAge] /\ 0 \in 0 .. MaxAge
      BY PerformanceAssumption DEF TypeOK
    <2>2. pc' \in [Worker -> Step]
      BY <1>g, <2>1 DEF Goto
    <2>3. age' = age \/ age' = [age EXCEPT ![w] = 0]
      BY <1>g DEF Goto
    <2> QED BY <2>1, <2>2, <2>3
  <1>s. {"idle", "collect", "claim", "post", "finish", "read", "write"} = Step
    BY DEF Step
  <1> USE PerformanceAssumption DEF rowVars, runVars, worldVars, founderVars, Forget, Fault, CanFail,
      TypeOK, Condition, Day, Dated
  <1>1. CASE ConditionChanges
    BY <1>1 DEF ConditionChanges
  <1>2. CASE NextDay
    BY <1>2 DEF NextDay
  <1>3. CASE Tick
    BY <1>3 DEF Tick
  <1>4. CASE SummaryLeaseExpires
    BY <1>4 DEF SummaryLeaseExpires
  <1>5. CASE Observe
    BY <1>5 DEF Observe
  <1>6. CASE ClaimSummary
    BY <1>6 DEF ClaimSummary
  <1>7. CASE Send
    BY <1>7 DEF Send
  <1>8. CASE FinishSummary
    BY <1>8 DEF FinishSummary
  <1>9. CASE SendFails
    BY <1>9 DEF SendFails
  <1>10. CASE DailyCrash
    BY <1>10 DEF DailyCrash
  <1>11. ASSUME NEW w \in Worker, Work(w) PROVE (/\ pc \in [Worker -> Step] /\ age \in [Worker -> 0 .. MaxAge]
    /\ window \in [Worker -> 0 .. MaxDay] /\ found \in [Worker -> Condition] /\ sent \in [Worker -> BOOLEAN])'
    <2>1. CASE Start(w)
      <3>1. Goto(w, "collect")
        BY <2>1 DEF Start
      <3>2. (pc \in [Worker -> Step] /\ age \in [Worker -> 0 .. MaxAge])'
        BY <3>1, <1>g, <1>s
      <3>3. (window \in [Worker -> 0 .. MaxDay] /\ found \in [Worker -> Condition])'
        BY <2>1 DEF Start
      <3>4. sent' \in [Worker -> BOOLEAN]
        BY <2>1 DEF Start
      <3> QED BY <3>2, <3>3, <3>4
    <2>2. CASE Collect(w)
      <3>1. Goto(w, "claim")
        BY <2>2 DEF Collect
      <3>2. (pc \in [Worker -> Step] /\ age \in [Worker -> 0 .. MaxAge])'
        BY <3>1, <1>g, <1>s
      <3>3. (window \in [Worker -> 0 .. MaxDay] /\ found \in [Worker -> Condition])'
        BY <2>2 DEF Collect
      <3>4. sent' \in [Worker -> BOOLEAN]
        BY <2>2 DEF Collect
      <3> QED BY <3>2, <3>3, <3>4
    <2>3. CASE Claim(w)
      <3>1. Goto(w, "post") \/ Goto(w, "read")
        BY <2>3 DEF Claim
      <3>2. (pc \in [Worker -> Step] /\ age \in [Worker -> 0 .. MaxAge])'
        BY <3>1, <1>g, <1>s
      <3>3. UNCHANGED <<found, sent, window>> \/ Forget(w)
        BY <2>3 DEF Claim
      <3>4. CASE Forget(w)
        <4>1. (window \in [Worker -> 0 .. MaxDay] /\ found \in [Worker -> Condition])'
          BY <3>4
        <4>2. sent' \in [Worker -> BOOLEAN]
          BY <3>4
        <4> QED BY <3>2, <4>1, <4>2
      <3>5. CASE UNCHANGED <<found, sent, window>>
        BY <3>2, <3>5
      <3> QED BY <3>3, <3>4, <3>5
    <2>4. CASE Post(w)
      <3>1. Goto(w, "finish")
        BY <2>4 DEF Post
      <3>2. (pc \in [Worker -> Step] /\ age \in [Worker -> 0 .. MaxAge])'
        BY <3>1, <1>g, <1>s
      <3>3. (window \in [Worker -> 0 .. MaxDay] /\ found \in [Worker -> Condition])'
        BY <2>4 DEF Post
      <3>4. sent' \in [Worker -> BOOLEAN]
        BY <2>4 DEF Post
      <3> QED BY <3>2, <3>3, <3>4
    <2>5. CASE Finish(w)
      <3>1. Goto(w, "read")
        BY <2>5 DEF Finish
      <3>2. (pc \in [Worker -> Step] /\ age \in [Worker -> 0 .. MaxAge])'
        BY <3>1, <1>g, <1>s
      <3>3. (window \in [Worker -> 0 .. MaxDay] /\ found \in [Worker -> Condition])'
        BY <2>5 DEF Finish
      <3>4. sent' \in [Worker -> BOOLEAN]
        BY <2>5 DEF Finish
      <3> QED BY <3>2, <3>3, <3>4
    <2>6. CASE Read(w)
      <3>1. Goto(w, "idle") \/ Goto(w, "write")
        BY <2>6 DEF Read
      <3>2. (pc \in [Worker -> Step] /\ age \in [Worker -> 0 .. MaxAge])'
        BY <3>1, <1>g, <1>s
      <3>3. (window \in [Worker -> 0 .. MaxDay] /\ found \in [Worker -> Condition])'
        BY <2>6 DEF Read
      <3>4. sent' \in [Worker -> BOOLEAN]
        BY <2>6 DEF Read
      <3> QED BY <3>2, <3>3, <3>4
    <2>7. CASE Write(w)
      <3>1. Goto(w, "idle")
        BY <2>7 DEF Write
      <3>2. (pc \in [Worker -> Step] /\ age \in [Worker -> 0 .. MaxAge])'
        BY <3>1, <1>g, <1>s
      <3>3. (window \in [Worker -> 0 .. MaxDay] /\ found \in [Worker -> Condition])'
        BY <2>7 DEF Write
      <3>4. sent' \in [Worker -> BOOLEAN]
        BY <2>7 DEF Write
      <3> QED BY <3>2, <3>3, <3>4
    <2> QED
      BY <1>11, <2>1, <2>2, <2>3, <2>4, <2>5, <2>6, <2>7 DEF Work
  <1>12. ASSUME NEW w \in Worker, WorkFault(w)
         PROVE  (/\ pc \in [Worker -> Step] /\ age \in [Worker -> 0 .. MaxAge]
    /\ window \in [Worker -> 0 .. MaxDay] /\ found \in [Worker -> Condition] /\ sent \in [Worker -> BOOLEAN])'
    <2>1. CASE CollectFails(w)
      <3>1. Goto(w, "read")
        BY <2>1 DEF CollectFails
      <3>2. (pc \in [Worker -> Step] /\ age \in [Worker -> 0 .. MaxAge])'
        BY <3>1, <1>g, <1>s
      <3>3. (window \in [Worker -> 0 .. MaxDay] /\ found \in [Worker -> Condition])'
        BY <2>1 DEF CollectFails
      <3>4. sent' \in [Worker -> BOOLEAN]
        BY <2>1 DEF CollectFails
      <3> QED BY <3>2, <3>3, <3>4
    <2>2. CASE PostFails(w)
      <3>1. Goto(w, "finish")
        BY <2>2 DEF PostFails
      <3>2. (pc \in [Worker -> Step] /\ age \in [Worker -> 0 .. MaxAge])'
        BY <3>1, <1>g, <1>s
      <3>3. (window \in [Worker -> 0 .. MaxDay] /\ found \in [Worker -> Condition])'
        BY <2>2 DEF PostFails
      <3>4. sent' \in [Worker -> BOOLEAN]
        BY <2>2 DEF PostFails
      <3> QED BY <3>2, <3>3, <3>4
    <2>3. CASE AlertFails(w)
      <3>1. Goto(w, "read")
        BY <2>3 DEF AlertFails
      <3>2. (pc \in [Worker -> Step] /\ age \in [Worker -> 0 .. MaxAge])'
        BY <3>1, <1>g, <1>s
      <3>3. (window \in [Worker -> 0 .. MaxDay] /\ found \in [Worker -> Condition])'
        BY <2>3 DEF AlertFails
      <3>4. sent' \in [Worker -> BOOLEAN]
        BY <2>3 DEF AlertFails
      <3> QED BY <3>2, <3>3, <3>4
    <2>4. CASE Crash(w)
      <3>1. Goto(w, "idle")
        BY <2>4 DEF Crash
      <3>2. (pc \in [Worker -> Step] /\ age \in [Worker -> 0 .. MaxAge])'
        BY <3>1, <1>g, <1>s
      <3>3. (window \in [Worker -> 0 .. MaxDay] /\ found \in [Worker -> Condition])'
        BY <2>4 DEF Crash
      <3>4. sent' \in [Worker -> BOOLEAN]
        BY <2>4 DEF Crash
      <3> QED BY <3>2, <3>3, <3>4
    <2> QED
      BY <1>12, <2>1, <2>2, <2>3, <2>4 DEF WorkFault
  <1>13. CASE UNCHANGED vars
    BY <1>13 DEF vars
  <1>14. ASSUME NEW w \in Worker, WorkOther(w) PROVE (/\ pc \in [Worker -> Step] /\ age \in [Worker -> 0 .. MaxAge]
    /\ window \in [Worker -> 0 .. MaxDay] /\ found \in [Worker -> Condition] /\ sent \in [Worker -> BOOLEAN])'
    BY <1>14 DEF WorkOther, CollectOther
  <1> QED
    BY <1>1, <1>2, <1>3, <1>4, <1>5, <1>6, <1>7, <1>8, <1>9, <1>10, <1>11, <1>12, <1>13, <1>14 DEF Next,
       World, Daily, DailyFault

\* A run has a copy only while it is about to write it.
LEMMA TypeCopies ==
    TypeOK /\ [Next]_vars => ((\A v \in Worker : pc[v] # "write" => copy[v] = NoCopy)')
  <1> SUFFICES ASSUME TypeOK, [Next]_vars PROVE (\A v \in Worker : pc[v] # "write" => copy[v] = NoCopy)'
    OBVIOUS
  <1>0. \A v, w \in Worker :
          copy[v] = NoCopy => OlderClaim(copy[v]) = NoCopy /\ Forgotten(copy[v], w) = NoCopy
    <2>1. \A v \in Worker : copy[v] \in Document
      BY DEF TypeOK
    <2>2. \A d \in Document : d = NoCopy => OlderClaim(d) = NoCopy
      BY PerformanceAssumption, OlderDocument
    <2>3. \A d \in Document, w \in Worker : d = NoCopy => Forgotten(d, w) = NoCopy
      BY PerformanceAssumption, ForgottenDocument
    <2> QED BY <2>1, <2>2, <2>3
  <1> USE <1>0, PerformanceAssumption DEF rowVars, runVars, worldVars, founderVars, Goto, Forget,
      Fault, CanFail, Running, TypeOK, Step
  <1>1. CASE ConditionChanges
    BY <1>1 DEF ConditionChanges
  <1>2. CASE NextDay
    BY <1>2 DEF NextDay
  <1>3. CASE Tick
    BY <1>3 DEF Tick
  <1>4. CASE SummaryLeaseExpires
    BY <1>4 DEF SummaryLeaseExpires
  <1>5. CASE Observe
    BY <1>5 DEF Observe
  <1>6. CASE ClaimSummary
    BY <1>6 DEF ClaimSummary
  <1>7. CASE Send
    BY <1>7 DEF Send
  <1>8. CASE FinishSummary
    BY <1>8 DEF FinishSummary
  <1>9. CASE SendFails
    BY <1>9 DEF SendFails
  <1>10. CASE DailyCrash
    BY <1>10 DEF DailyCrash
  <1>11. ASSUME NEW w \in Worker, Work(w) PROVE (\A v \in Worker : pc[v] # "write" => copy[v] = NoCopy)'
    <2>1. CASE Start(w)
      BY <2>1 DEF Start
    <2>2. CASE Collect(w)
      BY <2>2 DEF Collect
    <2>3. CASE Claim(w)
      BY <2>3 DEF Claim
    <2>4. CASE Post(w)
      BY <2>4 DEF Post
    <2>5. CASE Finish(w)
      BY <2>5 DEF Finish
    <2>6. CASE Read(w)
      BY <2>6 DEF Read
    <2>7. CASE Write(w)
      BY <2>7 DEF Write
    <2> QED
      BY <1>11, <2>1, <2>2, <2>3, <2>4, <2>5, <2>6, <2>7 DEF Work
  <1>12. ASSUME NEW w \in Worker, WorkFault(w) PROVE (\A v \in Worker : pc[v] # "write" => copy[v] = NoCopy)'
    <2>1. CASE CollectFails(w)
      BY <2>1 DEF CollectFails
    <2>2. CASE PostFails(w)
      BY <2>2 DEF PostFails
    <2>3. CASE AlertFails(w)
      BY <2>3 DEF AlertFails
    <2>4. CASE Crash(w)
      BY <2>4 DEF Crash
    <2> QED
      BY <1>12, <2>1, <2>2, <2>3, <2>4 DEF WorkFault
  <1>13. CASE UNCHANGED vars
    BY <1>13 DEF vars
  <1>14. ASSUME NEW w \in Worker, WorkOther(w) PROVE (\A v \in Worker : pc[v] # "write" => copy[v] = NoCopy)'
    BY <1>14 DEF WorkOther, CollectOther
  <1> QED
    BY <1>1, <1>2, <1>3, <1>4, <1>5, <1>6, <1>7, <1>8, <1>9, <1>10, <1>11, <1>12, <1>13, <1>14 DEF Next,
       World, Daily, DailyFault

\* The type of the daily run and of what it posted
DailyTyped ==
    /\ posts \in Seq(DOMAIN outbox)
    /\ daily \in [at : DailyStep, row : 0 .. Len(outbox), delivered : BOOLEAN]

\* The summaries and their posts.
LEMMA TypeDaily ==
    TypeOK /\ RowIsNext /\ RowsKept /\ [Next]_vars => DailyTyped'
  <1> SUFFICES ASSUME TypeOK, RowIsNext, RowsKept, [Next]_vars PROVE DailyTyped'
    OBVIOUS
  <1> USE DEF DailyTyped
  <1> DEFINE R == 0 .. Len(outbox)
             Daily0 == [at : DailyStep, row : R, delivered : BOOLEAN]
  <1>z. /\ posts \in Seq(DOMAIN outbox') /\ DOMAIN outbox \subseteq DOMAIN outbox' /\ DOMAIN outbox \subseteq R
        /\ 0 \in R /\ R \subseteq 0 .. Len(outbox')
    <2>1. /\ DOMAIN outbox \subseteq DOMAIN outbox' /\ Len(outbox') \in Nat
          /\ Len(outbox) <= Len(outbox') /\ Len(outbox) \in Nat /\ DOMAIN outbox = 1 .. Len(outbox)
      BY LenProperties DEF RowsKept, TypeOK
    <2> QED BY <2>1, SeqMonotonic DEF TypeOK
  <1>y. daily \in Daily0
    BY DEF TypeOK
  <1> HIDE DEF R
  <1>x. daily' \in Daily0 => daily' \in [at : DailyStep, row : 0 .. Len(outbox'), delivered : BOOLEAN]
    BY <1>z
  <1>w. UNCHANGED daily => daily' \in Daily0
    BY <1>y
  <1>v. {"idle", "drain", "post", "finish"} = DailyStep
    BY DEF DailyStep
  <1>u. UNCHANGED <<daily, posts>> => DailyTyped'
    BY <1>w, <1>x, <1>z
  <1> HIDE DEF Daily0
  <1> USE PerformanceAssumption DEF rowVars, runVars, worldVars, founderVars, Goto, Forget, Fault,
      CanFail, Running
  <1>1. CASE ConditionChanges
    BY <1>1, <1>u DEF ConditionChanges
  <1>2. CASE NextDay
    BY <1>2, <1>u DEF NextDay
  <1>3. CASE Tick
    BY <1>3, <1>u DEF Tick
  <1>4. CASE SummaryLeaseExpires
    BY <1>4, <1>u DEF SummaryLeaseExpires
  <1>5. CASE Observe
    <2>1. daily' \in Daily0
      BY <1>5, <1>v, <1>y, <1>z DEF Observe, Daily0, NoDaily
    <2> QED BY <1>5, <2>1, <1>x, <1>z DEF Observe
  <1>6. CASE ClaimSummary
    <2>1. \A n \in NextRow : n \in R
      BY <1>z DEF NextRow, PendingRows
    <2>2. daily' = NoDaily \/ \E n \in R : daily' = [daily EXCEPT !.at = "post", !.row = n]
      BY <1>6, <2>1 DEF ClaimSummary
    <2>4. NoDaily \in Daily0
      BY <1>v, <1>z DEF Daily0, NoDaily
    <2>5. \A n \in R : [daily EXCEPT !.at = "post", !.row = n] \in Daily0
      BY <1>v, <1>y DEF Daily0
    <2>3. daily' \in Daily0
      BY <2>2, <2>4, <2>5
    <2> QED BY <1>6, <2>3, <1>x, <1>z DEF ClaimSummary
  <1>7. CASE Send
    <2>1. daily' \in Daily0
      BY <1>7, <1>v, <1>y, <1>z DEF Send, Daily0, NoDaily
    <2>2. posts' \in Seq(DOMAIN outbox')
      BY <1>7, <1>z DEF Send, RowIsNext
    <2> QED BY <1>7, <2>1, <2>2, <1>x
  <1>8. CASE FinishSummary
    <2>1. daily' \in Daily0
      BY <1>8, <1>v, <1>y, <1>z DEF FinishSummary, Daily0, NoDaily
    <2> QED BY <1>8, <2>1, <1>x, <1>z DEF FinishSummary
  <1>9. CASE SendFails
    <2>1. daily' \in Daily0
      BY <1>9, <1>v, <1>y, <1>z DEF SendFails, Daily0, NoDaily
    <2> QED BY <1>9, <2>1, <1>x, <1>z DEF SendFails
  <1>10. CASE DailyCrash
    <2>1. daily' \in Daily0
      BY <1>10, <1>v, <1>y, <1>z DEF DailyCrash, Daily0, NoDaily
    <2> QED BY <1>10, <2>1, <1>x, <1>z DEF DailyCrash
  <1>11. ASSUME NEW w \in Worker, Work(w) PROVE DailyTyped'
    <2>1. CASE Start(w)
      BY <2>1, <1>u DEF Start
    <2>2. CASE Collect(w)
      BY <2>2, <1>u DEF Collect
    <2>3. CASE Claim(w)
      BY <2>3, <1>u DEF Claim
    <2>4. CASE Post(w)
      BY <2>4, <1>u DEF Post
    <2>5. CASE Finish(w)
      BY <2>5, <1>u DEF Finish
    <2>6. CASE Read(w)
      BY <2>6, <1>u DEF Read
    <2>7. CASE Write(w)
      BY <2>7, <1>u DEF Write
    <2> QED
      BY <1>11, <2>1, <2>2, <2>3, <2>4, <2>5, <2>6, <2>7 DEF Work
  <1>12. ASSUME NEW w \in Worker, WorkFault(w) PROVE DailyTyped'
    <2>1. CASE CollectFails(w)
      BY <2>1, <1>u DEF CollectFails
    <2>2. CASE PostFails(w)
      BY <2>2, <1>u DEF PostFails
    <2>3. CASE AlertFails(w)
      BY <2>3, <1>u DEF AlertFails
    <2>4. CASE Crash(w)
      BY <2>4, <1>u DEF Crash
    <2> QED
      BY <1>12, <2>1, <2>2, <2>3, <2>4 DEF WorkFault
  <1>13. CASE UNCHANGED vars
    BY <1>13, <1>u DEF vars
  <1>14. ASSUME NEW w \in Worker, WorkOther(w) PROVE DailyTyped'
    BY <1>14, <1>u DEF WorkOther, CollectOther
  <1> QED
    BY <1>1, <1>2, <1>3, <1>4, <1>5, <1>6, <1>7, <1>8, <1>9, <1>10, <1>11, <1>12, <1>13, <1>14 DEF Next,
       World, Daily, DailyFault

\* The world, the founder and the counters.
LEMMA TypeCounters ==
    TypeOK /\ [Next]_vars => (/\ truth \in Condition /\ day \in Day /\ changes \in 0 .. MaxChanges
    /\ told \in Condition /\ repeats \in Nat
    /\ lost \subseteq Day /\ {overlaps, faults} \subseteq Nat /\ overlaps + faults <= MaxFaults)'
  <1> SUFFICES ASSUME TypeOK, [Next]_vars
               PROVE  (/\ truth \in Condition /\ day \in Day /\ changes \in 0 .. MaxChanges
    /\ told \in Condition /\ repeats \in Nat
    /\ lost \subseteq Day /\ {overlaps, faults} \subseteq Nat /\ overlaps + faults <= MaxFaults)'
    OBVIOUS
  <1> USE PerformanceAssumption DEF rowVars, runVars, worldVars, founderVars, Goto, Forget, Fault,
      CanFail, Running, TypeOK, Condition, Day, Document
  <1>1. CASE ConditionChanges
    BY <1>1 DEF ConditionChanges, Change
  <1>2. CASE NextDay
    BY <1>2 DEF NextDay, Change
  <1>3. CASE Tick
    BY <1>3 DEF Tick
  <1>4. CASE SummaryLeaseExpires
    BY <1>4 DEF SummaryLeaseExpires
  <1>5. CASE Observe
    BY <1>5 DEF Observe
  <1>6. CASE ClaimSummary
    BY <1>6 DEF ClaimSummary
  <1>7. CASE Send
    BY <1>7 DEF Send
  <1>8. CASE FinishSummary
    BY <1>8 DEF FinishSummary
  <1>9. CASE SendFails
    BY <1>9 DEF SendFails
  <1>10. CASE DailyCrash
    BY <1>10 DEF DailyCrash
  <1>11. ASSUME NEW w \in Worker, Work(w)
         PROVE  (/\ truth \in Condition /\ day \in Day /\ changes \in 0 .. MaxChanges
    /\ told \in Condition /\ repeats \in Nat
    /\ lost \subseteq Day /\ {overlaps, faults} \subseteq Nat /\ overlaps + faults <= MaxFaults)'
    <2>1. CASE Start(w)
      BY <2>1 DEF Start
    <2>2. CASE Collect(w)
      BY <2>2 DEF Collect
    <2>3. CASE Claim(w)
      BY <2>3 DEF Claim
    <2>4. CASE Post(w)
      BY <2>4 DEF Post
    <2>5. CASE Finish(w)
      BY <2>5 DEF Finish
    <2>6. CASE Read(w)
      BY <2>6 DEF Read
    <2>7. CASE Write(w)
      BY <2>7 DEF Write
    <2> QED
      BY <1>11, <2>1, <2>2, <2>3, <2>4, <2>5, <2>6, <2>7 DEF Work
  <1>12. ASSUME NEW w \in Worker, WorkFault(w)
         PROVE  (/\ truth \in Condition /\ day \in Day /\ changes \in 0 .. MaxChanges
    /\ told \in Condition /\ repeats \in Nat
    /\ lost \subseteq Day /\ {overlaps, faults} \subseteq Nat /\ overlaps + faults <= MaxFaults)'
    <2>1. CASE CollectFails(w)
      BY <2>1 DEF CollectFails
    <2>2. CASE PostFails(w)
      BY <2>2 DEF PostFails
    <2>3. CASE AlertFails(w)
      BY <2>3 DEF AlertFails
    <2>4. CASE Crash(w)
      BY <2>4 DEF Crash
    <2> QED
      BY <1>12, <2>1, <2>2, <2>3, <2>4 DEF WorkFault
  <1>13. CASE UNCHANGED vars
    BY <1>13 DEF vars
  <1>14. ASSUME NEW w \in Worker, WorkOther(w) PROVE (/\ truth \in Condition /\ day \in Day /\ changes \in 0 .. MaxChanges
    /\ told \in Condition /\ repeats \in Nat
    /\ lost \subseteq Day /\ {overlaps, faults} \subseteq Nat /\ overlaps + faults <= MaxFaults)'
    BY <1>14 DEF WorkOther, CollectOther, Change
  <1> QED
    BY <1>1, <1>2, <1>3, <1>4, <1>5, <1>6, <1>7, <1>8, <1>9, <1>10, <1>11, <1>12, <1>13, <1>14 DEF Next,
       World, Daily, DailyFault

\* The documents of the Others.
LEMMA TypeOthers ==
    TypeOK /\ [Next]_vars => others' \in [Others -> OtherDocument]
  <1> SUFFICES ASSUME TypeOK, [Next]_vars PROVE others' \in [Others -> OtherDocument]
    OBVIOUS
  <1>0. others \in [Others -> OtherDocument] /\ window \in [Worker -> 0 .. MaxDay] /\ This \notin Others
    BY PerformanceAssumption DEF TypeOK
  <1>1. CASE Observe
    <2>1. ASSUME NEW o \in Others PROVE [others[o] EXCEPT !.observations = Seen(o)] \in OtherDocument
      <3>1. Seen(o) = others[o].observations \cup ({others[o].latest} \ {0})
        BY <1>0 DEF Seen, Latest, Observations
      <3>2. Seen(o) \in SUBSET Day
        BY <1>0, <3>1, PerformanceAssumption DEF OtherDocument, Day
      <3> QED BY <1>0, <3>2 DEF OtherDocument
    <2> QED BY <1>1, <2>1 DEF Observe
  <1>2. ASSUME NEW w \in Worker, WorkOther(w) PROVE others' \in [Others -> OtherDocument]
    <2>1. PICK o \in Others : others' = [others EXCEPT ![o].latest = window[w]]
      BY <1>2 DEF WorkOther, CollectOther
    <2> QED BY <1>0, <2>1 DEF OtherDocument
  <1>3. ~Observe /\ ~(\E w \in Worker : WorkOther(w)) => others' = others
    BY DEF Next, World, Work, WorkFault, Daily, DailyFault, ConditionChanges, NextDay, Tick,
           SummaryLeaseExpires, Start, Collect, Claim, Post, Finish, Read, Write, CollectFails,
           PostFails, AlertFails, Crash, ClaimSummary, Send, FinishSummary, SendFails, DailyCrash,
           rowVars, vars
  <1> QED BY <1>0, <1>1, <1>2, <1>3

\* One hourly run at most, until another process runs beside it.
LEMMA SoloStep ==
    TypeOK /\ SoloRun /\ [Next]_vars => SoloRun'
  <1> SUFFICES ASSUME TypeOK, SoloRun, [Next]_vars PROVE SoloRun'
    OBVIOUS
  <1>x0. /\ pc \in [Worker -> Step] /\ found \in [Worker -> Condition] /\ sent \in [Worker -> BOOLEAN]
         /\ copy \in [Worker -> Document] /\ doc \in Document
    BY DEF TypeOK
  <1>x1. /\ OlderClaim(doc).alert = doc.alert /\ OlderClaim(doc).claim.by = doc.claim.by
         /\ OlderClaim(doc).claim.of = doc.claim.of
         /\ \A v \in Worker : OlderClaim(copy[v]).alert = copy[v].alert
    BY <1>x0, PerformanceAssumption, OlderDocument
  <1>x2. \A w \in Worker :
          /\ Forgotten(doc, w).alert = doc.alert /\ Forgotten(doc, w).claim.of = doc.claim.of
          /\ \A v \in Worker : Forgotten(doc, w).claim.by = v <=> v # w /\ doc.claim.by = v
          /\ \A v \in Worker : Forgotten(copy[v], w).alert = copy[v].alert
    BY <1>x0, PerformanceAssumption, ForgottenDocument
  <1> USE <1>x0, <1>x1, <1>x2, PerformanceAssumption DEF rowVars, runVars, worldVars, founderVars,
      Goto, Forget, Fault, CanFail, Running, SoloRun, Step
  <1>1. CASE ConditionChanges
    BY <1>1 DEF ConditionChanges
  <1>2. CASE NextDay
    BY <1>2 DEF NextDay
  <1>3. CASE Tick
    BY <1>3 DEF Tick
  <1>4. CASE SummaryLeaseExpires
    BY <1>4 DEF SummaryLeaseExpires
  <1>5. CASE Observe
    BY <1>5 DEF Observe
  <1>6. CASE ClaimSummary
    BY <1>6 DEF ClaimSummary
  <1>7. CASE Send
    BY <1>7 DEF Send
  <1>8. CASE FinishSummary
    BY <1>8 DEF FinishSummary
  <1>9. CASE SendFails
    BY <1>9 DEF SendFails
  <1>10. CASE DailyCrash
    BY <1>10 DEF DailyCrash
  <1>11. ASSUME NEW w \in Worker, Work(w) PROVE SoloRun'
    <2>1. CASE Start(w)
      <3>1. overlaps \in Nat
        BY DEF TypeOK
      <3>2. CASE \E v \in Worker : Running(v)
        <4>1. overlaps' = overlaps + 1
          BY <2>1, <3>2 DEF Start
        <4> QED BY <3>1, <4>1
      <3>3. CASE ~ \E v \in Worker : Running(v)
        <4>1. \A v \in Worker : pc[v] = "idle"
          BY <3>3
        <4>2. pc' = [pc EXCEPT ![w] = "collect"]
          BY <2>1 DEF Start
        <4>3. \A v \in Worker : v # w => pc'[v] = "idle"
          BY <4>1, <4>2
        <4>4. pc'[w] = "collect"
          BY <4>2
        <4> QED BY <4>3, <4>4
      <3> QED BY <3>2, <3>3
    <2>2. CASE Collect(w)
      BY <2>2 DEF Collect
    <2>3. CASE Claim(w)
      <3>0. /\ pc[w] = "claim" /\ UNCHANGED <<copy, told, overlaps>>
            /\ \/ /\ doc' = [doc EXCEPT !.claim = [by |-> w, of |-> found[w], age |-> age[w]]]
                  /\ found' = found /\ sent' = sent /\ pc' = [pc EXCEPT ![w] = "post"]
               \/ /\ doc' = doc /\ found' = [found EXCEPT ![w] = "healthy"]
                  /\ sent' = [sent EXCEPT ![w] = FALSE] /\ pc' = [pc EXCEPT ![w] = "read"]
        <4>1. CASE ~Held(doc, age[w]) /\ found[w] # doc.alert
          BY <2>3, <4>1 DEF Claim
        <4>2. CASE ~(~Held(doc, age[w]) /\ found[w] # doc.alert)
          <5>1. /\ doc' = doc /\ Goto(w, "read") /\ Forget(w) /\ pc[w] = "claim"
                /\ UNCHANGED <<copy, told, overlaps>>
            BY <2>3, <4>2 DEF Claim
          <5> QED BY <5>1
        <4> QED BY <4>1, <4>2
      <3>1. CASE /\ doc' = [doc EXCEPT !.claim = [by |-> w, of |-> found[w], age |-> age[w]]]
                 /\ found' = found /\ sent' = sent /\ pc' = [pc EXCEPT ![w] = "post"]
        <4>1. doc'.claim.by = w /\ doc'.claim.of = found[w] /\ doc'.alert = doc.alert
          BY <3>1 DEF Document
        <4> HIDE DEF Running
        <4>2. \A v \in Worker : Running(v)' <=> Running(v)
          BY <3>0, <3>1 DEF Running
        <4>3. overlaps = 0 => \A v \in Worker : Running(v) => v = w
          BY <3>0 DEF Running
        <4> QED BY <3>0, <3>1, <4>1, <4>2, <4>3 DEF Running
      <3>2. CASE /\ doc' = doc /\ found' = [found EXCEPT ![w] = "healthy"]
                 /\ sent' = [sent EXCEPT ![w] = FALSE] /\ pc' = [pc EXCEPT ![w] = "read"]
        BY <3>0, <3>2
      <3> QED BY <3>0, <3>1, <3>2
    <2>4. CASE Post(w)
      BY <2>4 DEF Post
    <2>5. CASE Finish(w)
      BY <2>5 DEF Finish
    <2>6. CASE Read(w)
      BY <2>6 DEF Read
    <2>7. CASE Write(w)
      BY <2>7 DEF Write
    <2> QED
      BY <1>11, <2>1, <2>2, <2>3, <2>4, <2>5, <2>6, <2>7 DEF Work
  <1>12. ASSUME NEW w \in Worker, WorkFault(w) PROVE SoloRun'
    <2>1. CASE CollectFails(w)
      BY <2>1 DEF CollectFails
    <2>2. CASE PostFails(w)
      BY <2>2 DEF PostFails
    <2>3. CASE AlertFails(w)
      BY <2>3 DEF AlertFails
    <2>4. CASE Crash(w)
      BY <2>4 DEF Crash
    <2> QED
      BY <1>12, <2>1, <2>2, <2>3, <2>4 DEF WorkFault
  <1>13. CASE UNCHANGED vars
    BY <1>13 DEF vars
  <1>14. ASSUME NEW w \in Worker, WorkOther(w) PROVE SoloRun'
    BY <1>14 DEF WorkOther, CollectOther
  <1> QED
    BY <1>1, <1>2, <1>3, <1>4, <1>5, <1>6, <1>7, <1>8, <1>9, <1>10, <1>11, <1>12, <1>13, <1>14 DEF Next,
       World, Daily, DailyFault

\* Rows are sent from the first one on.
LEMMA SentFirstStep ==
    TypeOK /\ SentFirst /\ RowIsNext /\ RowsKept => SentFirst'
  <1> SUFFICES ASSUME TypeOK, SentFirst, RowIsNext, RowsKept, NEW n \in DOMAIN outbox', Sent(n)',
                      NEW m \in 1 .. n - 1
               PROVE  Sent(m)'
    BY DEF SentFirst
  <1>1. /\ Len(outbox) \in Nat /\ DOMAIN outbox = 1 .. Len(outbox)
        /\ Len(outbox') \in Nat /\ DOMAIN outbox' = 1 .. Len(outbox')
        /\ Len(outbox) <= Len(outbox')
    BY LenProperties DEF TypeOK, RowsKept
  <1>2. n \in DOMAIN outbox
    BY DEF RowsKept, Sent
  <1>3. \A i \in DOMAIN outbox : Sent(i) => Sent(i)'
    BY DEF RowsKept, Sent
  <1>4. \A i \in 1 .. n - 1 : i \in DOMAIN outbox
    BY <1>1, <1>2
  <1>5. CASE Sent(n)
    BY <1>2, <1>3, <1>4, <1>5 DEF SentFirst
  <1>6. CASE ~Sent(n)
    <2>1. n = daily.row /\ daily.at = "finish"
      BY <1>2, <1>6 DEF RowsKept, Sent, Delivering
    <2> QED BY <1>3, <1>4, <2>1 DEF RowIsNext
  <1> QED BY <1>5, <1>6

\* The daily run works on the first row that is not sent.
LEMMA RowStep ==
    TypeOK /\ SentFirst /\ RowIsNext /\ RowsKept /\ [Next]_vars => RowIsNext'
  <1> SUFFICES ASSUME TypeOK, SentFirst, RowIsNext, RowsKept, [Next]_vars PROVE RowIsNext'
    OBVIOUS
  <1>s. UNCHANGED <<daily, outbox>> => RowIsNext'
    BY DEF RowIsNext, Sent
  <1> USE PerformanceAssumption DEF rowVars, runVars, worldVars, founderVars, Goto, Forget, Fault,
      CanFail, Running
  <1>1. CASE ConditionChanges
    BY <1>1, <1>s DEF ConditionChanges
  <1>2. CASE NextDay
    BY <1>2, <1>s DEF NextDay
  <1>3. CASE Tick
    BY <1>3, <1>s DEF Tick
  <1>4. CASE SummaryLeaseExpires
    <2>1. daily' = daily /\ \E n \in DOMAIN outbox : outbox' = [outbox EXCEPT ![n].leased = FALSE]
      BY <1>4 DEF SummaryLeaseExpires
    <2>2. DOMAIN outbox' = DOMAIN outbox /\ outbox \in Seq(Row)
      BY <2>1 DEF TypeOK
    <2>3. \A n \in DOMAIN outbox : Sent(n)' <=> Sent(n)
      BY <2>1, <2>2, ElementOfSeq DEF Sent, Row
    <2>4. \A n \in DOMAIN outbox : \A m \in 1 .. n - 1 : m \in DOMAIN outbox
      BY <2>2
    <2> QED BY <2>1, <2>2, <2>3, <2>4 DEF RowIsNext
  <1>5. CASE Observe
    <2>1. daily' = [NoDaily EXCEPT !.at = "drain"]
      BY <1>5 DEF Observe
    <2> QED BY <2>1 DEF RowIsNext, NoDaily
  <1>6. CASE ClaimSummary
    <2>1. CASE daily' = NoDaily
      BY <2>1 DEF RowIsNext, NoDaily
    <2>2. ASSUME NEW n \in NextRow, outbox' = [outbox EXCEPT ![n].leased = TRUE],
                 daily' = [daily EXCEPT !.at = "post", !.row = n]
          PROVE  RowIsNext'
      <3>1. /\ n \in DOMAIN outbox /\ ~Sent(n)
            /\ \A m \in DOMAIN outbox : outbox[m].status = "pending" => n <= m
        BY DEF NextRow, PendingRows, Sent
      <3>2. DOMAIN outbox' = DOMAIN outbox /\ outbox \in Seq(Row)
        BY <2>2 DEF TypeOK
      <3>3. \A i \in DOMAIN outbox : Sent(i)' <=> Sent(i)
        BY <2>2, <3>2, ElementOfSeq DEF Sent, Row
      <3>4. \A m \in 1 .. n - 1 : m \in DOMAIN outbox /\ ~(n <= m)
        BY <3>1, <3>2
      <3>5. \A m \in DOMAIN outbox : Sent(m) \/ outbox[m].status = "pending"
        <4>1. \A m \in DOMAIN outbox : outbox[m] \in Row
          BY <3>2, LenProperties
        <4> QED BY <4>1 DEF Sent, Row
      <3>6. daily'.row = n
        BY <2>2 DEF TypeOK
      <3> QED BY <3>1, <3>2, <3>3, <3>4, <3>5, <3>6 DEF RowIsNext
    <2> QED BY <1>6, <2>1, <2>2 DEF ClaimSummary
  <1>7. CASE Send
    <2>1. outbox' = outbox /\ daily'.row = daily.row /\ daily.at = "post"
      BY <1>7 DEF Send, TypeOK
    <2> QED BY <2>1 DEF RowIsNext, Sent
  <1>8. CASE FinishSummary
    <2>1. daily'.at \in {"drain", "idle"}
      <3>1. CASE daily.delivered
        BY <1>8, <3>1 DEF FinishSummary, TypeOK
      <3>2. CASE ~daily.delivered
        BY <1>8, <3>2 DEF FinishSummary, NoDaily
      <3> QED BY <3>1, <3>2
    <2> QED BY <2>1 DEF RowIsNext
  <1>9. CASE SendFails
    <2>1. outbox' = outbox /\ daily'.row = daily.row /\ daily.at = "post"
      BY <1>9 DEF SendFails, TypeOK
    <2> QED BY <2>1 DEF RowIsNext, Sent
  <1>10. CASE DailyCrash
    BY <1>10 DEF DailyCrash, RowIsNext, NoDaily
  <1>11. ASSUME NEW w \in Worker, Work(w) PROVE RowIsNext'
    <2>1. CASE Start(w)
      BY <2>1, <1>s DEF Start
    <2>2. CASE Collect(w)
      BY <2>2, <1>s DEF Collect
    <2>3. CASE Claim(w)
      BY <2>3, <1>s DEF Claim
    <2>4. CASE Post(w)
      BY <2>4, <1>s DEF Post
    <2>5. CASE Finish(w)
      BY <2>5, <1>s DEF Finish
    <2>6. CASE Read(w)
      BY <2>6, <1>s DEF Read
    <2>7. CASE Write(w)
      BY <2>7, <1>s DEF Write
    <2> QED
      BY <1>11, <2>1, <2>2, <2>3, <2>4, <2>5, <2>6, <2>7 DEF Work
  <1>12. ASSUME NEW w \in Worker, WorkFault(w) PROVE RowIsNext'
    <2>1. CASE CollectFails(w)
      BY <2>1, <1>s DEF CollectFails
    <2>2. CASE PostFails(w)
      BY <2>2, <1>s DEF PostFails
    <2>3. CASE AlertFails(w)
      BY <2>3, <1>s DEF AlertFails
    <2>4. CASE Crash(w)
      BY <2>4, <1>s DEF Crash
    <2> QED
      BY <1>12, <2>1, <2>2, <2>3, <2>4 DEF WorkFault
  <1>13. CASE UNCHANGED vars
    BY <1>13, <1>s DEF vars
  <1>14. ASSUME NEW w \in Worker, WorkOther(w) PROVE RowIsNext'
    BY <1>14, <1>s DEF WorkOther, CollectOther
  <1> QED
    BY <1>1, <1>2, <1>3, <1>4, <1>5, <1>6, <1>7, <1>8, <1>9, <1>10, <1>11, <1>12, <1>13, <1>14 DEF Next,
       World, Daily, DailyFault

\* Rows are posted from the first one on.
LEMMA PostedStep ==
    TypeOK /\ SentFirst /\ RowIsNext /\ PostedFirst /\ SummariesInOrder /\ RowsKept /\ [Next]_vars
    => (PostedFirst /\ SummariesInOrder)'
  <1> SUFFICES ASSUME TypeOK, SentFirst, RowIsNext, PostedFirst, SummariesInOrder, RowsKept, [Next]_vars
               PROVE  (PostedFirst /\ SummariesInOrder)'
    OBVIOUS
  <1>p0. /\ posts \in Seq(DOMAIN outbox) /\ Len(posts) \in Nat
         /\ \A n \in DOMAIN outbox, i \in Nat : i \in 1 .. n - 1 => i \in DOMAIN outbox
         /\ \A n \in DOMAIN posts : posts[n] \in DOMAIN outbox
         /\ DOMAIN outbox \subseteq DOMAIN outbox'
    <2>1. /\ outbox \in Seq(Row) /\ DOMAIN outbox = 1 .. Len(outbox) /\ Len(outbox) \in Nat
          /\ DOMAIN outbox' = 1 .. Len(outbox') /\ Len(outbox') \in Nat /\ Len(outbox) <= Len(outbox')
          /\ posts \in Seq(DOMAIN outbox)
      BY LenProperties DEF TypeOK, RowsKept
    <2>2. Len(posts) \in Nat /\ \A n \in DOMAIN posts : posts[n] \in DOMAIN outbox
      BY <2>1, LenProperties, ElementOfSeq
    <2> QED BY <2>1, <2>2
  <1>p1. \A n \in DOMAIN outbox : Sent(n) => Sent(n)'
    BY DEF RowsKept, Sent
  <1>p2. \A n \in DOMAIN outbox' :
          Sent(n)' => n \in DOMAIN outbox /\ (Sent(n) \/ (Delivering /\ n = daily.row))
    <2>4. ASSUME NEW n \in DOMAIN outbox', Sent(n)' PROVE n \in DOMAIN outbox
      BY <2>4 DEF RowsKept, Sent
    <2>5. ASSUME NEW n \in DOMAIN outbox, Sent(n)' PROVE Sent(n) \/ (Delivering /\ n = daily.row)
      BY <2>5 DEF RowsKept, Sent
    <2> QED BY <2>4, <2>5 DEF Sent
  <1>p3. \A n \in DOMAIN outbox : Sent(n) => \E k \in DOMAIN posts : posts[k] = n
    BY DEF SummariesInOrder, Sent
  <1>s. ASSUME posts' = posts, Delivering' => Delivering /\ daily'.row = daily.row
        PROVE  (PostedFirst /\ SummariesInOrder)'
    <2>1. PostedFirst'
      BY <1>s, <1>p0, <1>p1 DEF PostedFirst
    <2>2. \A n \in DOMAIN outbox' : Sent(n)' => \E k \in DOMAIN posts' : posts'[k] = n
      BY <1>s, <1>p2, <1>p3 DEF PostedFirst
    <2> QED BY <1>s, <2>1, <2>2 DEF SummariesInOrder, Sent
  <1> USE PerformanceAssumption DEF rowVars, runVars, worldVars, founderVars, Goto, Forget, Fault,
      CanFail, Running
  <1>1. CASE ConditionChanges
    <2>1. daily' = daily /\ posts' = posts
      BY <1>1 DEF ConditionChanges
    <2> QED BY <1>s, <2>1 DEF Delivering
  <1>2. CASE NextDay
    <2>1. daily' = daily /\ posts' = posts
      BY <1>2 DEF NextDay
    <2> QED BY <1>s, <2>1 DEF Delivering
  <1>3. CASE Tick
    <2>1. daily' = daily /\ posts' = posts
      BY <1>3 DEF Tick
    <2> QED BY <1>s, <2>1 DEF Delivering
  <1>4. CASE SummaryLeaseExpires
    <2>1. daily' = daily /\ posts' = posts
      BY <1>4 DEF SummaryLeaseExpires
    <2> QED BY <1>s, <2>1 DEF Delivering
  <1>5. CASE Observe
    <2>1. daily'.at = "drain" /\ posts' = posts
      BY <1>5 DEF Observe, NoDaily
    <2> QED BY <1>s, <2>1 DEF Delivering
  <1>6. CASE ClaimSummary
    <2>0. \A n : [daily EXCEPT !.at = "post", !.row = n].at = "post"
      BY DEF TypeOK
    <2>2. /\ posts' = posts
          /\ (daily' = NoDaily \/ \E n \in NextRow : daily' = [daily EXCEPT !.at = "post", !.row = n])
      BY <1>6 DEF ClaimSummary
    <2>1. daily'.at \in {"idle", "post"}
      <3>1. CASE daily' = NoDaily
        BY <3>1 DEF NoDaily
      <3>2. ASSUME NEW n \in NextRow, daily' = [daily EXCEPT !.at = "post", !.row = n]
            PROVE  daily'.at = "post"
        BY <2>0, <3>2
      <3> QED BY <2>2, <3>1, <3>2
    <2> QED BY <1>s, <2>1, <2>2 DEF Delivering
  <1>7. CASE Send
    <2>1. /\ daily.at = "post" /\ daily.row \in DOMAIN outbox /\ daily'.row = daily.row
          /\ posts' = Append(posts, daily.row) /\ outbox' = outbox
      BY <1>7 DEF Send, RowIsNext, TypeOK
    <2>2. /\ DOMAIN posts' = 1 .. Len(posts) + 1 /\ DOMAIN posts = 1 .. Len(posts)
          /\ posts'[Len(posts) + 1] = daily.row
          /\ \A k \in DOMAIN posts : posts'[k] = posts[k]
      BY <1>p0, <2>1
    <2>3. \A k \in DOMAIN posts' : k \in DOMAIN posts \/ k = Len(posts) + 1
      BY <1>p0, <2>2
    <2>4. PostedFirst'
      <3>1. \A n \in DOMAIN posts' : \A m \in 1 .. posts'[n] - 1 : Sent(m)
        BY <2>1, <2>2, <2>3 DEF PostedFirst, RowIsNext
      <3>2. \A m : Sent(m)' <=> Sent(m)
        BY <2>1 DEF Sent
      <3>3. Len(posts) + 1 \in DOMAIN posts'
        BY <1>p0, <2>2
      <3> QED BY <2>1, <2>2, <3>1, <3>2, <3>3 DEF PostedFirst
    <2>5. \A n \in DOMAIN posts' : \A m \in 1 .. posts'[n] - 1 : \E k \in 1 .. n - 1 : posts'[k] = m
      <3>1. ASSUME NEW n \in DOMAIN posts, NEW m \in 1 .. posts'[n] - 1
            PROVE  \E k \in 1 .. n - 1 : posts'[k] = m
        <4>1. PICK k \in 1 .. n - 1 : posts[k] = m
          BY <2>2, <3>1 DEF SummariesInOrder
        <4>2. k \in DOMAIN posts
          BY <1>p0, <2>2
        <4> QED BY <2>2, <4>1, <4>2
      <3>2. ASSUME NEW m \in 1 .. daily.row - 1 PROVE \E k \in 1 .. Len(posts) + 1 - 1 : posts'[k] = m
        <4>1. Sent(m) /\ m \in DOMAIN outbox
          BY <1>p0, <2>1 DEF RowIsNext
        <4>2. PICK k \in DOMAIN posts : posts[k] = m
          BY <1>p3, <4>1
        <4>3. k \in 1 .. Len(posts) + 1 - 1
          BY <1>p0, <2>2
        <4> QED BY <2>2, <4>2, <4>3
      <3> QED BY <2>2, <2>3, <3>1, <3>2
    <2>6. \A n \in DOMAIN outbox' : outbox'[n].status = "sent" => \E k \in DOMAIN posts' : posts'[k] = n
      <3>1. DOMAIN posts \subseteq DOMAIN posts'
        BY <1>p0, <2>2
      <3> QED BY <1>p3, <2>1, <2>2, <3>1 DEF Sent
    <2> QED BY <2>4, <2>5, <2>6 DEF SummariesInOrder
  <1>8. CASE FinishSummary
    <2>1. daily'.at \in {"drain", "idle"}
      <3>1. CASE daily.delivered
        BY <1>8, <3>1 DEF FinishSummary, TypeOK
      <3>2. CASE ~daily.delivered
        BY <1>8, <3>2 DEF FinishSummary, NoDaily
      <3> QED BY <3>1, <3>2
    <2>2. posts' = posts
      BY <1>8 DEF FinishSummary
    <2> QED BY <1>s, <2>1, <2>2 DEF Delivering
  <1>9. CASE SendFails
    <2>1. posts' = posts /\ ~Delivering'
      BY <1>9 DEF SendFails, Delivering, TypeOK
    <2> QED BY <1>s, <2>1
  <1>10. CASE DailyCrash
    <2>1. daily'.at = "idle" /\ posts' = posts
      BY <1>10 DEF DailyCrash, NoDaily
    <2> QED BY <1>s, <2>1 DEF Delivering
  <1>11. ASSUME NEW w \in Worker, Work(w) PROVE (PostedFirst /\ SummariesInOrder)'
    <2>1. CASE Start(w)
      <3>1. daily' = daily /\ posts' = posts
        BY <2>1 DEF Start
      <3> QED BY <1>s, <3>1 DEF Delivering
    <2>2. CASE Collect(w)
      <3>1. daily' = daily /\ posts' = posts
        BY <2>2 DEF Collect
      <3> QED BY <1>s, <3>1 DEF Delivering
    <2>3. CASE Claim(w)
      <3>1. daily' = daily /\ posts' = posts
        BY <2>3 DEF Claim
      <3> QED BY <1>s, <3>1 DEF Delivering
    <2>4. CASE Post(w)
      <3>1. daily' = daily /\ posts' = posts
        BY <2>4 DEF Post
      <3> QED BY <1>s, <3>1 DEF Delivering
    <2>5. CASE Finish(w)
      <3>1. daily' = daily /\ posts' = posts
        BY <2>5 DEF Finish
      <3> QED BY <1>s, <3>1 DEF Delivering
    <2>6. CASE Read(w)
      <3>1. daily' = daily /\ posts' = posts
        BY <2>6 DEF Read
      <3> QED BY <1>s, <3>1 DEF Delivering
    <2>7. CASE Write(w)
      <3>1. daily' = daily /\ posts' = posts
        BY <2>7 DEF Write
      <3> QED BY <1>s, <3>1 DEF Delivering
    <2> QED
      BY <1>11, <2>1, <2>2, <2>3, <2>4, <2>5, <2>6, <2>7 DEF Work
  <1>12. ASSUME NEW w \in Worker, WorkFault(w) PROVE (PostedFirst /\ SummariesInOrder)'
    <2>1. CASE CollectFails(w)
      <3>1. daily' = daily /\ posts' = posts
        BY <2>1 DEF CollectFails
      <3> QED BY <1>s, <3>1 DEF Delivering
    <2>2. CASE PostFails(w)
      <3>1. daily' = daily /\ posts' = posts
        BY <2>2 DEF PostFails
      <3> QED BY <1>s, <3>1 DEF Delivering
    <2>3. CASE AlertFails(w)
      <3>1. daily' = daily /\ posts' = posts
        BY <2>3 DEF AlertFails
      <3> QED BY <1>s, <3>1 DEF Delivering
    <2>4. CASE Crash(w)
      <3>1. daily' = daily /\ posts' = posts
        BY <2>4 DEF Crash
      <3> QED BY <1>s, <3>1 DEF Delivering
    <2> QED
      BY <1>12, <2>1, <2>2, <2>3, <2>4 DEF WorkFault
  <1>13. CASE UNCHANGED vars
    <2>1. daily' = daily /\ posts' = posts
      BY <1>13 DEF vars
    <2> QED BY <1>s, <2>1 DEF Delivering
  <1>14. ASSUME NEW w \in Worker, WorkOther(w) PROVE (PostedFirst /\ SummariesInOrder)'
    <2>1. daily' = daily /\ posts' = posts
      BY <1>14 DEF WorkOther, CollectOther
    <2> QED BY <1>s, <2>1 DEF Delivering
  <1> QED
    BY <1>1, <1>2, <1>3, <1>4, <1>5, <1>6, <1>7, <1>8, <1>9, <1>10, <1>11, <1>12, <1>13, <1>14 DEF Next,
       World, Daily, DailyFault

\* What a step that observes nothing leaves
SameEvidence ==
    /\ DOMAIN outbox' = DOMAIN outbox /\ lost \subseteq lost'
    /\ doc'.observations \cup lost' = doc.observations \cup lost
    /\ \A o \in Others : others'[o].observations = others[o].observations

\* What was observed stays known, whatever is written back.
LEMMA KnownStep ==
    TypeOK /\ CopiesKnown /\ [Next]_vars => CopiesKnown' /\ (Observe \/ SameEvidence)
  <1> SUFFICES ASSUME TypeOK, CopiesKnown, [Next]_vars PROVE CopiesKnown' /\ (Observe \/ SameEvidence)
    OBVIOUS
  <1>x0. /\ doc \in Document /\ copy \in [Worker -> Document] /\ NoCopy.observations = {}
         /\ others \in [Others -> OtherDocument]
    BY DEF TypeOK, NoCopy
  <1>x1. OlderClaim(doc).observations = doc.observations
         /\ \A v \in Worker : OlderClaim(copy[v]).observations = copy[v].observations
    BY <1>x0, PerformanceAssumption, OlderDocument
  <1>x2. \A w \in Worker : Forgotten(doc, w).observations = doc.observations
         /\ \A v \in Worker : Forgotten(copy[v], w).observations = copy[v].observations
    BY <1>x0, PerformanceAssumption, ForgottenDocument
  <1> USE <1>x0, <1>x1, <1>x2, PerformanceAssumption DEF rowVars, runVars, worldVars, founderVars,
      Goto, Forget, Fault, CanFail, Running, CopiesKnown, SameEvidence
  <1>1. CASE ConditionChanges
    BY <1>1 DEF ConditionChanges
  <1>2. CASE NextDay
    BY <1>2 DEF NextDay
  <1>3. CASE Tick
    BY <1>3 DEF Tick
  <1>4. CASE SummaryLeaseExpires
    BY <1>4 DEF SummaryLeaseExpires
  <1>5. CASE Observe
    <2>1. doc' = [doc EXCEPT !.observations = Seen(This)] /\ copy' = copy /\ lost' = lost
      BY <1>5 DEF Observe
    <2>2. doc.observations \subseteq Seen(This)
      BY DEF Seen, Observations
    <2> HIDE DEF Running
    <2>3. CopiesKnown'
      BY <2>1, <2>2 DEF Document
    <2> QED BY <1>5, <2>3
  <1>6. CASE ClaimSummary
    BY <1>6 DEF ClaimSummary
  <1>7. CASE Send
    BY <1>7 DEF Send
  <1>8. CASE FinishSummary
    BY <1>8 DEF FinishSummary
  <1>9. CASE SendFails
    BY <1>9 DEF SendFails
  <1>10. CASE DailyCrash
    BY <1>10 DEF DailyCrash
  <1>11. ASSUME NEW w \in Worker, Work(w) PROVE CopiesKnown' /\ (Observe \/ SameEvidence)
    <2>1. CASE Start(w)
      BY <2>1 DEF Start
    <2>2. CASE Collect(w)
      BY <2>2 DEF Collect, Document
    <2>3. CASE Claim(w)
      <3>1. CASE ~Held(doc, age[w]) /\ found[w] # doc.alert
        BY <2>3, <3>1 DEF Claim, Document
      <3>2. CASE ~(~Held(doc, age[w]) /\ found[w] # doc.alert)
        BY <2>3, <3>2 DEF Claim, Document
      <3> QED BY <3>1, <3>2
    <2>4. CASE Post(w)
      BY <2>4 DEF Post
    <2>5. CASE Finish(w)
      BY <2>5 DEF Finish, Document
    <2>6. CASE Read(w)
      <3>1. CASE doc.latest = 0
        BY <2>6, <3>1 DEF Read
      <3>2. CASE doc.latest # 0
        BY <2>6, <3>2 DEF Read
      <3> QED BY <3>1, <3>2
    <2>7. CASE Write(w)
      BY <2>7 DEF Write
    <2> QED
      BY <1>11, <2>1, <2>2, <2>3, <2>4, <2>5, <2>6, <2>7 DEF Work
  <1>12. ASSUME NEW w \in Worker, WorkFault(w) PROVE CopiesKnown' /\ (Observe \/ SameEvidence)
    <2>1. CASE CollectFails(w)
      BY <2>1 DEF CollectFails
    <2>2. CASE PostFails(w)
      BY <2>2 DEF PostFails
    <2>3. CASE AlertFails(w)
      BY <2>3 DEF AlertFails
    <2>4. CASE Crash(w)
      BY <2>4 DEF Crash
    <2> QED
      BY <1>12, <2>1, <2>2, <2>3, <2>4 DEF WorkFault
  <1>13. CASE UNCHANGED vars
    BY <1>13 DEF vars
  <1>14. ASSUME NEW w \in Worker, WorkOther(w) PROVE CopiesKnown' /\ (Observe \/ SameEvidence)
    <2>1. PICK o \in Others : CollectOther(w, o)
      BY <1>14 DEF WorkOther
    <2>2. \A q \in Others : others'[q].observations = others[q].observations
      BY <2>1 DEF CollectOther, OtherDocument
    <2> QED BY <2>1, <2>2 DEF CollectOther
  <1> QED
    BY <1>1, <1>2, <1>3, <1>4, <1>5, <1>6, <1>7, <1>8, <1>9, <1>10, <1>11, <1>12, <1>13, <1>14 DEF Next,
       World, Daily, DailyFault

\* The observations are in the summaries of their windows: a daily run
\* summarizes again what changed, and a summary had what was observed.
LEMMA EvidenceStep ==
    ASSUME TypeOK, RowsKnown, EvidenceSummarized, RowsKept, Observe \/ SameEvidence
    PROVE  (RowsKnown /\ EvidenceSummarized)'
  <1>1. /\ DOMAIN outbox \subseteq DOMAIN outbox'
        /\ \A n \in DOMAIN outbox : outbox'[n].of = outbox[n].of
        /\ \A n \in DOMAIN outbox, m \in Nat : m \in 1 .. n - 1 => m \in DOMAIN outbox
        /\ \A n \in DOMAIN outbox' : \A m \in 1 .. n - 1 :
              /\ m \in DOMAIN outbox' /\ m # n /\ m \in Nat
              /\ n \in DOMAIN outbox => m \in DOMAIN outbox
    <2>1. /\ Len(outbox) \in Nat /\ DOMAIN outbox = 1 .. Len(outbox)
          /\ Len(outbox') \in Nat /\ DOMAIN outbox' = 1 .. Len(outbox') /\ Len(outbox) <= Len(outbox')
      BY LenProperties DEF TypeOK, RowsKept
    <2> QED BY <2>1 DEF RowsKept
  <1>2. This \in Publication /\ This \notin Others /\ \A p \in Publication : p = This \/ p \in Others
    BY PerformanceAssumption DEF Publication
  <1>r. \A n \in DOMAIN outbox : outbox[n].of.from \subseteq Publication
    <2>1. \A n \in DOMAIN outbox : outbox[n] \in Row
      BY ElementOfSeq DEF TypeOK
    <2> QED BY <2>1 DEF Row, Summary
  <1>3. CASE SameEvidence
    <2>1. \A p \in Publication : Observed(p)' = Observed(p)
      BY <1>2, <1>3 DEF SameEvidence, Observed, Observations
    <2>2. RowsKnown'
      BY <1>1, <1>3, <1>r, <2>1 DEF RowsKnown, SameEvidence
    <2>3. ASSUME NEW p \in Publication, NEW d \in Observed(p)'
          PROVE  \E n \in DOMAIN outbox' :
                    outbox'[n].of.kind = "window" /\ outbox'[n].of.day = d /\ p \in outbox'[n].of.from
      BY <1>1, <2>1, <2>3 DEF EvidenceSummarized
    <2>4. ASSUME NEW n \in DOMAIN outbox', NEW m \in 1 .. n - 1
          PROVE  MayFollow(outbox[m].of, outbox[n].of)'
      BY <1>1, <1>3, <2>4 DEF EvidenceSummarized, SameEvidence, MayFollow
    <2> QED BY <2>2, <2>3, <2>4 DEF EvidenceSummarized, MayFollow
  <1>4. CASE Observe
    <2> DEFINE new == DOMAIN outbox' \ DOMAIN outbox
               key(d) == Key("window", d, {p \in Publication : d \in Seen(p)})
    <2>1. /\ \A n \in new : outbox'[n].of \in Fresh(Keys)
          /\ \A m, n \in new : outbox'[m].of = outbox'[n].of => m = n
          /\ \A k \in Fresh(Keys) : \E n \in new : outbox'[n].of = k
      BY <1>4, ObserveAdds DEF Added
    <2>2. \A p \in Publication : Observed(p)' = Observed(p) \cup Seen(p) /\ Observations(p) \subseteq Seen(p)
      <3>1. /\ doc' = [doc EXCEPT !.observations = Seen(This)] /\ lost' = lost
            /\ others' = [o \in Others |-> [others[o] EXCEPT !.observations = Seen(o)]]
        BY <1>4 DEF Observe, founderVars
      <3>2. doc'.observations = Seen(This) /\ \A o \in Others : others'[o].observations = Seen(o)
        BY <3>1 DEF TypeOK, Document, OtherDocument
      <3>3. \A p \in Publication : Observations(p) \subseteq Seen(p)
        BY DEF Seen
      <3> QED BY <1>2, <3>1, <3>2, <3>3 DEF Observed, Observations
    <2>3. \A n \in new : outbox'[n].of.kind = "window" => outbox'[n].of = key(outbox'[n].of.day)
      <3>1. \A k \in Keys : k.kind = "window" => k = key(k.day)
        BY DEF Keys, Key
      <3> QED BY <2>1, <3>1 DEF Fresh
    <2>4. \A d : key(d).kind = "window" /\ key(d).day = d /\ key(d).from = {p \in Publication : d \in Seen(p)}
      BY DEF Key
    <2>5. \A p \in Publication : \A d \in Seen(p) : key(d) \in Keys
      BY DEF Keys, Windows
    <2> HIDE DEF key, new
    <2>6. \A n \in DOMAIN outbox' : n \in DOMAIN outbox \/ n \in new
      BY DEF new
    <2>7. RowsKnown'
      <3>1. SUFFICES ASSUME NEW n \in DOMAIN outbox', outbox'[n].of.kind = "window",
                            NEW p \in outbox'[n].of.from
                     PROVE  outbox'[n].of.day \in Observed(p)'
        BY DEF RowsKnown
      <3>2. CASE n \in DOMAIN outbox
        <4>1. p \in Publication /\ outbox[n].of.day \in Observed(p)
          BY <1>1, <1>r, <3>1, <3>2 DEF RowsKnown
        <4> QED BY <1>1, <2>2, <3>2, <4>1
      <3>3. CASE n \in new
        <4>1. p \in Publication /\ outbox'[n].of.day \in Seen(p)
          BY <2>3, <2>4, <3>1, <3>3
        <4> QED BY <2>2, <4>1
      <3> QED BY <2>6, <3>2, <3>3
    <2>8. ASSUME NEW p \in Publication, NEW d \in Observed(p)'
          PROVE  \E n \in DOMAIN outbox' :
                    outbox'[n].of.kind = "window" /\ outbox'[n].of.day = d /\ p \in outbox'[n].of.from
      <3>1. CASE d \in Observed(p)
        BY <1>1, <3>1 DEF EvidenceSummarized
      <3>2. CASE d \in Seen(p)
        <4>1. key(d) \in Keys
          BY <2>5, <3>2
        <4>2. \E n \in DOMAIN outbox' : outbox'[n].of = key(d)
          <5>1. CASE key(d) \in Enqueued
            BY <1>1, <5>1 DEF Enqueued
          <5>2. CASE key(d) \notin Enqueued
            BY <2>1, <4>1, <5>2 DEF Fresh, new
          <5> QED BY <5>1, <5>2
        <4> QED BY <2>4, <3>2, <4>2
      <3> QED BY <2>2, <2>8, <3>1, <3>2
    <2>9. ASSUME NEW n \in DOMAIN outbox', NEW m \in 1 .. n - 1
          PROVE  MayFollow(outbox[m].of, outbox[n].of)'
      <3>1. lost' = lost
        BY <1>4 DEF Observe, founderVars
      <3>2. CASE n \in DOMAIN outbox
        BY <1>1, <2>9, <3>1, <3>2 DEF EvidenceSummarized, MayFollow
      <3>3. CASE n \in new /\ m \in new
        <4>1. outbox'[m].of # outbox'[n].of
          BY <1>1, <2>1, <2>9, <3>3
        <4> QED BY <2>3, <3>3, <4>1 DEF MayFollow
      <3>4. CASE n \in new /\ m \in DOMAIN outbox
        <4>1. outbox'[n].of \notin Enqueued /\ outbox'[m].of = outbox[m].of
          BY <1>1, <2>1, <3>4 DEF Fresh
        <4>2. outbox'[m].of # outbox'[n].of
          BY <3>4, <4>1 DEF Enqueued
        <4>3. ASSUME outbox'[m].of.kind = "window", outbox'[n].of.kind = "window",
                     outbox'[m].of.day = outbox'[n].of.day,
                     NEW p \in outbox'[m].of.from \ outbox'[n].of.from
              PROVE  p = This /\ outbox'[n].of.day \in lost
          <5>1. p \in Publication /\ outbox'[n].of.day \in Observed(p)
            BY <1>r, <3>4, <4>1, <4>3 DEF RowsKnown
          <5>2. outbox'[n].of.day \notin Seen(p)
            BY <2>3, <2>4, <3>4, <4>3, <5>1
          <5> QED BY <2>2, <5>1, <5>2 DEF Observed
        <4> QED BY <3>1, <4>2, <4>3 DEF MayFollow
      <3> QED BY <1>1, <2>6, <2>9, <3>2, <3>3, <3>4
    <2> QED BY <2>7, <2>8, <2>9 DEF EvidenceSummarized, MayFollow
  <1> QED BY <1>3, <1>4

\* The debts are numbers.
LEMMA DebtType ==
    ASSUME PerformanceAssumption
    PROVE  /\ IsFiniteSet(Posters) /\ Cardinality(Posters) \in Nat
           /\ Unfaithful \in {0, 1} /\ AlertDebt \in Nat
           /\ AlertDebt <= Cardinality(Posters) + Unfaithful
           /\ Recorder => AlertDebt = 0
           /\ ~Recorder /\ Claimer => AlertDebt = Unfaithful
           /\ ~Recorder /\ ~Claimer => AlertDebt = Cardinality(Posters) + Unfaithful
  <1>1. IsFiniteSet(Posters) /\ Cardinality(Posters) \in Nat
    BY FS_Subset, FS_CardinalityType DEF PerformanceAssumption, Posters
  <1>2. Unfaithful \in {0, 1}
    BY DEF Unfaithful
  <1>3. /\ Recorder => AlertDebt = 0
        /\ ~Recorder /\ Claimer => AlertDebt = 0 + Unfaithful
        /\ ~Recorder /\ ~Claimer => AlertDebt = Cardinality(Posters) + Unfaithful
    BY DEF AlertDebt, Late
  <1> QED BY <1>1, <1>2, <1>3

\* The same one step later.
LEMMA DebtTypeNext ==
    ASSUME PerformanceAssumption
    PROVE  /\ IsFiniteSet(Posters') /\ Cardinality(Posters') \in Nat
           /\ Unfaithful' \in {0, 1} /\ AlertDebt' \in Nat
           /\ AlertDebt' <= Cardinality(Posters') + Unfaithful'
           /\ Recorder' => AlertDebt' = 0
           /\ Claimer' => AlertDebt' <= Unfaithful'
  <1>1. IsFiniteSet(Posters') /\ Cardinality(Posters') \in Nat
    BY FS_Subset, FS_CardinalityType DEF PerformanceAssumption, Posters
  <1>2. Unfaithful' \in {0, 1}
    BY DEF Unfaithful
  <1>3. /\ Recorder' => AlertDebt' = 0
        /\ ~Recorder' /\ Claimer' => AlertDebt' = 0 + Unfaithful'
        /\ ~Recorder' /\ ~Claimer' => AlertDebt' = Cardinality(Posters') + Unfaithful'
    BY DEF AlertDebt, Late
  <1> QED BY <1>1, <1>2, <1>3

\* A run that works alone is the only one that may post, and the only one that
\* takes a step.
LEMMA AloneActs ==
    ASSUME NEW w \in Worker, Running(w)
    PROVE  /\ Recorder => Only(w) /\ Recording(w) /\ pc[w] = "finish"
           /\ Claimer => Only(w) /\ Claiming(w) /\ pc[w] \in {"collect", "claim", "post"}
           /\ Only(w) => \A v \in Worker : v # w => pc[v] = "idle"
  BY DEF Recorder, Claimer, Recording, Claiming, Only, Running

\* The posters without one of them, and with one more
LEMMA PostersCount ==
    ASSUME PerformanceAssumption, NEW w \in Worker
    PROVE  /\ Posters' \subseteq Posters => Cardinality(Posters') <= Cardinality(Posters)
           /\ w \in Posters /\ Posters' = Posters \ {w} => Cardinality(Posters') = Cardinality(Posters) - 1
           /\ Posters' \subseteq Posters \cup {w} => Cardinality(Posters') <= Cardinality(Posters) + 1
           /\ Posters' = {} => Cardinality(Posters') = 0
           /\ Posters \subseteq {w} => Cardinality(Posters) <= 1
  <1>1. IsFiniteSet(Posters) /\ Cardinality(Posters) \in Nat
    BY DebtType
  <1>2. ASSUME Posters' \subseteq Posters PROVE Cardinality(Posters') <= Cardinality(Posters)
    BY <1>1, <1>2, FS_Subset
  <1>3. ASSUME w \in Posters, Posters' = Posters \ {w} PROVE Cardinality(Posters') = Cardinality(Posters) - 1
    BY <1>1, <1>3, FS_RemoveElement
  <1>4. ASSUME Posters' \subseteq Posters \cup {w} PROVE Cardinality(Posters') <= Cardinality(Posters) + 1
    <2>1. /\ IsFiniteSet(Posters \cup {w})
          /\ Cardinality(Posters \cup {w}) <= Cardinality(Posters) + 1
      <3>1. /\ IsFiniteSet(Posters \cup {w})
            /\ Cardinality(Posters \cup {w}) =
                  IF w \in Posters THEN Cardinality(Posters) ELSE Cardinality(Posters) + 1
        BY <1>1, FS_AddElement
      <3> DEFINE c == Cardinality(Posters)
                 d == Cardinality(Posters \cup {w})
      <3>2. c \in Nat /\ (d = c \/ d = c + 1)
        BY <1>1, <3>1
      <3> HIDE DEF c, d
      <3>3. d <= c + 1
        BY <3>2
      <3> QED BY <3>1, <3>3 DEF c, d
    <2>2. Cardinality(Posters \cup {w}) \in Nat /\ Cardinality(Posters') <= Cardinality(Posters \cup {w})
      BY <1>4, <2>1, FS_Subset, FS_CardinalityType
    <2>3. Cardinality(Posters') \in Nat
      BY DebtTypeNext
    <2> QED BY <1>1, <2>1, <2>2, <2>3
  <1>5. Posters' = {} => Cardinality(Posters') = 0
    BY FS_EmptySet
  <1>6. ASSUME Posters \subseteq {w} PROVE Cardinality(Posters) <= 1
    <2>1. IsFiniteSet({w}) /\ Cardinality({w}) = 1
      BY FS_Singleton
    <2> QED BY <1>6, <2>1, FS_Subset
  <1> QED BY <1>2, <1>3, <1>4, <1>5, <1>6

\* A step of a run that neither posts nor spoils the row leaves the debt.
LEMMA DebtKept ==
    ASSUME PerformanceAssumption, ~Recorder, Faithful => Faithful',
           Cardinality(Posters') <= Cardinality(Posters),
           Claimer => Claimer' \/ Cardinality(Posters') = 0
    PROVE  AlertDebt' <= AlertDebt
  <1>1. Unfaithful' <= Unfaithful /\ Unfaithful \in {0, 1} /\ Unfaithful' \in {0, 1}
    BY DEF Unfaithful
  <1>2. CASE Claimer
    <2>1. AlertDebt = Unfaithful
      BY <1>2, DebtType
    <2>2. AlertDebt' <= Unfaithful'
      BY <1>1, <1>2, DebtTypeNext
    <2> QED BY <1>1, <2>1, <2>2, DebtTypeNext
  <1>3. CASE ~Claimer
    <2>1. AlertDebt = Cardinality(Posters) + Unfaithful
      BY <1>3, DebtType
    <2> QED BY <1>1, <2>1, DebtTypeNext, DebtType
  <1> QED BY <1>2, <1>3

\* A fault adds one at most.
LEMMA DebtOfFault ==
    ASSUME PerformanceAssumption, Cardinality(Posters') <= Cardinality(Posters),
           Recorder \/ Claimer => Cardinality(Posters') = 0
    PROVE  AlertDebt' <= AlertDebt + 1
  <1>1. AlertDebt' <= Cardinality(Posters') + 1 /\ AlertDebt' \in Nat /\ Cardinality(Posters') \in Nat
    BY DebtTypeNext
  <1>2. AlertDebt \in Nat /\ Cardinality(Posters) \in Nat
        /\ (~Recorder /\ ~Claimer => AlertDebt >= Cardinality(Posters))
    BY DebtType
  <1>3. CASE Recorder \/ Claimer
    BY <1>1, <1>2, <1>3
  <1>4. CASE ~(Recorder \/ Claimer)
    BY <1>1, <1>2, <1>4
  <1> QED BY <1>3, <1>4

\* The document keeps its alert and the author of its claim, and so do the copies.
SameWords ==
    /\ doc'.alert = doc.alert /\ doc'.claim.by = doc.claim.by /\ doc'.claim.of = doc.claim.of
    /\ \A v \in Worker : /\ copy'[v].alert = copy[v].alert /\ copy'[v].claim.by = copy[v].claim.by
                         /\ copy'[v].claim.of = copy[v].claim.of

\* Nobody but the runs changes the debt.
LEMMA DebtFrame ==
    ASSUME SameWords, UNCHANGED <<pc, found, sent, told>>
    PROVE  AlertDebt' = AlertDebt
  <1>1. Posters' = Posters
    BY DEF Posters
  <1>2. \A w \in Worker : Only(w)' <=> Only(w)
    BY DEF Only, Running
  <1>3. Recorder' <=> Recorder
    BY <1>2 DEF Recorder, Recording, SameWords
  <1>4. Claimer' <=> Claimer
    BY <1>2 DEF Claimer, Claiming, SameWords
  <1>5. Faithful' <=> Faithful
    BY DEF Faithful, SameWords
  <1>6. Late' = Late
    BY <1>1, <1>4 DEF Late
  <1>7. Unfaithful' = Unfaithful
    BY <1>5 DEF Unfaithful
  <1> QED BY <1>3, <1>6, <1>7 DEF AlertDebt

\* Time passes for the claims only.
LEMMA TickWords ==
    TypeOK /\ Tick => SameWords
  <1> SUFFICES ASSUME TypeOK, Tick PROVE SameWords
    OBVIOUS
  <1>1. doc \in Document /\ copy \in [Worker -> Document]
    BY DEF TypeOK
  <1>2. doc' = OlderClaim(doc) /\ copy' = [w \in Worker |-> OlderClaim(copy[w])]
    BY DEF Tick
  <1>3. \A d \in Document : /\ OlderClaim(d).alert = d.alert
                            /\ OlderClaim(d).claim.by = d.claim.by /\ OlderClaim(d).claim.of = d.claim.of
    BY PerformanceAssumption, OlderDocument
  <1> QED BY <1>1, <1>2, <1>3 DEF SameWords

\* A run that starts beside another one costs two.
LEMMA StartDebt ==
    ASSUME TypeOK, NEW w \in Worker, Start(w)
    PROVE  AlertDebt' <= AlertDebt + 2 * (overlaps' - overlaps)
  <1> USE PerformanceAssumption
  <1>1. /\ doc \in Document /\ copy \in [Worker -> Document] /\ pc \in [Worker -> Step] /\ overlaps \in Nat
        /\ pc[w] = "idle" /\ pc' = [pc EXCEPT ![w] = "collect"] /\ found' = found /\ sent' = sent /\ told' = told
        /\ doc' = Forgotten(doc, w) /\ copy' = [v \in Worker |-> Forgotten(copy[v], w)]
    BY DEF TypeOK, Start, Running, Goto, founderVars
  <1>2. \A d \in Document : /\ Forgotten(d, w).alert = d.alert /\ Forgotten(d, w).claim.of = d.claim.of
                            /\ \A v \in Worker : Forgotten(d, w).claim.by = v => d.claim.by = v
    BY ForgottenDocument
  <1>3. /\ doc'.alert = doc.alert /\ doc'.claim.of = doc.claim.of
        /\ \A v \in Worker : doc'.claim.by = v => doc.claim.by = v
        /\ \A u \in Worker : /\ copy'[u].alert = copy[u].alert /\ copy'[u].claim.of = copy[u].claim.of
                             /\ \A v \in Worker : copy'[u].claim.by = v => copy[u].claim.by = v
    BY <1>1, <1>2
  <1>4. \A v \in Worker : pc'[v] \in {"write", "post", "finish"} => pc[v] = pc'[v]
    BY <1>1
  <1>5. Faithful => Faithful'
    BY <1>1, <1>3, <1>4 DEF Faithful
  <1>6. Posters' \subseteq Posters \cup {w}
    BY <1>1 DEF Posters
  <1>7. Cardinality(Posters') <= Cardinality(Posters) + 1
    BY <1>6, PostersCount
  <1>8. Unfaithful' <= Unfaithful /\ Unfaithful \in {0, 1} /\ Unfaithful' \in {0, 1}
    BY <1>5 DEF Unfaithful
  <1>9. CASE \E v \in Worker : Running(v)
    <2>1. overlaps' = overlaps + 1
      BY <1>9 DEF Start
    <2>2. /\ AlertDebt' <= Cardinality(Posters) + 1 + Unfaithful' /\ AlertDebt' \in Nat
          /\ Cardinality(Posters) \in Nat
      <3>1. /\ AlertDebt' <= Cardinality(Posters') + Unfaithful' /\ AlertDebt' \in Nat
            /\ Cardinality(Posters') \in Nat
        BY DebtTypeNext
      <3> QED BY <1>7, <1>8, <3>1, DebtType
    <2>3. PICK v \in Worker : Running(v)
      BY <1>9
    <2>4. CASE Recorder
      <3>1. Posters = {}
        BY <2>3, <2>4, AloneActs DEF Posters
      <3> QED BY <1>1, <1>8, <2>1, <2>2, <3>1, FS_EmptySet, DebtType
    <2>5. CASE ~Recorder /\ Claimer
      <3>1. Posters \subseteq {v}
        BY <2>3, <2>5, AloneActs DEF Posters
      <3>2. Cardinality(Posters) <= 1
        BY <3>1, PostersCount
      <3>3. AlertDebt = Unfaithful
        BY <2>5, DebtType
      <3> QED BY <1>1, <1>8, <2>1, <2>2, <3>2, <3>3
    <2>6. CASE ~Recorder /\ ~Claimer
      <3>1. AlertDebt = Cardinality(Posters) + Unfaithful
        BY <2>6, DebtType
      <3> QED BY <1>1, <1>8, <2>1, <2>2, <3>1
    <2> QED BY <2>4, <2>5, <2>6
  <1>10. CASE ~ \E v \in Worker : Running(v)
    <2>1. overlaps' = overlaps
      BY <1>10 DEF Start
    <2>2. Posters = {} /\ ~Recorder /\ ~Claimer
      BY <1>10 DEF Posters, Running, Recorder, Claimer, Recording, Claiming, Only
    <2>3. AlertDebt = 0 + Unfaithful
      BY <2>2, DebtType, FS_EmptySet
    <2>4. Claimer'
      <3>1. Claiming(w)'
        BY <1>1, <1>10 DEF Claiming, Only, Running
      <3> QED BY <3>1 DEF Claimer
    <2>5. AlertDebt' <= Unfaithful' /\ AlertDebt' \in Nat
      BY <2>4, DebtTypeNext
    <2> QED BY <1>1, <1>8, <2>1, <2>3, <2>5
  <1> QED BY <1>9, <1>10

\* Neither collecting, claiming, reading nor writing back costs anything.
LEMMA QuietDebt ==
    ASSUME TypeOK, NEW w \in Worker, Collect(w) \/ Claim(w) \/ Read(w) \/ Write(w)
    PROVE  AlertDebt' <= AlertDebt
  <1> USE PerformanceAssumption
  <1>0. /\ doc \in Document /\ copy \in [Worker -> Document] /\ pc \in [Worker -> Step]
        /\ found \in [Worker -> Condition] /\ sent \in [Worker -> BOOLEAN]
    BY DEF TypeOK
  <1>1. Running(w) /\ pc[w] # "finish"
    BY DEF Running, Collect, Claim, Read, Write
  <1>2. ~Recorder
    BY <1>1, AloneActs
  <1>3. ASSUME Posters' \subseteq Posters, Faithful => Faithful',
               Claimer => Claimer' \/ Posters' = {}
        PROVE  AlertDebt' <= AlertDebt
    <2>1. Cardinality(Posters') <= Cardinality(Posters) /\ (Posters' = {} => Cardinality(Posters') = 0)
      BY <1>3, PostersCount
    <2> QED BY <1>2, <1>3, <2>1, DebtKept
  <1>4. CASE Collect(w)
    <2>1. /\ pc[w] = "collect" /\ pc' = [pc EXCEPT ![w] = "claim"] /\ UNCHANGED <<sent, told, copy>>
          /\ found' = [found EXCEPT ![w] = truth]
      BY <1>4 DEF Collect, Goto, founderVars
    <2>2. doc'.alert = doc.alert /\ doc'.claim = doc.claim
      BY <1>0, <1>4 DEF Collect, Document
    <2>3. Posters' = Posters
      BY <1>0, <2>1 DEF Posters
    <2>4. Faithful => Faithful'
      BY <1>0, <2>1, <2>2 DEF Faithful
    <2>5. Claimer => Claimer'
      <3>1. Claimer => Only(w)
        BY <1>1, AloneActs
      <3>2. Only(w) => Claiming(w)'
        BY <1>0, <2>1 DEF Only, Running, Claiming
      <3> QED BY <3>1, <3>2 DEF Claimer
    <2> QED BY <1>3, <2>3, <2>4, <2>5
  <1>5. CASE Claim(w)
    <2>1. pc[w] = "claim" /\ UNCHANGED <<told, copy>>
      BY <1>5 DEF Claim, founderVars
    <2>2. CASE ~Held(doc, age[w]) /\ found[w] # doc.alert
      <3>1. /\ pc' = [pc EXCEPT ![w] = "post"] /\ UNCHANGED <<found, sent>>
            /\ doc' = [doc EXCEPT !.claim = [by |-> w, of |-> found[w], age |-> age[w]]]
        BY <1>5, <2>2 DEF Claim, Goto
      <3>2. doc'.alert = doc.alert /\ doc'.claim.by = w /\ doc'.claim.of = found[w]
        BY <1>0, <3>1 DEF Document
      <3>3. Posters' = Posters
        BY <1>0, <2>1, <3>1 DEF Posters
      <3>4. Faithful => Faithful'
        BY <1>0, <2>1, <2>2, <3>1, <3>2 DEF Faithful
      <3>5. Claimer => Claimer'
        <4>1. Claimer => Only(w)
          BY <1>1, AloneActs
        <4>2. Only(w) => Claiming(w)'
          BY <1>0, <3>1, <3>2 DEF Only, Running, Claiming
        <4> QED BY <4>1, <4>2 DEF Claimer
      <3> QED BY <1>3, <3>3, <3>4, <3>5
    <2>3. CASE ~(~Held(doc, age[w]) /\ found[w] # doc.alert)
      <3>1. /\ pc' = [pc EXCEPT ![w] = "read"] /\ doc' = doc
            /\ found' = [found EXCEPT ![w] = "healthy"] /\ sent' = [sent EXCEPT ![w] = FALSE]
        BY <1>5, <2>3 DEF Claim, Goto, Forget
      <3>3. Posters' \subseteq Posters
        BY <1>0, <3>1 DEF Posters
      <3>4. Faithful => Faithful'
        BY <1>0, <2>1, <3>1 DEF Faithful
      <3>5. Claimer => Posters' = {}
        <4>1. Claimer => \A v \in Worker : v # w => pc[v] = "idle"
          BY <1>1, AloneActs
        <4> QED BY <1>0, <3>1, <4>1 DEF Posters
      <3> QED BY <1>3, <3>3, <3>4, <3>5
    <2> QED BY <2>2, <2>3
  <1>6. CASE Read(w)
    <2>1. pc[w] = "read" /\ UNCHANGED <<doc, found, sent, told>>
      BY <1>6 DEF Read, founderVars, rowVars
    <2>2. \/ pc' = [pc EXCEPT ![w] = "idle"] /\ copy' = copy
          \/ pc' = [pc EXCEPT ![w] = "write"] /\ copy' = [copy EXCEPT ![w] = doc]
      BY <1>6 DEF Read, Goto
    <2>3. Posters' \subseteq Posters
      BY <1>0, <2>1, <2>2 DEF Posters
    <2>4. Faithful => Faithful'
      <3>1. CASE pc' = [pc EXCEPT ![w] = "idle"] /\ copy' = copy
        BY <1>0, <2>1, <3>1 DEF Faithful
      <3>2. CASE pc' = [pc EXCEPT ![w] = "write"] /\ copy' = [copy EXCEPT ![w] = doc]
        BY <1>0, <2>1, <3>2 DEF Faithful
      <3> QED BY <2>2, <3>1, <3>2
    <2>5. ~Claimer
      BY <1>1, <2>1, AloneActs
    <2> QED BY <1>3, <2>3, <2>4, <2>5
  <1>7. CASE Write(w)
    <2>1. /\ pc[w] = "write" /\ pc' = [pc EXCEPT ![w] = "idle"] /\ UNCHANGED <<found, sent, told>>
          /\ doc' = copy[w] /\ copy' = [copy EXCEPT ![w] = NoCopy]
      BY <1>7 DEF Write, Goto, founderVars
    <2>2. Posters' \subseteq Posters
      BY <1>0, <2>1 DEF Posters
    <2>3. NoCopy.claim.by \notin Worker
      BY DEF NoCopy, NoClaim, PerformanceAssumption
    <2>4. Faithful => Faithful'
      BY <1>0, <2>1, <2>3 DEF Faithful
    <2>5. ~Claimer
      BY <1>1, <2>1, AloneActs
    <2> QED BY <1>3, <2>2, <2>4, <2>5
  <1> QED BY <1>4, <1>5, <1>6, <1>7

\* An alert repeats the last one only where a debt is paid with it.
LEMMA PostDebt ==
    ASSUME TypeOK, NEW w \in Worker, Post(w)
    PROVE  repeats' + AlertDebt' <= repeats + AlertDebt + (faults' - faults)
  <1> USE PerformanceAssumption
  <1>0. /\ doc \in Document /\ pc \in [Worker -> Step] /\ found \in [Worker -> Condition]
        /\ sent \in [Worker -> BOOLEAN] /\ repeats \in Nat /\ faults \in Nat
    BY DEF TypeOK
  <1>1. /\ pc[w] = "post" /\ pc' = [pc EXCEPT ![w] = "finish"] /\ told' = found[w]
        /\ UNCHANGED <<doc, found, copy>>
    BY DEF Post, Goto, rowVars
  <1>2. repeats' = repeats + (IF told = found[w] THEN 1 ELSE 0)
    BY DEF Post
  <1>3. \/ sent' = [sent EXCEPT ![w] = TRUE] /\ faults' = faults
        \/ sent' = [sent EXCEPT ![w] = FALSE] /\ faults' = faults + 1
    BY DEF Post, Fault
  <1>4. Posters' = Posters \ {w} /\ w \in Posters
    BY <1>0, <1>1 DEF Posters
  <1>5. Cardinality(Posters') = Cardinality(Posters) - 1 /\ Cardinality(Posters) \in Nat
    BY <1>4, PostersCount, DebtType
  <1>6. Faithful => found[w] # told
    BY <1>1 DEF Faithful
  <1>7. repeats' <= repeats + Unfaithful /\ repeats' \in Nat /\ Unfaithful \in {0, 1}
    <2>1. CASE Faithful
      BY <1>0, <1>2, <1>6, <2>1 DEF Unfaithful
    <2>2. CASE ~Faithful
      BY <1>0, <1>2, <2>2 DEF Unfaithful
    <2> QED BY <2>1, <2>2
  <1>8. AlertDebt' <= Cardinality(Posters) /\ AlertDebt' \in Nat
    <2>1. AlertDebt' <= Cardinality(Posters') + Unfaithful' /\ Unfaithful' \in {0, 1} /\ AlertDebt' \in Nat
      BY DebtTypeNext
    <2> QED BY <1>5, <2>1
  <1>9. ~Recorder
    BY <1>1, AloneActs DEF Running
  <1>10. AlertDebt' + Unfaithful <= AlertDebt + (faults' - faults)
    <2>1. CASE ~Claimer
      <3>1. AlertDebt = Cardinality(Posters) + Unfaithful
        BY <1>9, <2>1, DebtType
      <3>2. faults' \in Nat /\ faults <= faults'
        BY <1>0, <1>3
      <3> QED BY <1>0, <1>5, <1>7, <1>8, <3>1, <3>2
    <2>2. CASE Claimer
      <3>1. AlertDebt = Unfaithful
        BY <1>9, <2>2, DebtType
      <3>2. Only(w) /\ Claiming(w)
        BY <1>1, <2>2, AloneActs DEF Running
      <3>3. CASE sent' = [sent EXCEPT ![w] = TRUE] /\ faults' = faults
        <4>1. Recording(w)'
          BY <1>0, <1>1, <3>2, <3>3 DEF Recording, Claiming, Only, Running
        <4>2. Recorder'
          BY <4>1 DEF Recorder
        <4>3. AlertDebt' = 0
          BY <4>2, DebtTypeNext
        <4> QED BY <1>0, <1>7, <3>1, <3>3, <4>3
      <3>4. CASE sent' = [sent EXCEPT ![w] = FALSE] /\ faults' = faults + 1
        <4>1. Posters \subseteq {w}
          BY <1>0, <1>1, <3>2 DEF Only, Running, Posters
        <4>2. AlertDebt' <= 1
          BY <1>5, <1>8, <4>1, PostersCount
        <4>3. faults' - faults = 1
          BY <1>0, <3>4
        <4>4. \A a, u \in Nat : a <= 1 => a + u <= u + 1
          OBVIOUS
        <4> QED BY <1>7, <1>8, <3>1, <4>2, <4>3, <4>4
      <3> QED BY <1>3, <3>3, <3>4
    <2> QED BY <2>1, <2>2
  <1>11. faults' - faults \in Int /\ AlertDebt \in Nat
    BY <1>0, <1>3, DebtType
  <1> QED BY <1>0, <1>7, <1>8, <1>10, <1>11

\* What is recorded is what was said, or the debt was there before.
LEMMA FinishDebt ==
    ASSUME TypeOK, NEW w \in Worker, Finish(w)
    PROVE  AlertDebt' <= AlertDebt
  <1> USE PerformanceAssumption
  <1>0. /\ doc \in Document /\ copy \in [Worker -> Document] /\ pc \in [Worker -> Step]
        /\ found \in [Worker -> Condition] /\ sent \in [Worker -> BOOLEAN]
    BY DEF TypeOK
  <1>1. /\ pc[w] = "finish" /\ pc' = [pc EXCEPT ![w] = "read"] /\ UNCHANGED <<copy, told>>
        /\ found' = [found EXCEPT ![w] = "healthy"] /\ sent' = [sent EXCEPT ![w] = FALSE]
    BY DEF Finish, Goto, Forget, founderVars
  <1>2. /\ doc.claim.by # w => doc' = doc
        /\ doc.claim.by = w => /\ doc'.claim.by = Nobody
                               /\ doc'.alert = IF sent[w] THEN doc.claim.of ELSE doc.alert
    <2>1. CASE doc.claim.by # w
      BY <2>1 DEF Finish
    <2>2. CASE doc.claim.by = w
      <3>1. doc' = [doc EXCEPT !.claim = NoClaim, !.alert = IF sent[w] THEN doc.claim.of ELSE @]
        BY <2>2 DEF Finish
      <3>2. NoClaim.by = Nobody
        BY DEF NoClaim
      <3> QED BY <1>0, <2>2, <3>1, <3>2 DEF Document
    <2> QED BY <2>1, <2>2
  <1>3. Posters' = Posters
    BY <1>0, <1>1 DEF Posters
  <1>4. Faithful => Faithful'
    <2>1. CASE doc.claim.by # w
      BY <1>0, <1>1, <1>2, <2>1 DEF Faithful
    <2>2. CASE doc.claim.by = w
      <3>1. Nobody \notin Worker
        BY DEF PerformanceAssumption
      <3>2. Faithful => doc'.alert = told
        BY <1>1, <1>2, <2>2 DEF Faithful
      <3> QED BY <1>0, <1>1, <1>2, <2>2, <3>1, <3>2 DEF Faithful
    <2> QED BY <2>1, <2>2
  <1>5. ~Claimer
    BY <1>1, AloneActs DEF Running
  <1>6. CASE Recorder
    <2>1. Recording(w) /\ \A v \in Worker : v # w => pc[v] = "idle"
      BY <1>1, <1>6, AloneActs DEF Running
    <2>2. doc'.alert = told
      BY <1>2, <2>1 DEF Recording
    <2>3. Faithful'
      BY <1>0, <1>1, <2>1, <2>2 DEF Faithful
    <2>4. Posters' = {}
      BY <1>0, <1>1, <2>1 DEF Posters
    <2>5. Cardinality(Posters') = 0 /\ Unfaithful' = 0
      BY <2>3, <2>4, FS_EmptySet DEF Unfaithful
    <2> QED BY <1>6, <2>5, DebtTypeNext, DebtType
  <1>7. CASE ~Recorder
    <2>1. Cardinality(Posters') <= Cardinality(Posters)
      BY <1>3, DebtType
    <2> QED BY <1>4, <1>5, <1>7, <2>1, DebtKept
  <1> QED BY <1>6, <1>7

\* A fault of a run costs one.
LEMMA FaultDebt ==
    ASSUME TypeOK, NEW w \in Worker, WorkFault(w)
    PROVE  AlertDebt' <= AlertDebt + (faults' - faults)
  <1> USE PerformanceAssumption
  <1>0. pc \in [Worker -> Step] /\ faults \in Nat
    BY DEF TypeOK
  <1>1. /\ Running(w) /\ faults' = faults + 1
        /\ \E s \in {"read", "finish", "idle"} : pc' = [pc EXCEPT ![w] = s]
    BY DEF WorkFault, CollectFails, PostFails, AlertFails, Crash, Goto, Fault, Running
  <1>2. Posters' \subseteq Posters
    BY <1>0, <1>1 DEF Posters
  <1>3. Cardinality(Posters') <= Cardinality(Posters)
    BY <1>2, PostersCount
  <1>4. Recorder \/ Claimer => Cardinality(Posters') = 0
    <2>1. ASSUME Recorder \/ Claimer PROVE Posters' = {}
      <3>1. \A v \in Worker : v # w => pc[v] = "idle"
        BY <1>1, <2>1, AloneActs
      <3> QED BY <1>0, <1>1, <3>1 DEF Posters
    <2> QED BY <2>1, PostersCount
  <1>5. AlertDebt' <= AlertDebt + 1
    BY <1>3, <1>4, DebtOfFault
  <1> QED BY <1>0, <1>1, <1>5, DebtType, DebtTypeNext

\* Messages are not fewer than the summaries they say.
LEMMA PostedCount ==
    ASSUME TypeOK
    PROVE  /\ IsFiniteSet(Posted) /\ Cardinality(Posted) \in Nat /\ Len(posts) \in Nat
           /\ Posted \subseteq DOMAIN outbox
           /\ Again \in Nat /\ SummaryDebt \in {0, 1} /\ SummaryDebt' \in {0, 1}
  <1>1. /\ posts \in Seq(DOMAIN outbox) /\ Len(posts) \in Nat /\ DOMAIN posts = 1 .. Len(posts)
        /\ \A n \in DOMAIN posts : posts[n] \in DOMAIN outbox
    <2>1. posts \in Seq(DOMAIN outbox)
      BY DEF TypeOK
    <2> QED BY <2>1, LenProperties, ElementOfSeq
  <1>2. IsFiniteSet(1 .. Len(posts)) /\ Cardinality(1 .. Len(posts)) = Len(posts)
    <2> DEFINE N == Len(posts)
    <2>1. N \in Nat
      BY <1>1
    <2> HIDE DEF N
    <2>2. IsFiniteSet(1 .. N) /\ Cardinality(1 .. N) = IF 1 > N THEN 0 ELSE N - 1 + 1
      BY <2>1, FS_Interval
    <2>3. Cardinality(1 .. N) = N
      BY <2>1, <2>2
    <2> QED BY <2>2, <2>3 DEF N
  <1>3. posts \in Surjection(1 .. Len(posts), Posted)
    <2>1. posts \in [1 .. Len(posts) -> Posted]
      <3>1. posts \in [1 .. Len(posts) -> DOMAIN outbox]
        BY <1>1, LenProperties
      <3>2. \A n \in 1 .. Len(posts) : posts[n] \in Posted
        BY <1>1 DEF Posted
      <3> QED BY <3>1, <3>2
    <2>2. \A p \in Posted : \E n \in 1 .. Len(posts) : posts[n] = p
      BY <1>1 DEF Posted
    <2> QED BY <2>1, <2>2 DEF Surjection
  <1>4. IsFiniteSet(Posted) /\ Cardinality(Posted) <= Len(posts)
    BY <1>2, <1>3, FS_Surjection
  <1>5. Cardinality(Posted) \in Nat
    BY <1>4, FS_CardinalityType
  <1>6. Again \in Nat
    BY <1>1, <1>4, <1>5 DEF Again
  <1>7. SummaryDebt \in {0, 1} /\ SummaryDebt' \in {0, 1}
    BY DEF SummaryDebt
  <1>8. Posted \subseteq DOMAIN outbox
    BY <1>1 DEF Posted
  <1> QED BY <1>1, <1>4, <1>5, <1>6, <1>7, <1>8

\* What is not posted again costs nothing.
LEMMA SummaryFrame ==
    ASSUME TypeOK, RowsKept, posts' = posts, Delivering => Delivering' \/ (\A n \in Posted : Sent(n)')
    PROVE  Again' = Again /\ SummaryDebt' <= SummaryDebt
  <1>1. Posted' = Posted /\ Again' = Again
    BY DEF Posted, Again
  <1>2. \A n \in Posted : Sent(n) => Sent(n)'
    BY PostedCount DEF RowsKept, Sent
  <1>3. SummaryDebt = 0 => SummaryDebt' = 0
    BY <1>1, <1>2 DEF SummaryDebt
  <1> QED BY <1>1, <1>3, PostedCount

\* A message that is sent adds its summary.
LEMMA SendPosts ==
    ASSUME TypeOK, RowIsNext, Send
    PROVE  Len(posts') = Len(posts) + 1 /\ Posted' = Posted \cup {daily.row}
  <1>0. posts' = Append(posts, daily.row) /\ daily.row \in DOMAIN outbox
    BY DEF RowIsNext, Send
  <1>1. posts \in Seq(DOMAIN outbox)
    BY DEF TypeOK
  <1>2. /\ Len(posts') = Len(posts) + 1 /\ Len(posts) \in Nat
        /\ \A i \in 1 .. Len(posts) : posts'[i] = posts[i]
        /\ posts'[Len(posts) + 1] = daily.row
    BY <1>0, <1>1, AppendProperties, LenProperties
  <1>3. posts' \in Seq(DOMAIN outbox)
    BY <1>0, <1>1, AppendProperties
  <1>4. DOMAIN posts = 1 .. Len(posts) /\ DOMAIN posts' = 1 .. Len(posts) + 1
    BY <1>1, <1>2, <1>3, LenProperties
  <1>5. \A i \in 1 .. Len(posts) + 1 : i \in 1 .. Len(posts) \/ i = Len(posts) + 1
    BY <1>2
  <1>6. Posted' = {posts'[i] : i \in 1 .. Len(posts) + 1}
    BY <1>4 DEF Posted
  <1>7. Posted = {posts[i] : i \in 1 .. Len(posts)}
    BY <1>4 DEF Posted
  <1>8. \A i \in 1 .. Len(posts) : i \in 1 .. Len(posts) + 1
    BY <1>2
  <1>9. Len(posts) + 1 \in 1 .. Len(posts) + 1
    BY <1>2
  <1> QED BY <1>2, <1>5, <1>6, <1>7, <1>8, <1>9

\* A summary is posted again only where it was to be.
LEMMA SendDebt ==
    ASSUME TypeOK, RowIsNext, Send
    PROVE  Again' + SummaryDebt' <= Again + SummaryDebt + (faults' - faults)
  <1>1. /\ daily.at = "post" /\ posts' = Append(posts, daily.row) /\ faults \in Nat
        /\ daily.row \in DOMAIN outbox /\ ~Sent(daily.row)
    BY DEF TypeOK, RowIsNext, Send
  <1>2. Len(posts') = Len(posts) + 1 /\ Posted' = Posted \cup {daily.row}
    BY SendPosts
  <1>3. /\ ~Delivering
        /\ \/ Delivering' /\ faults' = faults
           \/ faults' = faults + 1
    <2>1. daily' = [daily EXCEPT !.at = "finish", !.delivered = TRUE] /\ faults' = faults => Delivering'
      BY DEF Delivering, TypeOK
    <2>2. ~Delivering
      BY <1>1 DEF Delivering
    <2> QED BY <2>1, <2>2 DEF Send, Fault
  <1> DEFINE a == Again'
             d == SummaryDebt'
             f == faults'
             k == Cardinality(Posted')
             l == Len(posts')
  <1>4. faults' \in Nat /\ SummaryDebt' <= faults' - faults
    <2>1. Delivering' => SummaryDebt' = 0
      BY DEF SummaryDebt
    <2> QED BY <1>1, <1>3, <2>1, PostedCount
  <1>5. a = l - k /\ Again = Len(posts) - Cardinality(Posted) /\ l = Len(posts) + 1
    BY <1>2 DEF Again
  <1>6. /\ faults \in Nat /\ SummaryDebt \in {0, 1} /\ Again \in Nat
        /\ Cardinality(Posted) \in Nat /\ Len(posts) \in Nat
    BY <1>1, PostedCount
  <1>7. f \in Nat /\ d \in {0, 1} /\ d <= f - faults
    BY <1>4, PostedCount
  <1>8. \/ k = Cardinality(Posted) /\ SummaryDebt = 1
        \/ k = Cardinality(Posted) + 1
    <2>1. CASE daily.row \in Posted
      <3>1. SummaryDebt = 1
        BY <1>1, <1>3, <2>1 DEF SummaryDebt
      <3>2. Posted' = Posted
        BY <1>2, <2>1
      <3> QED BY <3>1, <3>2
    <2>2. CASE daily.row \notin Posted
      BY <1>2, <2>2, PostedCount, FS_AddElement
    <2> QED BY <2>1, <2>2
  <1> HIDE DEF a, d, f, k, l
  <1>9. a + d <= Again + SummaryDebt + (f - faults)
    <2>1. CASE k = Cardinality(Posted) /\ SummaryDebt = 1
      <3>1. a = Again + 1
        BY <1>5, <1>6, <2>1
      <3> QED BY <1>6, <1>7, <2>1, <3>1
    <2>2. CASE k = Cardinality(Posted) + 1
      <3>1. a = Again
        BY <1>5, <1>6, <2>2
      <3> QED BY <1>6, <1>7, <3>1
    <2> QED BY <1>8, <2>1, <2>2
  <1> QED BY <1>9 DEF a, d, f

\* After a delivery every summary that was posted is recorded as sent.
LEMMA FinishedSummaries ==
    ASSUME TypeOK, RowIsNext, PostedFirst, FinishSummary
    PROVE  posts' = posts /\ (Delivering => \A n \in Posted : Sent(n)')
  <1>1. posts' = posts
    BY DEF FinishSummary, founderVars
  <1>2. ASSUME Delivering, NEW n \in Posted PROVE Sent(n)'
    <2> DEFINE r == daily.row
               e == [outbox[r] EXCEPT !.leased = FALSE, !.status = "sent"]
    <2>1. outbox' = [outbox EXCEPT ![r] = e]
      BY <1>2 DEF FinishSummary, Delivering
    <2>2. /\ outbox \in Seq(Row) /\ Len(outbox) \in Nat /\ DOMAIN outbox = 1 .. Len(outbox)
          /\ \A m \in DOMAIN outbox : outbox[m] \in Row
      BY LenProperties, ElementOfSeq DEF TypeOK
    <2>3. r \in DOMAIN outbox /\ n \in DOMAIN outbox /\ ~Sent(r) /\ \A m \in 1 .. r - 1 : Sent(m)
      BY <1>2, PostedCount DEF RowIsNext, Delivering
    <2>4. \A m \in 1 .. n - 1 : Sent(m)
      BY <1>2 DEF PostedFirst, Posted
    <2>5. n \in Int /\ r \in Int /\ 1 <= r /\ 1 <= n
      BY <2>2, <2>3
    <2>6. n = r \/ Sent(n)
      BY <2>3, <2>4, <2>5
    <2>7. e.status = "sent"
      BY <2>2, <2>3 DEF Row
    <2> HIDE DEF e
    <2>8. outbox'[r] = e /\ (n # r => outbox'[n] = outbox[n])
      BY <2>1, <2>3
    <2> QED BY <2>6, <2>7, <2>8 DEF Sent
  <1> QED BY <1>1, <1>2

\* What a step of an hourly run adds for the alerts
LEMMA RunCost ==
    ASSUME TypeOK, NEW w \in Worker, Work(w) \/ WorkFault(w)
    PROVE  /\ repeats' + AlertDebt' <= repeats + AlertDebt + (faults' - faults) + 2 * (overlaps' - overlaps)
           /\ UNCHANGED <<posts, daily>>
           /\ repeats' \in Nat /\ faults' \in Nat /\ overlaps' \in Nat
  <1> USE PerformanceAssumption
  <1> DEFINE r == repeats'
             d == AlertDebt'
             f == faults'
             o == overlaps'
             Paid == \/ r = repeats /\ f = faults /\ o = overlaps /\ d <= AlertDebt
                     \/ r = repeats /\ f = faults /\ d <= AlertDebt + 2 * (o - overlaps)
                     \/ r = repeats /\ o = overlaps /\ d <= AlertDebt + (f - faults)
                     \/ o = overlaps /\ r + d <= repeats + AlertDebt + (f - faults)
             Numbers == r \in Nat /\ f \in Nat /\ o \in Nat /\ d \in Nat
  <1>1. UNCHANGED <<posts, daily>>
    BY DEF Work, WorkFault, Start, Collect, Claim, Post, Finish, Read, Write, CollectFails, PostFails,
           AlertFails, Crash, founderVars
  <1>2. repeats \in Nat /\ faults \in Nat /\ overlaps \in Nat /\ AlertDebt \in Nat /\ AlertDebt' \in Nat
    BY DebtType, DebtTypeNext DEF TypeOK
  <1>3. ASSUME Start(w) PROVE Paid /\ Numbers
    <2>1. repeats' = repeats /\ faults' = faults /\ overlaps' \in Nat
      BY <1>2, <1>3 DEF Start, founderVars
    <2>2. AlertDebt' <= AlertDebt + 2 * (overlaps' - overlaps)
      BY <1>3, StartDebt
    <2> QED BY <1>2, <2>1, <2>2
  <1>4. ASSUME Collect(w) \/ Claim(w) \/ Read(w) \/ Write(w) PROVE Paid /\ Numbers
    <2>1. repeats' = repeats /\ faults' = faults /\ overlaps' = overlaps
      BY <1>4 DEF Collect, Claim, Read, Write, founderVars
    <2>2. AlertDebt' <= AlertDebt
      BY <1>4, QuietDebt
    <2> QED BY <1>2, <2>1, <2>2
  <1>5. ASSUME Finish(w) PROVE Paid /\ Numbers
    <2>1. repeats' = repeats /\ faults' = faults /\ overlaps' = overlaps
      BY <1>5 DEF Finish, founderVars
    <2>2. AlertDebt' <= AlertDebt
      BY <1>5, FinishDebt
    <2> QED BY <1>2, <2>1, <2>2
  <1>6. ASSUME Post(w) PROVE Paid /\ Numbers
    <2>1. overlaps' = overlaps /\ repeats' \in Nat /\ faults' \in Nat
      BY <1>2, <1>6 DEF Post, Fault
    <2>2. repeats' + AlertDebt' <= repeats + AlertDebt + (faults' - faults)
      BY <1>6, PostDebt
    <2> QED BY <1>2, <2>1, <2>2
  <1>7. ASSUME WorkFault(w) PROVE Paid /\ Numbers
    <2>1. repeats' = repeats /\ overlaps' = overlaps /\ faults' \in Nat
      BY <1>2, <1>7 DEF WorkFault, CollectFails, PostFails, AlertFails, Crash, Fault, founderVars
    <2>2. AlertDebt' <= AlertDebt + (faults' - faults)
      BY <1>7, FaultDebt
    <2> QED BY <1>2, <2>1, <2>2
  <1>8. Paid /\ Numbers
    BY <1>3, <1>4, <1>5, <1>6, <1>7 DEF Work
  <1> HIDE DEF r, d, f, o
  <1>9. r + d <= repeats + AlertDebt + (f - faults) + 2 * (o - overlaps)
    BY <1>2, <1>8
  <1> QED BY <1>1, <1>8, <1>9 DEF r, d, f, o

\* Nobody else says anything of the alerts.
LEMMA OtherCost ==
    ASSUME TypeOK, World \/ Daily \/ DailyFault \/ UNCHANGED vars \/ \E w \in Worker : WorkOther(w)
    PROVE  AlertDebt' = AlertDebt /\ repeats' = repeats /\ overlaps' = overlaps
  <1>1. UNCHANGED <<repeats, overlaps>> /\ UNCHANGED <<pc, found, sent, told>>
    BY DEF World, Daily, DailyFault, vars, ConditionChanges, NextDay, Tick, SummaryLeaseExpires, Observe,
           ClaimSummary, Send, FinishSummary, SendFails, DailyCrash, WorkOther, CollectOther,
           runVars, founderVars
  <1>2. SameWords
    <2>1. CASE Tick
      BY <2>1, TickWords
    <2>2. CASE Observe
      <3>1. /\ doc' = [doc EXCEPT !.observations = Seen(This)]
            /\ copy' = copy /\ doc \in Document
        BY <2>2 DEF Observe, TypeOK, runVars
      <3> QED BY <3>1 DEF SameWords, Document
    <2>3. CASE ~Tick /\ ~Observe
      <3>1. doc' = doc /\ copy' = copy
        BY <2>3 DEF World, Daily, DailyFault, vars, ConditionChanges, NextDay, SummaryLeaseExpires,
                    ClaimSummary, Send, FinishSummary, SendFails, DailyCrash, WorkOther, CollectOther,
                    runVars, rowVars
      <3> QED BY <3>1 DEF SameWords
    <2> QED BY <2>1, <2>2, <2>3
  <1> QED BY <1>1, <1>2, DebtFrame

\* What a step adds for the summaries
LEMMA SummaryCost ==
    ASSUME TypeOK, RowIsNext, PostedFirst, RowsKept,
           World \/ Daily \/ DailyFault \/ UNCHANGED vars \/ \E w \in Worker : WorkOther(w)
    PROVE  /\ Again' + SummaryDebt' <= Again + SummaryDebt + (faults' - faults)
           /\ faults' \in Nat /\ Again' \in Int
  <1> DEFINE a == Again'
             d == SummaryDebt'
             f == faults'
             Paid == \/ f = faults /\ a = Again /\ d <= SummaryDebt
                     \/ f = faults + 1 /\ a = Again
                     \/ a + d <= Again + SummaryDebt + (f - faults)
             Numbers == a \in Int /\ d \in {0, 1} /\ f \in Nat
  <1>1. faults \in Nat /\ Again \in Nat /\ SummaryDebt \in {0, 1} /\ SummaryDebt' \in {0, 1}
    BY PostedCount DEF TypeOK
  <1>2. ASSUME Send PROVE Paid /\ Numbers
    <2>1. faults' \in Nat
      BY <1>1, <1>2 DEF Send, Fault
    <2>2. Again' \in Int
      <3>1. Len(posts') = Len(posts) + 1 /\ Len(posts) \in Nat
        BY <1>2, SendPosts, PostedCount
      <3>2. Posted' = Posted \cup {daily.row} /\ IsFiniteSet(Posted)
        BY <1>2, SendPosts, PostedCount
      <3>3. Cardinality(Posted') \in Nat
        BY <3>2, FS_AddElement, FS_CardinalityType
      <3> QED BY <3>1, <3>3 DEF Again
    <2>3. Again' + SummaryDebt' <= Again + SummaryDebt + (faults' - faults)
      BY <1>2, SendDebt
    <2> QED BY <1>1, <2>1, <2>2, <2>3
  <1>3. ASSUME SendFails \/ DailyCrash PROVE Paid /\ Numbers
    <2>1. posts' = posts /\ faults' = faults + 1
      BY <1>3 DEF SendFails, DailyCrash, Fault, founderVars
    <2>2. Again' = Again
      BY <2>1 DEF Again, Posted
    <2> QED BY <1>1, <2>1, <2>2
  <1>4. ASSUME FinishSummary PROVE Paid /\ Numbers
    <2>1. faults' = faults
      BY <1>4 DEF FinishSummary
    <2>2. Again' = Again /\ SummaryDebt' <= SummaryDebt
      BY <1>4, FinishedSummaries, SummaryFrame
    <2>3. Numbers
      BY <1>1, <2>1, <2>2
    <2> QED BY <2>1, <2>2, <2>3
  <1>5. ASSUME Observe \/ ClaimSummary PROVE Paid /\ Numbers
    <2>1. faults' = faults /\ posts' = posts /\ ~Delivering
      BY <1>5 DEF Observe, ClaimSummary, founderVars, Delivering
    <2>2. Again' = Again /\ SummaryDebt' <= SummaryDebt
      BY <2>1, SummaryFrame
    <2>3. Numbers
      BY <1>1, <2>1, <2>2
    <2> QED BY <2>1, <2>2, <2>3
  <1>6. ASSUME World \/ UNCHANGED vars \/ \E w \in Worker : WorkOther(w) PROVE Paid /\ Numbers
    <2>1. faults' = faults /\ posts' = posts /\ daily' = daily
      BY <1>6 DEF World, vars, ConditionChanges, NextDay, Tick, SummaryLeaseExpires, WorkOther,
                  CollectOther, founderVars
    <2>2. Again' = Again /\ SummaryDebt' <= SummaryDebt
      BY <2>1, SummaryFrame DEF Delivering
    <2>3. Numbers
      BY <1>1, <2>1, <2>2
    <2> QED BY <2>1, <2>2, <2>3
  <1>7. Paid /\ Numbers
    BY <1>2, <1>3, <1>4, <1>5, <1>6 DEF Daily, DailyFault
  <1> HIDE DEF a, d, f
  <1>8. a + d <= Again + SummaryDebt + (f - faults)
    BY <1>1, <1>7
  <1> QED BY <1>7, <1>8 DEF a, d, f

\* Every step pays for the repeats it makes and those it owes.
LEMMA AccountedStep ==
    ASSUME TypeOK, RowIsNext, PostedFirst, RowsKept, Accounted, [Next]_vars
    PROVE  Accounted'
  <1> USE PerformanceAssumption
  <1> DEFINE r == repeats'
             d == AlertDebt'
             f == faults'
             o == overlaps'
             a == Again'
             s == SummaryDebt'
             Paid == \/ /\ r + d <= repeats + AlertDebt + (f - faults) + 2 * (o - overlaps)
                        /\ a = Again /\ s <= SummaryDebt
                     \/ /\ r = repeats /\ d = AlertDebt /\ o = overlaps
                        /\ a + s <= Again + SummaryDebt + (f - faults)
             Numbers == r \in Nat /\ d \in Nat /\ f \in Nat /\ o \in Nat /\ a \in Int /\ s \in {0, 1}
  <1>1. /\ repeats \in Nat /\ faults \in Nat /\ overlaps \in Nat /\ AlertDebt \in Nat /\ AlertDebt' \in Nat
        /\ Again \in Nat /\ SummaryDebt \in {0, 1} /\ SummaryDebt' \in {0, 1}
    BY DebtType, DebtTypeNext, PostedCount DEF TypeOK
  <1>2. ASSUME NEW w \in Worker, Work(w) \/ WorkFault(w) PROVE Paid /\ Numbers
    <2>1. /\ repeats' + AlertDebt' <= repeats + AlertDebt + (faults' - faults) + 2 * (overlaps' - overlaps)
          /\ UNCHANGED <<posts, daily>>
          /\ repeats' \in Nat /\ faults' \in Nat /\ overlaps' \in Nat
      BY <1>2, RunCost
    <2>2. Again' = Again /\ SummaryDebt' <= SummaryDebt
      BY <2>1, SummaryFrame DEF Delivering
    <2>3. Numbers
      BY <1>1, <2>1, <2>2
    <2> QED BY <2>1, <2>2, <2>3
  <1>3. ASSUME World \/ Daily \/ DailyFault \/ UNCHANGED vars \/ \E w \in Worker : WorkOther(w)
        PROVE  Paid /\ Numbers
    <2>1. AlertDebt' = AlertDebt /\ repeats' = repeats /\ overlaps' = overlaps
      BY <1>3, OtherCost
    <2>2. /\ Again' + SummaryDebt' <= Again + SummaryDebt + (faults' - faults)
          /\ faults' \in Nat /\ Again' \in Int
      BY <1>3, SummaryCost
    <2> QED BY <1>1, <2>1, <2>2
  <1>4. Paid /\ Numbers
    BY <1>2, <1>3 DEF Next
  <1>5. repeats + AlertDebt + Again + SummaryDebt <= faults + 2 * overlaps
    BY DEF Accounted
  <1> HIDE DEF r, d, f, o, a, s
  <1>6. r + d + a + s <= f + 2 * o
    BY <1>1, <1>4, <1>5
  <1> QED BY <1>6 DEF Accounted, r, d, f, o, a, s

-----------------------------------------------------------------------------
(* The invariant and what follows from it.                                  *)

\* The first state owes nothing.
LEMMA InitInvariant ==
    Init => IInv
  <1> SUFFICES ASSUME Init PROVE IInv
    OBVIOUS
  <1> USE PerformanceAssumption
  <1>1. /\ doc = NoCopy /\ outbox = <<>> /\ posts = <<>> /\ lost = {} /\ daily = NoDaily
        /\ repeats = 0 /\ faults = 0 /\ overlaps = 0 /\ told = "healthy"
        /\ \A w \in Worker : pc[w] = "idle" /\ copy[w] = NoCopy
    BY DEF Init
  <1>2. NoCopy \in Document /\ NoCopy.alert = "healthy" /\ NoCopy.observations = {}
    <2>1. NoClaim \in Claims /\ "healthy" \in Condition /\ 0 \in 0 .. MaxDay
      BY DEF Claims, Condition
    <2> QED BY <2>1 DEF NoCopy, Document
  <1>3. outbox \in Seq(Row) /\ DOMAIN outbox = {} /\ posts \in Seq(DOMAIN outbox) /\ DOMAIN posts = {}
        /\ Len(posts) = 0 /\ Len(outbox) = 0
    BY <1>1
  <1>4. TypeOK
    <2>1. /\ doc \in Document /\ copy \in [Worker -> Document]
          /\ (\A w \in Worker : pc[w] # "write" => copy[w] = NoCopy)
      BY <1>2 DEF Init
    <2>2. pc \in [Worker -> Step] /\ age \in [Worker -> 0 .. MaxAge] /\ window \in [Worker -> 0 .. MaxDay]
      BY DEF Init, Step
    <2>3. found \in [Worker -> Condition] /\ sent \in [Worker -> BOOLEAN]
      BY DEF Init, Condition
    <2>4. daily \in [at : DailyStep, row : 0 .. Len(outbox), delivered : BOOLEAN]
      <3>1. 0 \in 0 .. Len(outbox) /\ "idle" \in DailyStep /\ FALSE \in BOOLEAN
        BY <1>3 DEF DailyStep
      <3> QED BY <1>1, <3>1 DEF NoDaily
    <2>5. truth \in Condition /\ day \in Day /\ changes \in 0 .. MaxChanges /\ told \in Condition
      BY DEF Init, Condition, Day
    <2>6. repeats \in Nat /\ lost \subseteq Day /\ {overlaps, faults} \subseteq Nat
          /\ overlaps + faults <= MaxFaults
      BY <1>1
    <2>7. others \in [Others -> OtherDocument]
      BY DEF Init, OtherDocument
    <2> QED BY <1>3, <2>1, <2>2, <2>3, <2>4, <2>5, <2>6, <2>7 DEF TypeOK
  <1>5. SoloRun /\ CopiesKnown /\ RowsKnown /\ EvidenceSummarized
    <2>1. \A p \in Publication : Observed(p) = {}
      BY <1>1, <1>2 DEF Init, Observed, Observations, Publication
    <2> QED BY <1>1, <1>2, <1>3, <2>1 DEF SoloRun, Running, CopiesKnown, RowsKnown, EvidenceSummarized
  <1>6. SentFirst /\ RowIsNext /\ PostedFirst /\ SummariesInOrder
    BY <1>1, <1>3 DEF SentFirst, RowIsNext, PostedFirst, SummariesInOrder, Delivering, NoDaily
  <1>7. AlertDebt = 0
    <2>1. Posters = {} /\ ~Claimer
      BY <1>1 DEF Posters, Claimer, Claiming, Only, Running
    <2>2. Faithful
      BY <1>1, <1>2 DEF Faithful
    <2>3. Late = 0 /\ Unfaithful = 0
      BY <2>1, <2>2, FS_EmptySet DEF Late, Unfaithful
    <2> QED BY <2>3 DEF AlertDebt
  <1>8. Again = 0 /\ SummaryDebt = 0
    <2>1. Posted = {}
      BY <1>3 DEF Posted
    <2> QED BY <1>3, <2>1, FS_EmptySet DEF Again, SummaryDebt
  <1>9. Accounted
    BY <1>1, <1>7, <1>8 DEF Accounted
  <1> QED BY <1>4, <1>5, <1>6, <1>9 DEF IInv

\* Every step keeps it.
LEMMA NextInvariant ==
    IInv /\ [Next]_vars => IInv'
  <1> SUFFICES ASSUME IInv, [Next]_vars PROVE IInv'
    OBVIOUS
  <1>1. /\ TypeOK /\ SoloRun /\ SentFirst /\ RowIsNext /\ PostedFirst /\ SummariesInOrder
        /\ CopiesKnown /\ RowsKnown /\ EvidenceSummarized /\ Accounted
    BY DEF IInv
  <1>2. RowsKept
    BY <1>1, RowsStep
  <1>3. TypeOK'
    <2>1. outbox' \in Seq(Row)
      BY <1>2 DEF RowsKept
    <2> QED BY <1>1, <1>2, <2>1, TypeDocument, TypeOthers, TypeRuns, TypeCopies, TypeDaily,
       TypeCounters
       DEF TypeOK, DailyTyped
  <1>4. SoloRun'
    BY <1>1, SoloStep
  <1>5. SentFirst' /\ RowIsNext'
    BY <1>1, <1>2, SentFirstStep, RowStep
  <1>6. PostedFirst' /\ SummariesInOrder'
    BY <1>1, <1>2, PostedStep
  <1>7. CopiesKnown' /\ RowsKnown' /\ EvidenceSummarized'
    <2>1. CopiesKnown' /\ (Observe \/ SameEvidence)
      BY <1>1, KnownStep
    <2> QED BY <1>1, <1>2, <2>1, EvidenceStep
  <1>8. Accounted'
    BY <1>1, <1>2, AccountedStep
  <1> QED BY <1>3, <1>4, <1>5, <1>6, <1>7, <1>8 DEF IInv

\* The invariant holds in every state that can be reached.
THEOREM Invariance == Spec => []IInv
  <1>1. Init => IInv
    BY InitInvariant
  <1>2. IInv /\ [Next]_vars => IInv'
    BY NextInvariant
  <1> QED BY <1>1, <1>2, PTL DEF Spec

\* The documents of the runs, the rows and the daily run stay what their types say.
THEOREM TypeCorrect == Spec => []TypeOK
  <1>1. IInv => TypeOK
    BY DEF IInv
  <1> QED BY <1>1, Invariance, PTL

\* "Claim only the oldest pending summary so newer windows cannot overtake it":
\* a summary is posted only after every earlier one, however many are pending
\* and whatever the runs that died had leased.
THEOREM InOrder == Spec => []SummariesInOrder
  <1>1. IInv => SummariesInOrder
    BY DEF IInv
  <1> QED BY <1>1, Invariance, PTL

\* Whatever runs between the collection, the daily run and the write of a stale
\* copy, an observation that was made is in a summary of its window; a later
\* summary of the window repeats none, and leaves out only observations that
\* were lost.
THEOREM EvidenceIsSummarized == Spec => []EvidenceSummarized
  <1>1. IInv => EvidenceSummarized
    BY DEF IInv
  <1> QED BY <1>1, Invariance, PTL

\* Alerts and summaries repeat at most once for each lost answer or crash and
\* twice for each hourly run that began beside another one.
THEOREM CausesOfRepeats == Spec => []RepeatsHaveACause
  <1>1. IInv => RepeatsHaveACause
    <2> SUFFICES ASSUME IInv PROVE RepeatsHaveACause
      OBVIOUS
    <2>1. TypeOK /\ Accounted
      BY DEF IInv
    <2>2. /\ AlertDebt \in Nat /\ SummaryDebt \in {0, 1} /\ repeats \in Nat /\ faults \in Nat /\ overlaps \in Nat
          /\ Len(posts) \in Nat /\ Cardinality(Posted) \in Nat
      BY <2>1, PerformanceAssumption, DebtType, PostedCount DEF TypeOK
    <2>3. repeats + AlertDebt + (Len(posts) - Cardinality(Posted)) + SummaryDebt <= faults + 2 * overlaps
      BY <2>1 DEF Accounted, Again
    <2>4. repeats + Len(posts) - Cardinality(Posted) <= faults + 2 * overlaps
      BY <2>2, <2>3
    <2> QED BY <2>4 DEF RepeatsHaveACause, Posted
  <1> QED BY <1>1, Invariance, PTL

\* While no hourly run began beside another one, a step that changes the
\* recorded alert records what the founder was told last.
THEOREM AlertIsTold == Spec => RecordIsTold
  <1>1. IInv /\ [Next]_vars => [overlaps = 0 /\ doc'.alert # doc.alert => doc'.alert = told]_vars
    <2> SUFFICES ASSUME IInv, Next, overlaps = 0, doc'.alert # doc.alert PROVE doc'.alert = told
      BY DEF IInv
    <2> USE PerformanceAssumption
    <2>1. TypeOK /\ SoloRun
      BY DEF IInv
    <2>2. doc \in Document /\ copy \in [Worker -> Document]
      BY <2>1 DEF TypeOK
    <2>3. ASSUME NEW w \in Worker, Finish(w) PROVE doc'.alert = told
      <3>1. pc[w] = "finish"
        BY <2>3 DEF Finish
      <3>2. CASE doc.claim.by = w /\ sent[w]
        <4>1. doc'.alert = doc.claim.of
          BY <2>2, <2>3, <3>2 DEF Finish, Document
        <4> QED BY <2>1, <3>1, <3>2, <4>1 DEF SoloRun
      <3>3. CASE doc.claim.by # w
        BY <2>3, <3>3 DEF Finish
      <3>4. CASE doc.claim.by = w /\ ~sent[w]
        <4>1. doc'.alert = doc.alert
          BY <2>2, <2>3, <3>4 DEF Finish, Document
        <4> QED BY <4>1
      <3> QED BY <3>2, <3>3, <3>4
    <2>4. ASSUME NEW w \in Worker, Write(w) PROVE doc'.alert = told
      BY <2>1, <2>4 DEF Write, SoloRun
    <2>5. ASSUME NEW w \in Worker, Start(w) PROVE doc'.alert = told
      <3>1. doc'.alert = doc.alert
        BY <2>2, <2>5, ForgottenDocument DEF Start
      <3> QED BY <3>1
    <2>6. CASE Tick
      <3>1. doc'.alert = doc.alert
        BY <2>2, <2>6, OlderDocument DEF Tick
      <3> QED BY <3>1
    <2>7. ASSUME NEW w \in Worker, Collect(w) \/ Claim(w) PROVE doc'.alert = told
      <3>1. doc'.alert = doc.alert
        BY <2>2, <2>7 DEF Collect, Claim, Document
      <3> QED BY <3>1
    <2>8. CASE Observe
      <3>1. doc'.alert = doc.alert
        BY <2>2, <2>8 DEF Observe, Document
      <3> QED BY <3>1
    <2>9. ASSUME NEW w \in Worker, Post(w) \/ Read(w) \/ WorkOther(w) \/ WorkFault(w) PROVE doc'.alert = told
      <3>1. doc' = doc
        BY <2>9 DEF WorkOther, CollectOther, WorkFault, Post, Read, CollectFails, PostFails, AlertFails,
                    Crash, rowVars
      <3> QED BY <3>1
    <2>10. CASE ConditionChanges \/ NextDay \/ SummaryLeaseExpires \/ ClaimSummary \/ Send \/ FinishSummary
                \/ DailyFault
      <3>1. doc' = doc
        BY <2>10 DEF ConditionChanges, NextDay, SummaryLeaseExpires, ClaimSummary, Send, FinishSummary,
                     DailyFault, SendFails, DailyCrash, rowVars
      <3> QED BY <3>1
    <2> QED BY <2>3, <2>4, <2>5, <2>6, <2>7, <2>8, <2>9, <2>10 DEF Next, World, Work, Daily
  <1> QED BY <1>1, Invariance, PTL DEF Spec, RecordIsTold

=============================================================================
