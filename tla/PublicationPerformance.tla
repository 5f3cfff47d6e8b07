------------------------ MODULE PublicationPerformance ------------------------
(***************************************************************************)
(* The performance document of one Meta publication, This, and who writes  *)
(* it: the hourly runs, which collect, alert the founder and persist the   *)
(* inputs of the policy, and the daily run.  The daily run observes the    *)
(* Others too, and summarizes each window over all publications that have  *)
(* an observation of it; the summaries are drained in order.               *)
(*                                                                         *)
(* Every writer but one locks the row and changes its own part.  The       *)
(* inputs are read without a lock and the whole document is written back,  *)
(* of This and not of the Others, whose state or basis rules them out.     *)
(***************************************************************************)
EXTENDS Integers, SequencesExt, FiniteSetsExt

CONSTANTS
    This,        \* the publication whose document and alerts are followed
    Others,      \* Meta publications that are not active, or have no autonomy_basis
    Worker,      \* hourly runs: the loop of a process, or of a second process
    Nobody,      \* the run behind a token that no run remembers
    Conditions,  \* delivery conditions that are alerted; "healthy" is any other one
    Lease,       \* _ALERT_CLAIM_LEASE in ticks
    MaxAge,      \* bound: ticks that an hourly run takes at most
    MaxDay,      \* bound: windows that are completed
    MaxChanges,  \* bound: new windows, delivery conditions and collections of the Others
    MaxFaults    \* bound: crashes, errors, lost answers, overlapping hourly runs

ASSUME PerformanceAssumption ==
    /\ IsFiniteSet(Others) /\ This \notin Others
    /\ IsFiniteSet(Worker) /\ Nobody \notin Worker /\ "healthy" \notin Conditions
    /\ Lease \in Nat \ {0} /\ MaxAge \in Nat
    /\ MaxDay \in Nat \ {0} /\ MaxChanges \in Nat /\ MaxFaults \in Nat

VARIABLES
    doc,      \* publications.performance of This
    others,   \* what the daily run uses of the Others' documents
    outbox,   \* daily_performance_summary_outbox
    pc, age,  \* of each hourly run: where it is, ticks since its `now`
    window,   \* the last completed window when it began
    found,    \* the condition it classified
    sent,     \* what _deliver returned
    copy,     \* the document it read for the inputs
    daily,    \* the daily run: where it is, its summary, what sending returned
    truth,    \* the delivery condition in Meta
    day,      \* the last completed window
    told,     \* what the founder was last alerted of (history)
    repeats,  \* alerts that say what was last said (history)
    posts,    \* summaries in the order they were posted (history)
    lost,     \* observations of This that a write took away (history)
    changes, overlaps, faults

rowVars == <<doc, others, outbox>>
runVars == <<pc, age, window, found, sent, copy>>
worldVars == <<truth, day, changes>>
founderVars == <<told, repeats, posts, lost>>
vars == <<rowVars, runVars, daily, worldVars, founderVars, overlaps, faults>>

Condition == Conditions \cup {"healthy"}
Day == 1 .. MaxDay
NoClaim == [by |-> Nobody, of |-> "healthy", age |-> -1]
Claims == [by : Worker \cup {Nobody}, of : Condition, age : 0 .. Lease + MaxAge] \cup {NoClaim}
Document == [latest : 0 .. MaxDay, alert : Condition, claim : Claims, observations : SUBSET Day]
NoCopy == [latest |-> 0, alert |-> "healthy", claim |-> NoClaim, observations |-> {}]

Publication == {This} \cup Others
OtherDocument == [latest : 0 .. MaxDay, observations : SUBSET Day]

\* A summary of a window with the observations it is made from, or the notice
\* that a publication had none to make on a day
Summary == [kind : {"window", "missing"}, day : Day, from : SUBSET Publication]
Row == [of : Summary, status : {"pending", "sent"}, leased : BOOLEAN]

Step == {"idle", "collect", "claim", "post", "finish", "read", "write"}
DailyStep == {"idle", "drain", "post", "finish"}
NoDaily == [at |-> "idle", row |-> 0, delivered |-> FALSE]

TypeOK ==
    /\ doc \in Document /\ others \in [Others -> OtherDocument] /\ outbox \in Seq(Row)
    /\ pc \in [Worker -> Step] /\ age \in [Worker -> 0 .. MaxAge]
    /\ window \in [Worker -> 0 .. MaxDay] /\ found \in [Worker -> Condition]
    /\ sent \in [Worker -> BOOLEAN] /\ copy \in [Worker -> Document]
    /\ \A w \in Worker : pc[w] # "write" => copy[w] = NoCopy
    /\ daily \in [at : DailyStep, row : 0 .. Len(outbox), delivered : BOOLEAN]
    /\ truth \in Condition /\ day \in Day /\ changes \in 0 .. MaxChanges
    /\ told \in Condition /\ repeats \in Nat /\ posts \in Seq(DOMAIN outbox)
    /\ lost \subseteq Day /\ {overlaps, faults} \subseteq Nat /\ overlaps + faults <= MaxFaults

\* This is new; the Others were collected before it, on the first day.
Init ==
    /\ doc = NoCopy /\ outbox = <<>>
    /\ others = [o \in Others |-> [latest |-> 1, observations |-> {}]]
    /\ pc = [w \in Worker |-> "idle"] /\ age = [w \in Worker |-> 0]
    /\ window = [w \in Worker |-> 0] /\ found = [w \in Worker |-> "healthy"]
    /\ sent = [w \in Worker |-> FALSE] /\ copy = [w \in Worker |-> NoCopy]
    /\ daily = NoDaily
    /\ truth = "healthy" /\ day = 1 /\ changes = 0
    /\ told = "healthy" /\ repeats = 0 /\ posts = <<>> /\ lost = {}
    /\ overlaps = 0 /\ faults = 0

Running(w) == pc[w] # "idle"
Dated(w) == pc[w] \in {"collect", "claim"}
CanFail == overlaps + faults < MaxFaults
Fault == CanFail /\ faults' = faults + 1
Change == changes < MaxChanges /\ changes' = changes + 1

-----------------------------------------------------------------------------
(* The world                                                                *)

ConditionChanges ==
    /\ Change
    /\ \E c \in Condition \ {truth} : truth' = c
    /\ UNCHANGED <<rowVars, runVars, daily, day, founderVars, overlaps, faults>>

NextDay ==
    /\ day < MaxDay /\ day' = day + 1 /\ Change
    /\ UNCHANGED <<rowVars, runVars, daily, truth, founderVars, overlaps, faults>>

Older(a) == IF a = -1 THEN -1 ELSE Min({a + 1, Lease + MaxAge})
OlderClaim(d) == [d EXCEPT !.claim.age = Older(@)]

\* Claims and runs grow older; a run that took its `now` long ago keeps it.
Tick ==
    /\ \A w \in Worker : Dated(w) => age[w] < MaxAge
    /\ age' = [w \in Worker |-> IF Dated(w) THEN age[w] + 1 ELSE 0]
    /\ doc' = OlderClaim(doc) /\ copy' = [w \in Worker |-> OlderClaim(copy[w])]
    /\ UNCHANGED <<others, outbox, pc, window, found, sent, daily, worldVars, founderVars, overlaps, faults>>

\* Mutant: a claim has no end.
SummaryLeaseStands == FALSE /\ UNCHANGED vars

\* The lease of a daily run that died runs out.
SummaryLeaseExpires ==
    /\ \E n \in DOMAIN outbox \ {daily.row} :
          outbox[n].leased /\ outbox' = [outbox EXCEPT ![n].leased = FALSE]
    /\ UNCHANGED <<doc, others, runVars, daily, worldVars, founderVars, overlaps, faults>>

-----------------------------------------------------------------------------
(* The hourly run                                                           *)

\* The age matters until the alert is claimed.
Goto(w, step) ==
    /\ pc' = [pc EXCEPT ![w] = step]
    /\ age' = IF step \in {"collect", "claim"} THEN age ELSE [age EXCEPT ![w] = 0]

Forget(w) ==
    /\ found' = [found EXCEPT ![w] = "healthy"] /\ sent' = [sent EXCEPT ![w] = FALSE]
    /\ window' = [window EXCEPT ![w] = 0]

\* No run remembers the token of w's last run.
Forgotten(d, w) == IF d.claim.by = w THEN [d EXCEPT !.claim.by = Nobody] ELSE d

\* A process has one hourly run at a time; a second process may overlap it.
Start(w) ==
    /\ ~Running(w)
    /\ IF \E v \in Worker : Running(v)
       THEN CanFail /\ overlaps' = overlaps + 1 ELSE UNCHANGED overlaps
    /\ Goto(w, "collect")
    /\ window' = [window EXCEPT ![w] = day]
    /\ doc' = Forgotten(doc, w) /\ copy' = [v \in Worker |-> Forgotten(copy[v], w)]
    /\ UNCHANGED <<others, outbox, found, sent, daily, worldVars, founderVars, faults>>

\* save_performance_snapshot merges under the row lock.
Collect(w) ==
    /\ pc[w] = "collect"
    /\ doc' = [doc EXCEPT !.latest = window[w]]
    /\ found' = [found EXCEPT ![w] = truth]
    /\ window' = [window EXCEPT ![w] = 0]
    /\ Goto(w, "claim")
    /\ UNCHANGED <<others, outbox, sent, copy, daily, worldVars, founderVars, overlaps, faults>>

\* Another publication of the same run, if its collection does not fail
CollectOther(w, o) ==
    /\ pc[w] = "collect" /\ Change
    /\ others' = [others EXCEPT ![o].latest = window[w]]
    /\ UNCHANGED <<doc, outbox, runVars, daily, truth, day, founderVars, overlaps, faults>>

\* An error of Meta or of the database leaves the publication for this hour.
CollectFails(w) ==
    /\ pc[w] = "collect" /\ Fault
    /\ Goto(w, "read") /\ Forget(w)
    /\ UNCHANGED <<rowVars, copy, daily, worldVars, founderVars, overlaps>>

\* Both ages count from the `now` of a run, not from the claim.
\* Mutant: a claim stands for ever.
HeldForEver(d, a) == d.claim # NoClaim

Held(d, a) == d.claim # NoClaim /\ d.claim.age - a < Lease

\* Mutant: the condition is not compared with the recorded one.
ClaimWithoutState(w) ==
    /\ pc[w] = "claim"
    /\ doc' = [doc EXCEPT !.claim = [by |-> w, of |-> found[w], age |-> age[w]]]
    /\ Goto(w, "post")
    /\ UNCHANGED <<others, outbox, window, found, sent, copy, daily, worldVars, founderVars, overlaps, faults>>

\* Something to say: a problem not yet alerted, or the end of the alerted one
Claim(w) ==
    /\ pc[w] = "claim"
    /\ IF ~Held(doc, age[w]) /\ found[w] # doc.alert
       THEN /\ doc' = [doc EXCEPT !.claim = [by |-> w, of |-> found[w], age |-> age[w]]]
            /\ Goto(w, "post") /\ UNCHANGED <<found, sent, window>>
       ELSE doc' = doc /\ Goto(w, "read") /\ Forget(w)
    /\ UNCHANGED <<others, outbox, copy, daily, worldVars, founderVars, overlaps, faults>>

\* Slack takes the alert; an answer that is lost reads as a failure.
Post(w) ==
    /\ pc[w] = "post"
    /\ told' = found[w] /\ repeats' = repeats + (IF told = found[w] THEN 1 ELSE 0)
    /\ \/ sent' = [sent EXCEPT ![w] = TRUE] /\ UNCHANGED faults
       \/ sent' = [sent EXCEPT ![w] = FALSE] /\ Fault
    /\ Goto(w, "finish")
    /\ UNCHANGED <<rowVars, window, found, copy, daily, worldVars, posts, lost, overlaps>>

PostFails(w) ==
    /\ pc[w] = "post" /\ Fault
    /\ sent' = [sent EXCEPT ![w] = FALSE]
    /\ Goto(w, "finish")
    /\ UNCHANGED <<rowVars, window, found, copy, daily, worldVars, founderVars, overlaps>>

\* Mutant: the transition is recorded although it was not delivered.
FinishUndelivered(w) ==
    /\ pc[w] = "finish"
    /\ doc' = IF doc.claim.by # w THEN doc
              ELSE [doc EXCEPT !.claim = NoClaim, !.alert = doc.claim.of]
    /\ Goto(w, "read") /\ Forget(w)
    /\ UNCHANGED <<others, outbox, copy, daily, worldVars, founderVars, overlaps, faults>>

\* _finish_alert, fenced by the token
Finish(w) ==
    /\ pc[w] = "finish"
    /\ doc' = IF doc.claim.by # w THEN doc
              ELSE [doc EXCEPT !.claim = NoClaim, !.alert = IF sent[w] THEN doc.claim.of ELSE @]
    /\ Goto(w, "read") /\ Forget(w)
    /\ UNCHANGED <<others, outbox, copy, daily, worldVars, founderVars, overlaps, faults>>

\* A database error in the claim or its end is caught with the publication's.
AlertFails(w) ==
    /\ pc[w] \in {"claim", "finish"} /\ Fault
    /\ Goto(w, "read") /\ Forget(w)
    /\ UNCHANGED <<rowVars, copy, daily, worldVars, founderVars, overlaps>>

\* persist_autonomy_inputs: the rows that have a basis, without a lock
Read(w) ==
    /\ pc[w] = "read"
    /\ IF doc.latest = 0 THEN Goto(w, "idle") /\ UNCHANGED copy
       ELSE Goto(w, "write") /\ copy' = [copy EXCEPT ![w] = doc]
    /\ UNCHANGED <<rowVars, window, found, sent, daily, worldVars, founderVars, overlaps, faults>>

Write(w) ==
    /\ pc[w] = "write"
    /\ doc' = copy[w] /\ copy' = [copy EXCEPT ![w] = NoCopy]
    /\ Goto(w, "idle")
    /\ lost' = lost \cup (doc.observations \ copy[w].observations)
    /\ UNCHANGED <<others, outbox, window, found, sent, daily, worldVars, told, repeats, posts,
                   overlaps, faults>>

Crash(w) ==
    /\ Running(w) /\ Fault
    /\ copy' = [copy EXCEPT ![w] = NoCopy]
    /\ Goto(w, "idle") /\ Forget(w)
    /\ UNCHANGED <<rowVars, daily, worldVars, founderVars, overlaps>>

-----------------------------------------------------------------------------
(* The daily run                                                            *)

Latest(p) == IF p = This THEN doc.latest ELSE others[p].latest
Observations(p) == IF p = This THEN doc.observations ELSE others[p].observations

\* What the transaction of the daily run leaves in daily_observations
Seen(p) == Observations(p) \cup ({Latest(p)} \ {0})

\* The key of a summary hashes its window and its publications and evidence.
Key(kind, d, from) == [kind |-> kind, day |-> d, from |-> from]
Windows == UNION {Seen(p) : p \in Publication}
Keys ==
    {Key("window", d, {p \in Publication : d \in Seen(p)}) : d \in Windows}
    \cup {Key("missing", day, {p}) : p \in {q \in Publication : Latest(q) = 0}}

Enqueued == {outbox[n].of : n \in DOMAIN outbox}

\* Mutant: a window that has a summary is not summarized again.
FreshByWindow(keys) ==
    {k \in keys : \A j \in Enqueued : j.kind # k.kind \/ j.day # k.day}

\* ON CONFLICT (summary_key) DO NOTHING
Fresh(keys) == keys \ Enqueued

\* The windows go before the publications without one, and the rows in the
\* order of their ids, of which This is the first; the rest is in any order.
Before(j, k) ==
    \/ j.kind = "window" /\ k.kind = "missing"
    \/ j.kind = k.kind /\ This \in j.from /\ This \notin k.from
Batches(keys) ==
    {q \in [1 .. Cardinality(keys) -> keys] :
        /\ \A m, n \in DOMAIN q : q[m] = q[n] => m = n
        /\ \A n \in DOMAIN q : \A m \in 1 .. n - 1 : ~Before(q[n], q[m])}

\* One transaction under the row locks: an observation of every collected
\* window, and a summary of every window whose observations are not the ones
\* of a summary it has.
Observe ==
    /\ daily.at = "idle"
    /\ daily' = [NoDaily EXCEPT !.at = "drain"]
    /\ doc' = [doc EXCEPT !.observations = Seen(This)]
    /\ others' = [o \in Others |-> [others[o] EXCEPT !.observations = Seen(o)]]
    /\ \E batch \in Batches(Fresh(Keys)) :
          outbox' = outbox \o [n \in DOMAIN batch |->
                                  [of |-> batch[n], status |-> "pending", leased |-> FALSE]]
    /\ UNCHANGED <<runVars, worldVars, founderVars, overlaps, faults>>

PendingRows == {n \in DOMAIN outbox : outbox[n].status = "pending"}
\* Mutant: the first summary that is free, whatever waits before it
NextRowFree == {n \in PendingRows : ~outbox[n].leased /\ \A m \in PendingRows : ~outbox[m].leased => n <= m}

\* The oldest pending summary; while it is leased the run stops.
NextRow == {n \in PendingRows : ~outbox[n].leased /\ \A m \in PendingRows : n <= m}

ClaimSummary ==
    /\ daily.at = "drain"
    /\ \/ NextRow = {} /\ daily' = NoDaily /\ outbox' = outbox
       \/ \E n \in NextRow :
             /\ outbox' = [outbox EXCEPT ![n].leased = TRUE]
             /\ daily' = [daily EXCEPT !.at = "post", !.row = n]
    /\ UNCHANGED <<doc, others, runVars, worldVars, founderVars, overlaps, faults>>

Send ==
    /\ daily.at = "post"
    /\ posts' = Append(posts, daily.row)
    /\ \/ daily' = [daily EXCEPT !.at = "finish", !.delivered = TRUE] /\ UNCHANGED faults
       \/ daily' = [daily EXCEPT !.at = "finish", !.delivered = FALSE] /\ Fault
    /\ UNCHANGED <<rowVars, runVars, worldVars, told, repeats, lost, overlaps>>

SendFails ==
    /\ daily.at = "post" /\ Fault
    /\ daily' = [daily EXCEPT !.at = "finish", !.delivered = FALSE]
    /\ UNCHANGED <<rowVars, runVars, worldVars, founderVars, overlaps>>

\* _drain_summaries goes on after a delivery and stops after a failure.
FinishSummary ==
    /\ daily.at = "finish"
    /\ outbox' = [outbox EXCEPT ![daily.row].leased = FALSE,
                                ![daily.row].status = IF daily.delivered THEN "sent" ELSE @]
    /\ daily' = IF daily.delivered THEN [daily EXCEPT !.at = "drain", !.row = 0, !.delivered = FALSE]
                ELSE NoDaily
    /\ UNCHANGED <<doc, others, runVars, worldVars, founderVars, overlaps, faults>>

DailyCrash ==
    /\ daily.at # "idle" /\ Fault
    /\ daily' = NoDaily
    /\ UNCHANGED <<rowVars, runVars, worldVars, founderVars, overlaps>>

-----------------------------------------------------------------------------

World == ConditionChanges \/ NextDay \/ Tick \/ SummaryLeaseExpires
Work(w) ==
    \/ Start(w) \/ Collect(w) \/ Claim(w) \/ Post(w) \/ Finish(w) \/ Read(w) \/ Write(w)
WorkOther(w) == \E o \in Others : CollectOther(w, o)
WorkFault(w) == CollectFails(w) \/ PostFails(w) \/ AlertFails(w) \/ Crash(w)
Daily == Observe \/ ClaimSummary \/ Send \/ FinishSummary
DailyFault == SendFails \/ DailyCrash

Next == World \/ (\E w \in Worker : Work(w) \/ WorkOther(w) \/ WorkFault(w)) \/ Daily \/ DailyFault

Spec == Init /\ [][Next]_vars

\* The loops run every hour and every day, a run ends, and time passes.
Fairness ==
    /\ \A w \in Worker : WF_vars(Work(w))
    /\ WF_vars(Daily) /\ WF_vars(Tick) /\ WF_vars(SummaryLeaseExpires)
FairSpec == Spec /\ Fairness

-----------------------------------------------------------------------------

\* Every message that repeats another one, an alert or a summary, has a cause:
\* an answer that was lost, a crash, or a second hourly run beside the first,
\* which can post under a lease that counts from the other's start, and once
\* more when it puts back the document without the alert.
RepeatsHaveACause ==
    repeats + Len(posts) - Cardinality({posts[n] : n \in DOMAIN posts}) <= faults + 2 * overlaps

\* While hourly runs do not overlap, the recorded alert becomes only what the
\* founder was told last, although the inputs are written back whole.
RecordIsTold == [][overlaps = 0 /\ doc'.alert # doc.alert => doc'.alert = told]_vars

\* "Any completed daily window may create an immutable evidence observation":
\* every observation that was made is in a summary of its window, though it may
\* be made after the window's first summary or be lost from the document.  No
\* summary is there twice, and a later one of the same window leaves out only
\* observations that the inputs, written back whole, took away.
Observed(p) == Observations(p) \cup (IF p = This THEN lost ELSE {})
MayFollow(old, new) ==
    /\ old # new
    /\ old.kind = "window" /\ new.kind = "window" /\ old.day = new.day =>
          \A p \in old.from \ new.from : p = This /\ new.day \in lost
EvidenceSummarized ==
    /\ \A p \in Publication : \A d \in Observed(p) :
          \E n \in DOMAIN outbox :
             outbox[n].of.kind = "window" /\ outbox[n].of.day = d /\ p \in outbox[n].of.from
    /\ \A n \in DOMAIN outbox : \A m \in 1 .. n - 1 : MayFollow(outbox[m].of, outbox[n].of)

\* That a later summary of a window has all that an earlier one had is not true
\* of the code: when the inputs, written back whole, took away the observation of
\* This, the next daily run summarizes the window again, from the Others alone.
SummariesGrow ==
    \A n \in DOMAIN outbox : \A m \in 1 .. n - 1 :
        LET old == outbox[m].of  new == outbox[n].of
        IN  old.kind = "window" /\ new.kind = "window" /\ old.day = new.day => old.from \subseteq new.from

\* "Claim only the oldest pending summary so newer windows cannot overtake it."
\* And what is recorded as sent was posted.
SummariesInOrder ==
    /\ \A n \in DOMAIN posts : \A m \in 1 .. posts[n] - 1 : \E k \in 1 .. n - 1 : posts[k] = m
    /\ \A n \in DOMAIN outbox : outbox[n].status = "sent" => \E k \in DOMAIN posts : posts[k] = n

\* Once the delivery condition stays, the recorded alert agrees with it,
\* whatever crashes, lost answers and overlapping runs came before.
AlertFollowsDelivery ==
    <>[](doc.alert = truth)

\* A summary that failed, or whose run died, does not block the others.
SummariesLeave == <>[](PendingRows = {})

\* The plan: "Use SELECT ... FOR UPDATE so concurrent hourly/daily writes do
\* not lose data."  The inputs are read without it.
ObservationsKept == [][doc.observations \subseteq doc'.observations]_vars

=============================================================================
