---------------------------- MODULE CampaignPolicy ----------------------------
(***************************************************************************)
(* What the agent decides about the budgets of one campaign, hour after    *)
(* hour: the hourly evidence, the decision of evaluate_campaign, and the   *)
(* executor's own look at the same limits before it writes.                *)
(*                                                                         *)
(* Decision and execution read different rows at different times.  How a   *)
(* decision is carried out, ad set by ad set and under a lease, is in      *)
(* BudgetActions; here an execution is one step.                           *)
(***************************************************************************)
EXTENDS Integers, SequencesExt

CONSTANTS
    Publications,  \* active publications of the campaign, numbered by id
    Orders,        \* orders that their draft ids can have as text
    Budgets,       \* approved daily budgets
    Rates,         \* registrations per landing page view
    Percent,       \* meta_autonomy_max_increase_percent
    Ceiling,       \* meta_autonomy_max_daily_budget_eur
    Day,           \* the rolling window of 24 hours
    Cooldown,      \* meta_autonomy_cooldown_hours
    MaxAge,        \* performance_snapshot_max_age_hours
    Horizon,       \* bound: hours
    MaxEdits       \* bound: budgets the founder changes

Pub == 1 .. Publications

\* Budgets are approved in whole euros, so they are more than a cent.
ASSUME PolicyAssumption ==
    /\ Publications \in Nat \ {0, 1} /\ Orders \subseteq Injection(Pub, Pub)
    /\ Budgets \subseteq Nat \ {0, 1} /\ Rates \subseteq Nat
    /\ Percent \in 0 .. 100 /\ Ceiling \in Nat
    /\ Day \in Nat \ {0} /\ Cooldown \in Nat \ {0} /\ MaxAge \in Nat
    /\ Horizon \in Nat /\ MaxEdits \in Nat

VARIABLES
    now,
    approved,  \* publications.approved_budget_cents
    live,      \* daily_budget of the ad sets in Meta
    rank,      \* order of the draft ids as text, where publications go by number
    sourced,   \* _replacement_source finds a three-language bundle
    basis,     \* performance.autonomy_basis and autonomy_inputs of the last collection
    action,    \* the campaign's open action and its frozen decision
    history,   \* succeeded actions and their budget events
    last,      \* how the last execution ended (history)
    edits

campaignVars == <<approved, rank, sourced>>
vars == <<now, campaignVars, live, basis, action, history, last, edits>>

NoBasis == [at |-> -1]
NoAction == [kind |-> "none"]

Total(b) == SumFunctionOnSet(b, Pub)

Basis(healthy) == [at : 0 .. now, healthy : healthy, rates : [Pub -> Rates]]

\* Decisions that change the budgets of some publications
Decisions(ps) ==
    [kind : {"replace", "reallocate", "scale"}, basis : Basis({TRUE}),
     changes : [ps -> [old : Nat, new : Nat]], status : {"pending", "blocked"},
     loser : Pub, winner : Pub]

TypeOK ==
    /\ now \in 0 .. Horizon
    /\ approved \in [Pub -> Budgets] /\ live \in [Pub -> Nat \ {0}]
    /\ rank \in Orders /\ sourced \in BOOLEAN
    /\ basis = NoBasis \/ basis \in Basis(BOOLEAN)
    /\ action = NoAction \/ \E ps \in SUBSET Pub : action \in Decisions(ps)
    /\ history \in Seq([kind : {"reallocate", "scale"}, at : 0 .. now, old : Nat, new : Nat])
    /\ last \in {"none", "cancelled", "drifted", "blocked", "succeeded"}
    /\ edits \in 0 .. MaxEdits

\* Draft ids like 9 and 10 sort differently as numbers and as text.
Init ==
    /\ now = 0
    /\ approved \in [Pub -> Budgets] /\ live = approved
    /\ rank \in Orders /\ sourced \in BOOLEAN
    /\ basis = NoBasis /\ action = NoAction /\ history = <<>>
    /\ last = "none" /\ edits = 0

Tick ==
    /\ now < Horizon
    /\ now' = now + 1
    /\ UNCHANGED <<campaignVars, live, basis, action, history, last, edits>>

\* The hourly loop collects and persists the inputs; healthy is complete,
\* attributed, delivering, comparable and above the evidence floors.
Collect ==
    /\ basis.at < now
    /\ \E h \in BOOLEAN, r \in [Pub -> Rates] :
          basis' = [at |-> now, healthy |-> h, rates |-> r]
    /\ UNCHANGED <<now, campaignVars, live, action, history, last, edits>>

FounderEdits ==
    /\ edits < MaxEdits
    /\ \E p \in Pub, b \in Budgets : b # live[p] /\ live' = [live EXCEPT ![p] = b]
    /\ edits' = edits + 1
    /\ UNCHANGED <<now, campaignVars, basis, action, history, last>>

-----------------------------------------------------------------------------
(* Limits over the rolling history, for the policy and for the executor.    *)

\* Mutant: the increase window is as short as the cooldown.
WindowOfCooldown == {n \in DOMAIN history : history[n].at > now - Cooldown}

Window == {n \in DOMAIN history : history[n].at > now - Day}

Cooling == \E n \in DOMAIN history : history[n].at > now - Cooldown

Increase == [n \in DOMAIN history |-> Max({0, history[n].new - history[n].old})]
Increased(w) == SumFunctionOnSet(Increase, w)

\* The budget that the increases of the window are measured from
Opening(w, otherwise) == IF w = {} THEN otherwise ELSE history[Min(w)].old
Permitted(opening) == (opening * Percent) \div 100

-----------------------------------------------------------------------------
(* _allocation: 40 percent for the loser, when that moves money to the      *)
(* winner.  Ties go by the draft id as text.                                *)

Before(r, p, q) == r[p] < r[q] \/ (r[p] = r[q] /\ rank[p] < rank[q])
FirstBy(r) == CHOOSE p \in Pub : \A q \in Pub \ {p} : Before(r, p, q)
LastBy(r) == CHOOSE p \in Pub : \A q \in Pub \ {p} : Before(r, q, p)

Reallocation(r) ==
    LET l == FirstBy(r)
        w == LastBy(r)
        total == approved[l] + approved[w]
        loserNew == (total * 40) \div 100
    IN  IF loserNew < approved[l] /\ total - loserNew > approved[w]
        THEN [p \in {l, w} |-> [old |-> approved[p],
                                new |-> IF p = l THEN loserNew ELSE total - loserNew]]
        ELSE <<>>

Old(c) == SumFunction([p \in DOMAIN c |-> c[p].old])
New(c) == SumFunction([p \in DOMAIN c |-> c[p].new])

-----------------------------------------------------------------------------
(* evaluate_campaign                                                        *)

\* _compare_variants breaks ties the other way round.
PolicyLoser(r) == CHOOSE p \in Pub : \A q \in Pub \ {p} :
                    r[p] < r[q] \/ (r[p] = r[q] /\ rank[p] > rank[q])
PolicyWinner(r) == CHOOSE p \in Pub : \A q \in Pub \ {p} :
                    r[p] > r[q] \/ (r[p] = r[q] /\ rank[p] < rank[q])

Fresh(b) == b # NoBasis /\ now - b.at \in 0 .. MaxAge

\* Mutant: the increase is measured from the budget of today.
ProposedOnCurrent ==
    IF \E n \in Window : history[n].kind = "scale" THEN Total(approved)
    ELSE Min({Total(approved) + Permitted(Total(approved)), Ceiling})

\* _scale: the new total, or the current one when there is no headroom
Proposed ==
    LET current == Total(approved)
        opening == Opening(Window, current)
        headroom == Permitted(opening) - Increased(Window)
    IN  IF \E n \in Window : history[n].kind = "scale" THEN current
        ELSE Min({current + Max({0, headroom}), opening + Permitted(opening), Ceiling})

\* _scale_allocations: largest remainders first, ties by publication id
Quota(total, p) == (approved[p] * total) \div Total(approved)
Rest(total, p) == (approved[p] * total) % Total(approved)

\* Mutant: the remainder is left out.
ScaleToQuota(total) == [p \in Pub |-> [old |-> approved[p], new |-> Quota(total, p)]]

\* The publications that are given a cent of the remainder before p
Ahead(total, p) == {q \in Pub : \/ Rest(total, q) > Rest(total, p)
                                \/ Rest(total, q) = Rest(total, p) /\ q < p}

ScaleChanges(total) ==
    LET left == total - SumFunction([p \in Pub |-> Quota(total, p)])
        Cents(p) == IF Cardinality(Ahead(total, p)) < left THEN 1 ELSE 0
    IN  [p \in Pub |-> [old |-> approved[p], new |-> Quota(total, p) + Cents(p)]]

Decision(kind, changes) ==
    [kind |-> kind, basis |-> basis, changes |-> changes, status |-> "pending",
     loser |-> PolicyLoser(basis.rates), winner |-> PolicyWinner(basis.rates)]

\* Mutant: a tie has a loser and a winner.
ConclusiveAlways == TRUE

\* The rates are not all equal.
Conclusive == \E p, q \in Pub : basis.rates[p] # basis.rates[q]

\* A decision to act becomes the campaign's open action, if it has none.
Evaluate ==
    /\ Fresh(basis) /\ basis.healthy /\ ~Cooling /\ Conclusive
    /\ action = NoAction
    /\ action' = CASE Reallocation(basis.rates) # <<>> ->
                        Decision("reallocate", Reallocation(basis.rates))
                   [] Reallocation(basis.rates) = <<>> /\ sourced -> Decision("replace", <<>>)
                   [] OTHER -> IF Proposed <= Total(approved) THEN NoAction
                               ELSE Decision("scale", ScaleChanges(Proposed))
    /\ UNCHANGED <<now, campaignVars, live, basis, history, last, edits>>

-----------------------------------------------------------------------------
(* execute_claim: _aggregate_publication, _policy_reason, the live budgets, *)
(* the writes.                                                              *)

\* frozen_basis and snapshot_id are computed again.  A scale and a reallocation
\* bring the frozen basis along; a replacement is compared with the stored one,
\* which has none of the campaign's totals.  The id covers the variants in the
\* order of the ids as numbers at the decision and as text in the evidence, and
\* a source that only the evidence of a replacement repeats.
SameBasis(d) == d.kind # "replace"
SameVariants(d) == \A p, q \in Pub : p < q => rank[p] < rank[q]
SameSource(d) == sourced => d.kind = "replace"

IncreaseCap(d) ==
    LET opening == Opening(Window, Total(approved))
    IN  \/ New(d.changes) - Total(approved) > Permitted(opening) - Increased(Window)
        \/ New(d.changes) > opening + Permitted(opening)

Refused(d) ==
    \/ ~SameBasis(d) \/ ~SameVariants(d) \/ ~SameSource(d)
    \/ ~Fresh(d.basis)
    \/ Cooling
    \/ New(d.changes) > Ceiling
    \/ d.kind = "scale" /\ IncreaseCap(d)

\* Mutant: the live budgets are not compared.
DriftedNever(d) == FALSE

Drifted(d) == \E p \in DOMAIN d.changes : live[p] # d.changes[p].old

Cancel(why) == action' = NoAction /\ last' = why /\ UNCHANGED <<live, history>>

Execute ==
    /\ action # NoAction
    /\ \/ Refused(action) /\ Cancel("cancelled")
       \/ ~Refused(action) /\ Drifted(action) /\ action.kind = "scale" /\ Cancel("drifted")
       \/ \* reallocation_live_state_changed is raised as an error
          /\ ~Refused(action) /\ Drifted(action) /\ action.kind = "reallocate"
          /\ action' = [action EXCEPT !.status = "blocked"] /\ last' = "blocked"
          /\ UNCHANGED <<live, history>>
       \/ /\ ~Refused(action) /\ ~Drifted(action)
          /\ live' = [p \in Pub |-> IF p \in DOMAIN action.changes THEN action.changes[p].new
                                    ELSE live[p]]
          /\ history' = Append(history, [kind |-> action.kind, at |-> now,
                                         old |-> Old(action.changes), new |-> New(action.changes)])
          /\ action' = NoAction /\ last' = "succeeded"
    /\ UNCHANGED <<now, campaignVars, basis, edits>>

Next == Tick \/ Collect \/ FounderEdits \/ Evaluate \/ Execute

Spec == Init /\ [][Next]_vars

-----------------------------------------------------------------------------

\* The design: changes are a cooldown apart, increases of any rolling day stay
\* within 20% of the budget it began with, and there is one at most, although
\* the founder may have put the budgets back in between.
IncreasesBounded ==
    \A n \in DOMAIN history :
        /\ \A m \in 1 .. n - 1 : history[n].at - history[m].at >= Cooldown
        /\ LET day == {m \in 1 .. n : history[m].at > history[n].at - Day}
           IN  /\ Increased(day) <= Permitted(history[Min(day)].old)
               /\ \A m, k \in day : history[m].kind = "scale" /\ history[k].kind = "scale" => m = k

\* A scale hands out the new total to the cent, lowers nobody and keeps every
\* ad set within a cent of its share.
ScaleIsProportional ==
    action.kind = "scale" =>
        LET total == New(action.changes)
        IN  /\ Old(action.changes) = Total(approved) /\ total > Total(approved) /\ total <= Ceiling
            /\ \A p \in DOMAIN action.changes :
                  LET old == action.changes[p].old
                      new == action.changes[p].new
                  IN  /\ new >= old
                      /\ new * Total(approved) - old * total < Total(approved)
                      /\ old * total - new * Total(approved) < Total(approved)

\* _allocation and evaluate_campaign order the publications each in its own
\* way: still the money goes to the better one, and none is made or lost.
MoneyFollowsEvidence ==
    action.kind = "reallocate" =>
        /\ Old(action.changes) = New(action.changes)
        /\ \A p, q \in DOMAIN action.changes :
              /\ action.changes[p].new > action.changes[p].old
              /\ action.changes[q].new < action.changes[q].old
              => action.basis.rates[p] > action.basis.rates[q]

\* The two readings of the limits agree: the executor refuses a scale for its
\* age or for a change since, never for the increase that the policy computed.
ScaleSurvivesRecheck == action.kind = "scale" => ~IncreaseCap(action)

\* The ledger explains what Meta shows: no increase is recorded twice, or
\* written and not recorded, although approved still has the first budgets.
LedgerExplainsLive ==
    edits = 0 => Total(live) = Total(approved) + Increased(DOMAIN history)

\* The design: "Jarvis can autonomously stop a proven weak ad and activate a
\* controlled replacement".  A replacement that is executed on the evidence it
\* was decided on is never allowed.
ReplacementAllowed ==
    [][action.kind = "replace" /\ SameVariants(action) /\ action' = NoAction =>
         ~Fresh(action.basis) \/ Cooling]_vars

\* The design: "can reallocate spend and scale a proven winner".  approved
\* keeps the budget of the publication, so after one change the agent takes its
\* own new budget for a change from outside.
OwnChangeIsKnown == last \in {"drifted", "blocked"} => edits > 0

\* The design: "Every mutation is attributable to frozen evidence".  With a tie
\* the evidence names other publications than the budgets that move.
EvidenceNamesLoser ==
    action.kind = "reallocate" =>
        \A p \in DOMAIN action.changes :
            action.changes[p].new < action.changes[p].old => p = action.loser

=============================================================================
