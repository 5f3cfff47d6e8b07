---------------------------- MODULE DraftLineage ----------------------------
(***************************************************************************)
(* What the revision service promises the founder of one approval thread:  *)
(* a numbered line of variants of which only the newest can be decided,    *)
(* each made from a fresh, nonempty set of replies, and no variant after   *)
(* the decision.  How the replies reach a worker is not visible here.      *)
(***************************************************************************)
EXTENDS Integers

CONSTANT Feedback

VARIABLES
    revision,   \* number of the newest draft
    verdict,    \* what became of it
    consumed    \* replies that some variant was made from

vars == <<revision, verdict, consumed>>

Init ==
    /\ revision = 0
    /\ verdict = "queued"
    /\ consumed = {}

\* A new variant replaces the open draft.
Revise(B) ==
    /\ verdict = "queued"
    /\ B # {}
    /\ B \cap consumed = {}
    /\ revision' = revision + 1
    /\ consumed' = consumed \cup B
    /\ UNCHANGED verdict

Decide ==
    /\ verdict = "queued"
    /\ verdict' \in {"approved", "rejected"}
    /\ UNCHANGED <<revision, consumed>>

Publish ==
    /\ verdict = "approved"
    /\ verdict' = "published"
    /\ UNCHANGED <<revision, consumed>>

Next == (\E B \in SUBSET Feedback : Revise(B)) \/ Decide \/ Publish

Spec == Init /\ [][Next]_vars

=============================================================================
