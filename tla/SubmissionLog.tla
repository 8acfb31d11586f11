--------------------------- MODULE SubmissionLog ---------------------------
(***************************************************************************)
(* What the submission queue of one key promises its callers (the module   *)
(* documentation of src/queue.rs), with no network in sight: submissions   *)
(* are worked on one at a time and in order, only the one worked on can    *)
(* come to land, each lands at most once, and the answer that ends it      *)
(* agrees with what landed.  The one exception is the way out: while the   *)
(* queue is closing, a submission may be answered "Unknown" and land       *)
(* behind its answer, and nothing is begun any more.                       *)
(***************************************************************************)
EXTENDS Naturals, Sequences

CONSTANTS
    Subs,      \* the submissions
    NoSub,     \* none is worked on
    Failures   \* the answers that say the operation never lands

VARIABLES
    queue,     \* the submissions waiting, in order
    active,    \* the one worked on
    landed,    \* what is in the ledger: which submission, with what result
    answer,    \* what each caller was told, "none" before
    closing    \* shutdown has been asked for

vars == <<queue, active, landed, answer, closing>>

Init ==
    /\ queue = <<>>
    /\ active = NoSub
    /\ landed = {}
    /\ answer = [s \in Subs |-> "none"]
    /\ closing = FALSE

Submit(s) ==
    /\ answer[s] = "none"
    /\ s # active
    /\ \A i \in 1..Len(queue) : queue[i] # s
    /\ queue' = Append(queue, s)
    /\ UNCHANGED <<active, landed, answer, closing>>

Start ==
    /\ ~closing
    /\ active = NoSub
    /\ queue # <<>>
    /\ active' = Head(queue)
    /\ queue' = Tail(queue)
    /\ UNCHANGED <<landed, answer, closing>>

Land(s, ok) ==
    /\ s = active \/ answer[s] = "Unknown"
    /\ \A l \in landed : l.sub # s
    /\ landed' = landed \cup {[sub |-> s, ok |-> ok]}
    /\ UNCHANGED <<queue, active, answer, closing>>

\* What may be said of the submission worked on.
Truth(outcome) ==
    \/ outcome = "Succeeded" /\ [sub |-> active, ok |-> TRUE] \in landed
    \/ outcome = "Failed" /\ [sub |-> active, ok |-> FALSE] \in landed
    \/ outcome = "Unknown" /\ closing
    \/ outcome \in Failures /\ \A l \in landed : l.sub # active

Finish(outcome) ==
    /\ active \in Subs
    /\ Truth(outcome)
    /\ answer' = [answer EXCEPT ![active] = outcome]
    /\ active' = NoSub
    /\ UNCHANGED <<queue, landed, closing>>

Refuse ==
    /\ closing
    /\ active = NoSub
    /\ queue # <<>>
    /\ answer' = [answer EXCEPT ![Head(queue)] = "ShuttingDown"]
    /\ queue' = Tail(queue)
    /\ UNCHANGED <<active, landed, closing>>

Close ==
    /\ ~closing
    /\ closing' = TRUE
    /\ UNCHANGED <<queue, active, landed, answer>>

Next ==
    \/ \E s \in Subs : Submit(s)
    \/ Start
    \/ \E s \in Subs, ok \in BOOLEAN : Land(s, ok)
    \/ \E outcome \in Failures \cup {"Succeeded", "Failed", "Unknown"} :
          Finish(outcome)
    \/ Refuse
    \/ Close

Spec == Init /\ [][Next]_vars
============================================================================
