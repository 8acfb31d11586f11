------------------------------ MODULE Executor ------------------------------
(***************************************************************************)
(* What becomes of one fill or one unwind (src/executor.rs): the mode      *)
(* guard, the simulation that judges it, the audit row, the submission and *)
(* the settlement of its reservation.                                      *)
(*                                                                         *)
(* The submission queue is its promise here: it answers Succeeded, Failed, *)
(* Expired and every error truly, and Unknown only while shutting down     *)
(* (SubmissionQueue, AnswersAreTrue and QuietAfterUnknown).  A submission  *)
(* that nobody waits for any more, because its answer was Unknown or the   *)
(* process ended, may land later all the same: a ghost.                    *)
(***************************************************************************)
EXTENDS Inventory

CONSTANTS
    Pools,      \* the configured pools, in order: a sequence
    Borrowers,  \* the accounts whose auctions are followed
    NoOne       \* the borrower of an unwind

VARIABLES
    mode,   \* how the process is configured
    job,    \* the submission being waited for, NoJob without one
    ghosts  \* submissions of this bot that may still land

execution == <<mode, job, ghosts>>

(***************************************************************************)
(* "keyless" is a dry run without a filler key; an armed bot without one   *)
(* does not start (Args::signing_keys).                                    *)
(***************************************************************************)
Modes == {"armed", "dry", "keyless"}
HasKey == mode # "keyless"
DryRun == mode # "armed"

PoolSet == {Pools[i] : i \in DOMAIN Pools}

\* fate: where the submission stands on chain, and since which ledger.
NoJob == [kind |-> "none"]
Job == [kind : {"fill", "unwind"}, pool : PoolSet, who : Borrowers \cup {NoOne},
        percent : Nat, spend : Amounts, view : Nat,
        fate : {"floating", "landed", "failed"}, at : Nat]

Busy == job.kind # "none"

ExecutorTypeOK ==
    /\ InventoryTypeOK
    /\ mode \in Modes
    /\ job \in Job \cup {NoJob}
    /\ ghosts \subseteq Job

----------------------------------------------------------------------------
\* Executor::guard, judge_operation and refusal: what comes of an operation
\* before it is sent.  Nothing judges an operation without a key, and
\* archived entries hold back only what will not be sent.
JudgeOutcomes ==
    IF HasKey THEN {"Accepted", "Refused", "Replan", "Error"}
                   \cup (IF DryRun THEN {} ELSE {"NeedsRestore"})
    ELSE {"Unsimulated"}

\* The judgments that let an operation go on to be recorded.
Passes(judged) == judged \in {"Accepted", "NeedsRestore", "Unsimulated"}

\* enqueue: the operation is handed to the filler key's queue.
Send(kind, pool, who, percent, spend, view) ==
    job' = [kind |-> kind, pool |-> pool, who |-> who, percent |-> percent,
            spend |-> spend, view |-> view, fate |-> "floating", at |-> 0]

\* The queue's answers that are true of the submission waited for.
QueueAnswers(shutdown) ==
    CASE job.fate = "landed" -> {"Succeeded"} \cup {u \in {"Unknown"} : shutdown}
      [] job.fate = "failed" -> {"Failed"} \cup {u \in {"Unknown"} : shutdown}
      [] OTHER -> {"Expired", "Stale", "Refused", "Replan", "Dropped"}
                  \cup {u \in {"Unknown"} : shutdown}

\* enqueue's second half: what the answer does to the reservation.
settle_of(answer) ==
    IF answer \in {"Succeeded", "Unknown"} THEN "Consume" ELSE "Release"

\* settle, on every path out of execute and unwind; a submission that may
\* still land is not forgotten by the chain.
Settled(answer) ==
    /\ \/ settle_of(answer) = "Consume" /\ consume
       \/ settle_of(answer) = "Release" /\ release
    /\ job' = NoJob
    /\ ghosts' = ghosts \cup {j \in {job} : answer = "Unknown" /\ j.fate = "floating"}
    /\ UNCHANGED mode
============================================================================
