----------------------------- MODULE MCProgress -----------------------------
(***************************************************************************)
(* What must happen in the end to the book of auctions and to the calls of  *)
(* the submission queue, each on an instance of its own: a behaviour belongs *)
(* to one of them, its scope.  The other has nothing left to do, so that its *)
(* fairness asks nothing of it: a book with every ledger applied, or a queue *)
(* nobody has called.                                                       *)
(***************************************************************************)
EXTENDS AuctionBook

CONSTANTS Subs, NoSub

VARIABLES
    scope,
    stage, channel, reply, halt, pc, sub, budget, seq, tx, closed, acctSeq, sent, landed, foreign, order

queue == <<stage, channel, reply, halt, pc, sub, budget, seq, tx, closed, acctSeq, sent, landed,
           foreign, order>>

Q == INSTANCE SubmissionQueue WITH
    Capacity <- 1, Retries <- 1, PollLedgers <- 1, Retention <- 100, IdleLedgers <- 1, MaxForeign <- 0,
    answer <- reply, shutdown <- halt, left <- budget, head <- closed, applied <- landed

BookOver ==
    /\ head = MaxLedger /\ served = MaxLedger /\ cursor = MaxLedger /\ applied = MaxLedger
    /\ entry = [l \in 1..MaxLedger |-> None]
    /\ event = [l \in 1..MaxLedger |-> "none"]
    /\ hurt = FALSE /\ row = None /\ tracked = TRUE
    /\ apc = "idle" /\ found = None /\ fpc = "idle"
    /\ faults = MaxFaults

MCInit ==
    /\ scope \in {"book", "queue"}
    /\ IF scope = "book" THEN Init ELSE BookOver
    /\ Q!Init

InBook == scope = "book" /\ Next /\ UNCHANGED <<scope, queue>>
InQueue == scope = "queue" /\ Q!Next /\ UNCHANGED <<scope, vars>>

MCSpec ==
    /\ MCInit
    /\ [][InBook \/ InQueue]_<<scope, vars, queue>>
    /\ Fairness /\ Q!WorkerFairness

----------------------------------------------------------------------------
\* Every call is answered, even with the channel full or the chain failing,
\* as long as ledgers close and the RPC sometimes answers (queue.rs, enqueue
\* and run_queue_with).
EveryCallAnswered == Q!EveryCallAnswered

\* Once shutdown is requested every call is released, whether or not the
\* chain moves and whatever the RPC answers (queue.rs, run_queue_with and
\* pause_unless_shutdown).
ShutdownReleases == Q!ShutdownReleases
=============================================================================
