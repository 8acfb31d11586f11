------------------------------ MODULE Creation ------------------------------
(***************************************************************************)
(* Auctioneer::act (src/auctioneer.rs) for one borrower: the contract is    *)
(* asked to judge the operation, the percent is walked to one it accepts,   *)
(* the creation is recorded, and only then handed to the submission queue,  *)
(* whose transaction is attached to the row afterwards.  The process may    *)
(* end at any step, and a transaction may land long after its answer.       *)
(*                                                                         *)
(* The contract accepts a percent within a band; when the band moves, or an *)
(* auction is opened by somebody, the next simulation sees it.  Adopting an *)
(* auction in progress is AuctionBook's subject, what becomes of the        *)
(* borrower's flag RecheckQueue's.                                          *)
(***************************************************************************)
EXTENDS Naturals, Sequences

CONSTANTS
    FullPercent,     \* 100: the largest FillPercent
    PlanIterations,  \* PLAN_ITERATIONS
    MaxCreations,    \* bound: rows of the creations table
    MaxMoves         \* bound: changes of the chain that are not this bot's

ASSUME CreationAssumption ==
    /\ FullPercent \in Nat \ {0}
    /\ PlanIterations \in Nat
    /\ MaxCreations \in Nat
    /\ MaxMoves \in Nat

VARIABLES
    keyed,      \* whether an auctioneer key is configured
    dry,        \* DRY_RUN
    band,       \* the percents the contract accepts
    inProgress, \* whether the chain holds an auction of the borrower
    moves,      \* how often the chain changed otherwise
    step,       \* where act is
    kind,       \* what it decided to create
    planned,    \* the plan's percent
    percent,    \* the percent the walk is at
    tries,      \* simulations the walk has made
    asked,      \* whether the contract accepted it: CreationOutcome::simulated
    creations,  \* store: the creations table
    sent,       \* the transactions, by the row they were sent for
    fate,       \* what became of each: pending, applied or dead
    steady      \* history: the chain has not changed since the decision

plan == <<kind, planned, percent, tries, asked>>
creationVars == <<keyed, dry, band, inProgress, moves, step, kind, planned, percent, tries, asked,
                  creations, sent, fate, steady>>

Percents == 1..FullPercent
\* The contract's band may hold no whole percent at all.
Bands == [lo : Percents, hi : Percents]
InBand(p) == band.lo <= p /\ p <= band.hi
NoPercent == 0
NoTx == 0

CreationInit ==
    /\ keyed \in BOOLEAN /\ dry \in BOOLEAN
    /\ band \in Bands
    /\ inProgress = FALSE
    /\ moves = 0
    /\ step = "idle"
    /\ kind = "auction"
    /\ planned = NoPercent /\ percent = NoPercent
    /\ tries = 0
    /\ asked = FALSE
    /\ creations = << >>
    /\ sent = << >> /\ fate = << >>
    /\ steady = TRUE

----------------------------------------------------------------------------
(* The chain.                                                              *)

\* Prices move the band, or somebody opens or closes the auction.
ChainMoves ==
    /\ moves < MaxMoves
    /\ moves' = moves + 1
    /\ \/ band' \in Bands \ {band} /\ UNCHANGED inProgress
       \/ inProgress' = ~inProgress /\ UNCHANGED band
    /\ steady' = FALSE
    /\ UNCHANGED <<keyed, dry, step, plan, creations, sent, fate>>

\* A transaction that was sent lands, or is found never to.
Settles(t) ==
    /\ fate[t] = "pending"
    /\ \/ /\ fate' = [fate EXCEPT ![t] = "applied"]
          /\ inProgress' = (inProgress \/ sent[t].kind = "auction")
          /\ ~(inProgress /\ sent[t].kind = "auction")
       \/ /\ fate' = [fate EXCEPT ![t] = "dead"]
          /\ UNCHANGED inProgress
    /\ steady' = FALSE
    /\ UNCHANGED <<keyed, dry, band, moves, step, plan, creations, sent>>

----------------------------------------------------------------------------
(* act.                                                                    *)

Ended == step' = "idle"

\* The decision: a skip acts on nothing, the rest is judged.
Act ==
    /\ step \in {"idle", "gave_up"}
    /\ Len(creations) < MaxCreations
    /\ \/ kind' = "bad_debt" /\ planned' = NoPercent
       \/ kind' = "auction" /\ planned' \in Percents
    /\ percent' = planned'
    /\ tries' = 0
    /\ asked' = FALSE
    /\ step' = "judge"
    /\ steady' = TRUE
    /\ UNCHANGED <<keyed, dry, band, inProgress, moves, creations, sent, fate>>

\* accept_bad_debt and accept_percent without a key: nobody to ask as.
AcceptUnsimulated ==
    /\ step = "judge" /\ ~keyed
    /\ step' = "record"
    /\ UNCHANGED <<keyed, dry, band, inProgress, moves, plan, creations, sent, fate, steady>>

\* accept_bad_debt: one simulation, with no percent to walk; refused, a
\* restore, or a failed call ends it.
AcceptBadDebt ==
    /\ step = "judge" /\ keyed /\ kind = "bad_debt"
    /\ \/ step' = "record" /\ asked' = TRUE
       \/ Ended /\ UNCHANGED asked
    /\ UNCHANGED <<keyed, dry, band, inProgress, moves, kind, planned, percent, tries,
                   creations, sent, fate, steady>>

\* Faulty variant: the walk turns the wrong way.
Adjusted_Away(p) ==
    {q \in {p - 1} : p < band.lo} \cup {q \in {p + 1} : p > band.hi}

\* What InvalidLiqTooSmall, and InvalidLiqTooLarge, make of a percent.
Adjusted(p) ==
    {q \in {p + 1} : p < band.lo} \cup {q \in {p - 1} : p > band.hi}

\* One turn of accept_percent's loop.
WalkPercent ==
    /\ step = "judge" /\ keyed /\ kind = "auction"
    /\ tries < PlanIterations
    /\ ~inProgress
    /\ tries' = tries + 1
    /\ \/ /\ InBand(percent)
          /\ step' = "record" /\ asked' = TRUE
          /\ UNCHANGED percent
       \/ /\ \E next \in Adjusted(percent) :
                \/ next \in Percents /\ percent' = next /\ UNCHANGED step
                \/ next \notin Percents /\ step' = "gave_up" /\ UNCHANGED percent
          /\ UNCHANGED asked
    /\ UNCHANGED <<keyed, dry, band, inProgress, moves, kind, planned,
                   creations, sent, fate, steady>>

\* AuctionInProgress, another contract error, a restore or a failed call:
\* none of them says anything of the percent.
WalkRefused ==
    /\ step = "judge" /\ keyed /\ kind = "auction"
    /\ tries < PlanIterations
    /\ Ended
    /\ UNCHANGED <<keyed, dry, band, inProgress, moves, plan, creations, sent, fate, steady>>

WalkExhausted ==
    /\ step = "judge" /\ keyed /\ kind = "auction"
    /\ tries = PlanIterations
    /\ step' = "gave_up"
    /\ UNCHANGED <<keyed, dry, band, inProgress, moves, plan, creations, sent, fate, steady>>

\* Faulty variant: the plan's percent is written, not the accepted one.
record_creation_Planned ==
    Append(creations, [kind |-> kind, percent |-> planned, dry_run |-> dry,
                       simulated |-> asked, tx |-> NoTx])

record_creation ==
    Append(creations, [kind |-> kind, percent |-> percent, dry_run |-> dry,
                       simulated |-> asked, tx |-> NoTx])

\* The row comes first.  A queue is there only for an armed bot with a key
\* whose startup delay is over; without one the row is all.
Record ==
    /\ step = "record"
    /\ creations' = record_creation
    /\ \/ keyed /\ ~dry /\ step' = "submit"
       \/ Ended
    /\ UNCHANGED <<keyed, dry, band, inProgress, moves, plan, sent, fate, steady>>

\* submit_recorded enqueues; the queue sends, or fails before it does.
Enqueue ==
    /\ step = "submit"
    /\ \/ /\ sent' = Append(sent, [creation |-> Len(creations), kind |-> kind, percent |-> percent])
          /\ fate' = Append(fate, "pending")
          /\ step' = "wait"
       \/ Ended /\ UNCHANGED <<sent, fate>>
    /\ UNCHANGED <<keyed, dry, band, inProgress, moves, plan, creations, steady>>

\* The queue answers with an outcome, Unknown when the transaction is still
\* pending; or the worker is gone and the caller learns nothing.
Answered ==
    /\ step = "wait"
    /\ step' \in {"attach", "idle"}
    /\ UNCHANGED <<keyed, dry, band, inProgress, moves, plan, creations, sent, fate, steady>>

\* UPDATE creations ... WHERE id = $1 AND tx_hash IS NULL.
attach_creation_tx(id, tx) ==
    [creations EXCEPT ![id].tx = IF @ = NoTx THEN tx ELSE @]

\* Whatever the outcome, its hash is attached; a failed write is the store's.
Attach ==
    /\ step = "attach"
    /\ creations' \in {creations, attach_creation_tx(Len(creations), Len(sent))}
    /\ Ended
    /\ UNCHANGED <<keyed, dry, band, inProgress, moves, plan, sent, fate, steady>>

\* The process ends; what it sent may still land.
CreationRestart ==
    /\ step \notin {"idle", "gave_up"}
    /\ Ended
    /\ UNCHANGED <<keyed, dry, band, inProgress, moves, plan, creations, sent, fate, steady>>

CreationNext ==
    \/ ChainMoves \/ \E t \in DOMAIN sent : Settles(t)
    \/ Act \/ AcceptUnsimulated \/ AcceptBadDebt
    \/ WalkPercent \/ WalkRefused \/ WalkExhausted
    \/ Record \/ Enqueue \/ Answered \/ Attach
    \/ CreationRestart

CreationSpec == CreationInit /\ [][CreationNext]_creationVars

----------------------------------------------------------------------------
(* Properties.                                                             *)

\* Whatever reached the chain is in the audit: every transaction has a row
\* of an armed bot, written before it, that says what it does, and a row
\* names no transaction but its own; also when the process ended between the
\* two writes (auctioneer.rs, act and submit_recorded).
AuditedFirst ==
    /\ \A t \in DOMAIN sent :
          /\ sent[t].creation \in DOMAIN creations
          /\ LET c == creations[sent[t].creation]
             IN  /\ ~c.dry_run /\ c.simulated
                 /\ c.kind = sent[t].kind /\ c.percent = sent[t].percent
    /\ \A c \in DOMAIN creations :
          creations[c].tx # NoTx => sent[creations[c].tx].creation = c

\* How far the plan's percent is from the band.
Misses == IF planned < band.lo THEN band.lo - planned
          ELSE IF planned > band.hi THEN planned - band.hi ELSE 0

\* The percent walk gives up only on a percent too far off: while the chain
\* stands still and the band is not empty, the walk ends in the band unless
\* that takes more simulations than PLAN_ITERATIONS, and it never leaves
\* 1..100 on the way (auctioneer.rs, accept_percent).
WalkReachesBand ==
    step = "gave_up" /\ steady /\ ~inProgress /\ band.lo <= band.hi => Misses >= PlanIterations

=============================================================================
