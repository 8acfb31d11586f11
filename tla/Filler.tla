------------------------------- MODULE Filler -------------------------------
(***************************************************************************)
(* The filler task (src/filler.rs) over its executor and its wallet: one   *)
(* tick walks the pools, plans and executes the fills of their auctions,   *)
(* and then unwinds, pool by pool, the positions that fills left behind.   *)
(*                                                                         *)
(* Beside it run the chain, whose RPC may answer from the ledger before    *)
(* the newest; the tracker, which writes the auction rows; a shutdown; and *)
(* the end of the process, after which another one starts on its store.    *)
(*                                                                         *)
(* What the planners answer is open here: any fill within the percent it   *)
(* was asked for, any spend, or none.  A version of an auction is its      *)
(* start ledger and how often it was partly filled.  A position is what the *)
(* unwind planner makes of it, at unchanged prices and rates: nothing held; *)
(* something to withdraw, whatever the wallet holds; debt that holds the    *)
(* collateral back, and moves only as far as the wallet repays it; or       *)
(* nothing to move and nothing owed.                                        *)
(***************************************************************************)
EXTENDS Executor, Sequences, FiniteSets

CONSTANTS
    PoolOf,         \* the pool each borrower's auctions are in
    AssetsOf,       \* the assets each pool names
    Wallet,         \* what the wallet holds at first
    Spends,         \* what a fill or an unwind may spend
    Whole,          \* WHOLE_AUCTION
    BackoffMax,     \* UNWIND_BACKOFF_MAX_LEDGERS
    AlertAt,        \* UNWIND_SETBACK_ALERT
    ModesChecked,   \* the modes the process may be started in
    HeldAtFirst,    \* the positions the filler may hold at first
    MaxLedger,      \* bound: ledgers the chain closes
    MaxFaults       \* bound: shutdowns requested and restarts, together

Positions == {"none", "move", "debt", "kept"}

ASSUME FillerAssumption ==
    /\ Pools \in Seq(PoolSet)
    /\ PoolOf \in [Borrowers -> PoolSet]
    /\ AssetsOf \in [PoolSet -> SUBSET Assets]
    /\ Wallet \in Amounts
    /\ Spends \subseteq Amounts
    /\ Whole \in Nat \ {0}
    /\ BackoffMax \in Nat \ {0}
    /\ AlertAt \in Nat \ {0}
    /\ ModesChecked \subseteq Modes
    /\ HeldAtFirst \subseteq Positions
    /\ MaxLedger \in Nat \ {0}
    /\ MaxFaults \in Nat
    /\ NoOne \notin Borrowers

Version == [start : 0..MaxLedger, part : 0..MaxLedger]
NoAuction == [start |-> 0, part |-> 0]
Newer(v, w) == v.start > w.start \/ (v.start = w.start /\ v.part > w.part)

Chain == [auction : [Borrowers -> Version], pos : [PoolSet -> Positions],
          wallet : Amounts]

NoMark == 0
Unseen == -1

VARIABLES
    head,         \* the last closed ledger
    now,          \* the chain's entries as of head
    prev,         \* and as of the ledger before it
    row,          \* store: each borrower's auction row
    tick,         \* the tick being worked on, or done last
    execute,      \* StartupGate::observe, of that tick
    recorded,     \* FillerState::recorded_dry_run
    stale,        \* FillerState::inventory_stale
    known,        \* FillerState::known_assets, by pool
    covered,      \* FillerState::covered_assets, by pool
    pending,      \* FillerState::unwind_pending
    seeded,       \* FillerState::unwind_seeded
    leftovers,    \* FillerState::leftovers_notified
    setback,      \* FillerState::unwind_setbacks
    after,        \* FillerState::unwind_after
    fpc,          \* where the tick is
    idx,          \* the pool it is at
    live,         \* auctions the chain was seen to hold
    view,         \* the ledger of the pool's snapshot
    taken,        \* history: the chain's last ledger when it was read
    cur,          \* the auction being planned again, NoOne at first
    cap,          \* the percent it may be planned up to
    shutdown,     \* the shutdown flag
    faults,       \* how many of these happened
    lastRead,     \* history: the balances last read
    exposed,      \* history: sent since then, and landed or able to land
    moved,        \* history: the ledger of the last landing in each pool
    adrift,       \* history: pools an earlier process left unseen moves in
    dryRows,      \* history: dry-run fills recorded of open auctions
    twice,        \* history: a dry-run fill recorded twice
    alerts,       \* history: setback alerts in the open run of setbacks
    notices,      \* history: leftover notices since the pool was clean
    unheard       \* history: pools whose leftover notice was dropped

chain == <<head, now, prev>>
wallet == <<stale, known, covered>>
unwinds == <<pending, seeded, leftovers, setback, after>>
walk == <<idx, live, view, taken, cur, cap>>
process == <<shutdown, faults>>
spending == <<lastRead, exposed>>
landings == <<moved, adrift>>
audit == <<dryRows, twice>>
told == <<alerts, notices, unheard>>
vars == <<inventory, execution, head, now, prev, row, tick, execute, recorded,
          stale, known, covered, pending, seeded, leftovers, setback, after,
          fpc, idx, live, view, taken, cur, cap, shutdown, faults, lastRead,
          exposed, moved, adrift, dryRows, twice, alerts, notices, unheard>>

Entry == [who : Borrowers, ver : Version]
NoSetback == [count |-> 0, retryAt |-> 0]

TypeOK ==
    /\ ExecutorTypeOK
    /\ head \in 1..MaxLedger
    /\ now \in Chain /\ prev \in Chain
    /\ row \in [Borrowers -> Version]
    /\ tick \in 0..head /\ execute \in BOOLEAN
    /\ recorded \subseteq Entry
    /\ stale \in BOOLEAN /\ known \subseteq PoolSet /\ covered \subseteq known
    /\ pending \subseteq PoolSet /\ seeded \in BOOLEAN /\ leftovers \subseteq PoolSet
    /\ setback \in [PoolSet -> [count : Nat, retryAt : Int]]
    /\ after \in [PoolSet -> -1..head]
    /\ fpc \in {"idle", "pool", "snapshot", "auctions", "fill",
                "unwind", "unwindPlan", "unwinding", "dead"}
    /\ idx \in 1..(Len(Pools) + 1)
    /\ live \subseteq Entry
    /\ view \in 0..head /\ taken \in 0..head /\ cur \in Borrowers \cup {NoOne} /\ cap \in 1..Whole
    /\ shutdown \in BOOLEAN /\ faults \in 0..MaxFaults
    /\ lastRead \in Amounts /\ exposed \in Amounts
    /\ moved \in [PoolSet -> 0..head] /\ adrift \subseteq PoolSet
    /\ dryRows \subseteq Entry /\ twice \in BOOLEAN
    /\ alerts \in [PoolSet -> Nat] /\ notices \in [PoolSet -> Nat]
    /\ unheard \subseteq PoolSet

\* The memory a process starts with.
FreshState ==
    [setback |-> [p \in PoolSet |-> NoSetback],
     after |-> [p \in PoolSet |-> NoMark], none |-> [p \in PoolSet |-> 0]]

\* The bot meets the pools as they are, its rows up to date.
Init ==
    /\ InventoryInit
    /\ mode \in ModesChecked
    /\ job = NoJob
    /\ ghosts = {}
    /\ head = 1
    /\ \E held \in [PoolSet -> HeldAtFirst],
          open \in [Borrowers -> {NoAuction, [start |-> 1, part |-> 0]}] :
          now = [auction |-> open, pos |-> held, wallet |-> Wallet]
    /\ prev = now
    /\ row = now.auction
    /\ tick = 0 /\ execute = FALSE
    /\ recorded = {}
    /\ stale = FALSE /\ known = {} /\ covered = {}
    /\ pending = {} /\ seeded = FALSE /\ leftovers = {}
    /\ setback = FreshState.setback
    /\ after = FreshState.after
    /\ fpc = "idle" /\ idx = 1
    /\ live = {} /\ view = 0 /\ taken = 0 /\ cur = NoOne /\ cap = Whole
    /\ shutdown = FALSE /\ faults = 0
    /\ lastRead = Nothing /\ exposed = Nothing
    /\ moved = FreshState.none /\ adrift = {}
    /\ dryRows = {} /\ twice = FALSE
    /\ alerts = FreshState.none /\ notices = FreshState.none /\ unheard = {}

----------------------------------------------------------------------------
(* The chain.                                                              *)

\* What an RPC node may answer from: the newest ledger, or the one before.
Views == {[at |-> head, chain |-> now]}
         \cup {v \in {[at |-> head - 1, chain |-> prev]} : head > 1}

\* A submission lands: it spends, a fill takes its share of the auction and
\* leaves a position, an unwind changes one.
Lands(j) ==
    /\ \A a \in Assets : j.spend[a] <= now.wallet[a]
    /\ j.kind = "fill" => now.auction[j.who] # NoAuction
    /\ \E held \in Positions :
          /\ j.kind = "fill" => held # "none"
          /\ now' = [auction |-> [b \in Borrowers |->
                                    IF b # j.who THEN now.auction[b]
                                    ELSE IF j.percent >= Whole THEN NoAuction
                                    ELSE [now.auction[b] EXCEPT !.part = @ + 1]],
                     pos |-> [now.pos EXCEPT ![j.pool] = held],
                     wallet |-> [a \in Assets |-> now.wallet[a] - j.spend[a]]]

\* The auctions others open, fill or delete.
OthersAct(b) ==
    \E v \in {NoAuction, [start |-> head + 1, part |-> 0],
              [now.auction[b] EXCEPT !.part = @ + 1]} :
        /\ (v.start = head + 1) => now.auction[b] = NoAuction
        /\ (v.start # head + 1) => now.auction[b] # NoAuction
        /\ now' = [now EXCEPT !.auction[b] = v]

\* A ledger closes on the submission waited for, on one nobody waits for, on
\* what others did, or on nothing.
CloseLedger ==
    /\ head < MaxLedger
    /\ head' = head + 1
    /\ prev' = now
    /\ \/ /\ Busy /\ job.fate = "floating"
          /\ \/ /\ Lands(job)
                /\ job' = [job EXCEPT !.fate = "landed", !.at = head + 1]
             \/ /\ job' = [job EXCEPT !.fate = "failed", !.at = head + 1]
                /\ UNCHANGED now
          /\ UNCHANGED <<ghosts, moved>>
       \/ \E g \in ghosts :
             /\ Lands(g)
             /\ ghosts' = ghosts \ {g}
             /\ moved' = [moved EXCEPT ![g.pool] = head + 1]
             /\ UNCHANGED job
       \/ /\ (\E b \in Borrowers : OthersAct(b)) \/ UNCHANGED now
          /\ UNCHANGED <<job, ghosts, moved>>
    /\ UNCHANGED <<inventory, mode, row, tick, execute, recorded, wallet,
                   unwinds, fpc, walk, process, spending, adrift, audit, told>>

\* The tracker catches up with what the chain says of an auction: a new row
\* carries no plan.
\* (A dry-run record is owed again once the row has gone, or moved past it.)
Forgotten(b, ver) ==
    {e \in dryRows : e.who = b /\ (ver = NoAuction \/ e.ver.start < ver.start)}

TrackRow(b) ==
    /\ \E v \in Views :
          LET ver == v.chain.auction[b]
          IN  /\ ver # row[b]
              /\ ver = NoAuction \/ Newer(ver, row[b])
              /\ row' = [row EXCEPT ![b] = ver]
              /\ dryRows' = dryRows \ Forgotten(b, ver)
    /\ UNCHANGED <<inventory, execution, chain, tick, execute, recorded,
                   wallet, unwinds, fpc, walk, process, spending, landings, twice, told>>

----------------------------------------------------------------------------
(* The tick, and the wallet.                                               *)

\* filler_loop wakes on a newer tick; the run's first seeds every pool.  How
\* long the startup delay lasts is open; once past, it stays past.
BeginTick ==
    /\ fpc = "idle" /\ ~shutdown
    /\ tick' \in (tick + 1)..head
    /\ execute' \in {execute, TRUE}
    /\ seeded' = TRUE
    /\ pending' = IF seeded THEN pending ELSE PoolSet
    /\ fpc' = "pool"
    /\ idx' = 1
    /\ UNCHANGED <<inventory, execution, chain, row, recorded, wallet,
                   leftovers, setback, after, live, view, taken, cur, cap, process,
                   spending, landings, audit, told>>

\* What a wallet read asks for: every asset any pool seen so far names.
KnownAssets(p) == UNION {AssetsOf[q] : q \in known \cup {p}} \cup {FeeAsset}

\* refresh_inventory.  Whether the balances have merely aged is open.
RefreshInventory(p) ==
    \/ /\ ~HasKey
       /\ UNCHANGED <<inventory, wallet, spending>>
    \/ /\ HasKey
       /\ known' = known \cup {p}
       /\ \/ \E v \in Views :
                LET read == [a \in Assets |->
                               IF a \in KnownAssets(p) THEN v.chain.wallet[a] ELSE 0]
                IN  /\ record_balances(read)
                    /\ stale' = FALSE
                    /\ covered' = known \cup {p}
                    /\ lastRead' = read
                    /\ exposed' = Nothing
          \/ /\ stale \/ p \notin covered \/ ~everRead   \* the read fails
             /\ UNCHANGED <<inventory, stale, covered, spending>>
          \/ /\ ~stale /\ p \in covered /\ everRead       \* none is needed
             /\ UNCHANGED <<inventory, stale, covered, spending>>

----------------------------------------------------------------------------
(* The fill walk: tick_pool.                                               *)

\* Faulty variant: a version is kept only while it is the row's own.
prune_recorded_Equal(p) ==
    {e \in recorded : PoolOf[e.who] = p => row[e.who].start = e.ver.start}

\* prune_recorded: a version is kept while its row is open and not past it.
prune_recorded(p) ==
    {e \in recorded : PoolOf[e.who] = p =>
        row[e.who] # NoAuction /\ e.ver.start >= row[e.who].start}

\* considered, but for due: which of them are due is open.
considered(p, kept) ==
    {b \in Borrowers : /\ PoolOf[b] = p
                       /\ row[b] # NoAuction
                       /\ [who |-> b, ver |-> row[b]] \notin kept}

NextPool ==
    /\ fpc' = "pool"
    /\ idx' = idx + 1
    /\ live' = {} /\ view' = 0 /\ taken' = 0 /\ cur' = NoOne /\ cap' = Whole

\* The walk of the pools ends with the last, or at a shutdown.
EndWalk ==
    /\ fpc = "pool"
    /\ shutdown \/ idx > Len(Pools)
    /\ fpc' = "unwind"
    /\ idx' = 1
    /\ UNCHANGED <<inventory, execution, chain, row, tick, execute, recorded, wallet, unwinds,
                   live, view, taken, cur, cap, process, spending, landings, audit, told>>

\* open_auctions, prune_recorded and the filter; then read_entries: a row
\* whose auction the chain does not hold is deleted, an entry that could not
\* be read is left for the next tick.
ReadEntries ==
    /\ fpc = "pool"
    /\ ~shutdown /\ idx <= Len(Pools)
    /\ LET kept == prune_recorded(Pools[idx])
       IN  \E read \in SUBSET considered(Pools[idx], kept) :
           \E at \in [read -> Views] :
              LET entry == [b \in read |-> [who |-> b, ver |-> at[b].chain.auction[b]]]
                  gone == {b \in read : entry[b].ver = NoAuction}
              IN  /\ live' = {entry[b] : b \in read \ gone}
                  /\ row' = [b \in Borrowers |-> IF b \in gone THEN NoAuction ELSE row[b]]
                  /\ recorded' = {e \in kept : e.who \notin gone}
                  /\ dryRows' = dryRows \ UNION {Forgotten(b, NoAuction) : b \in gone}
    /\ fpc' = "snapshot"
    /\ UNCHANGED <<inventory, execution, chain, tick, execute, wallet, unwinds, idx, view,
                   taken, cur, cap, process, spending, landings, twice, told>>

\* The pool's one snapshot, the wallet, and pool_context; none is read for
\* no auction, or at a shutdown.
TakeSnapshot ==
    /\ fpc = "snapshot"
    /\ \/ /\ NextPool
          /\ UNCHANGED <<inventory, wallet, spending>>
       \/ /\ live # {} /\ ~shutdown
          /\ RefreshInventory(Pools[idx])
          /\ \/ /\ \E v \in Views : view' = v.at
                /\ taken' = head
                /\ fpc' = "auctions"
                /\ UNCHANGED <<idx, live, cur, cap>>
             \/ NextPool
    /\ UNCHANGED <<execution, chain, row, tick, execute, recorded, unwinds, process,
                   landings, audit, told>>

\* This auction is done with for this tick.
Done(e) ==
    /\ live' = live \ {e}
    /\ cur' = NoOne /\ cap' = Whole
    /\ fpc' = "auctions"
    /\ UNCHANGED <<idx, view, taken>>

\* replan: once, at half the percent; a second refusal is a skip.
Replan(e, percent) ==
    \/ /\ cur = NoOne
       /\ cur' = e.who
       /\ cap' = IF percent \div 2 >= 1 THEN percent \div 2 ELSE 1
       /\ fpc' = "auctions"
       /\ UNCHANGED <<idx, live, view, taken>>
    \/ /\ cur # NoOne
       /\ Done(e)

\* Executor::execute up to the submission, its funds free: judge, record, and
\* send unless this is a dry run.
RunFill(e, percent, spend) ==
    \E judged \in JudgeOutcomes :
       \/ /\ judged \in {"Refused", "Error"}
          /\ Done(e)
          /\ UNCHANGED <<inventory, job, exposed, recorded, dryRows, twice>>
       \/ /\ judged = "Replan"
          /\ Replan(e, percent)
          /\ UNCHANGED <<inventory, job, exposed, recorded, dryRows, twice>>
       \/ /\ Passes(judged) /\ DryRun
          /\ Done(e)
          /\ recorded' = recorded \cup {e}
          /\ dryRows' = dryRows \cup {e}
          /\ twice' = (twice \/ e \in dryRows)
          /\ UNCHANGED <<inventory, job, exposed>>
       \/ /\ Passes(judged) /\ ~DryRun
          /\ reserve(spend)
          /\ Send("fill", Pools[idx], e.who, percent, spend, view)
          /\ exposed' = [a \in Assets |-> exposed[a] + spend[a]]
          /\ fpc' = "fill"
          /\ UNCHANGED <<walk, recorded, dryRows, twice>>

\* execute_once: a wallet that does not cover the fill ends it.
Execute(e, percent, spend) ==
    \/ /\ ~DryRun /\ ~CanReserve(spend)
       /\ Done(e)
       /\ UNCHANGED <<inventory, job, exposed, recorded, dryRows, twice>>
    \/ /\ DryRun \/ CanReserve(spend)
       /\ RunFill(e, percent, spend)

\* plan_and_act, and the second half of replan: plan up to `cap`, write the
\* plan on the row, and execute it when its ledger has come.  A skip, an
\* error, a row that closed meanwhile and a plan for later end it.
PlanFill(e) ==
    \/ /\ Done(e)
       /\ UNCHANGED <<inventory, job, exposed, recorded, dryRows, twice>>
    \/ /\ row[e.who] # NoAuction /\ execute
       /\ \E percent \in 1..cap, spend \in Spends : Execute(e, percent, spend)

\* The loop over the live auctions.
WalkAuctions ==
    /\ fpc = "auctions"
    /\ \/ /\ cur = NoOne /\ (live = {} \/ shutdown)
          /\ NextPool
          /\ UNCHANGED <<inventory, job, exposed, recorded, dryRows, twice>>
       \/ \E e \in live :
             /\ (cur = NoOne /\ ~shutdown) \/ cur = e.who
             /\ \/ /\ e \in recorded
                   /\ Done(e)
                   /\ UNCHANGED <<inventory, job, exposed, recorded, dryRows, twice>>
                \/ /\ e \notin recorded
                   /\ PlanFill(e)
    /\ UNCHANGED <<mode, ghosts, chain, row, tick, execute, wallet, unwinds, process, lastRead,
                   landings, told>>

----------------------------------------------------------------------------
(* What became of a submission.                                            *)

\* What a submission that cannot land takes off the wallet's exposure.
NoteSettled(answer) ==
    /\ exposed' = IF job.fate = "landed" \/ answer = "Unknown" THEN exposed
                  ELSE [a \in Assets |-> exposed[a] - job.spend[a]]
    /\ moved' = IF job.fate = "landed" THEN [moved EXCEPT ![job.pool] = job.at] ELSE moved
    /\ UNCHANGED <<lastRead, adrift>>

Landed(answer) == answer \in {"Succeeded", "Unknown"}

\* Faulty variant: the first ledger after the landing.
Mark_Next(answer) == IF answer = "Succeeded" THEN job.at + 1 ELSE Unseen

\* What a later snapshot must reach.
Mark(answer) == IF answer = "Succeeded" THEN job.at ELSE Unseen

clear_setback(p) ==
    /\ setback' = [setback EXCEPT ![p] = NoSetback]
    /\ alerts' = [alerts EXCEPT ![p] = 0]

\* note_recorded, when the fill landed or may have.
note_landed(p, answer) ==
    /\ stale' = TRUE
    /\ pending' = pending \cup {p}
    /\ after' = [after EXCEPT ![p] = Mark(answer)]
    /\ clear_setback(p)

\* Faulty variant: the walk goes on to the pool's next auction.
AfterFill_GoesOn(e) == Done(e)

\* A fill that landed ends its pool's walk for this tick.
AfterFill(e) == NextPool

\* The queue's answer to a fill: attach_fill_tx, settle, and execute_draft's
\* or replan's reading of the outcome.  The row's store may fail; the task
\* then ends, settled as the chain answered.
AnswerFill ==
    /\ fpc = "fill"
    /\ \E answer \in QueueAnswers(shutdown), e \in live :
          /\ e.who = job.who
          /\ Settled(answer)
          /\ NoteSettled(answer)
          /\ \/ /\ answer \in {"Succeeded", "Failed", "Expired", "Unknown"}
                /\ fpc' = "dead"
                /\ UNCHANGED <<walk, stale, pending, after, setback, alerts>>
             \/ /\ Landed(answer)
                /\ AfterFill(e)
                /\ note_landed(job.pool, answer)
             \/ /\ answer \in {"Failed", "Expired", "Dropped", "Refused", "Stale"}
                /\ Done(e)
                /\ UNCHANGED <<stale, pending, after, setback, alerts>>
             \/ /\ answer = "Replan"
                /\ Replan(e, job.percent)
                /\ UNCHANGED <<stale, pending, after, setback, alerts>>
    /\ UNCHANGED <<chain, row, tick, execute, recorded, known, covered, seeded, leftovers,
                   process, audit, notices, unheard>>

----------------------------------------------------------------------------
(* The unwind passes.                                                      *)

NextUnwind ==
    /\ fpc' = "unwind"
    /\ idx' = idx + 1
    /\ view' = 0
    /\ UNCHANGED <<live, taken, cur, cap>>

\* The pool stops being pending.
Cleared(p) ==
    /\ pending' = pending \ {p}
    /\ clear_setback(p)

\* Faulty variant: every setback from the AlertAt-th on is told.
note_setback_Repeats(p) ==
    LET count == setback[p].count + 1
        backoff == IF 2^count < BackoffMax THEN 2^count ELSE BackoffMax
    IN  /\ setback' = [setback EXCEPT ![p] = [count |-> count, retryAt |-> tick + backoff]]
        /\ alerts' = [alerts EXCEPT ![p] = IF count >= AlertAt THEN @ + 1 ELSE @]

\* note_setback: a pass that moved nothing is backed off, and the AlertAt-th
\* in a row is told.
note_setback(p) ==
    LET count == setback[p].count + 1
        backoff == IF 2^count < BackoffMax THEN 2^count ELSE BackoffMax
    IN  /\ setback' = [setback EXCEPT ![p] = [count |-> count, retryAt |-> tick + backoff]]
        /\ alerts' = [alerts EXCEPT ![p] = IF count = AlertAt THEN @ + 1 ELSE @]

\* note_idle: done, with a notice of debt left over, once until the pool is
\* found clean; a notice that was dropped is owed again.
note_idle(p, held) ==
    /\ Cleared(p)
    /\ \/ /\ held = "kept"
          /\ leftovers' = leftovers \ {p}
          /\ notices' = [notices EXCEPT ![p] = 0]
          /\ unheard' = unheard \ {p}
       \/ /\ held = "debt" /\ p \in leftovers
          /\ UNCHANGED <<leftovers, notices, unheard>>
       \/ /\ held = "debt" /\ p \notin leftovers
          /\ \/ /\ leftovers' = leftovers \cup {p}
                /\ notices' = [notices EXCEPT ![p] = @ + 1]
                /\ unheard' = unheard \ {p}
             \/ /\ unheard' = unheard \cup {p}
                /\ UNCHANGED <<leftovers, notices>>
    /\ UNCHANGED after

\* Faulty variant: the ledger before the mark will do.
Holds_Previous(p, ledger) == after[p] = NoMark \/ (after[p] # Unseen /\ ledger + 1 >= after[p])

\* Whether a snapshot holds the last submission of this run in the pool.
Holds(p, ledger) == after[p] = NoMark \/ (after[p] # Unseen /\ ledger >= after[p])

UnwindSkip == /\ NextUnwind
              /\ UNCHANGED <<inventory, job, exposed, pending, leftovers, setback, after,
                             alerts, notices, unheard>>

\* Executor::unwind up to the submission, its funds free.
RunUnwind(p, spend, ledger) ==
    \E judged \in JudgeOutcomes :
       \/ /\ ~Passes(judged)
          /\ NextUnwind
          /\ note_setback(p)
          /\ UNCHANGED <<inventory, job, exposed, pending, leftovers, after, notices, unheard>>
       \/ /\ Passes(judged) /\ DryRun
          /\ NextUnwind
          /\ Cleared(p)
          /\ UNCHANGED <<inventory, job, exposed, leftovers, after, notices, unheard>>
       \/ /\ Passes(judged) /\ ~DryRun
          /\ reserve(spend)
          /\ Send("unwind", p, NoOne, Whole, spend, ledger)
          /\ exposed' = [a \in Assets |-> exposed[a] + spend[a]]
          /\ fpc' = "unwinding"
          /\ UNCHANGED <<walk, pending, leftovers, setback, after, alerts, notices, unheard>>

\* execute_unwind: a wallet that no longer covers the repays ends it.
ExecuteUnwind(p, spend, ledger) ==
    \/ /\ ~DryRun /\ ~CanReserve(spend)
       /\ UnwindSkip
    \/ /\ DryRun \/ CanReserve(spend)
       /\ RunUnwind(p, spend, ledger)

\* Whether the wallet, as believed once the pass has read it, holds some of what
\* the pool's debt may be in, and whether it may hold none: repay skips a debt it
\* has no balance for.
CanRepay(p) == \E a \in AssetsOf[p] : available(a)' > 0
MayLack(p) == \E a \in AssetsOf[p] : available(a)' = 0

\* unwind_pool, from its own snapshot on.  The plan is made on the wallet as it
\* was last read, also when the read just now has failed.
UnwindPool(p) ==
    \E v \in Views :
       \/ /\ ~Holds(p, v.at)
          /\ UnwindSkip
          /\ UNCHANGED <<wallet, lastRead>>
       \/ /\ Holds(p, v.at) /\ v.chain.pos[p] = "none"
          /\ NextUnwind
          /\ Cleared(p)
          /\ leftovers' = leftovers \ {p}
          /\ after' = [after EXCEPT ![p] = NoMark]
          /\ notices' = [notices EXCEPT ![p] = 0]
          /\ unheard' = unheard \ {p}
          /\ UNCHANGED <<inventory, job, wallet, spending>>
       \/ /\ Holds(p, v.at) /\ v.chain.pos[p] \in {"debt", "kept"}
          /\ RefreshInventory(p)
          /\ v.chain.pos[p] = "debt" => MayLack(p)        \* is_idle
          /\ NextUnwind
          /\ note_idle(p, v.chain.pos[p])
          /\ UNCHANGED job
       \/ /\ Holds(p, v.at) /\ v.chain.pos[p] \in {"debt", "kept"}
          /\ RefreshInventory(p)                            \* no plan came of it
          /\ NextUnwind
          /\ UNCHANGED <<job, pending, leftovers, setback, after, alerts, notices, unheard>>
       \/ /\ Holds(p, v.at) /\ v.chain.pos[p] \in {"move", "debt"}
          /\ RefreshInventory(p)
          /\ v.chain.pos[p] = "debt" => CanRepay(p)
          /\ fpc' = "unwindPlan"
          /\ view' = v.at
          /\ UNCHANGED <<job, idx, live, taken, cur, cap, pending, leftovers, setback, after,
                         alerts, notices, unheard>>

\* The plan for a position that can be moved; the startup delay holds it back.
UnwindPlanned ==
    /\ fpc = "unwindPlan"
    /\ \/ UnwindSkip
       \/ /\ execute
          /\ \E spend \in Spends : ExecuteUnwind(Pools[idx], spend, view)
    /\ UNCHANGED <<mode, ghosts, chain, row, tick, execute, recorded, wallet,
                   seeded, process, lastRead, landings, audit>>

\* unwind_passes.
UnwindPasses ==
    /\ fpc = "unwind"
    /\ \/ /\ shutdown \/ idx > Len(Pools) \/ ~HasKey
          /\ fpc' = "idle"
          /\ idx' = 1
          /\ pending' = IF HasKey THEN pending ELSE {}
          /\ after' = IF HasKey THEN after ELSE FreshState.after
          /\ UNCHANGED <<inventory, job, wallet, spending, live, view, taken, cur, cap,
                         leftovers, setback, alerts, notices, unheard>>
       \/ /\ ~shutdown /\ idx <= Len(Pools) /\ HasKey
          /\ \/ /\ Pools[idx] \notin pending \/ setback[Pools[idx]].retryAt > tick
                /\ UnwindSkip
                /\ UNCHANGED <<wallet, lastRead>>
             \/ /\ Pools[idx] \in pending /\ setback[Pools[idx]].retryAt <= tick
                /\ UnwindPool(Pools[idx])
    /\ UNCHANGED <<mode, ghosts, chain, row, tick, execute, recorded, seeded,
                   process, landings, audit>>

\* Faulty variant: a pass that landed is thought to have unwound the pool.
AnswerUnwind_Clears ==
    /\ fpc = "unwinding"
    /\ \E answer \in QueueAnswers(shutdown) :
          /\ Settled(answer)
          /\ NoteSettled(answer)
          /\ NextUnwind
          /\ \/ /\ Landed(answer)
                /\ stale' = TRUE
                /\ after' = [after EXCEPT ![job.pool] = Mark(answer)]
                /\ Cleared(job.pool)
             \/ /\ ~Landed(answer)
                /\ note_setback(job.pool)
                /\ UNCHANGED <<stale, after, pending>>
    /\ UNCHANGED <<chain, row, tick, execute, recorded, known, covered,
                   seeded, leftovers, process, audit, notices, unheard>>

\* The queue's answer to an unwind, and note_unwound: the pool stays pending.
AnswerUnwind ==
    /\ fpc = "unwinding"
    /\ \E answer \in QueueAnswers(shutdown) :
          /\ Settled(answer)
          /\ NoteSettled(answer)
          /\ NextUnwind
          /\ \/ /\ Landed(answer)
                /\ stale' = TRUE
                /\ after' = [after EXCEPT ![job.pool] = Mark(answer)]
                /\ clear_setback(job.pool)
             \/ /\ ~Landed(answer)
                /\ note_setback(job.pool)
                /\ UNCHANGED <<stale, after>>
    /\ UNCHANGED <<chain, row, tick, execute, recorded, known, covered,
                   pending, seeded, leftovers, process, audit, notices, unheard>>

----------------------------------------------------------------------------
(* The process.                                                            *)

RequestShutdown ==
    /\ faults < MaxFaults /\ ~shutdown
    /\ faults' = faults + 1
    /\ shutdown' = TRUE
    /\ UNCHANGED <<inventory, execution, chain, row, tick, execute, recorded,
                   wallet, unwinds, fpc, walk, spending, landings, audit, told>>

\* The process ends, wherever it is (a store error ends it too), and another
\* starts on its store, with the newest ledger's tick.  What it was waiting
\* for may land still.
Restart ==
    /\ faults < MaxFaults
    /\ faults' = faults + 1
    /\ shutdown' = FALSE
    /\ balances' = Nothing /\ reserved' = Nothing /\ everRead' = FALSE /\ claim' = Nothing
    /\ job' = NoJob
    /\ ghosts' = ghosts \cup {j \in {job} : Busy /\ j.fate = "floating"}
    /\ tick' = head - 1 /\ execute' = FALSE
    /\ recorded' = {}
    /\ stale' = FALSE /\ known' = {} /\ covered' = {}
    /\ pending' = {} /\ seeded' = FALSE /\ leftovers' = {}
    /\ setback' = FreshState.setback
    /\ after' = FreshState.after
    /\ fpc' = "idle" /\ idx' = 1
    /\ live' = {} /\ view' = 0 /\ taken' = 0 /\ cur' = NoOne /\ cap' = Whole
    /\ lastRead' = Nothing /\ exposed' = Nothing
    /\ moved' = FreshState.none
    /\ adrift' = adrift
          \cup {p \in PoolSet : \/ moved[p] = head
                                \/ \E g \in ghosts' : g.pool = p
                                \/ Busy /\ job.fate = "landed" /\ job.pool = p /\ job.at = head}
    /\ dryRows' = {} /\ twice' = FALSE
    /\ alerts' = FreshState.none /\ notices' = FreshState.none /\ unheard' = {}
    /\ UNCHANGED <<chain, row, mode>>

----------------------------------------------------------------------------
Tick ==
    \/ BeginTick \/ EndWalk \/ ReadEntries \/ TakeSnapshot \/ WalkAuctions \/ AnswerFill
    \/ UnwindPasses \/ UnwindPlanned \/ AnswerUnwind

Next ==
    \/ CloseLedger
    \/ \E b \in Borrowers : TrackRow(b)
    \/ Tick
    \/ RequestShutdown \/ Restart

Spec == Init /\ [][Next]_vars

----------------------------------------------------------------------------
(* Properties.                                                             *)

\* Whatever the bot sends fits in the wallet it read: everything sent since
\* the last read that landed or may still land, with the fee reserve, is
\* covered by the balances that read returned.  A submission whose outcome
\* is Unknown stays paid for (executor.rs, enqueue and settle).
SpendsWhatItRead ==
    Busy => \A a \in Assets :
        job.spend[a] > 0 =>
            exposed[a] + (IF a = FeeAsset THEN FeeReserve ELSE 0) <= lastRead[a]

\* No reservation outlives its execution, on any path out of it, and none is
\* held beside it ("consumed or released exactly once", inventory.rs).
ReservedIsClaimed == reserved = claim /\ (~Busy => claim = Nothing)

\* No fill is planned on a snapshot and a wallet that this run has overtaken
\* since it read them: from the read of the pool's snapshot to the answer of a
\* fill planned on it nothing else of this run lands in the pool or may still
\* land (tick_pool).  What landed before that read the snapshot may lack all
\* the same: see FillsSeeSubmissions.
OneFillPerSnapshot ==
    fpc \in {"auctions", "fill"} /\ Pools[idx] \notin adrift =>
        /\ moved[Pools[idx]] <= taken
        /\ \A g \in ghosts : g.pool # Pools[idx]

\* "The next tick reads a snapshot that holds it" (filler.rs, plan_and_act, of
\* a fill that landed): the snapshot a fill is planned on holds every earlier
\* submission of this run in its pool.
FillsSeeSubmissions ==
    Busy /\ job.kind = "fill" /\ job.pool \notin adrift => job.view >= moved[job.pool]

\* An unwind is sent only from a snapshot that holds every submission of
\* this run in its pool, whichever node answers it (unwind_after); what an
\* earlier run left in flight is the exception.
UnwindSeesSubmissions ==
    Busy /\ job.kind = "unwind" /\ job.pool \notin adrift =>
        /\ job.view >= moved[job.pool]
        /\ \A g \in ghosts : g.pool # job.pool

\* "A restart between a fill and its unwind must not strand the position"
\* (filler.rs, ruling 3): an armed run that has made its startup seed keeps a
\* pool pending for as long as there is something to move in it.
NeverStranded ==
    mode = "armed" /\ seeded /\ fpc # "dead" => \A p \in PoolSet : now.pos[p] = "move" => p \in pending

\* The same within what a run can know: but for the pools in which an earlier
\* process's submission landed too late for the startup pass to see it.  Debt
\* that the wallet the bot believes in cannot repay is the one thing given up,
\* also when that belief is all a failed read left it (see ReadBeforeGivingUp),
\* and then its notice was sent or the notifier dropped it (ruling 11).
StaysPending ==
    mode = "armed" /\ seeded /\ fpc # "dead" =>
        \A p \in PoolSet \ adrift :
            now.pos[p] \in {"move", "debt"} =>
                \/ p \in pending
                \/ Busy /\ job.pool = p /\ job.fate = "landed"
                \/ now.pos[p] = "debt" /\ p \in leftovers \cup unheard

\* "A read that could not be made ... leave[s] it pending too: none of them is a
\* reason to believe the position is unwound" (filler.rs, ruling 4): a pool with
\* debt is not given up in a pass whose wallet read failed.
ReadBeforeGivingUp ==
    [][\A p \in pending \ pending' :
          mode = "armed" /\ fpc = "unwind" /\ now.pos[p] = "debt" /\ prev.pos[p] = "debt" =>
              everRead' /\ ~stale' /\ p \in covered']_vars

\* A dry run records a version of an auction once, however the rows of the
\* tracker and the entries of the chain run ahead of one another.
RecordedOnce == ~twice

\* However long an unwind fails or debt stays, one alert goes out for a run
\* of setbacks, when it is long enough, and one notice of what is left over.
ToldOnce ==
    \A p \in PoolSet :
        /\ notices[p] <= 1
        /\ alerts[p] = IF setback[p].count >= AlertAt THEN 1 ELSE 0

\* The bot does not overtake its own plans: no fill is planned on a snapshot
\* and wallet read before another fill of the same walk, and no unwind on a
\* node that does not hold the last submission yet (tick_pool, unwind_pool).
ActsOnFresh == OneFillPerSnapshot /\ UnwindSeesSubmissions

\* What was said is not said again: one record of a dry run's fill, one alert
\* of a run of setbacks, over ticks, answers and lagging rows (recorded_dry_run,
\* note_setback, leftovers_notified).
SaysOnce == RecordedOnce /\ ToldOnce
============================================================================
