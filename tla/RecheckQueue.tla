---------------------------- MODULE RecheckQueue ----------------------------
(***************************************************************************)
(* The queue of borrowers the auctioneer still has to decide: the column   *)
(* users.recheck_ledger (src/store.rs), raised by the tracker's ticks and  *)
(* by the auctioneer's own scans, read in batches, and cleared or moved    *)
(* forward by what became of each decision (src/service.rs, and the act    *)
(* outcomes of src/auctioneer.rs).                                         *)
(*                                                                         *)
(* The tracker and the auctioneer are two tasks over one table, tied only  *)
(* by the watch of the newest tick, which every pool's ticks feed.  One    *)
(* pool's queue is modelled; the other pools appear as ticks of theirs     *)
(* that run ahead of this pool's.  How a tick comes about is PoolFollower's*)
(* subject: here a tick is one step that applies, or fails part way.       *)
(*                                                                         *)
(* Accounts are numbers, in the order the query breaks ties by.            *)
(***************************************************************************)
EXTENDS Integers, FiniteSets

CONSTANTS
    Borrowers,     \* how many accounts there are
    Batch,         \* REFRESH_BATCH
    Retention,     \* ledgers the RPC retains behind its head
    OraclePeriod,  \* ORACLE_SCAN_LEDGERS; 0 never scans
    FullPeriod,    \* FULL_SCAN_LEDGERS; 0 never scans
    StartupDelay,  \* STARTUP_DELAY_LEDGERS
    DryRun,        \* DRY_RUN
    OtherPools,    \* bound: the last ledger at which other pools tick
    RowsAge,       \* whether rows get old enough to be refreshed as stale
    Closers,       \* the borrowers that may close their positions
    MaxLedger,     \* bound: ledgers the chain closes
    MaxRestarts,   \* bound: how often the process ends and starts again
    MayShutDown    \* whether a shutdown is ever requested

ASSUME RecheckAssumption ==
    /\ Borrowers \in Nat
    /\ Batch \in Nat \ {0}
    /\ Retention \in Nat
    /\ OraclePeriod \in Nat
    /\ FullPeriod \in Nat
    /\ StartupDelay \in Nat
    /\ DryRun \in BOOLEAN
    /\ OtherPools \in Nat
    /\ RowsAge \in BOOLEAN
    /\ Closers \subseteq 1..Borrowers
    /\ MaxLedger \in Nat \ {0}
    /\ MaxRestarts \in Nat
    /\ MayShutDown \in BOOLEAN

Accounts == 1..Borrowers

\* recheck_ledger IS NULL, and no row at all.
Unflagged == 0
NoRow == -1

None == 0

VARIABLES
    head,        \* the last closed ledger
    events,      \* the accounts each closed ledger's events name
    unread,      \* the ledgers the tracker is not told of: their events do not
                 \* decode, or the cursor went past them in a gap
    owes,        \* the accounts with liabilities on chain
    cursor,      \* store: the pool's events cursor
    polled,      \* the head the pool's last tick was at
    flag,        \* store: users.recheck_ledger
    published,   \* the watch<LedgerTick>
    seen,        \* the tick the auctioneer last took from it
    firstTick,   \* StartupGate::first_tick_ledger
    unlocked,    \* StartupGate::unlocked
    lastOracle,  \* AuctioneerState::last_oracle_scan
    retried,     \* AuctioneerState::oracle_scan_retried
    lastFull,    \* AuctioneerState::last_full_scan
    apc,         \* where the auctioneer's pass is
    batch,       \* the flags the pass read: flagged_at
    todo,        \* the decided accounts it has not acted on yet
    snap,        \* the ledger of the snapshot it decided on
    shutdown,    \* the shutdown flag
    restarts,    \* how often the process was restarted
    decided,     \* history: the snapshot each account was last dealt with on,
                 \* by the first process
    owing,       \* history: accounts something was owed on and not done
    behind       \* history: accounts that failed while an account waited with
                 \* the flag it has, in a pass at or past that flag

chain == <<head, events, owes>>
read == <<unread, cursor, polled>>
gate == <<firstTick, unlocked>>
scans == <<lastOracle, retried, lastFull>>
work == <<apc, batch, todo, snap>>
process == <<shutdown, restarts>>
history == <<decided, owing, behind>>
vars == <<head, events, unread, owes, cursor, polled, flag, published, seen, firstTick, unlocked,
          lastOracle, retried, lastFull, apc, batch, todo, snap, shutdown,
          restarts, decided, owing, behind>>

TypeOK ==
    /\ head \in 1..MaxLedger
    /\ events \in [1..head -> SUBSET Accounts]
    /\ unread \subseteq 1..head
    /\ owes \subseteq Accounts
    /\ cursor \in 1..head
    /\ polled \in cursor..head
    /\ flag \in [Accounts -> -1..(head + 1)]
    /\ published \in 0..head
    /\ seen \in 0..published
    /\ firstTick \in 0..seen
    /\ unlocked \in BOOLEAN
    /\ lastOracle \in 0..seen
    /\ retried \in BOOLEAN
    /\ lastFull \in 0..seen
    /\ apc \in {"idle", "batch", "decide", "act"}
    /\ batch \in UNION {[some -> 1..(head + 1)] : some \in SUBSET Accounts}
    /\ Cardinality(DOMAIN batch) <= Batch
    /\ todo \subseteq DOMAIN batch
    /\ snap \in 0..head
    /\ shutdown \in BOOLEAN
    /\ restarts \in 0..MaxRestarts
    /\ decided \in [Accounts -> 0..head]
    /\ owing \subseteq Accounts
    /\ behind \in [Accounts -> SUBSET Accounts]

NoBatch == [a \in {} |-> None]

\* The seed left a row for every borrower its sources named, none of them
\* flagged.
Init ==
    /\ head = 1
    /\ events = [l \in {1} |-> {}]
    /\ unread = {}
    /\ \E closed \in SUBSET Closers : owes = Accounts \ closed
    /\ cursor = 1
    /\ polled = 1
    /\ \E named \in SUBSET owes :
          flag = [a \in Accounts |-> IF a \in named THEN Unflagged ELSE NoRow]
    /\ published = 0
    /\ seen = 0
    /\ firstTick = None
    /\ unlocked = FALSE
    /\ lastOracle = None
    /\ retried = FALSE
    /\ lastFull = None
    /\ apc = "idle"
    /\ batch = NoBatch
    /\ todo = {}
    /\ snap = 0
    /\ shutdown = FALSE
    /\ restarts = 0
    /\ decided = [a \in Accounts |-> 1]
    /\ owing = {}
    /\ behind = [a \in Accounts |-> {}]

----------------------------------------------------------------------------
(* The store.                                                              *)

\* flag_recheck for each of `accounts`: GREATEST, where there is a row.
flag_recheck(flags, accounts, ledger) ==
    [a \in Accounts |->
        IF a \in accounts /\ flags[a] # NoRow /\ flags[a] < ledger
          THEN ledger ELSE flags[a]]

Flagged == {a \in Accounts : flag[a] > Unflagged}

\* The query's order.
Ahead(a, b) == flag[a] < flag[b] \/ (flag[a] = flag[b] /\ a < b)

\* Faulty variant: the limit is left out.
users_needing_recheck_All == Flagged

\* The first Batch flagged accounts in that order.
users_needing_recheck ==
    {a \in Flagged : Cardinality({b \in Flagged : Ahead(b, a)}) < Batch}

\* Faulty variant: the clear is unconditional.
clear_recheck_Any(a, flaggedAt) ==
    [flag EXCEPT ![a] = IF @ = NoRow THEN NoRow ELSE Unflagged]

\* Only the flag the decision saw is cleared.
clear_recheck(a, flaggedAt) ==
    [flag EXCEPT ![a] = IF @ = flaggedAt THEN Unflagged ELSE @]

\* The history of a write to the flags in which `failed` were moved forward.
NoteFlags(failed) ==
    LET raised == {a \in Accounts : flag'[a] > flag[a]}
        ended == {a \in Accounts : flag'[a] <= Unflagged}
    IN  behind' = [a \in Accounts |->
            IF a \in raised \cup ended THEN {}
            ELSE (behind[a] \ ended) \cup {b \in failed \ ended : flag[a] <= seen}]

\* The history of accounts that were dealt with on a snapshot of `ledger`.
Deal(accounts, ledger) ==
    decided' = [a \in Accounts |->
        IF a \in accounts /\ restarts = 0 /\ decided[a] < ledger THEN ledger ELSE decided[a]]

----------------------------------------------------------------------------
(* The chain.                                                              *)

\* A ledger closes; its events may name an account, which may borrow or
\* repay all it owed, and may be ones the bot cannot decode.
CloseLedger ==
    /\ head < MaxLedger
    /\ head' = head + 1
    /\ \E named \in {{a} : a \in Accounts} \cup {{}}, after \in SUBSET Accounts :
          /\ \A a \in Accounts : a \in named \cap Closers \/ (a \in after <=> a \in owes)
          /\ events' = [l \in 1..(head + 1) |->
                           IF l = head + 1 THEN named ELSE events[l]]
          /\ owes' = after
          /\ \/ UNCHANGED unread
             \/ named # {} /\ unread' = unread \cup {head + 1}
    /\ UNCHANGED <<cursor, polled, flag, published, seen, gate, scans, work, process, history>>

----------------------------------------------------------------------------
(* The tracker.                                                            *)

\* getHealth's oldest_ledger.
OldestLedger == IF head > Retention THEN head - Retention ELSE 1

\* The accounts a ledger's events tell the tracker of.
Told(l) == IF l \in unread THEN {} ELSE events[l]

Named(from, to) == UNION {Told(l) : l \in from..to}

\* Tracker::refresh: a row where something is owed, none where nothing is;
\* an existing row keeps its flag.
Refreshed(accounts) ==
    [a \in Accounts |->
        IF a \notin accounts THEN flag[a]
        ELSE IF a \notin owes THEN NoRow
        ELSE IF flag[a] = NoRow THEN Unflagged ELSE flag[a]]

\* The rows the stale-refresh pass may find: any that there are.
Stale == {a \in Accounts : RowsAge /\ flag[a] # NoRow}

\* The heads a pass may tick at: newer than the cursor, and not behind what
\* the RPC answered before.
TickLedgers == {l \in (cursor + 1)..head : l >= polled}

\* Where a pass may start reading: behind the cursor, or, once that is no
\* longer retained, at what was the oldest ledger when the pass began.
Starts == {cursor + 1} \cup ((cursor + 2)..OldestLedger)

\* The rows of `done` are refreshed, and `raised` of them flagged.
Refresh(done, raised, ledger) ==
    /\ flag' = flag_recheck(Refreshed(done), raised, ledger)
    /\ NoteFlags({})
    /\ Deal(done \ owes, head)
    /\ owing' = owing \ (done \ owes)

\* apply_tick at `ledger`: of the accounts it was told of and the stale ones,
\* `done` were refreshed and `raised` flagged.
ApplyTick(ledger, done, raised) ==
    /\ polled' = ledger
    /\ Refresh(done, raised, ledger)

\* A tick that applied: acknowledged, published, its cursor committed, also
\* past the ledgers of a gap.  The commit may fail, or the process end before
\* it.
TrackerTick ==
    /\ \E ledger \in TickLedgers, from \in Starts :
       \E upTo \in ledger..head :
       \E done \in SUBSET (Named(from, upTo) \cup Stale) :
          /\ from <= ledger
          /\ Named(from, upTo) \subseteq done
          /\ ApplyTick(ledger, done, done)
          /\ published' = IF ledger > published THEN ledger ELSE published
          /\ \/ UNCHANGED <<cursor, unread>>
             \/ /\ cursor' = ledger
                /\ unread' = unread \cup ((cursor + 1)..(from - 1))
    /\ UNCHANGED <<chain, seen, gate, scans, work, process>>

\* A tick that failed part way, or behind an event that did not apply: some
\* accounts refreshed, some of them flagged, nothing acknowledged.
TrackerTickFails ==
    /\ \E ledger \in TickLedgers :
       \E done \in SUBSET (Named(cursor + 1, head) \cup Stale) :
       \E raised \in SUBSET done : ApplyTick(ledger, done, raised)
    /\ UNCHANGED <<chain, unread, cursor, published, seen, gate, scans, work, process>>

\* Tracker::seed, for a gap or for a reseed that a full scan finds owed: whom
\* the sources name is refreshed, and nobody is flagged.  When a reseed is due
\* is PoolFollower's subject; here it may come at any time.
Reseed ==
    /\ \E found \in SUBSET Accounts : Refresh(found, {}, head)
    /\ UNCHANGED <<chain, read, published, seen, gate, scans, work, process>>

\* Another pool's tick is published.
OtherPoolTick ==
    /\ published' \in (published + 1)..head
    /\ published' <= OtherPools
    /\ UNCHANGED <<chain, read, flag, seen, gate, scans, work, process, history>>

----------------------------------------------------------------------------
(* The auctioneer.                                                         *)

scan_due(last, period) ==
    /\ period # 0
    /\ last = None \/ published \div period > last \div period

\* StartupGate::observe.
Observe ==
    LET first == IF firstTick = None THEN published ELSE firstTick
    IN  /\ firstTick' = first
        /\ unlocked' = (unlocked \/ published - first >= StartupDelay)

\* oracle_scan, which flags whom the moved prices hurt, and its cadence: a
\* scan lost to a moving ledger is tried again at once, but only once.
OracleScan(hurt) ==
    \/ /\ scan_due(lastOracle, OraclePeriod)
       /\ \/ /\ lastOracle' = published
             /\ retried' = FALSE
          \/ /\ ~retried /\ hurt = {}
             /\ retried' = TRUE
             /\ UNCHANGED lastOracle
    \/ /\ ~scan_due(lastOracle, OraclePeriod) /\ hurt = {}
       /\ UNCHANGED <<lastOracle, retried>>

\* full_scan_and_flag: every row below the threshold.
FullScan(below) ==
    \/ /\ scan_due(lastFull, FullPeriod)
       /\ lastFull' = published
    \/ /\ ~scan_due(lastFull, FullPeriod) /\ below = {}
       /\ UNCHANGED lastFull

\* auctioneer_loop wakes on a newer tick, and its scans flag.
BeginPass ==
    /\ apc = "idle" /\ ~shutdown
    /\ published > seen
    /\ seen' = published
    /\ Observe
    /\ \E hurt, below \in SUBSET Accounts :
          /\ OracleScan(hurt)
          /\ FullScan(below)
          /\ flag' = flag_recheck(flag, hurt \cup below, published)
    /\ NoteFlags({})
    /\ apc' = "batch"
    /\ UNCHANGED <<chain, read, published, batch, todo, snap, process, decided, owing>>

EndPass ==
    /\ apc' = "idle"
    /\ batch' = NoBatch
    /\ todo' = {}
    /\ snap' = 0

ReadBatch ==
    /\ apc = "batch"
    /\ \/ /\ users_needing_recheck = {}
          /\ EndPass
       \/ /\ users_needing_recheck # {}
          /\ apc' = "decide"
          /\ batch' = [a \in users_needing_recheck |-> flag[a]]
          /\ UNCHANGED <<todo, snap>>
    /\ UNCHANGED <<chain, read, flag, published, seen, gate, scans, process, history>>

\* Faulty variant: the tick itself, which leaves a tie.
move_flag_forward_Tick(a) == IF batch[a] > seen THEN batch[a] ELSE seen

\* move_flag_forward: one past the tick, or where the batch read it.
move_flag_forward(a) == IF batch[a] > seen + 1 THEN batch[a] ELSE seen + 1

\* decide reads one snapshot for the batch.  The accounts it could not
\* decide are moved forward; when the snapshot itself fails nothing is.
Decide ==
    /\ apc = "decide"
    /\ \/ /\ EndPass
          /\ UNCHANGED <<flag, owing, behind>>
       \/ \E undecided \in SUBSET DOMAIN batch :
             /\ flag' = [a \in Accounts |->
                   IF a \in undecided THEN flag_recheck(flag, {a}, move_flag_forward(a))[a]
                   ELSE flag[a]]
             /\ \/ /\ undecided = DOMAIN batch
                   /\ EndPass
                \/ /\ undecided # DOMAIN batch
                   /\ apc' = "act"
                   /\ todo' = DOMAIN batch \ undecided
                   /\ snap' = head
                   /\ UNCHANGED batch
             /\ NoteFlags(undecided)
             /\ owing' = owing \cup {a \in undecided : flag[a] # NoRow}
    /\ UNCHANGED <<chain, read, published, seen, gate, scans, process, decided>>

\* What act() can come back with: nothing was owed, the contract refused, a
\* chain or queue error, or a creation that was recorded and, armed and past
\* the startup delay, submitted.
Outcomes ==
    {"Skipped", "Refused", "Error"}
    \cup (IF DryRun THEN {"DryRun"}
          ELSE IF unlocked THEN {"Succeeded", "Failed", "Expired", "Unknown"}
          ELSE {"Held"})

\* Faulty variant: a creation that was recorded is taken for settled.
settled_Recorded(outcome) == outcome \notin {"Refused", "Error"}

\* ActOutcome::settled.
settled(outcome) == outcome \in {"Skipped", "Succeeded", "DryRun"}

\* The history of an outcome: the account was dealt with, or is owed still,
\* unless the tracker dropped its row in the meantime.
NoteAct(a, outcome) ==
    \/ /\ outcome \in {"Skipped", "Succeeded", "DryRun"}
       /\ Deal({a}, snap)
       /\ owing' = owing \ {a}
    \/ /\ outcome \in {"Refused", "Error", "Failed", "Expired", "Unknown", "Held"}
       /\ owing' = owing \cup {b \in {a} : flag[b] # NoRow}
       /\ UNCHANGED decided

\* One account of the batch, in the batch's order.
Act ==
    /\ apc = "act" /\ ~shutdown
    /\ \E a \in todo, outcome \in Outcomes :
          /\ \A b \in todo \ {a} : batch[a] < batch[b] \/ (batch[a] = batch[b] /\ a < b)
          /\ \/ /\ settled(outcome)
                /\ flag' = clear_recheck(a, batch[a])
                /\ NoteFlags({})
             \/ /\ ~settled(outcome)
                /\ flag' = flag_recheck(flag, {a}, move_flag_forward(a))
                /\ NoteFlags({a})
          /\ NoteAct(a, outcome)
          /\ \/ /\ todo = {a}
                /\ EndPass
             \/ /\ todo # {a}
                /\ todo' = todo \ {a}
                /\ UNCHANGED <<apc, batch, snap>>
    /\ UNCHANGED <<chain, read, published, seen, gate, scans, process>>

\* The shutdown flag is read between accounts, and before each pool.
StopPass ==
    /\ shutdown
    /\ apc \in {"batch", "act"}
    /\ EndPass
    /\ UNCHANGED <<chain, read, flag, published, seen, gate, scans, process, history>>

----------------------------------------------------------------------------
(* The process.                                                            *)

RequestShutdown ==
    /\ MayShutDown /\ ~shutdown
    /\ shutdown' = TRUE
    /\ UNCHANGED <<chain, read, flag, published, seen, gate, scans, work, restarts,
                   history>>

\* seed_pools_needing_it: a pool with no rows at all is seeded, and its cursor
\* set to the head the seed began at when every source was reached.
StartUpSeed ==
    \/ /\ \E a \in Accounts : flag[a] # NoRow
       /\ UNCHANGED <<read, flag>>
    \/ /\ \A a \in Accounts : flag[a] = NoRow
       /\ \E found \in SUBSET Accounts : flag' = Refreshed(found)
       /\ \/ UNCHANGED read
          \/ /\ cursor' = head
             /\ polled' = head
             /\ unread' = unread \cup ((cursor + 1)..head)

\* The process ends, killed, by a store error or by a shutdown, and another
\* one starts on its store.
Restart ==
    /\ restarts < MaxRestarts
    /\ restarts' = restarts + 1
    /\ published' = 0
    /\ seen' = 0
    /\ firstTick' = None
    /\ unlocked' = FALSE
    /\ lastOracle' = None
    /\ retried' = FALSE
    /\ lastFull' = None
    /\ EndPass
    /\ shutdown' = FALSE
    /\ StartUpSeed
    /\ decided' = [a \in Accounts |-> 0]
    /\ UNCHANGED <<chain, owing, behind>>

----------------------------------------------------------------------------
Tracker == TrackerTick \/ TrackerTickFails \/ Reseed \/ OtherPoolTick
Auctioneer == BeginPass \/ ReadBatch \/ Decide \/ Act \/ StopPass

Next ==
    \/ CloseLedger
    \/ Tracker
    \/ Auctioneer
    \/ RequestShutdown \/ Restart

Spec == Init /\ [][Next]_vars

----------------------------------------------------------------------------
(* Properties.                                                             *)

\* No change of a borrower's position that the bot was told of is forgotten:
\* when the tracker has committed a ledger whose events name a borrower, that
\* borrower was dealt with on a snapshot at least as new, or is flagged.  A
\* decision that the tracker overtook never clears the newer flag (store.rs,
\* clear_recheck), and neither a reseed nor a refresh of the row takes it away.
\* The bot is not told of events that do not decode nor of the ledgers of a
\* gap: nobody is flagged for those, and what they did to a borrower is found by
\* the next full scan of its row.  It holds of a process that was not restarted:
\* behind a restart the same tick may come again, and a flag moved one past it
\* is the very value an event of the next ledger raises the flag to.
NoLostRecheck ==
    restarts = 0 =>
        \A a \in Accounts, l \in 1..cursor :
            a \in Told(l) /\ flag[a] = Unflagged => decided[a] >= l

\* A borrower on whom something was owed and not done (undecidable, refused,
\* failed, expired, lost, or held back by the startup delay) stays queued
\* until a later decision deals with it, over shutdowns and restarts.
OwedStaysFlagged == \A a \in owing : flag[a] # Unflagged

\* A borrower that failed goes behind every borrower already flagged at its
\* pass's tick or before: it is not tried again while one of those waits
\* ("each pass serves REFRESH_BATCH borrowers none of which it has already
\* tried this cycle", service.rs, recheck_batch).
FailedGoBehind ==
    apc = "decide" =>
        \A a \in Accounts \ DOMAIN batch : DOMAIN batch \cap behind[a] = {}
============================================================================
