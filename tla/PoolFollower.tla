---------------------------- MODULE PoolFollower ----------------------------
(***************************************************************************)
(* How the bot follows one pool: the poller that pages the pool's events   *)
(* (src/ledger.rs), the channel to the tracker task, the tracker loop that *)
(* applies them (src/service.rs, src/tracker.rs), the rows and the cursor  *)
(* in the store, and the seed pass of a starting process.  The process may *)
(* be killed between any two steps; the store and the chain survive.       *)
(*                                                                         *)
(* Pools share the channel and the tracker task but no state: everything   *)
(* the loop keeps is keyed by pool, so one pool is modelled.               *)
(*                                                                         *)
(* An event is abstracted to the account it names; one that does not decode*)
(* makes its ledger unreadable.  A row of `users` is abstracted to the     *)
(* ledger its snapshot was read at, 0 for no row.                          *)
(***************************************************************************)
EXTENDS Integers, Sequences, FiniteSets

CONSTANTS
    Accounts,     \* the pool's accounts
    ChannelCap,   \* room in the poller channel (1024 in Service::run)
    Retention,    \* ledgers the RPC retains behind its head
    UserRefresh,  \* Cadence::user_refresh_ledgers
    RefreshBatch, \* Cadence::refresh_batch
    ScanPeriod,   \* Cadence::full_scan_ledgers; 0 never scans
    MaxLedger,    \* bound: ledgers the chain closes
    MaxRestarts,  \* bound: how often the process ends and starts again
    MayShutDown   \* whether a shutdown is ever requested

ASSUME FollowerAssumption ==
    /\ ChannelCap \in Nat \ {0}
    /\ Retention \in Nat
    /\ UserRefresh \in Nat
    /\ RefreshBatch \in Nat
    /\ ScanPeriod \in Nat
    /\ MaxLedger \in Nat \ {0}
    /\ MaxRestarts \in Nat
    /\ MayShutDown \in BOOLEAN

None == 0

Message == [type : {"event"}, account : Accounts]
           \cup [type : {"tick"}, ledger : Nat]
           \cup [type : {"gap"}]

Lapses == {"restart", "stopped_early", "unanchored", "wider_gap"}

VARIABLES
    head,       \* the last closed ledger
    events,     \* the accounts each closed ledger's events name
    unreadable, \* the closed ledgers whose events do not decode
    cursor,     \* store: events cursor, None when there is none
    row,        \* store: the ledger each account's row was read at
    mode,       \* "startup", "seeding" or "running"
    seedHead,   \* the head the startup seed read before it began
    shutdown,   \* the shutdown flag
    ppc,        \* where the poller's pass is
    oldest,     \* Health::oldest_ledger as this pass read it
    target,     \* the head this pass read, and will tick at
    at,         \* the next ledger whose events this pass reads
    gapAt,      \* gap_reported_at
    gapTo,      \* history: the oldest retained ledger that gap was reported with
    channel,    \* poller to tracker
    ack,        \* the oneshot of the tick in flight
    pending,    \* LoopState::pending
    unapplied,  \* LoopState::unapplied
    owed,       \* LoopState::needs_reseed
    lastScan,   \* LoopState::last_scan
    published,  \* the watch<LedgerTick> the auctioneer and the filler follow
    restarts,   \* how often the process was restarted
    lapses,     \* history: how ledgers came to be given up on
    unlisted    \* history: the events, by account and ledger, that a complete
                \* seed stood in for without being told of the account

chain == <<head, events, unreadable>>
store == <<cursor, row>>
pass == <<ppc, oldest, target, at>>
reported == <<gapAt, gapTo>>
loop == <<pending, unapplied, owed, lastScan, published, lapses, unlisted>>
process == <<mode, seedHead, shutdown, restarts>>
vars == <<head, events, unreadable, cursor, row, mode, seedHead, shutdown, ppc, oldest,
          target, at, gapAt, gapTo, channel, ack, pending, unapplied, owed, lastScan,
          published, restarts, lapses, unlisted>>

TypeOK ==
    /\ head \in 1..MaxLedger
    /\ events \in [1..head -> SUBSET Accounts]
    /\ unreadable \subseteq 1..head
    /\ cursor \in 0..head
    /\ row \in [Accounts -> 0..head]
    /\ mode \in {"startup", "seeding", "running"}
    /\ seedHead \in 0..head
    /\ shutdown \in BOOLEAN
    /\ ppc \in {"idle", "head", "drain", "ack"}
    /\ oldest \in 0..head
    /\ target \in 0..head
    /\ at \in 0..(head + 1)
    /\ gapAt \in 0..head
    /\ gapTo \in 0..head
    /\ channel \in Seq(Message)
    /\ Len(channel) <= ChannelCap
    /\ ack \in {"none", "waiting", "acked", "dropped"}
    /\ pending \subseteq Accounts
    /\ unapplied \in BOOLEAN
    /\ owed \in BOOLEAN
    /\ lastScan \in 0..head
    /\ published \in 0..head
    /\ restarts \in 0..MaxRestarts
    /\ lapses \subseteq Lapses
    /\ unlisted \subseteq Accounts \X (1..head)

\* What a process starts with: everything but the chain and the store.
Fresh ==
    /\ mode' = "startup"
    /\ seedHead' = 0
    /\ shutdown' = FALSE
    /\ ppc' = "idle"
    /\ oldest' = 0
    /\ target' = 0
    /\ at' = 0
    /\ gapAt' = None
    /\ gapTo' = 0
    /\ channel' = <<>>
    /\ ack' = "none"
    /\ pending' = {}
    /\ unapplied' = FALSE
    /\ owed' = FALSE
    /\ lastScan' = None
    /\ published' = 0

Init ==
    /\ head = 1
    /\ events = [l \in 1..1 |-> {}]
    /\ unreadable = {}
    /\ cursor = None
    /\ row = [a \in Accounts |-> 0]
    /\ mode = "startup"
    /\ seedHead = 0
    /\ shutdown = FALSE
    /\ ppc = "idle"
    /\ oldest = 0
    /\ target = 0
    /\ at = 0
    /\ gapAt = None
    /\ gapTo = 0
    /\ channel = <<>>
    /\ ack = "none"
    /\ pending = {}
    /\ unapplied = FALSE
    /\ owed = FALSE
    /\ lastScan = None
    /\ published = 0
    /\ restarts = 0
    /\ lapses = {}
    /\ unlisted = {}

----------------------------------------------------------------------------
(* The chain and its RPC.                                                  *)

CloseLedger ==
    /\ head < MaxLedger
    /\ head' = head + 1
    /\ \E named \in {{a} : a \in Accounts} \cup {{}} :
          /\ events' = [l \in 1..(head + 1) |-> IF l = head + 1 THEN named ELSE events[l]]
          /\ \/ unreadable' = unreadable
             \/ named # {} /\ unreadable' = unreadable \cup {head + 1}
    /\ UNCHANGED <<store, process, pass, reported, channel, ack, loop>>

\* getHealth's oldest_ledger.
OldestLedger == IF head > Retention THEN head - Retention ELSE 1

----------------------------------------------------------------------------
(* Refreshing rows, and seeding the pool.                                  *)

\* Tracker::refresh: one snapshot of the named accounts, as of now.
Refreshed(accounts) == [a \in Accounts |-> IF a \in accounts THEN head ELSE row[a]]

\* Tracker::seed.  A source may fail, a chunk's refresh may fail, and a
\* shutdown ends the walk early: `found` are the accounts it got to.  A seed
\* is complete when it reached every source there is.  It then refreshed the
\* accounts the sources name, which may be any: a source is filtered by
\* health, capped in pages, a static file, or not configured.
Seed(found, outcome) ==
    /\ found \subseteq Accounts
    /\ outcome \in {"complete", "failed_sources", "stopped_early", "error"}
    /\ outcome = "stopped_early" => shutdown

\* What no row will say when the seed that stands in for the ledgers up to
\* `upTo` takes itself to be complete: the events that named an account which
\* no source did.
Overlooked(found, outcome, upTo) ==
    {e \in (Accounts \ found) \X (1..upTo) :
        outcome = "complete" /\ e[1] \in events[e[2]] /\ row[e[1]] < e[2]}

\* Seeding on behalf of a gap or of a full scan, and what it does to
\* needs_reseed: a seed that reached every source clears it.
Reseed(base) ==
    \E found \in SUBSET Accounts,
       outcome \in {"complete", "failed_sources", "stopped_early", "error"} :
        /\ Seed(found, outcome)
        /\ row' = [a \in Accounts |-> IF a \in found THEN head ELSE base[a]]
        /\ owed' = (outcome \in {"failed_sources", "error"})
        /\ lapses' = lapses \cup {l \in {"stopped_early"} :
                                  outcome = l /\ found # Accounts}
        /\ unlisted' = unlisted \cup Overlooked(found, outcome, head)

\* seed_pools_needing_it: only a pool with no rows or no cursor is seeded.
StartUp ==
    /\ mode = "startup"
    /\ \/ /\ cursor # None /\ \E a \in Accounts : row[a] # 0
          /\ mode' = "running"
          /\ UNCHANGED seedHead
       \/ /\ cursor = None \/ \A a \in Accounts : row[a] = 0
          /\ mode' = "seeding"
          /\ seedHead' = head
    /\ UNCHANGED <<chain, store, shutdown, restarts, pass, reported, channel, ack, loop>>

\* The startup seed ends.  Its chunks were read at ledgers from seedHead on;
\* only a complete seed writes the cursor, at the head read before it began.
StartUpSeed ==
    /\ mode = "seeding"
    /\ \E found \in SUBSET Accounts,
          outcome \in {"complete", "failed_sources", "stopped_early", "error"},
          read \in seedHead..head :
          /\ Seed(found, outcome)
          /\ row' = [a \in Accounts |-> IF a \in found THEN read ELSE row[a]]
          /\ cursor' = IF outcome = "complete" THEN seedHead ELSE cursor
          /\ owed' = (outcome # "complete")
          /\ unlisted' = unlisted \cup Overlooked(found, outcome, seedHead)
    /\ mode' = "running"
    /\ seedHead' = 0
    /\ UNCHANGED <<chain, shutdown, restarts, pass, reported, channel, ack,
                   pending, unapplied, lastScan, published, lapses>>

----------------------------------------------------------------------------
(* The poller: poll_once and drain_events.                                 *)

\* getHealth.
PollHealth ==
    /\ mode = "running" /\ ppc = "idle" /\ ~shutdown
    /\ oldest' = OldestLedger
    /\ ppc' = "head"
    /\ UNCHANGED <<chain, store, process, target, at, reported, channel, ack, loop>>

\* getLatestLedger and the stored cursor: where to read from, reporting a
\* gap once per stale cursor.  With no cursor the pass follows from now.
PollHead ==
    LET start == IF cursor = None THEN head ELSE cursor + 1
        gap == cursor # None /\ start < oldest
        from == IF gap THEN oldest ELSE start
    IN  /\ ppc = "head"
        /\ \/ /\ gap /\ gapAt # cursor
              /\ Len(channel) < ChannelCap
              /\ channel' = Append(channel, [type |-> "gap"])
              /\ gapAt' = cursor
              /\ gapTo' = oldest
           \/ /\ ~(gap /\ gapAt # cursor)
              /\ UNCHANGED <<channel, reported>>
        /\ \/ /\ from > head
              /\ ppc' = "idle"
              /\ UNCHANGED <<target, at>>
           \/ /\ from <= head
              /\ ppc' = "drain"
              /\ target' = head
              /\ at' = from
        /\ oldest' = 0
        /\ lapses' = lapses \cup {l \in {"unanchored"} : cursor = None /\ ~owed}
                            \cup {l \in {"wider_gap"} :
                                     gap /\ gapAt = cursor /\ oldest > gapTo}
        /\ UNCHANGED <<chain, store, process, ack, pending, unapplied, owed,
                       lastScan, published, unlisted>>

\* A page of events: one ledger's.  An event that does not decode is skipped
\* with a warning, and the pass goes on.
DrainLedger ==
    /\ ppc = "drain"
    /\ at <= head /\ at >= OldestLedger
    /\ \/ /\ events[at] = {} \/ at \in unreadable
          /\ UNCHANGED channel
       \/ \E a \in events[at] :
             /\ at \notin unreadable
             /\ Len(channel) < ChannelCap
             /\ channel' = Append(channel, [type |-> "event", account |-> a])
    /\ at' = at + 1
    /\ UNCHANGED <<chain, store, process, ppc, oldest, target, reported, ack, loop>>

\* Faulty variant: the channel is taken to be unbounded.
SendTick_NoRoom ==
    /\ ppc = "drain"
    /\ at > head
    /\ channel' = Append(channel, [type |-> "tick", ledger |-> target])
    /\ ack' = "waiting"
    /\ ppc' = "ack"
    /\ UNCHANGED <<chain, store, process, oldest, target, at, reported, loop>>

\* A short page: everything up to the chain's own head was read, which may
\* be newer than the head this pass ticks at.
SendTick ==
    /\ ppc = "drain"
    /\ at > head
    /\ Len(channel) < ChannelCap
    /\ channel' = Append(channel, [type |-> "tick", ledger |-> target])
    /\ ack' = "waiting"
    /\ ppc' = "ack"
    /\ UNCHANGED <<chain, store, process, oldest, target, at, reported, loop>>

\* The pass is over; what it read is dropped.
EndPass ==
    /\ ppc' = "idle"
    /\ oldest' = 0
    /\ target' = 0
    /\ at' = 0
    /\ ack' = "none"

\* The pass fails (an RPC error) or stops without having proved that it
\* drained the range.  What was sent stays sent.
PassFails ==
    /\ ppc \in {"head", "drain"}
    /\ EndPass
    /\ UNCHANGED <<chain, store, process, reported, channel, loop>>

\* getEvents refuses to start at a ledger the RPC no longer retains.
RangeGone ==
    /\ ppc = "drain" /\ at < OldestLedger
    /\ EndPass
    /\ UNCHANGED <<chain, store, process, reported, channel, loop>>

\* The tick was acknowledged: the cursor commits, unless the store fails.
CommitCursor ==
    /\ ppc = "ack" /\ ack = "acked"
    /\ cursor' \in {cursor, target}
    /\ EndPass
    /\ UNCHANGED <<chain, row, process, reported, channel, loop>>

\* The acknowledgement was dropped: LedgerError::NotApplied.
NotApplied ==
    /\ ppc = "ack" /\ ack = "dropped"
    /\ EndPass
    /\ UNCHANGED <<chain, store, process, reported, channel, loop>>

----------------------------------------------------------------------------
(* The tracker loop: handle_message.                                       *)

Receiving(type) ==
    /\ mode = "running"
    /\ channel # <<>>
    /\ Head(channel).type = type
    /\ channel' = Tail(channel)

\* tracker.apply: the event's account waits for the tick, or, when a chain
\* read failed, the pool's next tick is poisoned.
HandleEvent ==
    /\ Receiving("event")
    /\ \/ /\ pending' = pending \cup {Head(channel).account}
          /\ UNCHANGED unapplied
       \/ /\ unapplied' = TRUE
          /\ UNCHANGED pending
    /\ UNCHANGED <<chain, store, process, pass, reported, ack, owed, lastScan,
                   published, lapses, unlisted>>

\* users_stale, once the named accounts have been refreshed: the rows too old
\* for the ledger, the oldest first, as many as a batch holds.
Stale(ledger) ==
    LET due == {a \in Accounts \ pending : row[a] # 0 /\ row[a] < ledger - UserRefresh}
    IN  {s \in SUBSET due :
            /\ Cardinality(s) <= RefreshBatch
            /\ s = due \/ Cardinality(s) = RefreshBatch
            /\ \A a \in s, b \in due \ s : row[a] <= row[b]}

scan_due(ledger) ==
    /\ ScanPeriod # 0
    /\ lastScan = None \/ ledger \div ScanPeriod > lastScan \div ScanPeriod

\* apply_tick to its end: the named and the stale accounts are refreshed,
\* and a due full scan retries an owed reseed, whatever becomes of it.
ApplyTick(ledger) ==
    \E stale \in Stale(ledger) :
        /\ \/ /\ scan_due(ledger) /\ owed
              /\ Reseed(Refreshed(pending \cup stale))
           \/ /\ ~(scan_due(ledger) /\ owed)
              /\ row' = Refreshed(pending \cup stale)
              /\ UNCHANGED <<owed, lapses, unlisted>>
        /\ lastScan' = IF scan_due(ledger) THEN ledger ELSE lastScan

\* Faulty variant: a tick behind an event that failed is acknowledged.
HandleTick_IgnoresPoison ==
    /\ Receiving("tick")
    /\ ApplyTick(Head(channel).ledger)
    /\ pending' = {}
    /\ unapplied' = FALSE
    /\ ack' = "acked"
    /\ published' = IF Head(channel).ledger > published
                      THEN Head(channel).ledger ELSE published
    /\ UNCHANGED <<chain, cursor, process, pass, reported>>

\* Faulty variant: a poisoned pool stays poisoned.
HandleTick_StaysPoisoned ==
    /\ Receiving("tick")
    /\ ApplyTick(Head(channel).ledger)
    /\ pending' = {}
    /\ \/ /\ unapplied
          /\ ack' = "dropped"
          /\ UNCHANGED published
       \/ /\ ~unapplied
          /\ ack' = "acked"
          /\ published' = IF Head(channel).ledger > published
                            THEN Head(channel).ledger ELSE published
    /\ UNCHANGED <<chain, cursor, process, pass, reported, unapplied>>

\* The end of the range.  The tick is applied even behind an event that
\* failed, but then neither acknowledged nor published.
HandleTick ==
    /\ Receiving("tick")
    /\ ApplyTick(Head(channel).ledger)
    /\ pending' = {}
    /\ unapplied' = FALSE
    /\ \/ /\ unapplied
          /\ ack' = "dropped"
          /\ UNCHANGED published
       \/ /\ ~unapplied
          /\ ack' = "acked"
          /\ published' = IF Head(channel).ledger > published
                            THEN Head(channel).ledger ELSE published
    /\ UNCHANGED <<chain, cursor, process, pass, reported>>

\* apply_tick fails part way: some rows were written, the accounts taken are
\* put back, and the acknowledgement is dropped.
HandleTickFails ==
    /\ Receiving("tick")
    /\ \E stale \in Stale(Head(channel).ledger) :
          \E done \in SUBSET (pending \cup stale) : row' = Refreshed(done)
    /\ unapplied' = FALSE
    /\ ack' = "dropped"
    /\ UNCHANGED <<chain, cursor, process, pass, reported, pending, owed, lastScan,
                   published, lapses, unlisted>>

HandleGap ==
    /\ Receiving("gap")
    /\ Reseed(row)
    /\ UNCHANGED <<chain, cursor, process, pass, reported, ack, pending, unapplied,
                   lastScan, published>>

----------------------------------------------------------------------------
(* The process.                                                            *)

RequestShutdown ==
    /\ MayShutDown /\ ~shutdown
    /\ shutdown' = TRUE
    /\ UNCHANGED <<chain, store, mode, seedHead, restarts, pass, reported, channel,
                   ack, loop>>

\* The process ends, killed or not, and another one starts on its store.
Restart ==
    /\ restarts < MaxRestarts
    /\ restarts' = restarts + 1
    /\ Fresh
    /\ lapses' = lapses \cup {l \in {"restart"} : owed}
    /\ UNCHANGED <<chain, store, unlisted>>

----------------------------------------------------------------------------
Poller ==
    \/ PollHealth \/ PollHead \/ DrainLedger \/ SendTick
    \/ RangeGone \/ CommitCursor \/ NotApplied

TrackerLoop == HandleEvent \/ HandleTick \/ HandleTickFails \/ HandleGap

Next ==
    \/ CloseLedger
    \/ StartUp \/ StartUpSeed
    \/ Poller \/ PassFails
    \/ TrackerLoop
    \/ RequestShutdown \/ Restart

Spec == Init /\ [][Next]_vars

\* The poller and the tracker are tasks that always run on.
Fairness ==
    /\ WF_vars(StartUp \/ StartUpSeed)
    /\ WF_vars(Poller)
    /\ WF_vars(TrackerLoop)

FairSpec == Spec /\ Fairness

----------------------------------------------------------------------------
(* Properties.                                                             *)

\* The ledgers the bot has declared done: to the store, or to the
\* auctioneer and the filler.
Done == {l \in 1..head : l <= cursor \/ l <= published}

\* What an event named is in its account's row, or the seed that stood in for
\* the event's ledger had not been told of the account.
Covered(a, l) == row[a] >= l \/ <<a, l>> \in unlisted

\* An event of a ledger declared done that the rows do not reflect.
Missed == {l \in Done \ unreadable : \E a \in events[l] : ~Covered(a, l)}

\* "The cursor says applied, not sent": every event that decodes, of a ledger
\* that was declared done, is reflected in its account's row, or a reseed that
\* will make it good is owed.  A seed makes good only the accounts its sources
\* name.  The other ways out are the lapses: an owed reseed that was lost with
\* the process, one that a shutdown cut short, a pass that had neither a cursor
\* to start from nor a reseed to fall back on, and a gap that grew after it had
\* been reported.
AppliedOrOwed == Missed # {} => owed \/ lapses # {}

\* The same with no such gap allowed for: "until the cursor actually moves
\* every later pass computes exactly this gap again" (ledger.rs, poll_once),
\* so the one reseed makes good whatever later passes skip.
OneReseedPerGap == Missed # {} => owed \/ lapses \ {"wider_gap"} # {}

\* A step in which the RPC or the store fails the bot, or the process ends.
Fault ==
    \/ PassFails \/ HandleTickFails \/ Restart
    \/ HandleEvent /\ unapplied' # unapplied
    \/ CommitCursor /\ cursor' = cursor

\* Whatever failed before, once the faults stop in a process that is not
\* asked to stop itself, the cursor is at the chain's head again and again: a
\* declined tick, a poisoned range, a full channel or a reported gap never
\* holds it back for good (ledger.rs, run).
CatchesUp ==
    <>[][~Fault]_vars /\ <>[]~shutdown => []<>(cursor >= head)
============================================================================
