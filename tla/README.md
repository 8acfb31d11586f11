# A TLA+ model of the Blend liquidator

The bot follows lending pools on Stellar, starts liquidation auctions on
borrowers that have become unhealthy, fills auctions that pay, and unwinds what
the fills left it with. It is a set of tokio tasks over a Postgres store, an RPC
it does not trust to answer, and one submission queue per signing key. These
modules model the tasks, the store, the chain and the planners; TLC checks them
on small instances, and for all instances TLAPS proves the safety of the
submission queue (and that it implements its abstract specification), of the
follower of a pool, the recheck queue, the full scan, the auction rows, the
creation of an auction, the price watch, the snapshots, the filler, the notifier,
the probes, the start and the run, and that the arithmetic is exact and rounds for
the pool. Paths are relative to the repository.

## Inventory

| Component | State | Operations | Talks to | What makes it correct | Module |
|---|---|---|---|---|---|
| Submission queue `src/queue.rs`, writer `src/chain/tx.rs` | channel, retries left, the prepared transaction | `enqueue`, `run_queue_with`, `attempt`, `resolve`; `prepare`, `restore`, `send`, `wait_for` | auctioneer and executor (mpsc + oneshot), RPC | an operation lands at most once, in order; true answers; every call answered | SubmissionQueue, SubmissionLog |
| Ledger poller `src/ledger.rs` | cursor, gap reported, backoff, heartbeat | `poll_once`, `drain_events`, `await_ack`, `run` | tracker loop (mpsc + ack), recorder | the cursor says applied, not sent | PoolFollower, Health |
| Tracker `src/tracker.rs`, its loop and the startup seed `src/service.rs` | `users` and `auctions` rows, `pending`, `unapplied`, `needs_reseed` | `handle_message`, `apply_tick`, `apply`, `seed`, `refresh` | poller, store, the watch of the newest tick | nothing declared done is missing for good | PoolFollower, RecheckQueue, AuctionBook |
| Auctioneer loop `src/service.rs` | recheck flags, scan ledgers, startup gate | `auctioneer_tick`, scans, `recheck_batch`, `move_flag_forward` | tracker (store, watch) | no change goes undecided; what is owed stays queued | RecheckQueue, ScanWalk |
| Auctioneer `src/auctioneer.rs` | price references, audit rows | `decide`, `act`, `accept_percent`, `adopt`, `scan_oracle` | RPC, queue, store | audited before sent; a percent the contract accepts; moves flagged | Creation, AuctionBook, PriceWatch |
| Filler `src/filler.rs`, executor `src/executor.rs`, inventory `src/inventory.rs` | pending unwinds and their marks, dry-run record, setbacks; reservation | `tick`, `plan_and_act`, `execute`, `unwind`, `settle`, `release` | store, queue, RPC | the wallet is not overspent; stale snapshots are not acted on; positions are unwound | Filler, Executor, Inventory |
| Planners and arithmetic `src/math/` | none | fill, liquidation, unwind; reserves, health, ramps, default, fixed point | filler, auctioneer | the contract takes what is planned; rounding towards the protocol | FillPlan, Liquidation, UnwindPlan, PoolMath, FixedPoint, Arithmetic |
| Run and shutdown `src/service.rs`, `src/main.rs` | the join set, the shutdown flag | `run`, `drain_tasks`, `finish_run` | every task | no task abandoned between a send and its outcome | Runtime |
| Notifier `src/notifier.rs` | cooldowns, permits | `notify_at`, `roll_back`, `drain` | Telegram | bounded work; no alert lost to a cooldown it did not earn | Notifier |
| Recorder, probes, watchdog `src/metrics.rs`, `src/http.rs` | gauges and counters | recorder calls, `render`, `liveness`, `readiness` | every task | a live bot is not called dead, nor a blind one ready | Metrics, Health |
| Chain reads `src/chain/rpc.rs`, `src/chain/pool.rs`, `src/chain/xdr/events.rs` | none | `snapshot`, the RPC methods, `decode_pool_event` | every task | a snapshot is one ledger's; an answer is true or an error | PoolReader, RpcAnswers, PoolEvents |
| Configuration `src/config.rs` | none after start | `parse`, `service_with_secrets`, `signing_keys`, `validate` | `main`, `run` | what runs is what the rest assumes | Configuration |

The hard behaviours: answers of the RPC that are lost, late, or from a node that
lags; an account's sequence number shared by everything the key sends; the
process ending between two steps; tables written by several tasks with no lock;
a snapshot that is old when it is acted on; roundings that the contract does
differently; shutdown at any time. `PROJECT.json` lists each hazard at its line
with the property that covers it.

## Modules

**SubmissionQueue** models one key's queue and the write path under it. Each
`await` is a step: the worker's `pc` walks `recv`, `account`, `simulate`,
(`restore`, `restoreWait`, `resimulate`), `send`, `wait`, with `retryPause` and
`resolvePause` on the failure paths. `CloseLedger` is the network: it may apply
one sent transaction of the account whose sequence number and window fit, or
another signer's, or nothing. `Lost` is a send whose answer is lost, with the
envelope forwarded or not. `ChainError`s are grouped by what the queue does with
them. **SubmissionLog** is what the queue promises its callers, with no network
in sight; `KeepsPromise` says the one implements the other (`landed` is what the
ledgers hold of the operations, so restores and retries are stutters).

**PoolFollower** models one pool's poller, the channel, the tracker loop, the
rows and cursor in the store, the startup seed and the end of the process. An
event is the account it names; a row is the ledger its snapshot was read at; a
page of events is one ledger's. The events of a ledger may be ones that do not
decode (`unreadable`): they are skipped with a warning and the cursor goes on. A
seed refreshes the accounts its sources name, and those may be any, also when
every source answered: `unlisted` is a history variable that keeps the events a
complete seed stood in for without being told of their account. `lapses` names
the ways the code gives a range up (see Known limits), and `gapTo` says how far
the last gap reported reached. Accounts share nothing but the flags of their
pool, so one account is enough.

**RecheckQueue** models `users.recheck_ledger`: the tracker raises it, scans raise
it, the auctioneer reads a batch, decides on one snapshot, acts account by account
and clears or moves each flag. A tick is one step here (how it comes about is
PoolFollower's subject) that may fail part way, and may start behind a gap. The
tracker is not told of the ledgers a gap skips nor of events that do not decode
(`unread`): the cursor passes them with nobody flagged. `Reseed` refreshes any
accounts and flags none. A scan may flag any accounts and
a decision may have any outcome `act` can return in the current mode. The head a
pass ticks at is never older than the one before it, which holds for a single
RPC endpoint. `decided`, `owing` and `behind` are history variables.
**ScanWalk** takes the full scan apart: keyset pages with the tracker rewriting
rows in between.

**AuctionBook** is one borrower's auction row under its three writers: the
tracker applying (and re-applying) events, `adopt` writing what it read, and the
filler's re-read that deletes. Each read is served from any ledger between
`served` and `head`.

**Creation** is `act` for one borrower: judge, the percent walk, the audit row,
the submission, the hash attached to the row; the process may end between any
two. **PriceWatch** is `moved` and `scan_oracle`, with a store that may fail.

**Filler** models a tick from the wallet read to the last unwind, over
**Executor** (mode guard, judge, audit row, enqueue, settlement) and
**Inventory** (balances, the one reservation, the fee reserve). The queue appears
by the promise SubmissionQueue keeps: true answers, Unknown only at shutdown. A
submission nobody waits for any more, after an Unknown or the end of the process,
is a *ghost* that may still land. What a planner answers is open. A version of an
auction is its start ledger and how often it was partly filled. A position is
what the unwind planner makes of it: none; something to withdraw whatever the
wallet holds ("move"); debt that holds the collateral back ("debt"), which moves
only as far as the wallet, *as last read*, repays it, and is idle without; or
nothing to move and nothing owed ("kept"). A wallet read that fails leaves the
balances of the read before it, or none.

**FixedPoint** and **PoolMath** are the arithmetic, as operators; **FillPlan**,
**Liquidation** and **UnwindPlan** are the planners. The iterations of
`plan_fill` and of the unwind are steps, and the contract executing the plan is
the last step, by its own checks; the contract is not in this repository and is
modelled as `src/math` and its comments describe it. **Arithmetic** calls the pure
functions, each with an input of its own (a `job`), and states what they promise;
interest is accrued call after call on one reserve, as the pool does.

**Configuration** is the start: parse, build, keys, validate against the chain,
one worker per key. **Runtime** is the run: the spawned tasks, signals, errors,
panics, the closing of channels, `drain_tasks`, `finish_run` and the exit code;
it composes the **Notifier**, which it drains last. A worker goes on refusing
until the last handle of its queue is dropped, and under the flag may answer
Unknown; the server waits for the clients it has. `left` is a history variable of
the submissions whose outcome nobody learnt, and why. **Notifier** takes
`notify_at` in two steps, the cooldown entry and the permit. **Metrics** is the
recorder, call by call; **Health** extends it with a poller's heartbeat through
seed, pass and backoff, the two probes and the watchdog.

**PoolReader** puts a snapshot together from calls answered at different ledgers.
**RpcAnswers** is what the client makes of a reply of which one part may be
missing or unreadable. **PoolEvents** is which accounts an event names, against
whose positions the contract's calls move.

The MC modules instantiate these for TLC. **MCPlanning**, **MCSupport** and
**MCProgress** hold several independent machines each: a behaviour belongs to one
of them (`scope`) and the others stand still. **SubmissionQueueProofs**, **PoolFollowerProofs**,
**RecheckQueueProofs**, **FillerProofs** and **ArithmeticProofs** hold the theorems
about the modules they are named after; **ReadingProofs** those about AuctionBook,
PoolReader and ScanWalk, **AuctioneerProofs** about Creation and PriceWatch,
**RuntimeProofs** about Notifier, Runtime, Metrics with Health, and Configuration.

Definitions whose names end in `_Something` after a name of the code are faulty
variants: each property is shown to fail when the code's definition is replaced
by one of them, and a property made of several named parts has a variant for each
part.

In PlanRound intermediate results are bound with `\E x \in {e}`, which is a `LET`
whose value is computed once.

## Runs

| Run | Bounds | What it shows |
|---|---|---|
| QueueSafety | 2 submissions, 1 retry, window of 1 ledger, 1 foreign transaction, no guaranteed retention | nothing overlaps, lands twice or out of order; true answers; the refinement of SubmissionLog |
| Progress | queue: 2 submissions, capacity 1, 1 retry; auction row: 4 ledgers, 2 faults | every call is answered, after a shutdown also if the chain has stopped; replay converges, a closed auction's row goes, an open one's is found |
| QueueRestoreUnknown | as above, no retry | violated: see Disagreements |
| FollowerSafety | 1 account, 3 ledgers, retention 0, channel 2, 1 restart, shutdown, events that decode or not, seeds that name the account or not | done means applied, or a reseed is owed, or a seed stood in that was not told of the account; the cursor catches up once faults stop |
| FollowerGap | 1 account, 5 ledgers, retention 0, channel 2, no restart | violated: see Disagreements |
| Recheck | 2 borrowers, batch 1, 3 ledgers, retention 0, both scans, reseeds, another pool, startup delay 1, 1 restart, shutdown | no decision clears a flag it did not account for; what is owed stays flagged; a failed borrower goes behind those that wait |
| FillerSafety | 1 pool, 1 asset that pays the fees too, 3 ledgers, 1 failure; armed, dry and keyless | the wallet is never overspent, reservations end, the bot does not overtake its own plans, pools stay pending or are given up with a notice, one record and one alert |
| FillerRestart | the same | violated: see Disagreements |
| FillerLag | the same, armed, no position at first | violated: see Disagreements |
| FillerWallet | the same, armed, no position or debt at first | violated: see Disagreements |
| Planning | one is 20, a width of 4 bits, ramps of 4 blocks, a percent is a quarter, 3 reserves, accruals 1 or 3 seconds apart up to time 12; of a run 1 poller, 1 worker for both roles, the server, 1 panic, 1 error, 1 notification | the arithmetic against exact definitions; the contract takes what is planned; the price watch, the start; the run ends, nothing is cut off, the exit code says why |
| Support | 2 keys and 1 permit; 9 time units; batches of 2; 3 borrowers in pages of 2; 4 percents, 3 iterations, 2 creations | the parts around the decisions, the audit and the percent walk |

What the properties of the larger modules say, part by part:

| Property | Parts |
|---|---|
| `ActsOnFresh` | `OneFillPerSnapshot`: from the read of a snapshot to the answer of a fill planned on it nothing else of the run lands in the pool (that the snapshot holds what landed before is `FillsSeeSubmissions`, which fails); `UnwindSeesSubmissions`: no unwind from a node that does not hold the last submission |
| `SaysOnce` | `RecordedOnce`: one dry-run record per version of an auction; `ToldOnce`: one alert per run of setbacks |
| `Settles` | `ClosedIsForgotten`, `OpenIsFound`: the row of a closed auction goes for good, that of an open one comes and stays |
| `NumbersAreExact` | `MulDivExact`, `DecimalsAreExact`, `DelayIsLeast`, `HeadroomFits`: against reference definitions |
| `RoundsForPool` | `InterestIsOwed`, `NoSplitPays`, `LossIsCharged`: accrual, partial fills and defaults round for the pool |
| `UnwindIsSound` | `ContractTakesUnwind`, `PrimaryIsKept`, `NeverBacksOff` |
| `StartIsSound` | `RunsSound`: what the rest assumes of a configuration; `OneWorkerPerKey` |
| `CooldownIsEarned` | `NotSentTwice` within a cooldown; `SuppressedByLive`: never held back for a delivery that did not happen |
| `TellsTruth` | `LiveIsNotStalled`, `ReadyIsNearHead`, `OneTellPerStreak`, `SettledWereAttempted` |
| `SnapshotIsOne` | `OneLedger`; `ValuedForward`: valued at one instant, none accrued backwards |
| `NothingMisread` | `TruthOrError` of replies; `MoversAreNamed`: a call that moves an account names it, was warned of as unreadable, or is the set-off that clears all debt and names nobody |
| `EndsWell` | `NothingAbandoned`: an outcome goes unlearnt only as Unknown under the flag, or with a worker that panicked, and then the exit code is a panic's; `ExitSaysWhy`, `LastWordsLeave` |

Why the bounds suffice. Two submissions are what overlap, order and at-most-once
are about; one retry and a window of one ledger give an attempt time to expire,
land late or be overtaken. Three ledgers with no retention let a cursor fall into
a gap, be reseeded and tick again; a channel of two makes the poller wait. Three
ledgers and a batch smaller than the queue let a flag be raised under a decision,
be moved and be read again. In the filler three ledgers hold a fill, a node that
does not show it yet and the unwind behind it, over a restart; a wallet of two
with a reserve of one makes every spend matter. Four ledgers let an auction open,
be partly filled, close and open again. In the arithmetic a small one makes every
rounding happen; the inputs straddle each guard (zero positions, a cap just met,
a position limit just met, a borrower that defaults, a wallet that falls short,
the ends of both ramps). `MulDivExact` runs over every triple of 4-bit integers,
the most negative one included. Configurations vary one group of knobs at a time
around a good one.

`CHECK_DEADLOCK FALSE` where the instance ends: ledgers, submissions and inputs
are bounded, a plan is done when it is made, and a stopped process does nothing.

### Fairness

Tasks run in a runtime that polls every ready one: weak fairness on the queue's
worker and on a caller waiting for room, on the poller, the tracker loop and the
seed, on the steps of Runtime's tasks (`TaskStep`) and of the run itself, which
joins them, drains the notifier and returns (`Finishing`). `ShutdownReleases` needs
nothing else. `EveryCallAnswered` states as a premise that ledgers close and that
an RPC asked again and again does not fail each time it has an outcome to tell:
the resolve loop retries for ever and has no other way out. `CatchesUp` has as
premises that the faults stop (`Fault`) and that the process is not asked to stop
itself, and then has the cursor at the head again and again. In
AuctionBook ledgers close and lagging nodes catch up, and the auctioneer's
rechecks and the filler's ticks come again, as both are driven by the ledgers; the
borrower is met again by the full scan for as long as it is liquidatable.
Runtime's `TaskStep` is what waits for nothing but the processor, and a worker's
answer once the flag is up: every RPC call has a timeout, and the first Unknown is
then returned. What waits for a client or for the database is in no fairness:
graceful shutdown waits for open connections without a timeout
(`src/http.rs:115`), and a query has none once it has its connection
(`src/store.rs:74`). `RunEnds` states the two as premises, `ClientsLeave` and
`StoreAnswers`.

## Proofs

Each theorem holds for every value of the constants that the module's named
assumption admits: any number of ledgers, restarts, faults and retries, any
accounts, pools, assets and tasks. The bounds of the runs are not in them. Where
an invariant is not inductive the proof module states the one that is, `IInv`,
as a conjunction of named parts; its header says why it is needed, and the proof
goes action by action, the actions grouped by what they can disturb.

| Module | Theorem | Property | What carries it |
|---|---|---|---|
| SubmissionQueueProofs | `TypeCorrect`, `AtMostOnce`, `NeverOverlapping`, `TrueAnswers` | `TypeOK`, `AppliedAtMostOnce`, `NoOverlap`, `AnswersAreTrue` | `OneOpPerSub` |
| | `QuietWhenUnknown` | `QuietAfterUnknown` (action property) | `UnknownIsLast` |
| | `LandsInOrder` | `AppliedInOrder` | `OrderInv` |
| | `Implements` | `KeepsPromise` (refinement) | `OneOpPerSub`, `OpOfAnswered` |
| PoolFollowerProofs | `TypeCorrect`, `DoneIsApplied` | `TypeOK`, `AppliedOrOwed` | `PassCovers`, `GapCovers` |
| RecheckQueueProofs | `TypeCorrect`, `NothingForgotten` | `TypeOK`, `NoLostRecheck` | `Remembered` |
| | `OwedStays`, `FailedWaitTheirTurn` | `OwedStaysFlagged`, `FailedGoBehind` | `OwedIsFlagged`, `BehindIsLater` |
| ReadingProofs | `ReplaysConverge` | `ReplayConverges` | `NotPassed` |
| | `SnapshotsAreOne` | `SnapshotIsOne` | `EntriesRead`, `OracleRead` |
| | `ScanIsComplete` | `ScanMissesNobody` | `NobodyPassed` |
| AuctioneerProofs | `AuditComesFirst`, `WalkFindsBand` | `AuditedFirst`, `WalkReachesBand` | `LastRowIsPlan`, `WalksToBand` |
| | `MovesAreFlagged` | `MoveIsFlagged` (action property) | `ReferenceIsNoticed` |
| FillerProofs | `TypeCorrect`, `NeverOverspends`, `SettledOnce` | `TypeOK`, `SpendsWhatItRead`, `ReservedIsClaimed` | `PaidFor` |
| | `PlansOnFresh`, `NothingStranded` | `ActsOnFresh`, `StaysPending` | `FreshSnapshot`, `MarkKnows`, `UnseenIsPending`, `LagIsKnown` |
| | `NothingRepeated` | `SaysOnce` | `RecordsKnown`, `Told` |
| RuntimeProofs | `CooldownEarned` | `CooldownIsEarned` | `Spaced`, `RecentIsLive` |
| | `RunEndsWell` | `EndsWell` | `JoinedAreOver`, `EndsForCause`, `LeftForCause`, `DrainIsLast` |
| | `RunTellsTruth` | `TellsTruth` | `BeatsInTime`, `HeadAges`, `NextIsCovered` |
| | `StartsSound` | `StartIsSound` | `BootInv` |
| ArithmeticProofs | `RoundingIsThePools`, `ComputesExactly` | `RoundsForPool`, `NumbersAreExact` | `JobInv` |

*SubmissionQueue.* `IInv` adds where the worker's locals come from, that an idle
worker holds no submission, that the channel holds each queued call once, that at
most one call is worked on, that what is in a ledger was sent in its window, and
the core: a submission still worked on has nothing out but the operation awaited,
an answered one at most the one its answer speaks of (`OpOfWorking`,
`OneOpPerSub`, `OpOfAnswered`), and after an Unknown the worker only refuses
(`UnknownIsLast`). Order needs one more invariant over it, `OrderInv`: the channel
is the untaken tail of the order of the calls, the one worked on is the newest
taken, and an operation that may still land is that one's or, after an Unknown,
the newest there will ever be. For `Implements` each action has its step of the
log: `Take` is `Start` or `Refuse`, `Accept` is `Submit`, a `CloseLedger` that
applies an operation is `Land`, every answer is `Finish`, and everything else,
restores and retries included, is a stutter.

*PoolFollower.* A ledger becomes done when its tick is acknowledged, so what the
pass has read must be accounted for until then: each account named by an event
that decodes is in its row, known to be unlisted, in the tracker's hands, in the channel before the tick, or behind a gap queued
before the tick (`PassCovers`); when the tick is handled nothing else is left in
the channel (`TickIsLast`), so the rest is in the rows (`AckedCovers`).
`GapCovers` carries the one reseed of a gap over to the later passes that skip the
same ledgers without reporting it. It was the attempt to prove this that showed
the gap which grows after it was reported (Disagreements, 3).

*RecheckQueue.* A flag is a ledger, and a decision clears it only if it still is
what the batch read. That is safe because what a pass reads is not past its
snapshot, and what a tick raises is past everything committed (`FlagsKnown`,
`ReadIsCovered`), so a borrower without a flag was decided on after all that is
committed and was told (`DealtWith`). Ledgers nobody was told of stay in `unread`,
and a reseed touches rows, never flags. All three are facts of a process that was not restarted;
Known limits says what a restart does to them.

*AuctionBook.* A row that the tracker wrote last is the entry of some ledger it has
not passed (`NotPassed`); every event between the two writes it again.

*PoolReader.* Between two batches, what came before is the content of the first
batch's ledger (`EntriesRead`); once the last batch has agreed with it, every part
is the content of the snapshot's ledger, an entry that is absent included
(`OracleRead`). That it is valued forward, and at the same instant by the tracker
and the auctioneer, follows from the newest of the tick and the reserves' times
being taken over the same parts (`OneLedgerIsForward`).

*ScanWalk.* A borrower below the threshold is flagged or about to be, or is on the
page in hand, or lies ahead of the cursor (`NobodyPassed`). The page is where that
could break: it holds the first of the accounts that are left, so one that is not
on a full page is behind its last (`PageIsFirst`), and a page that is not full
holds them all.

*Creation.* The row last written is the plan in hand, and the operation last sent
is that row's (`LastRowIsPlan`, `LastSentIsRow`); the walk has not left the band
behind it (`WalksToBand`).

*PriceWatch.* Where neither the refresh by age nor a refused store came between,
the reference is the price last noticed (`ReferenceIsNoticed`), so a price that is
far from what was noticed is far from the reference, which is what a scan tests.

*Filler.* Five arguments. The wallet: what was read is what is left plus what was
sent, to the last unit (`PaidFor`). The mark: `unwind_after` is never older than
the last landing of this run in the pool, so a snapshot that reaches it has seen
every one (`MarkKnows`), and what is unseen keeps its pool pending
(`UnseenIsPending`).
Between the read of a snapshot and the answer of its fill the run has nothing else
under way (`FreshSnapshot`). The lag: two neighbouring ledgers differ in a position only
by a landing the mark knows of (`LagIsKnown`). The record: a row's auction never
starts after the one the chain's entry shows, so a version recorded once is not
met as new (`RowIsBehind`, `RecordsKnown`).

*Notifier and Runtime.* Every notification that may still reach the channel holds
its key's entry or is a cooldown old, and an entry is always such a
notification's (`LiveHolds`, `RecentIsLive`). A task the join loop has answered
for is over and its error or panic kept (`JoinedAreOver`, `KeepsWhatItSaw`), the
flag goes up, and a poller or the tracker ends, only for a signal or a task that
broke (`EndsForCause`), what nobody learnt the outcome of was answered Unknown
under the flag or went with a panic (`LeftForCause`), and the notifier is drained
behind the last task (`DrainIsLast`).

*Metrics and Health.* The heartbeat is never further behind than the sleep the
poller is in (`BeatsInTime`), and the deadline is longer; the head in the gauge is
as old as its time says (`HeadAges`), so a bot called ready has processed close to
the chain's head. Of each recording task the calls still to be made are such that
an outcome is recorded behind its attempt (`NextIsCovered`), whatever the other
tasks record in between.

*Configuration.* Past each step of the start the checks of that step have passed
(`BootInv`), and those together imply what the rest assumes (`CheckedIsSound`):
in particular a pool's floor, above the contract's minimum, stays above it under the
multiplier (`FloorAboveMin`). No two workers have the same key, and each role is
served by the worker of its own (`Spawned`).

*Arithmetic.* `JobInv` says the inputs keep their types, that a reserve accrued
again and again stays one, and that its last accrual was fair. The work is in
the lemmas, one per function. `mul_div`'s rounded quotient is the one integer within
one of the true one on the right side; the narrow path and the wide one both find it,
and fail exactly where it leaves the width (`MulDivIsExact`). In an accrual
what the suppliers and the backstop are credited is at most the growth of the debt
as valued, floor by floor (`AccrualIsFair`). Filling in two parts gives the same total
bid or more and the same lot or less (`SplitNeverPays`). A default takes at least
the debt that is not set off from the suppliers, or all they have
(`DefaultCharges`). The delay is the least that meets the margin, as both ramps are
monotone (`DelayIsTheLeast`). The search for headroom is a bisection that keeps
the greatest fitting amount in its range (`Halves`), and digits read after each
other are their weighted sum (`ReadingsAgree`).

The last two are about recursive functions. The library's induction theorems have
an operator for a parameter and cannot be used; the least counterexample can
(`LeastOf`, from the well-foundedness of the naturals): a function that satisfies
the recursion exists, since a least input without one is built from the smaller
ones, and no least input is computed wrongly.

Most of the inductive invariants were checked by TLC on the runs' instances before
they were proved. Assumptions beyond the ranges of numbers: the configured pools are a
sequence and every borrower is of one of them (FillerAssumption); submissions and
accounts differ from the markers for none; the tasks of a run have names of their
own (RuntimeAssumption: a poller, a queue's worker and the fixed tasks are
different spawns); a gauge that was never set is no number (MetricsAssumption); what
a configuration gives has the types the parser of the command line leaves it with, and
`10^(n + 1) = 10 * 10^n`, which the provers do not know (ConfigurationAssumption);
the inputs of the arithmetic have their types, a modifier starts within its
bounds, a borrower's claim is part of the supply and a reserve asked for headroom
was never wiped out, so its rate is not zero (ArithmeticAssumption); a width has a
positive number of values on either side of zero (FixedPointAssumption).

Only model-checked:

- liveness (`EveryCallAnswered`, `ShutdownReleases`, `CatchesUp`, `Settles`,
  `RunEnds`), which is beyond the prover;
- the promises of the planners. `PlanIsTakeable`, `ContractTakesFill` and
  `UnwindIsSound` are about sums over the assets of a position, each term rounded
  for itself, and about orders of those assets. Beyond that, the floor of a plan
  rests on how many lots an auction has, and whether the contract still takes a
  supply behind a projected default depends on roundings and on the primary's
  reserve not being wiped out, so each would first need bounds that the code does
  not state;
- `NothingMisread`, a finite table of replies and events that TLC goes through
  whole: a proof would go through the same cases.

## Disagreements between the code and what it says

1. *QueueRestoreUnknown.* The queue's rule is that "nothing is prepared for a key
   while an earlier transaction's outcome is still unknown" (`src/queue.rs:13`). A
   restore with an unknown outcome is an error of `prepare`
   (`src/chain/tx.rs:452`), answered at once, and the next submission is prepared
   while the restore may still land. The operations' own guarantees still hold.
2. *FillerRestart.* "A restart between a fill and its unwind must not strand the
   position" (`src/filler.rs:1511`). A new process has no `unwind_after` mark, so
   its startup pass accepts a snapshot of any ledger. If the old process's fill is
   still in flight, or not yet on the node that answers, the snapshot shows no
   position and the pool is taken off the pending set (`src/filler.rs:1676`). The
   fill lands and stays until the pool's next fill or the next restart.
   `StaysPending` shows that this is the only way a position that can be moved is
   forgotten.
3. *FollowerGap.* A gap is reported once per stored cursor, as "until the cursor
   actually moves every later pass computes exactly this gap again"
   (`src/ledger.rs:527`). It does not: the oldest ledger the RPC retains moves on.
   When the tick behind the gap was declined, the next pass keeps quiet about the
   gap (`src/ledger.rs:533`) and drains from the new oldest ledger, so the ledgers
   between the two are in no reseed and no drain, and a later tick commits the
   cursor past them. An account that only they name is stale until its next event
   or the next refresh by age.
4. *FillerLag.* After a fill the walk of its pool ends, as "the next tick reads a
   snapshot that holds it" (`src/filler.rs:1003`). Nothing makes it: "`latestLedger`
   is not monotonic across calls" (`src/filler.rs:1654`), and only the unwind pass
   holds its snapshot against the ledger of the last submission. A node one ledger
   behind shows the position and the wallet of before the fill, and the next fill
   is planned on them. The contract's own health check and the reservation still
   bound what that fill can do.
5. *FillerWallet.* "A read that could not be made and a plan that would not compute
   all leave it pending too: none of them is a reason to believe the position is
   unwound" (`src/filler.rs:1519`). A failed wallet read only warns
   (`src/filler.rs:875`) and the pass plans on the balances before it, none on the
   first pass. `repay` skips a debt the wallet holds nothing of
   (`src/math/unwind.rs:286`); where the debt holds the collateral back the plan is
   idle, and `note_idle` (`src/filler.rs:1752`) gives the pool up and notifies
   leftover debt that the wallet could have repaid.

Two comments the model does not follow, with no run of their own: the worker "draining
its queue until every handle has dropped or shutdown is raised"
(`src/service.rs:2500`) goes on refusing after the flag until every handle has
dropped (`src/queue.rs:233`); and "a stuck connection or a slow client can cost
this server and nothing else" (`src/http.rs:8`), but the run joins the server, which
waits for its connections (`src/http.rs:115`), so such a client keeps a run that was
asked to stop from ending.

## Known limits of the code that the properties name

- A reseed that a shutdown stopped early is taken for a complete one
  (`src/service.rs:980`, `1162`), and the cursor may commit over the gap;
  a reseed owed is lost with the process; a pass with no stored cursor starts at
  the head it reads, so a declined range is not read again (`src/ledger.rs:522`);
  and a gap that grew after it was reported is not reported again (above). These
  four are the `lapses` that `AppliedOrOwed` excepts.
- A complete seed is one that reached every source, and a source names whom it
  will: it is filtered by health (`src/tracker.rs:472`), capped in pages with a
  warning (`497`), a static file, or not configured (`src/service.rs:520`). What a
  seed stood in for of the others is missing until their next event or refresh;
  `unlisted` keeps it and `AppliedOrOwed` excepts it.
- An event that does not decode is skipped with a warning and the cursor commits
  past it (`src/ledger.rs:454`). `AppliedOrOwed`, `NoLostRecheck` and
  `NothingMisread` speak of the others.
- The ledgers of a gap are made good by a reseed, which refreshes rows and flags
  nobody (`src/service.rs:954`): what happened in them reaches the auctioneer with
  the next full scan. `NoLostRecheck` speaks of ledgers the tracker was told of.
- A `bad_debt` call whose set-off clears the whole debt emits no event that names
  the borrower (`src/chain/xdr/events.rs:12`); its row is stale until refreshed.
- Debt given up on, because the wallet could not repay it or could not be read, is
  not looked at again until the pool's next fill or a restart, whatever comes into
  the wallet. `StaysPending` excepts it once its notice was sent or dropped.
- A price reference is refreshed by age in silence (`src/auctioneer.rs:448`): a
  price that moves by less than the threshold per refresh ends any distance from
  where it was last reported. `MoveIsFlagged` excepts exactly that; the full scan
  is what finds these borrowers.
- `NoLostRecheck` is stated of a process that was not restarted: behind a restart
  at an uncommitted tick T a flag moved to T + 1 (`src/service.rs:1738`) is the
  value an event of ledger T + 1 raises it to, and a decision made on the older
  snapshot clears both.
- A borrower named by every tick has its flag raised each time, and can tie with a
  failing lower account pass after pass; `FailedGoBehind` promises only that those
  flagged at the pass's tick or before go first.
- A row that moves between two pages of the full scan is flagged by the tick that
  moved it; one that a reseed moves is left for the next scan.
- A move whose flags the store refused is not found again by the oracle scan.
- A delivery whose answer was lost may have arrived, so an operator may see a
  notification twice.

## Not modelled

- Signing, and the XDR codecs of values and keys: pure conversions with no state.
- Fees, resource margins, priorities and labels of a transaction.
- Overflow errors of the planners (only `mul_div`'s own are checked), and views in
  which a reserve or a price is missing: every caller passes the error on.
- 128-bit values: widths and scales are small, so nothing is said of an amount
  that overflows only at its real size.
- In UnwindPlan, repays so small that the contract burns nothing for them.
- In Filler, what prices and rates do to a position by themselves: it changes when
  a submission lands.
- Wallet reads are not tied to a ledger in the code, nor here: `SpendsWhatItRead`
  speaks of the balances the last read returned.
- The filler never walks rows of unsupported assets or its own account; such rows
  are not in the instance.
- The HTTP framing and its connection limit; skips counted by the recorder; the
  watchdog in Runtime, which waits for nothing but the flag; notifications before
  the way out of a run, and in the run's instance (`LastWords`) all but those of the
  last task still there: a delivery can outlast every task that asked for one. `--check-config` does not read the seed file.
- The parsing of the pools and seed files: a configuration is given by what they
  say. Migrations, the connection pool and the encoding of rows in the store.
- Test harness and fixtures.

## What could come next

The promises of the planners for any number of assets, from a bound on the lots of
an auction and on the rates of a reserve; and the Filler over SubmissionLog itself
in place of its answers.
