------------------------------- MODULE Health -------------------------------
(***************************************************************************)
(* How the run says whether it is well: the heartbeat of a pool's poller    *)
(* through its seed, its passes and its backoff (src/ledger.rs, run and     *)
(* heartbeat_while), what /livez and /healthz make of it (src/http.rs,      *)
(* liveness and readiness) and the watchdog (src/service.rs).  A unit of    *)
(* time is one poll_interval; timers fire up to Slack late; a ledger takes  *)
(* at least a unit to close.                                                *)
(***************************************************************************)
EXTENDS Metrics

CONSTANTS
    ThisPool,           \* the pool
    LIVENESS_INTERVALS,
    RPC_FAILING_AFTER,
    MaxBackoff,         \* max_backoff; min_backoff is one unit
    max_lag_ledgers,
    ReplicaLag,         \* bound: how far an RPC node answers behind the chain
    Slack,              \* bound: how late a timer fires
    MaxTicks            \* bound: time

ASSUME HealthAssumption ==
    /\ ThisPool \in Pools
    /\ LIVENESS_INTERVALS \in Nat /\ RPC_FAILING_AFTER \in Nat \ {0}
    /\ MaxBackoff \in Nat \ {0} /\ max_lag_ledgers \in Nat /\ ReplicaLag \in Nat
    /\ Slack \in Nat /\ 1 + 2 * Slack <= LIVENESS_INTERVALS

VARIABLES
    tick,      \* the monotonic clock
    chain,     \* the ledger the network is at
    cursor,    \* the pool's events cursor in the store
    poller,    \* where the pool's task is, and its next timer
    backoff,
    failures,  \* consecutive failed passes
    told,      \* history: RpcFailing notifications of this streak
    reported   \* watchdog: pools it has called stalled

clocks == <<tick, chain, cursor, poller, backoff, failures, told, reported>>

Interval == 1

\* Faulty variant: the backoff's sleep is not budgeted for.
liveness_deadline_Short == Interval * LIVENESS_INTERVALS

liveness_deadline == Interval * LIVENESS_INTERVALS + MaxBackoff

\* "seeding": seed_pools_needing_it, before the pollers are spawned.
HealthInit ==
    /\ tick = 0
    /\ chain = ReplicaLag + 1
    /\ cursor \in {Missing, chain}
    /\ poller = [at |-> "seeding", due |-> 0]
    /\ backoff = Interval
    /\ failures = 0
    /\ told = 0
    /\ reported = FALSE
    /\ inner = New

Live == poller.at # "dead"
Stamped(m) == heartbeat_at(m, ThisPool, tick)

\* heartbeat_while: the interval fires at once, and every interval after.
heartbeat_while ==
    /\ poller.at \in {"seeding", "reading", "applying"}
    /\ tick >= poller.due
    /\ poller' = [poller EXCEPT !.due = @ + Interval]
    /\ inner' = Stamped(inner)
    /\ UNCHANGED <<tick, chain, cursor, backoff, failures, told, reported>>

\* A complete seed commits the ledger it read.
SeedEnds ==
    /\ poller.at = "seeding"
    /\ poller' = [at |-> "top", due |-> tick]
    /\ cursor' \in {cursor, chain}
    /\ UNCHANGED <<tick, chain, backoff, failures, told, reported, inner>>

\* The top of the loop, and the pass begins.
PassBegins ==
    /\ \/ poller.at = "top"
       \/ poller.at = "sleeping" /\ tick >= poller.due
    /\ poller' = [at |-> "reading", due |-> tick]
    /\ inner' = Stamped(inner)
    /\ UNCHANGED <<tick, chain, cursor, backoff, failures, told, reported>>

PassFails ==
    /\ failures' = failures + 1
    /\ poller' = [at |-> "sleeping", due |-> tick + backoff]
    /\ backoff' = IF backoff * 2 > MaxBackoff THEN MaxBackoff ELSE backoff * 2

PassSucceeds ==
    /\ failures' = 0
    /\ told' = 0
    /\ backoff' = Interval
    /\ poller' = [at |-> "sleeping", due |-> tick + Interval]

\* Faulty variant: every failed pass past the threshold is told.
report_rpc_failing_Again == told' = IF failures' >= RPC_FAILING_AFTER THEN told + 1 ELSE told

report_rpc_failing == told' = IF failures' = RPC_FAILING_AFTER THEN told + 1 ELSE told

\* The stored cursor decides, which the gauge runs ahead of when it cannot be
\* written.
Unprocessed(sequence) == IF cursor = Missing THEN TRUE ELSE sequence > cursor

\* poll_once up to the head, which is recorded whatever the pass then does;
\* a node may answer from behind the chain, and behind what is processed.
ReadHead(sequence) ==
    /\ poller.at = "reading"
    /\ inner' = ledger_head_at(inner, ThisPool, sequence, tick)
    /\ \/ ~Unprocessed(sequence) /\ PassSucceeds
       \/ /\ Unprocessed(sequence)
          /\ poller' = [poller EXCEPT !.at = "applying"]
          /\ UNCHANGED <<backoff, failures, told>>
    /\ UNCHANGED <<tick, chain, cursor, reported>>

\* The events and the tick up to that head, and the tracker's answer: applied,
\* and then the cursor is written or not; or not applied (an undrained page
\* ends the pass without a failure).
ApplyEnds(how) ==
    /\ poller.at = "applying"
    /\ LET head == inner.pools[ThisPool].head
       IN  /\ inner' = IF how \in {"applied", "unsaved"} THEN ledger_processed(inner, ThisPool, head) ELSE inner
           /\ cursor' = IF how = "applied" THEN head ELSE cursor
    /\ \/ how \in {"applied", "undrained"} /\ PassSucceeds
       \/ how \in {"unsaved", "failed"} /\ PassFails /\ report_rpc_failing
    /\ UNCHANGED <<tick, chain, reported>>

\* A call times out or is refused.
ReadFails ==
    /\ poller.at = "reading"
    /\ PassFails
    /\ report_rpc_failing
    /\ UNCHANGED <<tick, chain, cursor, reported, inner>>

\* The task panics, or stands still for ever.
PollerDies ==
    /\ Live
    /\ poller' = [at |-> "dead", due |-> 0]
    /\ UNCHANGED <<tick, chain, cursor, backoff, failures, told, reported, inner>>

\* One look of watchdog_loop: no heartbeat at all is no stall.
Watchdog ==
    /\ LET last == pool_status(inner, ThisPool).heartbeat
       IN  reported' = (last # Missing /\ tick - last > liveness_deadline)
    /\ UNCHANGED <<tick, chain, cursor, poller, backoff, failures, told, inner>>

\* Time passes, though never further past a timer of a live task than Slack.
TimePassesBy ==
    /\ tick < MaxTicks
    /\ Live => tick < poller.due + Slack
    /\ tick' = tick + 1
    /\ chain' \in {chain, chain + 1}
    /\ UNCHANGED <<cursor, poller, backoff, failures, told, reported, inner>>

HealthNext ==
    \/ heartbeat_while
    \/ SeedEnds
    \/ PassBegins
    \/ \E sequence \in (chain - ReplicaLag)..chain : ReadHead(sequence)
    \/ ReadFails
    \/ \E how \in {"applied", "unsaved", "undrained", "failed"} : ApplyEnds(how)
    \/ PollerDies
    \/ Watchdog
    \/ TimePassesBy

\* The poller and the tasks that record what they did share the recorder.
HealthSpec ==
    /\ HealthInit /\ MetricsInit
    /\ [][\/ HealthNext /\ UNCHANGED <<calls, notes>>
          \/ MetricsNext /\ UNCHANGED clocks]_<<clocks, metricsVars>>

----------------------------------------------------------------------------
(* The probes.                                                             *)

\* /livez; HttpState::started is the beginning of the seed, tick 0.
liveness ==
    LET at == pool_status(inner, ThisPool).heartbeat
    IN  tick - (IF at = Missing THEN 0 ELSE at) <= liveness_deadline

\* Faulty variant: only the two gauges are compared.
readiness_Ageless(ping) ==
    LET status == pool_status(inner, ThisPool)
    IN  /\ status.processed # Missing
        /\ status.head # Missing
        /\ status.processed - status.head <= max_lag_ledgers
        /\ status.head - status.processed <= max_lag_ledgers
        /\ ping

\* /healthz, with the store's answer to its ping.
readiness(ping) ==
    LET status == pool_status(inner, ThisPool)
    IN  /\ status.processed # Missing
        /\ status.head # Missing
        /\ tick - status.head_at <= liveness_deadline
        /\ status.processed - status.head <= max_lag_ledgers
        /\ status.head - status.processed <= max_lag_ledgers
        /\ ping

\* No poller that is still turning is called stalled by /livez or by the
\* watchdog: not while it seeds, not in a long pass, not in an RPC outage with
\* its longest backoff (ledger.rs, liveness_deadline; http.rs, liveness;
\* service.rs, watchdog_loop).
LiveIsNotStalled == Live => liveness /\ ~reported

\* /healthz answers ok only near the chain's head, over an outage too: the
\* lag is bounded by the limit, what closes within the deadline and the
\* node's own lag (http.rs, readiness).
ReadyIsNearHead ==
    readiness(TRUE) =>
        chain - inner.pools[ThisPool].processed
            <= max_lag_ledgers + liveness_deadline + ReplicaLag

\* A streak of failures is told once, from its threshold on (ledger.rs, run).
OneTellPerStreak == told = IF failures >= RPC_FAILING_AFTER THEN 1 ELSE 0

\* What the run says of itself is so: a live poller is not called stalled, a
\* blind one not ready, a streak of failures is told once, and nothing is
\* shown settled that is not shown attempted (http.rs, liveness and readiness;
\* ledger.rs, run; metrics.rs, render).
TellsTruth ==
    LiveIsNotStalled /\ ReadyIsNearHead /\ OneTellPerStreak /\ SettledWereAttempted
=============================================================================
