------------------------------- MODULE Metrics -------------------------------
(***************************************************************************)
(* The run's one recorder (src/metrics.rs): gauges that are set and         *)
(* counters that only grow, each call under one lock, and what the filler   *)
(* and the auctioneer's loop record of an answer, call by call, while the   *)
(* diagnostics port may render in between (src/service.rs note_act,         *)
(* src/filler.rs note_recorded).                                            *)
(***************************************************************************)
EXTENDS Integers, Sequences, FiniteSets

CONSTANTS
    Pools,
    Missing,    \* a gauge that was never set
    MaxCount,   \* u64::MAX
    MaxUnits,   \* i128::MAX, an amount of oracle units
    MaxNotes    \* bound: answers that are recorded

ASSUME MetricsAssumption ==
    /\ Missing \notin Int
    /\ MaxCount \in Nat \ {0}
    /\ MaxUnits \in Nat \ {0}

VARIABLES
    inner,    \* Metrics::inner
    calls,    \* the calls each recording task still has to make
    notes     \* answers recorded so far

metricsVars == <<inner, calls, notes>>

Attempts == {"attempted", "succeeded", "failed"}
Skips == {"unsupported_assets", "unfunded", "supply_capped", "unprofitable", "health",
          "contract_error"}
Deliveries == {"queued", "deduplicated", "dropped", "failed"}

\* The label of every sample that a pool has one of, and of the others.
Counters ==
    ({"creations", "fills"} \X Attempts) \cup ({"skips"} \X Skips)
    \cup ({"notifications"} \X Deliveries) \cup ({"unwind_passes", "events"} \X {"total"})
    \cup ({"estimated"} \X {"profit", "loss"})
PoolRecord == [head |-> Missing, head_at |-> Missing, processed |-> Missing,
               heartbeat |-> Missing, users_tracked |-> Missing, auctions_open |-> Missing,
               seed_accounts_loaded |-> Missing, last_successful_scan |-> Missing]

New == [pools |-> [p \in Pools |-> PoolRecord], counts |-> [c \in Counters |-> 0],
        reserved |-> Missing]

saturating_add(x, y, limit) == IF x + y > limit THEN limit ELSE x + y
Counted(m, counter, by, limit) ==
    [m EXCEPT !.counts[counter] = saturating_add(@, by, limit)]

\* The setters of the gauges.
ledger_head_at(m, pool, sequence, at) ==
    [m EXCEPT !.pools[pool].head = sequence, !.pools[pool].head_at = at]
ledger_processed(m, pool, sequence) == [m EXCEPT !.pools[pool].processed = sequence]
heartbeat_at(m, pool, at) == [m EXCEPT !.pools[pool].heartbeat = at]
users_tracked(m, pool, n) == [m EXCEPT !.pools[pool].users_tracked = n]
auctions_open(m, pool, n) == [m EXCEPT !.pools[pool].auctions_open = n]
seed_accounts_loaded(m, pool, n) == [m EXCEPT !.pools[pool].seed_accounts_loaded = n]
scan_succeeded(m, pool, at) == [m EXCEPT !.pools[pool].last_successful_scan = at]
reserved_inventory(m, reserved) == [m EXCEPT !.reserved = reserved]

\* The counters.
creation(m, result) == Counted(m, <<"creations", result>>, 1, MaxCount)
fill(m, result) == Counted(m, <<"fills", result>>, 1, MaxCount)
skip(m, reason) == Counted(m, <<"skips", reason>>, 1, MaxCount)
events_processed(m, n) == Counted(m, <<"events", "total">>, n, MaxCount)
unwind_pass(m) == Counted(m, <<"unwind_passes", "total">>, 1, MaxCount)
notification(m, delivery) == Counted(m, <<"notifications", delivery>>, 1, MaxCount)

\* saturating_neg: the least integer has no opposite in range.
Magnitude(units) == IF -units > MaxUnits THEN MaxUnits ELSE -units
profit(m, units) ==
    IF units < 0 THEN Counted(m, <<"estimated", "loss">>, Magnitude(units), MaxUnits)
    ELSE Counted(m, <<"estimated", "profit">>, units, MaxUnits)

pool_status(m, pool) ==
    [head |-> m.pools[pool].head, head_at |-> m.pools[pool].head_at,
     processed |-> m.pools[pool].processed, heartbeat |-> m.pools[pool].heartbeat]

----------------------------------------------------------------------------
(* What is recorded of an answer.                                          *)

\* An outcome by its metric calls: unknown may still land, and counts as
\* neither.
SettledAs(submission) ==
    CASE submission = "Succeeded" -> <<"succeeded">>
      [] submission \in {"Failed", "Expired"} -> <<"failed">>
      [] submission \in {"Unknown", "none"} -> <<>>

Call(of, what) == [of |-> of, what |-> what]
CallsOf(of, results) == [i \in 1..Len(results) |-> Call(of, results[i])]

\* Faulty variant: a creation the queue dropped is only counted as failed.
note_act_FailedOnly(answer) ==
    CASE answer \in {"Succeeded", "Failed", "Expired", "Unknown", "none"}
           -> CallsOf("creations", <<"attempted">> \o SettledAs(answer))
      [] answer = "chain" -> CallsOf("creations", <<"failed">>)
      [] OTHER -> <<>>

\* A recorded creation by its submission; the queue's chain error is a
\* creation that is gone; every other answer is the caller's to log.
note_act(answer) ==
    CASE answer \in {"Succeeded", "Failed", "Expired", "Unknown", "none"}
           -> CallsOf("creations", <<"attempted">> \o SettledAs(answer))
      [] answer = "chain" -> CallsOf("creations", <<"attempted", "failed">>)
      [] OTHER -> <<>>

\* The same for a fill, with what it was estimated to earn.
note_recorded(answer, units) ==
    CASE answer = "Succeeded"
           -> CallsOf("fills", <<"attempted", "succeeded">>) \o <<Call("estimated", units)>>
      [] answer \in {"Failed", "Expired", "Unknown", "none"}
           -> CallsOf("fills", <<"attempted">> \o SettledAs(answer))
      [] answer = "chain" -> CallsOf("fills", <<"attempted", "failed">>)
      [] OTHER -> <<>>

ActAnswers == {"Succeeded", "Failed", "Expired", "Unknown", "none", "chain", "skipped", "refused"}
Recorders == {"auctioneer", "filler"}

MetricsInit ==
    /\ inner = New
    /\ calls = [r \in Recorders |-> <<>>]
    /\ notes = 0

NoteAct(answer) ==
    /\ calls["auctioneer"] = <<>>
    /\ notes < MaxNotes
    /\ calls' = [calls EXCEPT !["auctioneer"] = note_act(answer)]
    /\ notes' = notes + 1
    /\ UNCHANGED inner

NoteRecorded(answer, units) ==
    /\ calls["filler"] = <<>>
    /\ notes < MaxNotes
    /\ calls' = [calls EXCEPT !["filler"] = note_recorded(answer, units)]
    /\ notes' = notes + 1
    /\ UNCHANGED inner

Applied(m, call) ==
    CASE call.of = "creations" -> creation(m, call.what)
      [] call.of = "fills" -> fill(m, call.what)
      [] call.of = "estimated" -> profit(m, call.what)

\* One call, under the lock.
RecordCall(r) ==
    /\ calls[r] # <<>>
    /\ inner' = Applied(inner, Head(calls[r]))
    /\ calls' = [calls EXCEPT ![r] = Tail(@)]
    /\ UNCHANGED notes

\* The calls that stand alone.
RecordOther ==
    /\ notes < MaxNotes
    /\ notes' = notes + 1
    /\ \/ \E reason \in Skips : inner' = skip(inner, reason)
       \/ \E delivery \in Deliveries : inner' = notification(inner, delivery)
       \/ inner' = unwind_pass(inner)
       \/ \E n \in 1..2 : inner' = events_processed(inner, n)
       \/ \E p \in Pools, n \in 0..1 :
             inner' \in {users_tracked(inner, p, n), auctions_open(inner, p, n),
                         seed_accounts_loaded(inner, p, n), scan_succeeded(inner, p, n),
                         reserved_inventory(inner, n)}
    /\ UNCHANGED calls

MetricsNext ==
    \/ \E answer \in ActAnswers : NoteAct(answer)
    \/ \E answer \in ActAnswers, units \in {-MaxUnits - 1, -1, 1, MaxUnits} :
          NoteRecorded(answer, units)
    \/ \E r \in Recorders : RecordCall(r)
    \/ RecordOther

----------------------------------------------------------------------------

\* render: every counter has a sample; a gauge only once it was set.
GaugesShown(m) ==
    [p \in Pools |-> [g \in {g \in DOMAIN PoolRecord : m.pools[p][g] # Missing} |->
                        m.pools[p][g]]]
CountersShown(m) == m.counts
render(m) == [gauges |-> GaugesShown(m), counters |-> CountersShown(m)]

\* At any moment the port shows no more creations or fills settled than it
\* shows attempted, short of that counter's limit (service.rs, note_act; filler.rs, note_recorded).
SettledWereAttempted ==
    \A k \in {"creations", "fills"} :
        \/ inner.counts[<<k, "attempted">>] = MaxCount
        \/ inner.counts[<<k, "succeeded">>] + inner.counts[<<k, "failed">>]
              <= inner.counts[<<k, "attempted">>]

=============================================================================
