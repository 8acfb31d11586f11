----------------------------- MODULE MCPlanning -----------------------------
(***************************************************************************)
(* The arithmetic, the planners and the start, each on an instance of its   *)
(* own: a behaviour belongs to one of them, its scope, and the others stand *)
(* still.  One is 20, a basis point a twentieth and a percent a quarter, so *)
(* that every rounding happens.                                             *)
(***************************************************************************)
EXTENDS Liquidation, Arithmetic, UnwindPlan, PriceWatch, Runtime, TLC

CONSTANTS p1, w1

VARIABLE
    scope    \* the machine this behaviour is of

Of(x, y, z) == (1 :> x @@ 2 :> y @@ 3 :> z)

Curve == [util |-> 10, r_base |-> 1, r_one |-> 2, r_two |-> 8, r_three |-> 20, reactivity |-> 2]

Reserve(b_rate, d_rate, c_factor, l_factor, b_supply, d_supply) ==
    [b_rate |-> b_rate, d_rate |-> d_rate, c_factor |-> c_factor, l_factor |-> l_factor,
     b_supply |-> b_supply, d_supply |-> d_supply, scalar |-> 10, supply_cap |-> 60,
     ir_mod |-> 20, credit |-> 0, last_time |-> 0, config |-> Curve]
Third == Reserve(20, 20, 15, 15, 30, 30)

----------------------------------------------------------------------------
(* Inputs of the pure functions.                                           *)

FixedJobs ==
    {[kind |-> "fixed", x |-> x, y |-> y, z |-> z] : x, y, z \in MinInt..MaxInt}

AccrualJobs ==
    {[kind |-> "accrual", take |-> take, now |-> 0, before |-> r, after |-> r] :
        take \in {0, 7, 20},
        r \in {[Reserve(b, d, 15, 15, bs, ds) EXCEPT !.ir_mod = m] :
                  b \in {20, 23}, d \in {20, 27}, bs \in {0, 7, 30}, ds \in {0, 1, 7, 19, 40},
                  m \in {2, 20, 200}}}

AuctionJobs ==
    {[kind |-> "auction", block |-> 3 + d, percent |-> q,
      auction |-> [block |-> 3, bid |-> Of(x, 0, 0), lot |-> Of(1, y, 0)]] :
        d \in 0..(RampEnd + 1), q \in 1..(WholePercent - 1), x \in 0..11, y \in 0..11}

DefaultJobs ==
    {[kind |-> "default", owed |-> d, claim |-> c, reserve |-> Reserve(b, e, 15, 15, bs, 30)] :
        d \in 1..9, c \in 0..7, b \in {0, 17, 20, 23}, e \in {20, 27}, bs \in {7, 8, 11, 30}}

LiquidationJobs ==
    {[kind |-> "liquidation", target |-> t, cap |-> c, reserves |-> r, prices |-> Of(10, p, 10),
      position |-> [NoPosition EXCEPT !.collateral = Of(x, y, 0), !.liabilities = Of(v, w, 0)]] :
        t \in {21, 24}, c \in {2, 3, 8}, p \in {3, 10},
        x \in {0, 5, 12}, y \in {0, 4, 13}, v \in {0, 3, 8, 21}, w \in {0, 2, 13},
        r \in {Of(Reserve(20, 20, c1, 18, 30, 30), Reserve(23, 27, 15, l2, 30, 30), Third) :
                 c1 \in {0, 18}, l2 \in {10, 20}}}

DelayJobs == {[kind |-> "delay", lot |-> l, bid |-> b, bps |-> m] :
                l \in 0..12, b \in 0..12, m \in {0, 1, 5}}

HeadroomJobs == {[kind |-> "headroom", wanted |-> w, reserve |-> Reserve(b, 20, 15, 15, s, 30)] :
                   w \in 0..30, b \in {3, 17, 20, 41}, s \in {0, 29, 49, 60}}

\* 1.05, 0.5, 12., .5 and the like.
DecimalJobs ==
    {[kind |-> "decimal", text |-> [whole |-> w, fraction |-> f]] :
        w \in {<< >>, <<0>>, <<1>>, <<1, 2>>},
        f \in {<< >>, <<0>>, <<5>>, <<0, 5>>, <<5, 0>>, <<9, 9>>, <<0, 0, 1>>}}

MCJobs == FixedJobs \cup AccrualJobs \cup AuctionJobs \cup DefaultJobs
            \cup DelayJobs \cup HeadroomJobs \cup DecimalJobs

----------------------------------------------------------------------------
(* Inputs of the planners.                                                 *)

FillTerms ==
    {[max_percent |-> q, supply_allowed |-> s[1], max_positions |-> s[2], min_collateral |-> c,
      earliest |-> e, force |-> m = "force", free |-> m = "free", floor |-> 22,
      supported_bid |-> {Wildcard}, supported_lot |-> {1}, default_profit_bps |-> 2,
      profits |-> <<[profit_bps |-> 1, supported_bid |-> {1}, supported_lot |-> {1}],
                    [profit_bps |-> 3, supported_bid |-> {1, 2}, supported_lot |-> {Wildcard}]>>] :
        q \in {2, 4}, s \in {<<TRUE, 4>>, <<FALSE, 4>>, <<TRUE, 2>>}, c \in {0, 8},
        e \in {0, 8}, m \in {"margin", "force", "free"}}

\* A borrower whose collateral is auctioned whole, against a part of the debt
\* when x is not zero; the filler may hold the asset the default cuts.
FillStates ==
    {[auction |-> [block |-> 2, bid |-> Of(0, b, 0), lot |-> Of(l, 0, 0)],
      borrower |-> [collateral |-> Of(l, 0, 0), liabilities |-> Of(0, b + x, 0),
                    supply |-> Of(0, 1, 0)],
      filler |-> [collateral |-> Of(0, h, 0), liabilities |-> Of(o, 0, 0), supply |-> Nothing],
      wallet |-> Of(w, v, 0), primary |-> p, oracle |-> 20, prices |-> Of(10, 9, 10),
      reserves |-> Of(Reserve(20, 20, 18, 18, 30, 30), Reserve(23, 27, 15, 16, s, 30), Third)] :
        b \in {4, 9}, l \in {6, 14}, x \in {0, 6}, h \in {0, 12}, o \in {0, 5},
        w \in {20}, v \in {0, 3, 16}, p \in {1, 2}, s \in {49}}

MCCases == {t @@ s : t \in FillTerms, s \in FillStates}

MCUnwindCases ==
    {[reserves |-> Of(Reserve(r, 20, 18, 18, 30, 30), Reserve(23, 27, 15, 16, 30, 30),
                      Reserve(20, 20, f, 16, 30, 30)),
      prices |-> Of(10, 9, 11), oracle |-> 20, primary |-> 1, drift |-> 1,
      min_primary |-> m, min_hf |-> 22, min_collateral |-> c,
      wallet |-> Of(0, w, v),
      position |-> [NoPosition EXCEPT !.collateral = Of(x, y, z), !.liabilities = Of(0, d, e)]] :
        r \in {20, 23, 37}, f \in {0, 14}, m \in {0, 7, 12}, c \in {0, 9},
        w \in {0, 5, 40}, v \in {0, 3, 30},
        x \in {0, 9, 31}, y \in {0, 6}, z \in {0, 17}, d \in {0, 6}, e \in {0, 3}}

MCPriced == <<"x">>
MCPrices == 8..12

----------------------------------------------------------------------------
(* Environments to start in: one good one, and what may be wrong with it,   *)
(* group by group.                                                         *)

GoodKnobs ==
    [tx_poll_ledgers |-> 3, database_max_connections |-> 10, poll_interval_ms |-> 1000,
     refresh_batch |-> 20, full_scan_ledgers |-> 1200, oracle_scan_ledgers |-> 60,
     price_delta_bps |-> 250, plan_iterations |-> 5, replan_ledgers |-> 10,
     inventory_refresh_secs |-> 30, cooldown_hours |-> 24, health_max_lag_ledgers |-> 10]

APool(address, primary) ==
    [address |-> address, primary |-> primary, min_primary |-> 0, min_hf |-> 120,
     objective |-> "absent", supported |-> {1}]
OnChain == [backstop |-> "B", max_positions |-> 2,
            reserves |-> (1 :> [enabled |-> TRUE, c_factor |-> 9] @@ 2 :> [enabled |-> TRUE, c_factor |-> 0]
                            @@ 3 :> [enabled |-> FALSE, c_factor |-> 9])]

Good ==
    [dry_run |-> "false", knobs |-> GoodKnobs, target_hf |-> 106, multiplier |-> 110,
     scan_hf |-> 120, liq_hf |-> 99, network |-> "name", pools_from |-> "file",
     chat_id |-> TRUE, bot_token |-> TRUE, rpc_url |-> TRUE, header |-> "none", api_key |-> FALSE,
     database_url |-> TRUE, pools |-> <<APool("P", 1), APool("Q", 1)>>,
     auctioneer_key |-> "A", filler_key |-> "F", mode |-> "loop",
     database_up |-> TRUE, rpc_up |-> TRUE, chain |-> <<OnChain, OnChain>>,
     account |-> TRUE, native |-> 5, fee_reserve |-> 5, unread |-> "none", token_works |-> TRUE,
     seed_file |-> "none"]

Secrets ==
    {[Good EXCEPT !.chat_id = c, !.bot_token = t, !.network = n, !.rpc_url = u, !.header = h,
                  !.api_key = k, !.database_url = d, !.pools_from = f] :
        c, t, u, k, d \in BOOLEAN, n \in {"none", "name", "both"}, h \in {"none", "good", "bad"},
        f \in {"none", "file", "both", "unreadable"}}
Knobs ==
    {[Good EXCEPT !.knobs[k] = n] : k \in DOMAIN GoodKnobs, n \in {0, 1, 100, 200000}}
Thresholds ==
    {[Good EXCEPT !.target_hf = t, !.multiplier = m, !.scan_hf = s, !.liq_hf = l,
                  !.pools = <<[APool("P", 1) EXCEPT !.min_hf = h]>>] :
        t \in {0, 102, 103, 114, 115}, m \in 99..101, s \in 99..101, l \in 98..101,
        h \in 99..101}
Signers ==
    {[Good EXCEPT !.dry_run = d, !.auctioneer_key = a, !.filler_key = f, !.account = e, !.native = n,
                  !.unread = r, !.mode = m] :
        d \in {"true", "false", "yes"}, a, f \in {NoKey, Malformed, "A", "F"}, e \in BOOLEAN,
        n \in {4, 5}, r \in {"none", "account", "balance", "position"}, m \in {"loop", "check-config"}}
Chains ==
    {[Good EXCEPT !.pools = <<[APool("P", 1) EXCEPT !.min_primary = c, !.objective = o],
                              [APool(q, p) EXCEPT !.supported = s]>>,
                  !.chain = <<OnChain, [OnChain EXCEPT !.backstop = b, !.max_positions = n]>>,
                  !.rpc_up = u] :
        c \in {-1, 0}, o \in {"absent", "free-fill", "other"}, p \in 1..4, s \in {{1, 3}, {4}},
        q \in {"P", "Q"}, b \in {"B", "C"}, n \in 1..2, u \in BOOLEAN}
Services ==
    {[Good EXCEPT !.mode = m, !.database_up = d, !.token_works = t, !.seed_file = s,
                  !.fee_reserve = r, !.pools = ps] :
        m \in {"loop", "check-config"}, d, t \in BOOLEAN, s \in {"none", "good", "missing"},
        r \in {5, 101}, ps \in {<< >>, Good.pools}}

MCGivens == Secrets \cup Knobs \cup Thresholds \cup Signers \cup Chains \cup Services

----------------------------------------------------------------------------
(* The run: one pool, one key for both roles and one notification, of the    *)
(* last task to run; the watchdog, which waits for nothing but the flag, is   *)
(* left out.                                                                 *)

MCPollers == {p1}
MCBystanders == {"http"}
MCWorkers == {w1}
MCQueueOf == [d \in Deciders |-> w1]

----------------------------------------------------------------------------
(* One machine at a time.                                                  *)

JobIdle == job = [kind |-> "none"]
FillIdle ==
    /\ in = [kind |-> "none"] /\ round = 0 /\ supplied = 0
    /\ unfunded = FALSE /\ capped = FALSE /\ answer = Planning
UnwindIdle ==
    /\ unwind = [kind |-> "none"] /\ unwindPc = "idle" /\ working = NoPosition
    /\ repaid = Nothing /\ taken = << >> /\ order = << >> /\ backedOff = FALSE
WatchIdle == price = [a \in Assets |-> 10] /\ WatchInit
BootIdle ==
    /\ given = [kind |-> "none"] /\ boot = "idle" /\ refusal = Passed
    /\ workers = << >> /\ queues = << >>

\* A run that has ended: there is nothing left for it to do.
RunOver ==
    /\ task = [t \in Tasks |-> "gone"] /\ doing = [t \in Tasks |-> Free]
    /\ shutdown = TRUE /\ signals = 2 /\ joined = {} /\ failure = None
    /\ panicked = FALSE /\ phase = "exited" /\ code = 130
    /\ faults = [panics |-> 0, errors |-> 0] /\ left = {} /\ NotifierInit

Planners ==
    \/ /\ \/ scope = "job" /\ JobInit
          \/ scope = "liquidation" /\ job \in LiquidationJobs
       /\ FillIdle /\ UnwindIdle /\ WatchIdle /\ BootIdle
    \/ /\ scope = "fill" /\ PlanInit
       /\ JobIdle /\ UnwindIdle /\ WatchIdle /\ BootIdle
    \/ /\ scope = "unwind" /\ UnwindInit
       /\ JobIdle /\ FillIdle /\ WatchIdle /\ BootIdle
    \/ /\ scope = "watch" /\ WatchInit
       /\ JobIdle /\ FillIdle /\ UnwindIdle /\ BootIdle
    \/ /\ scope = "boot" /\ BootInit
       /\ JobIdle /\ FillIdle /\ UnwindIdle /\ WatchIdle

PlannerVars == <<job, planning, unwinding, watchVars, bootVars>>

Plans ==
    \/ /\ scope = "job" /\ AccrueStep
       /\ UNCHANGED <<planning, unwinding, watchVars, bootVars>>
    \/ /\ scope = "fill" /\ PlanNext
       /\ UNCHANGED <<job, unwinding, watchVars, bootVars>>
    \/ /\ scope = "unwind" /\ UnwindNext
       /\ UNCHANGED <<job, planning, watchVars, bootVars>>
    \/ /\ scope = "watch" /\ WatchNext
       /\ UNCHANGED <<job, planning, unwinding, bootVars>>
    \/ /\ scope = "boot" /\ BootNext
       /\ UNCHANGED <<job, planning, unwinding, watchVars>>

Init ==
    \/ Planners /\ RunOver
    \/ /\ scope = "run" /\ Started
       /\ JobIdle /\ FillIdle /\ UnwindIdle /\ WatchIdle /\ BootIdle

Next ==
    /\ UNCHANGED scope
    /\ \/ Plans /\ UNCHANGED allRunVars
       \/ scope = "run" /\ RunNext /\ UNCHANGED PlannerVars

MCSpec == Init /\ [][Next]_<<scope, PlannerVars, allRunVars>> /\ RunFairness

----------------------------------------------------------------------------
(* The promise of a planner that takes one step.                           *)

\* A liquidation plan is one the contract can take (math/liquidation.rs,
\* plan_liquidation).
PlanIsTakeable ==
    job.kind = "liquidation" =>
        PlannedAuctionFits(job.reserves, job.prices, job.position, job.target, job.cap)
=============================================================================
