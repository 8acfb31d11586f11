--------------------------- MODULE Configuration ---------------------------
(***************************************************************************)
(* How the process starts (src/config.rs, src/main.rs, and the validations  *)
(* of src/service.rs): the environment is parsed, the service's             *)
(* configuration and the signing keys are built from it, the chain is asked *)
(* whether the bot can use what it was configured with, and one submission  *)
(* worker is spawned for every key.  Each step refuses with the first check *)
(* that fails.  `given` is the environment and the chain as they are.       *)
(***************************************************************************)
EXTENDS Integers, Sequences, FiniteSets

CONSTANTS
    Places,      \* 7: decimal places of a fixed-point knob
    TargetMin, TargetMax,   \* TARGET_HF_MIN and TARGET_HF_MAX
    ContractMin, \* CONTRACT_MIN_HEALTH
    StroopsMax,  \* u64::MAX
    Givens       \* the environments started from

VARIABLES
    given,    \* the environment, and the chain
    boot,     \* the step the start is at
    refusal,  \* the check that refused it
    workers,  \* the submission workers, by the key they sign with
    queues    \* Queues: the worker each role submits through

bootVars == <<given, boot, refusal, workers, queues>>

One == 10^Places

\* The types of what is given: knobs are unsigned, a fixed-point number keeps
\* its sign until it is checked, and the chain answers for every pool.  What a
\* power of ten is the provers have to be told.
ASSUME ConfigurationAssumption ==
    /\ Places \in Nat /\ \A n \in 0..Places : 10^(n + 1) = 10 * 10^n
    /\ One \in Nat \ {0} /\ ContractMin \in Nat
    /\ \A g \in Givens :
          /\ g.liq_hf \in Int /\ g.scan_hf \in Int /\ g.multiplier \in Int
          /\ g.knobs \in [{"tx_poll_ledgers", "database_max_connections", "poll_interval_ms",
                           "refresh_batch", "full_scan_ledgers", "oracle_scan_ledgers",
                           "price_delta_bps", "plan_iterations", "replan_ledgers",
                           "inventory_refresh_secs", "cooldown_hours",
                           "health_max_lag_ledgers"} -> Nat]
          /\ Len(g.pools) \in Nat /\ DOMAIN g.pools = 1..Len(g.pools)
          /\ \A k \in DOMAIN g.pools :
                /\ g.pools[k].min_hf \in Int
                /\ g.chain[k].max_positions \in Nat
                /\ \A a \in DOMAIN g.chain[k].reserves : g.chain[k].reserves[a].c_factor \in Nat

NoKey == "none"
Malformed == "malformed"
NoQueue == 0

Passed == "passed"

\* The first check of a sequence that fails; Passed when none does.
FirstFailing(checks) ==
    LET failing == {k \in DOMAIN checks : checks[k].fails}
    IN  IF failing = {} THEN Passed
        ELSE checks[CHOOSE k \in failing : \A j \in failing : k <= j].why
Check(fails, why) == [fails |-> fails, why |-> why]

----------------------------------------------------------------------------
(* Decimal7: the digits of a text, whole and fraction, as they are written. *)

NotANumber == -1

\* Faulty variant: the fraction is padded on the wrong side.
Padded_Left(fraction) == [k \in 1..(Places - Len(fraction)) |-> 0] \o fraction

\* {fraction:0<7}
Padded(fraction) == fraction \o [k \in 1..(Places - Len(fraction)) |-> 0]

FromDigits(digits) ==
    LET value[k \in 0..Len(digits)] == IF k = 0 THEN 0 ELSE 10 * value[k - 1] + digits[k]
    IN  value[Len(digits)]

\* from_str, for text of digits with at most one point.
from_str(text) ==
    IF text.whole = << >> \/ Len(text.fraction) > Places THEN NotANumber
    ELSE FromDigits(text.whole \o Padded(text.fraction))

----------------------------------------------------------------------------
(* Args: the knobs, each with its value parser.                            *)

\* strict_bool: nothing but the two words.
strict_bool(text) == text \in {"true", "false"}
Armed(g) == g.dry_run = "false"

\* target_health_factor and health_multiplier.
target_health_factor(value) == TargetMin <= value /\ value < TargetMax
health_multiplier(value) == value >= One

\* The ranges of the integer knobs, by the part of the bot they are for.
InRange(n, low, high) == low <= n /\ n <= high
ChainKnobs(k) == InRange(k.tx_poll_ledgers, 1, 100000)
StoreKnobs(k) ==
    InRange(k.database_max_connections, 1, 100) /\ InRange(k.poll_interval_ms, 100, 60000)
TrackerKnobs(k) == InRange(k.refresh_batch, 1, 1000) /\ k.full_scan_ledgers >= 1
AuctioneerKnobs(k) ==
    k.oracle_scan_ledgers >= 1 /\ k.price_delta_bps >= 1 /\ k.plan_iterations >= 1

FillerKnobs(k) == k.replan_ledgers >= 1 /\ k.inventory_refresh_secs >= 1
ReportKnobs(k) == k.cooldown_hours >= 1 /\ k.health_max_lag_ledgers >= 1

KnobsInRange(k) ==
    /\ ChainKnobs(k) /\ StoreKnobs(k) /\ TrackerKnobs(k)
    /\ AuctioneerKnobs(k) /\ FillerKnobs(k) /\ ReportKnobs(k)

\* network_passphrase conflicts with network, pools_file with pools_toml.
parse(g) ==
    FirstFailing(<<
        Check(~strict_bool(g.dry_run), "DRY_RUN"),
        Check(g.network = "both", "NETWORK"),
        Check(g.pools_from = "both", "POOLS_FILE"),
        Check(~KnobsInRange(g.knobs), "range"),
        Check(~target_health_factor(g.target_hf), "TARGET_HF"),
        Check(~health_multiplier(g.multiplier), "HF_SAFETY_MULTIPLIER")>>)

----------------------------------------------------------------------------
(* service_with_secrets.                                                   *)

Pair(left, right, why) == Check(left # right, why)

\* chain_with_secret.
chain_with_secret(g) ==
    <<Check(g.network = "none", "NETWORK"),
      Check(~g.rpc_url, "RPC_URL"),
      Check(g.header = "bad", "RPC_API_KEY_HEADER"),
      Pair(g.header # "none", g.api_key, "RPC_API_KEY")>>

\* parse_pools, pool by pool.
PoolChecks(pools, k) ==
    <<Check(\E j \in 1..(k - 1) : pools[j].address = pools[k].address, "duplicate pool"),
      Check(pools[k].min_primary < 0, "min_primary_collateral"),
      Check(pools[k].min_hf <= ContractMin, "min_health_factor"),
      Check(pools[k].objective \notin {"absent", "free-fill", "earliest-profitable"}, "fill_objective")>>

parse_pools(pools) ==
    FirstFailing(<<Check(pools = << >>, "no pool")>>
        \o [k \in DOMAIN pools |->
              Check(FirstFailing(PoolChecks(pools, k)) # Passed, FirstFailing(PoolChecks(pools, k)))])

\* Faulty variant: the two thresholds may be equal.
thresholds_Equal(g) == g.liq_hf > g.scan_hf

\* A relation of two knobs, which no parser of one can see.
thresholds(g) == g.liq_hf >= g.scan_hf

service_with_secrets(g) ==
    FirstFailing(
        <<Pair(g.chat_id, g.bot_token, "TELEGRAM")>>
          \o chain_with_secret(g)
          \o <<Check(~g.database_url, "DATABASE_URL"),
               Check(g.pools_from \in {"none", "unreadable"}, "POOLS_FILE"),
               Check(parse_pools(g.pools) # Passed, parse_pools(g.pools)),
               Check(thresholds(g), "LIQ_HF_THRESHOLD"),
               Check(g.fee_reserve \notin 0..StroopsMax, "XLM_FEE_RESERVE")>>)

----------------------------------------------------------------------------
(* Keys.                                                                   *)

\* Faulty variant: one key may be configured twice.
signing_keys_Twice(g) ==
    FirstFailing(<<
        Check(g.auctioneer_key = Malformed, "AUCTIONEER_SECRET_KEY"),
        Check(g.filler_key = Malformed, "FILLER_SECRET_KEY"),
        Check(Armed(g) /\ g.filler_key = NoKey, "DRY_RUN")>>)

signing_keys(g) ==
    FirstFailing(<<
        Check(g.auctioneer_key = Malformed, "AUCTIONEER_SECRET_KEY"),
        Check(g.filler_key = Malformed, "FILLER_SECRET_KEY"),
        Check(g.auctioneer_key # NoKey /\ g.auctioneer_key = g.filler_key, "same key"),
        Check(Armed(g) /\ g.filler_key = NoKey, "DRY_RUN")>>)

own_addresses(g) == {g.auctioneer_key, g.filler_key} \ {NoKey}

\* into_signers: the auctioneer falls back on the filler's key, never the
\* reverse.
into_signers(g) ==
    [filler |-> g.filler_key,
     auctioneer |-> IF g.auctioneer_key = NoKey THEN g.filler_key ELSE g.auctioneer_key]

\* Signers::shared, by pointer: the fallback, and no accident of two equal
\* keys.
shared(g) == g.auctioneer_key = NoKey /\ g.filler_key # NoKey

----------------------------------------------------------------------------
(* Validation against the chain.                                           *)

validate_primary_asset(g, k) ==
    LET reserves == g.chain[k].reserves
        asset == g.pools[k].primary
    IN  asset \in DOMAIN reserves /\ reserves[asset].enabled /\ reserves[asset].c_factor # 0

\* Names but the wildcard, which `supported` leaves out.
validate_supported_assets(g, k) == g.pools[k].supported \subseteq DOMAIN g.chain[k].reserves

validate(g) ==
    FirstFailing([k \in DOMAIN g.pools |->
        LET why == FirstFailing(<<
                Check(~g.rpc_up, "chain"),
                Check(g.chain[k].backstop # g.chain[1].backstop, "backstop"),
                Check(~validate_primary_asset(g, k), "primary asset"),
                Check(~validate_supported_assets(g, k), "supported asset"),
                Check(g.chain[k].max_positions < 2, "max_positions")>>)
        IN  Check(why # Passed, why)])

\* Without a key there is nothing to read.  Only an armed bot is refused, a dry
\* run is warned; a read that fails (`unread`) refuses either.
validate_filler(g) ==
    IF g.filler_key = NoKey THEN Passed
    ELSE FirstFailing(<<
        Check(g.unread = "account", "chain"),
        Check(Armed(g) /\ ~g.account, "no account"),
        Check(g.account /\ g.unread = "balance", "chain"),
        Check(Armed(g) /\ g.account /\ g.native < g.fee_reserve, "XLM_FEE_RESERVE"),
        Check(Armed(g) /\ g.account /\ g.unread = "position", "chain")>>)

----------------------------------------------------------------------------
(* The start.                                                              *)

BootInit ==
    /\ given \in Givens
    /\ boot = "args"
    /\ refusal = Passed
    /\ workers = << >>
    /\ queues = [auctioneer |-> NoQueue, filler |-> NoQueue]

\* One step: on to the next, or refused.
StepOn(at, why, next) ==
    /\ boot = at
    /\ refusal' = why
    /\ boot' = IF why = Passed THEN next ELSE "refused"
    /\ UNCHANGED <<given, workers, queues>>

ParseArgs == StepOn("args", parse(given), "service")
BuildService == StepOn("service", service_with_secrets(given), "keys")
BuildKeys == StepOn("keys", signing_keys(given), "store")

\* connect_store: a database that cannot be opened is configuration.
ConnectStore == StepOn("store", IF given.database_up THEN Passed ELSE "database", "validate")

ValidatePools == StepOn("validate", validate(given), "filler")
ValidateFiller ==
    StepOn("filler", validate_filler(given), IF given.mode = "loop" THEN "seed" ELSE "telegram")

\* check_config ends with the credentials of the channel.
verify_telegram ==
    StepOn("telegram", IF given.bot_token /\ ~given.token_works THEN "telegram" ELSE Passed, "checked")

\* build_seed_sources reads the seed file.
build_seed_sources == StepOn("seed", IF given.seed_file = "missing" THEN "seed file" ELSE Passed, "spawn")

SharesQueue(g) == shared(g)

\* spawn_queues: one worker for each distinct key of an armed bot.
spawn_queues ==
    /\ boot = "spawn"
    /\ boot' = "running"
    /\ LET signers == into_signers(given)
           own == signers.auctioneer # NoKey /\ ~SharesQueue(given)
           filler == IF signers.filler = NoKey THEN << >> ELSE <<signers.filler>>
           all == filler \o (IF own THEN <<signers.auctioneer>> ELSE << >>)
       IN  IF ~Armed(given) THEN UNCHANGED <<workers, queues>>
           ELSE /\ workers' = all
                /\ queues' = [filler |-> IF filler = << >> THEN NoQueue ELSE 1,
                              auctioneer |-> IF own THEN Len(all)
                                             ELSE IF filler = << >> THEN NoQueue ELSE 1]
    /\ UNCHANGED <<given, refusal>>

BootNext ==
    \/ ParseArgs \/ BuildService \/ BuildKeys \/ ConnectStore
    \/ ValidatePools \/ ValidateFiller
    \/ verify_telegram \/ build_seed_sources \/ spawn_queues

BootSpec == BootInit /\ [][BootNext]_bootVars

----------------------------------------------------------------------------
(* What a bot that runs may rely on.                                       *)

mul_ceil_one(x, y) == -((-(x * y)) \div One)

\* A configuration that runs keeps what the rest of the bot assumes: every
\* borrower at or below the liquidation threshold is one the full scan flags;
\* the filler's floor in every pool lies above the contract's own minimum;
\* the loops' cadences are not zero; every pool's primary asset can be held
\* as collateral and an auction can name two assets; all pools have one
\* backstop; and every account that signs is one the auctioneer never
\* liquidates (config.rs, service_with_secrets; service.rs, validate).
RunsSound ==
    boot = "running" =>
        LET signers == into_signers(given)
        IN  /\ \A hf \in 0..(3 * One) : hf <= given.liq_hf => hf < given.scan_hf
            /\ \A k \in DOMAIN given.pools :
                  /\ mul_ceil_one(given.pools[k].min_hf, given.multiplier) > ContractMin
                  /\ given.chain[k].reserves[given.pools[k].primary].c_factor > 0
                  /\ given.chain[k].max_positions >= 2
                  /\ \A j \in DOMAIN given.pools :
                        /\ given.chain[j].backstop = given.chain[k].backstop
                        /\ given.pools[j].address = given.pools[k].address => j = k
            /\ \A k \in DOMAIN given.knobs : given.knobs[k] # 0
            /\ \A role \in DOMAIN signers :
                  signers[role] # NoKey => signers[role] \in own_addresses(given)

\* One worker for one key: no two workers sign with the same key, every role
\* submits through the worker of its own key, an armed bot has one for its
\* filler, and a dry run has none (service.rs, spawn_queues; config.rs,
\* signing_keys, shared).
OneWorkerPerKey ==
    boot = "running" =>
        LET signers == into_signers(given)
        IN  /\ \A i, j \in DOMAIN workers : workers[i] = workers[j] => i = j
            /\ \A role \in DOMAIN queues :
                  queues[role] # NoQueue =>
                      queues[role] \in DOMAIN workers /\ workers[queues[role]] = signers[role]
            /\ Armed(given) <=> queues["filler"] # NoQueue
            /\ ~Armed(given) => workers = << >>

\* Decimal text is read exactly, or refused: the value of `1.5` is one and a
\* half, however many of the places it spells out (config.rs, from_str).
DecimalIsExact(text) ==
    LET value == from_str(text)
        digits == Len(text.fraction)
    IN  IF value = NotANumber THEN text.whole = << >> \/ digits > Places
        ELSE value * 10^digits = FromDigits(text.whole \o text.fraction) * One

\* What a start lets through is what the rest of the bot assumes: of the
\* thresholds, the pools and the chain, and of one worker for one key
\* (config.rs, service_with_secrets; service.rs, validate and spawn_queues).
StartIsSound == RunsSound /\ OneWorkerPerKey
=============================================================================
