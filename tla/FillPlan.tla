------------------------------ MODULE FillPlan ------------------------------
(***************************************************************************)
(* The filler's plan (src/math/fill.rs): the ledger and the percent to fill *)
(* an auction at, and the requests around it that keep the filler's own     *)
(* position at its floor.  plan_fill's rounds are the steps of the machine; *)
(* Submit is the contract executing the plan, from the ledger state it was  *)
(* planned against.                                                         *)
(***************************************************************************)
EXTENDS PoolMath

CONSTANTS
    Bps,             \* BPS: basis points in one
    PlanRounds,      \* PLAN_ITERATIONS
    ForceFillDelay,  \* FORCE_FILL_MAX_DELAY
    Cases            \* the auctions, wallets, positions and terms planned for

ASSUME FillPlanAssumption ==
    /\ Bps \in Nat \ {0}
    /\ PlanRounds \in Nat \ {0}
    /\ ForceFillDelay \in RampBlocks..RampEnd

VARIABLES
    in,        \* FillInputs and FillTerms
    round,     \* rounds taken
    supplied,  \* supply: the primary asset to supply
    unfunded,  \* the wallet capped a supply
    capped,    \* the supply cap did
    answer     \* PlannedFill, or Planning

planning == <<in, round, supplied, unfunded, capped, answer>>

Planning == [kind |-> "planning"]
Skip(reason) == [kind |-> "skip", reason |-> reason]

----------------------------------------------------------------------------
(* The pool's own rules.                                                   *)

\* "*"
Wildcard == -1
covers(list, assets) == Wildcard \in list \/ assets \subseteq list

Named(amounts) == {a \in Listed : amounts[a] # 0}

supports(i) == /\ covers(i.supported_bid, Named(i.auction.bid))
               /\ covers(i.supported_lot, Named(i.auction.lot))

\* The first rule that covers the auction, else the default.
profit_bps(i) ==
    LET matches == {k \in DOMAIN i.profits :
                      /\ covers(i.profits[k].supported_bid, Named(i.auction.bid))
                      /\ covers(i.profits[k].supported_lot, Named(i.auction.lot))}
    IN  IF matches = {} THEN i.default_profit_bps ELSE i.profits[Min(matches)].profit_bps

----------------------------------------------------------------------------
(* The ledger to aim at.                                                   *)

meets_margin(delay, lot, bid, bps) ==
    lot * lot_modifier(delay) * Bps >= bid * bid_modifier(delay) * (Bps + bps)

\* Faulty variant: the first ledger is rounded down.
fill_delay_Early(lot, bid, bps, force) ==
    LET margin == Bps + bps
        delay == IF bid = 0 THEN 0
                 ELSE IF lot = 0 THEN RampEnd
                 ELSE IF lot * Bps >= bid * margin
                   THEN mul_floor(bid, RampBlocks * margin, lot * Bps)
                 ELSE RampEnd - mul_floor(lot, RampBlocks * Bps, bid * margin)
    IN  IF force THEN Min({delay, ForceFillDelay}) ELSE delay

\* The closed form: on the lot's ramp when the whole lot covers the bid and
\* its margin, else on the bid's.
fill_delay(lot, bid, bps, force) ==
    LET margin == Bps + bps
        delay == IF bid = 0 THEN 0
                 ELSE IF lot = 0 THEN RampEnd
                 ELSE IF lot * Bps >= bid * margin
                   THEN mul_ceil(bid, RampBlocks * margin, lot * Bps)
                 ELSE RampEnd - mul_floor(lot, RampBlocks * Bps, bid * margin)
    IN  IF force THEN Min({delay, ForceFillDelay}) ELSE delay

\* auction_positions, valued.
AuctionValue(i, auction) ==
    calculate_position_data(i.reserves, i.prices,
        [NoPosition EXCEPT !.collateral = auction.lot, !.liabilities = auction.bid])

Earliest(i) == Max({i.earliest, i.auction.block})

\* The objective's ledger, capped by force_fill, and not before the first
\* ledger a transaction could land in.
Target(i) ==
    LET value == AuctionValue(i, i.auction)
        delay == IF i.free THEN RampEnd
                 ELSE fill_delay(value.collateral_raw, value.liability_raw, profit_bps(i), i.force)
    IN  Max({i.auction.block + (IF i.force THEN Min({delay, ForceFillDelay}) ELSE delay),
             Earliest(i)})

\* The last ledger a search may look at.
LastLedger(i) ==
    Max({i.auction.block + (IF i.force THEN ForceFillDelay ELSE RampEnd), Target(i)})

----------------------------------------------------------------------------
(* One candidate, projected.                                               *)

\* Faulty variant: the reserves as read, default or not.
defaulted_reserves_AsRead(i, filled) == i.reserves

\* A full fill runs the default path over what it leaves the borrower.
defaulted_reserves(i, filled) ==
    LET left(held, taken) == [a \in Listed |-> Max({0, held[a] - taken[a]})]
    IN  project_default(i.reserves, i.prices,
            [i.borrower EXCEPT !.collateral = left(@, filled.lot),
                               !.liabilities = left(@, filled.bid)])

\* The repay of each bid asset the wallet holds: what is owed, a basis point
\* of it and one unit.
Repays(i, filled) ==
    [a \in Listed |->
        LET owed == to_asset_from_d_token(i.reserves[a], filled.bid[a])
        IN  IF filled.bid[a] = 0 THEN 0
            ELSE Min({owed + mul_floor(owed, 1, Bps) + 1, i.wallet[a]})]

\* What a repay leaves owing: the contract refunds the rest.
OwingAfter(r, owing, amount) == owing - Min({to_d_token_down(r, amount), owing})

project(i, ledger, percent, supply) ==
    LET scaled == scale_auction(i.auction, ledger, percent)
        filled == scaled.to_fill
        repays == Repays(i, filled)
        available == i.wallet[i.primary] - repays[i.primary]
        supplies == Min({supply, available})
        minted == IF supplies > 0 THEN to_b_token_down(i.reserves[i.primary], supplies) ELSE 0
        after == [i.filler EXCEPT
            !.collateral = [a \in Listed |->
                (IF filled.lot[a] # 0 /\ i.reserves[a].c_factor = 0 THEN 0
                 ELSE @[a] + filled.lot[a])
                  + (IF a = i.primary THEN minted ELSE 0)],
            !.liabilities = [a \in Listed |->
                OwingAfter(i.reserves[a], @[a] + filled.bid[a], repays[a])]]
        reserves == IF IsClosed(scaled.remaining) THEN defaulted_reserves(i, filled) ELSE i.reserves
    IN  [filled |-> filled,
         full |-> IsClosed(scaled.remaining),
         after |-> after,
         repays |-> repays,
         supplies |-> IF minted > 0 THEN supplies ELSE 0,
         available |-> available,
         data |-> calculate_position_data(reserves, i.prices, after)]

\* No liabilities, or at the floor with the least collateral.
healthy(i, p) ==
    \/ p.after.liabilities = Nothing
    \/ /\ ~is_hf_under(p.data, i.oracle, i.floor)
       /\ p.data.collateral_base >= i.min_collateral

over_positions(i, p) ==
    /\ effective_count(p.after) > effective_count(i.filler)
    /\ effective_count(p.after) > i.max_positions

\* The primary that would close the shortfall, by the factor and the price.
supply_for(i, data) ==
    LET r == i.reserves[i.primary]
        wanted == Max({mul_ceil(data.liability_base, i.floor, Scalar7), i.min_collateral})
        shortfall == Max({0, wanted - data.collateral_base})
    IN  IF shortfall = 0 \/ r.c_factor = 0 THEN 0
        ELSE div_ceil(mul_ceil(shortfall, r.scalar, i.prices[i.primary]), r.c_factor, Scalar7) + 2

FitsCap(r, amount) ==
    to_asset_from_b_token(r, r.b_supply + to_b_token_down(r, amount)) <= r.supply_cap

\* Faulty variant: the midpoint is rounded down, and low may not move.
midpoint_Down(low, high) == low + ((high - low) \div 2)

midpoint(low, high) == low + ((high - low) \div 2) + ((high - low) % 2)

\* The binary search for the largest amount the cap has room for.
supply_headroom(r, wanted) ==
    LET search[range \in (0..wanted) \X (0..wanted)] ==
            LET low == range[1]
                high == range[2]
                mid == midpoint(low, high)
            IN  IF low >= high THEN low
                ELSE IF FitsCap(r, mid)
                  THEN (IF mid = low THEN low ELSE search[<<mid, high>>])
                ELSE search[<<low, mid - 1>>]
    IN  IF wanted <= 0 THEN 0
        ELSE IF FitsCap(r, wanted) THEN wanted
        ELSE search[<<0, wanted>>]

----------------------------------------------------------------------------
(* The plan.                                                               *)

\* settle: the two refusals judged on the finished fill, else the draft.
settle(i, ledger, percent, p) ==
    LET value == AuctionValue(i, p.filled)
        profit == value.collateral_raw - value.liability_raw
    IN  IF over_positions(i, p) THEN Skip("TooManyPositions")
        ELSE IF ~i.force /\ profit <= 0 THEN Skip("Unprofitable")
        ELSE [kind |-> "fill", ledger |-> ledger, percent |-> percent,
              repays |-> p.repays, supplies |-> p.supplies, profit |-> profit]

\* The percents below the whole, and the later ledgers, that project healthy.
HealthyPercents(i, supply) ==
    {q \in 1..(i.max_percent - 1) : healthy(i, project(i, Target(i), q, supply))}
HealthyLedgers(i, supply) ==
    {l \in (Target(i) + 1)..LastLedger(i) : healthy(i, project(i, l, i.max_percent, supply))}

PlanInit ==
    /\ in \in Cases
    /\ supports(in)
    /\ round = 0
    /\ supplied = 0
    /\ unfunded = FALSE /\ capped = FALSE
    /\ answer = IF AuctionValue(in, in.auction).collateral_raw = 0
                  THEN Skip("Unprofitable") ELSE Planning

OutOfRounds ==
    IF capped' THEN Skip("SupplyCapped")
    ELSE IF unfunded' THEN Skip("Unfunded") ELSE Skip("Health")

\* Less of it at that ledger, or all of it at a later one.
Otherwise(i, at, lower, later, supply) ==
    IF lower # {} THEN settle(i, at, Max(lower), project(i, at, Max(lower), supply))
    ELSE IF later # {}
      THEN settle(i, Min(later), i.max_percent, project(i, Min(later), i.max_percent, supply))
    ELSE OutOfRounds

\* One round: project; fill, supply more, fill less, fill later, or give up.
PlanRound ==
    /\ answer = Planning
    /\ round < PlanRounds
    /\ \E at \in {Target(in)} : \E p \in {project(in, at, in.max_percent, supplied)} :
       \E wanted \in {supplied + supply_for(in, p.data)} :
       \E room \in {supply_headroom(in.reserves[in.primary], wanted)} :
       LET next == Min({wanted, p.available, room})
           sound == ~over_positions(in, p)
           short == sound /\ ~healthy(in, p)
           more == short /\ in.supply_allowed /\ next > supplied
       IN  /\ unfunded' = (unfunded \/ (short /\ in.supply_allowed /\ wanted > p.available))
           /\ capped' = (capped \/ (short /\ in.supply_allowed /\ wanted > room /\ room < p.available))
           /\ supplied' = IF more THEN next ELSE supplied
           /\ answer' = IF ~sound THEN Skip("TooManyPositions")
                        ELSE IF ~short THEN settle(in, at, in.max_percent, p)
                        ELSE IF more THEN Planning
                        ELSE Otherwise(in, at, HealthyPercents(in, supplied),
                                       HealthyLedgers(in, supplied), supplied)
    /\ round' = round + 1
    /\ UNCHANGED in

GiveUp ==
    /\ answer = Planning
    /\ round = PlanRounds
    /\ UNCHANGED <<in, round, supplied, unfunded, capped>>
    /\ answer' = OutOfRounds

PlanNext == PlanRound \/ GiveUp

PlanSpec == PlanInit /\ [][PlanNext]_planning

----------------------------------------------------------------------------
(* What the plan promises.                                                 *)

\* The contract, executing the requests: the fill, with the default path
\* inside it when it closes the auction; then the repays, the withdrawals
\* and the supply, at the rates that path left; then the health check.
Submit(i, draft) ==
    LET scaled == scale_auction(i.auction, draft.ledger, draft.percent)
        filled == scaled.to_fill
        left(held, taken) == [a \in Listed |-> Max({0, held[a] - taken[a]})]
        reserves == IF IsClosed(scaled.remaining)
                      THEN project_default(i.reserves, i.prices,
                             [i.borrower EXCEPT !.collateral = left(@, filled.lot),
                                                !.liabilities = left(@, filled.bid)])
                      ELSE i.reserves
        mints == IF draft.supplies = 0 \/ reserves[i.primary].b_rate = 0 THEN 0
                 ELSE to_b_token_down(reserves[i.primary], draft.supplies)
        after == [i.filler EXCEPT
            !.collateral = [a \in Listed |->
                (IF filled.lot[a] # 0 /\ reserves[a].c_factor = 0 THEN 0 ELSE @[a] + filled.lot[a])
                  + (IF a = i.primary THEN mints ELSE 0)],
            !.liabilities = [a \in Listed |->
                OwingAfter(reserves[a], @[a] + filled.bid[a], draft.repays[a])]]
        data == calculate_position_data(reserves, i.prices, after)
    IN  [ok |-> /\ draft.supplies # 0 =>
                      /\ mints > 0
                      /\ to_asset_from_b_token(reserves[i.primary],
                                               reserves[i.primary].b_supply + mints)
                           <= reserves[i.primary].supply_cap
                /\ after.liabilities # Nothing =>
                      /\ ~is_hf_under(data, i.oracle, i.floor)
                      /\ data.collateral_base >= i.min_collateral
                /\ effective_count(after) <= Max({effective_count(i.filler), i.max_positions}),
         data |-> data]

\* The contract takes every fill that is planned: executed from the state it
\* was planned against, it passes the floor's health check, the collateral
\* minimum, the position limit and the supply cap, though a full fill cuts
\* the suppliers' rate first; it spends no more than the wallet holds, lands
\* no earlier than it can, and unless it is forced not before the whole
\* auction pays the margin of the first rule that covers it (fill.rs,
\* plan_fill, project; config.rs, profit_bps).
ContractTakesFill ==
    answer.kind = "fill" =>
        /\ Submit(in, answer).ok
        /\ \A a \in Listed :
              answer.repays[a] + (IF a = in.primary THEN answer.supplies ELSE 0) <= in.wallet[a]
        /\ answer.ledger >= Earliest(in)
        /\ answer.percent \in 1..in.max_percent
        /\ in.force \/ answer.profit > 0
        /\ in.force \/ in.free \/
              LET value == AuctionValue(in, in.auction)
              IN  meets_margin(answer.ledger - in.auction.block,
                               value.collateral_raw, value.liability_raw, profit_bps(in))

\* The closed form is the least delay that meets the margin by the
\* contract's own ramps (fill.rs, fill_delay against meets_margin).
FillDelayIsLeast(lot, bid, bps) ==
    LET delay == fill_delay(lot, bid, bps, FALSE)
        enough == {d \in 0..RampEnd : meets_margin(d, lot, bid, bps)}
    IN  delay = Min(enough)

\* The search ends with the most the cap has room for (fill.rs,
\* supply_headroom).
HeadroomIsMost(r, wanted) ==
    LET room == supply_headroom(r, wanted)
    IN  /\ room \in 0..wanted
        /\ FitsCap(r, 0) => FitsCap(r, room)
        /\ \A more \in (room + 1)..wanted : ~FitsCap(r, more)

=============================================================================
