------------------------------ MODULE PoolMath ------------------------------
(***************************************************************************)
(* The pool's arithmetic as the bot ports it: reserves and their accrual    *)
(* (src/math/reserve.rs), positions and health (src/math/position.rs), the  *)
(* auction ramps (src/math/auction.rs) and the contract's default path      *)
(* (src/math/setoff.rs).                                                    *)
(*                                                                         *)
(* A position map is a function over every asset, zero where the map has no *)
(* entry: the contract stores no zero.  Reserves are known and priced; the  *)
(* MissingReserve and MissingPrice errors of an incomplete view are not     *)
(* modelled.                                                                *)
(***************************************************************************)
EXTENDS FixedPoint, FiniteSetsExt

CONSTANTS
    Listed,        \* the assets of the pool's reserves
    Year,          \* SECONDS_PER_YEAR
    RampBlocks,    \* RAMP_BLOCKS: half of an auction
    WholePercent   \* 100

ASSUME PoolMathAssumption ==
    /\ IsFiniteSet(Listed)
    /\ Year \in Nat \ {0}
    /\ RampBlocks \in Nat \ {0}
    /\ WholePercent \in Nat \ {0}
    /\ Scalar7 % RampBlocks = 0       \* the modifiers move in whole units,
    /\ Scalar7 % WholePercent = 0     \* and so does a percent
    /\ Scalar7 % 20 = 0               \* UTIL_95 is one too

Nothing == [a \in Listed |-> 0]
Total(amounts) == SumFunctionOnSet(amounts, Listed)

----------------------------------------------------------------------------
(* Reserves.                                                               *)

to_asset_from_d_token(r, d) == mul_ceil(d, r.d_rate, Scalar12)
to_asset_from_b_token(r, b) == mul_floor(b, r.b_rate, Scalar12)
to_effective_asset_from_d_token(r, d) ==
    div_ceil(to_asset_from_d_token(r, d), r.l_factor, Scalar7)
to_effective_asset_from_b_token(r, b) ==
    mul_floor(to_asset_from_b_token(r, b), r.c_factor, Scalar7)
to_d_token_down(r, amount) == div_floor(amount, r.d_rate, Scalar12)
to_b_token_up(r, amount) == div_ceil(amount, r.b_rate, Scalar12)
to_b_token_down(r, amount) == div_floor(amount, r.b_rate, Scalar12)

total_liabilities(r) == to_asset_from_d_token(r, r.d_supply)
total_supply(r) == to_asset_from_b_token(r, r.b_supply)

\* Capped at one.
utilization(r) ==
    LET owed == total_liabilities(r)
        supplied == total_supply(r)
    IN  IF owed = 0 THEN 0
        ELSE IF owed >= supplied THEN Scalar7
        ELSE div_ceil(owed, supplied, Scalar7)

Util95 == 19 * (Scalar7 \div 20)
IrModMax == 10 * Scalar7
IrModMin == Scalar7 \div 10

\* calc_accrual: the rate on the curve's three legs,
current_rate(c, util, ir_mod) ==
    IF util <= c.util
      THEN mul_ceil(mul_ceil(div_ceil(util, c.util, Scalar7), c.r_one, Scalar7) + c.r_base,
                    ir_mod, Scalar7)
    ELSE IF util <= Util95
      THEN mul_ceil(mul_ceil(div_ceil(util - c.util, Util95 - c.util, Scalar7), c.r_two, Scalar7)
                      + c.r_one + c.r_base, ir_mod, Scalar7)
    ELSE mul_ceil(div_ceil(util - Util95, Scalar7 - Util95, Scalar7), c.r_three, Scalar7)
           + mul_ceil(ir_mod, c.r_two + c.r_one + c.r_base, Scalar7)

\* the modifier, moved by the distance from the target and clamped,
next_ir_mod(c, util, ir_mod, elapsed) ==
    LET error == elapsed * (util - c.util)
    IN  IF util >= c.util
          THEN Min({ir_mod + mul_floor(error, c.reactivity, Scalar7), IrModMax})
          ELSE Max({ir_mod + mul_ceil(error, c.reactivity, Scalar7), IrModMin})

\* and the factor the debt grows by.
loan_accrual(c, util, ir_mod, elapsed) ==
    Scalar12 + mul_ceil((elapsed * Scalar12) \div Year, current_rate(c, util, ir_mod), Scalar7)

\* Faulty variant: the backstop's share is rounded up.
backstop_share_Up(accrued, bstop_rate) == mul_ceil(accrued, bstop_rate, Scalar7)

\* What the backstop takes of the interest.
backstop_share(accrued, bstop_rate) == mul_floor(accrued, bstop_rate, Scalar7)

\* Reserve::accrue, to `now`.
accrue(r, bstop_rate, now) ==
    LET util == utilization(r)
        elapsed == now - r.last_time
        grown == [r EXCEPT
                    !.ir_mod = next_ir_mod(r.config, util, @, elapsed),
                    !.d_rate = mul_ceil(loan_accrual(r.config, util, r.ir_mod, elapsed), @, Scalar12),
                    !.last_time = now]
        accrued == total_liabilities(grown) - total_liabilities(r)
        share == backstop_share(accrued, bstop_rate)
    IN  IF elapsed = 0 THEN r
        ELSE IF r.b_supply = 0 \/ util = 0 THEN [r EXCEPT !.last_time = now]
        ELSE IF accrued <= 0 THEN grown
        ELSE [grown EXCEPT
                !.credit = @ + share,
                !.b_rate = div_floor(total_supply(r) + accrued - share, r.b_supply, Scalar12)]

----------------------------------------------------------------------------
(* Positions.                                                              *)

NoPosition == [collateral |-> Nothing, liabilities |-> Nothing, supply |-> Nothing]

effective_count(p) ==
    Cardinality({a \in Listed : p.collateral[a] # 0})
      + Cardinality({a \in Listed : p.liabilities[a] # 0})

\* position_values and calculate_position_data value each position alike:
\* collateral down, liabilities up, at every step.
CollateralValue(r, price, b) ==
    [raw |-> mul_floor(price, to_asset_from_b_token(r, b), r.scalar),
     effective |-> mul_floor(price, to_effective_asset_from_b_token(r, b), r.scalar)]
LiabilityValue(r, price, d) ==
    [raw |-> mul_ceil(price, to_asset_from_d_token(r, d), r.scalar),
     effective |-> mul_ceil(price, to_effective_asset_from_d_token(r, d), r.scalar)]

calculate_position_data(reserves, prices, p) ==
    LET held == [a \in Listed |-> CollateralValue(reserves[a], prices[a], p.collateral[a])]
        owed == [a \in Listed |-> LiabilityValue(reserves[a], prices[a], p.liabilities[a])]
    IN  [collateral_base |-> Total([a \in Listed |-> held[a].effective]),
         collateral_raw |-> Total([a \in Listed |-> held[a].raw]),
         liability_base |-> Total([a \in Listed |-> owed[a].effective]),
         liability_raw |-> Total([a \in Listed |-> owed[a].raw])]

\* health_factor, with liabilities, in the oracle's scale.
health_factor(data, oracle) == div_floor(data.collateral_base, data.liability_base, oracle)

\* No liabilities is under nothing.
is_hf_under(data, oracle, min) ==
    /\ data.liability_base # 0
    /\ health_factor(data, oracle) < mul_floor(oracle, min, Scalar7)

----------------------------------------------------------------------------
(* Auctions.                                                               *)

PerBlock == Scalar7 \div RampBlocks
RampEnd == 2 * RampBlocks

bid_modifier(delta) ==
    IF delta <= RampBlocks THEN Scalar7
    ELSE IF delta < RampEnd THEN Scalar7 - (delta - RampBlocks) * PerBlock
    ELSE 0

lot_modifier(delta) == IF delta <= RampBlocks THEN delta * PerBlock ELSE Scalar7

\* Faulty variant: the lot is rounded in the filler's favour.
lot_share_Up(amount, scale) == mul_ceil(amount, scale, Scalar7)

bid_share(amount, scale) == mul_ceil(amount, scale, Scalar7)
lot_share(amount, scale) == mul_floor(amount, scale, Scalar7)

\* scale_auction: what a fill exchanges at a block, and what it leaves.
scale_auction(auction, block, percent) ==
    LET part == percent * (Scalar7 \div WholePercent)
        delta == block - auction.block
        bid == [a \in Listed |-> bid_share(auction.bid[a], part)]
        lot == [a \in Listed |-> lot_share(auction.lot[a], part)]
    IN  [to_fill |-> [block |-> auction.block,
                      bid |-> [a \in Listed |-> bid_share(bid[a], bid_modifier(delta))],
                      lot |-> [a \in Listed |-> lot_share(lot[a], lot_modifier(delta))]],
         remaining |-> [block |-> auction.block,
                        bid |-> [a \in Listed |-> auction.bid[a] - bid[a]],
                        lot |-> [a \in Listed |-> auction.lot[a] - lot[a]]]]

\* Option::None: the fill closes the auction.
IsClosed(auction) == auction.bid = Nothing /\ auction.lot = Nothing

----------------------------------------------------------------------------
(* The default path of a full fill.                                        *)

\* Step 1, set-off: the borrower's own supply repays what it covers.
SetOff(r, d, claim) ==
    IF claim = 0 \/ r.b_rate = 0 THEN [burnt |-> 0, repaid |-> 0]
    ELSE LET b == Min({claim, to_b_token_up(r, to_asset_from_d_token(r, d))})
             repaid == Min({d, to_d_token_down(r, to_asset_from_b_token(r, b))})
         IN  [burnt |-> IF repaid > 0 THEN b ELSE 0, repaid |-> repaid]

\* Faulty variant: the loss is spread over the supply before the set-off.
Charged_Before(r, after, defaulted) ==
    IF defaulted = 0 \/ after.b_supply = 0 THEN after.b_rate
    ELSE Max({0, after.b_rate
                   - div_ceil(to_asset_from_d_token(after, defaulted), r.b_supply, Scalar12)})

\* Step 2: what is left is destroyed, and charged to every supplier that is
\* left.
Charged(r, after, defaulted) ==
    IF defaulted = 0 \/ after.b_supply = 0 THEN after.b_rate
    ELSE Max({0, after.b_rate
                   - div_ceil(to_asset_from_d_token(after, defaulted), after.b_supply, Scalar12)})

DefaultOne(r, d, claim) ==
    LET off == SetOff(r, d, claim)
        after == [r EXCEPT !.b_supply = @ - off.burnt, !.d_supply = @ - d]
    IN  [after EXCEPT !.b_rate = Charged(r, after, d - off.repaid)]

\* project_default, whose gate is the contract's.
project_default(reserves, prices, borrower) ==
    LET data == calculate_position_data(reserves, prices, borrower)
    IN  [a \in Listed |->
            IF borrower.liabilities[a] = 0 \/ data.collateral_raw # 0 THEN reserves[a]
            ELSE DefaultOne(reserves[a], borrower.liabilities[a], borrower.supply[a])]

----------------------------------------------------------------------------
(* What they promise.                                                      *)

\* No interest out of nothing: from one accrual to the next, what suppliers
\* and the backstop may claim grows by no more than what borrowers owe, and
\* no rate falls as long as the backstop takes less than all of it; the
\* modifier keeps its bounds (reserve.rs, accrue).
AccruesFairly(before, after, bstop_rate) ==
    /\ (total_supply(after) + after.credit) - (total_supply(before) + before.credit)
         <= total_liabilities(after) - total_liabilities(before)
    /\ after.d_rate >= before.d_rate
    /\ bstop_rate < Scalar7 => after.b_rate >= before.b_rate
    /\ IrModMin <= after.ir_mod /\ after.ir_mod <= IrModMax

\* Filling an auction in two steps pays no more than filling it in one: the
\* parts' bids cover the whole's and their lots do not exceed it, at any
\* block; and waiting never makes a fill dearer (auction.rs, scale_auction).
SplittingNeverPays(auction, block, percent) ==
    LET first == scale_auction(auction, block, percent)
        rest == scale_auction(first.remaining, block, WholePercent)
        whole == scale_auction(auction, block, WholePercent)
        later == scale_auction(auction, block + 1, WholePercent)
    IN  /\ IsClosed(whole.remaining) /\ IsClosed(rest.remaining)
        /\ \A a \in Listed :
              /\ first.to_fill.bid[a] + rest.to_fill.bid[a] >= whole.to_fill.bid[a]
              /\ first.to_fill.lot[a] + rest.to_fill.lot[a] <= whole.to_fill.lot[a]
              /\ first.remaining.bid[a] >= 0 /\ first.remaining.lot[a] >= 0
              /\ later.to_fill.bid[a] <= whole.to_fill.bid[a]
              /\ later.to_fill.lot[a] >= whole.to_fill.lot[a]

\* A default is charged in full: after the path has run, the suppliers'
\* claims, the burnt ones included, have shrunk by at least the debt that was
\* destroyed, or are gone (setoff.rs: an understated loss is the optimistic
\* projection the contract answers with InvalidHf).
DefaultIsCharged(r, d, claim) ==
    LET off == SetOff(r, d, claim)
        after == DefaultOne(r, d, claim)
        left == [r EXCEPT !.b_supply = @ - off.burnt]
    IN  /\ off.burnt <= claim /\ off.repaid <= d
        /\ off.repaid < d =>
              \/ total_supply(after) = 0
              \/ total_supply(after) + to_asset_from_d_token(r, d - off.repaid) <= total_supply(left)

=============================================================================
