---------------------------- MODULE Liquidation ----------------------------
(***************************************************************************)
(* The auctioneer's plan (src/math/liquidation.rs): which of a borrower's   *)
(* liabilities and collateral an auction names, and what share it takes.    *)
(* Reserves are numbered by their index, which breaks ties.                 *)
(***************************************************************************)
EXTENDS PoolMath, SequencesExt

ASSUME LiquidationAssumption == Listed \subseteq Nat

\* position_values: the non-zero positions, largest effective value first.
sorted(values) ==
    SetToSortSeq({v \in values : v.held # 0},
                 LAMBDA v, w : v.effective > w.effective
                                 \/ (v.effective = w.effective /\ v.index < w.index))

position_values(reserves, prices, p) ==
    LET value(a, held, v) == [index |-> a, held |-> held, raw |-> v.raw, effective |-> v.effective]
    IN  [collateral |-> sorted({value(a, p.collateral[a],
                                      CollateralValue(reserves[a], prices[a], p.collateral[a])) :
                                  a \in Listed}),
         liabilities |-> sorted({value(a, p.liabilities[a],
                                       LiabilityValue(reserves[a], prices[a], p.liabilities[a])) :
                                   a \in Listed})]

\* The totals of the first n.
raw_total(values, n) == FoldLeft(LAMBDA sum, v : sum + v.raw, 0, SubSeq(values, 1, n))
effective_total(values, n) == FoldLeft(LAMBDA sum, v : sum + v.effective, 0, SubSeq(values, 1, n))

\* More than the whole: these liabilities cannot close the excess.
NotEnough == WholePercent + 1

\* incentive = 1 + (1 - cf / lf) / 2, the division truncating.
incentive(cf, lf) ==
    LET rest == Scalar7 - div_floor(cf, lf, Scalar7)
    IN  Scalar7 + (IF rest >= 0 THEN rest \div 2 ELSE -((-rest) \div 2))

\* What an auction of `percent` withdraws.
withdrawn(raw, percent, inc) == mul_floor(mul_floor(raw, percent, WholePercent), inc, Scalar7)

\* Faulty variant: whether the collateral covers it is not asked.
covered_Always(raw, percent, inc, collateral) == TRUE

covered(raw, percent, inc, collateral) == withdrawn(raw, percent, inc) <= collateral

\* The percent that closes the excess, by the factors of the selection.
closing_percent(excess, rawC, rawL, cf, lf, target) ==
    LET inc == incentive(cf, lf)
        recovered == mul_floor(lf, target, Scalar7) - mul_floor(inc, cf, Scalar7)
        denominator == mul_floor(recovered, rawL, Scalar7)
        percent == mul_floor(excess, WholePercent, denominator)
    IN  IF cf = 0 \/ lf = 0 THEN 0
        ELSE IF recovered <= 0 \/ denominator <= 0 THEN NotEnough
        ELSE IF percent > WholePercent THEN percent
        ELSE IF covered(rawL, percent, inc, rawC) THEN Max({percent, 1})
        ELSE 0

\* selection_percent for the first l collateral and b liability values.
selection_percent(excess, collateral, liabilities, l, b, target) ==
    LET rawC == raw_total(collateral, l)
        rawL == raw_total(liabilities, b)
        effL == effective_total(liabilities, b)
    IN  IF rawC = 0 \/ rawL = 0 \/ effL = 0 THEN 0
        ELSE closing_percent(excess, rawC, rawL,
                 div_floor(effective_total(collateral, l), rawC, Scalar7),
                 div_floor(effL, rawL, Scalar7), target)

\* bounded_plan's loop: the longer side, the lots first, never below one.
trimmed(l, b, cap) ==
    LET trim[i \in 0..l, j \in 0..b] ==
            IF i + j <= Max({cap, 2}) THEN <<i, j>>
            ELSE IF i >= j /\ i > 1 THEN trim[i - 1, j]
            ELSE IF j > 1 THEN trim[i, j - 1]
            ELSE <<i, j>>
    IN  trim[l, b]

indices(values, n) == [k \in 1..n |-> values[k].index]

bounded_plan(collateral, liabilities, l, b, percent, cap) ==
    LET sides == trimmed(l, b, cap)
    IN  [lot |-> indices(collateral, sides[1]),
         bid |-> indices(liabilities, sides[2]),
         percent |-> Max({1, Min({percent, WholePercent})}),
         selected |-> <<l, b>>]

\* effective liabilities x TARGET_HF - effective collateral.
excess_over(data, target) ==
    mul_floor(data.liability_base, target, Scalar7) - data.collateral_base

\* plan_liquidation: a sequence of at most one plan.
plan_liquidation(data, collateral, liabilities, target, cap) ==
    LET excess == excess_over(data, target)
        L == Len(collateral)
        B == Len(liabilities)
        everything == bounded_plan(collateral, liabilities, L, B, WholePercent, cap)
        walk[l \in 1..L, b \in 1..B] ==
            LET percent == selection_percent(excess, collateral, liabilities, l, b, target)
            IN  IF percent > WholePercent /\ b < B THEN walk[l, b + 1]
                ELSE IF (percent > WholePercent \/ percent = 0) /\ l < L THEN walk[l + 1, b]
                ELSE IF percent > WholePercent \/ percent = 0 THEN everything
                ELSE bounded_plan(collateral, liabilities, l, b, percent, cap)
    IN  IF L = 0 \/ B = 0 \/ excess <= 0 THEN << >> ELSE <<walk[1, 1]>>

----------------------------------------------------------------------------

Takeable(collateral, liabilities, plan, cap) ==
    LET l == plan.selected[1]
        b == plan.selected[2]
        cf == div_floor(effective_total(collateral, l), raw_total(collateral, l), Scalar7)
        lf == div_floor(effective_total(liabilities, b), raw_total(liabilities, b), Scalar7)
    IN  /\ plan.lot # << >> /\ plan.bid # << >>
        /\ Len(plan.lot) + Len(plan.bid) <= Max({cap, 2})
        /\ IsPrefix(plan.lot, indices(collateral, Len(collateral)))
        /\ IsPrefix(plan.bid, indices(liabilities, Len(liabilities)))
        /\ plan.percent \in 1..WholePercent
        /\ plan.percent < WholePercent =>
              withdrawn(raw_total(liabilities, b), plan.percent, incentive(cf, lf))
                <= raw_total(collateral, l)

\* Every auction the auctioneer plans is one the contract can take: it names
\* something on both sides, the largest positions first and no more than the
\* pool's max_positions allows, for a percent within 1..100; and unless it
\* takes everything, the collateral it was sized on covers what it withdraws
\* (liquidation.rs, plan_liquidation and bounded_plan).
PlannedAuctionFits(reserves, prices, p, target, cap) ==
    LET values == position_values(reserves, prices, p)
        plans == plan_liquidation(calculate_position_data(reserves, prices, p),
                                  values.collateral, values.liabilities, target, cap)
    IN  \A k \in DOMAIN plans :
            Takeable(values.collateral, values.liabilities, plans[k], cap)

=============================================================================
