----------------------------- MODULE UnwindPlan -----------------------------
(***************************************************************************)
(* One unwind pass (src/math/unwind.rs): repay what the wallet can, then    *)
(* withdraw: everything when nothing is owed, else one candidate after the  *)
(* other as far as the floors allow.  Burn is the contract executing the    *)
(* plan, up to one allowance of interest later.                             *)
(***************************************************************************)
EXTENDS PoolMath, SequencesExt

CONSTANTS
    UnwindBps,       \* BPS: basis points in one
    HealthMargin,    \* HEALTH_MARGIN_BPS
    DustFloor,       \* DUST_FLOOR_BPS
    BackoffRounds,   \* BACKOFF_ROUNDS
    UnwindCases      \* the positions, wallets and terms planned for

ASSUME UnwindPlanAssumption ==
    /\ Listed \subseteq Nat
    /\ UnwindBps \in Nat \ {0}
    /\ HealthMargin \in Nat /\ DustFloor \in Nat /\ BackoffRounds \in Nat

VARIABLES
    unwind,     \* UnwindTerms and UnwindInputs
    unwindPc,   \* "repay", "free", "candidates" or "planned"
    working,    \* positions: as the plan projects them so far
    repaid,     \* the repays
    taken,      \* the withdrawals, in order
    order,      \* the candidates left
    backedOff   \* a projection disagreed with the formula

unwinding == <<unwind, unwindPc, working, repaid, taken, order, backedOff>>

\* WithdrawAll carries no amount: it is exact whenever it lands.
All == -1
Withdrawal(asset, amount) == [asset |-> asset, amount |-> amount]

----------------------------------------------------------------------------
(* Step 1: what the wallet repays of each debt.                            *)

WantedRepay(u, a) ==
    LET owed == to_asset_from_d_token(u.reserves[a], u.position.liabilities[a])
    IN  IF owed = 0 THEN 0 ELSE owed + mul_floor(owed, 1, UnwindBps) + 1

RepayOf(u, a) == Min({WantedRepay(u, a), u.wallet[a]})

\* Faulty variant: a capped repay that reaches the debt clears it.
LeftOwing_Cleared(u, a) ==
    LET owing == u.position.liabilities[a]
    IN  owing - Min({to_d_token_down(u.reserves[a], RepayOf(u, a)), owing})

\* A repay the wallet capped is not projected to clear the debt.
LeftOwing(u, a) ==
    LET owing == u.position.liabilities[a]
        left == owing - Min({to_d_token_down(u.reserves[a], RepayOf(u, a)), owing})
    IN  IF left = 0 /\ RepayOf(u, a) < WantedRepay(u, a) THEN owing ELSE left

----------------------------------------------------------------------------
(* Withdrawals.                                                            *)

projected(u, p) == calculate_position_data(u.reserves, u.prices, p)

\* Bounds::of and Bounds::accepts.
margin(u) == mul_ceil(u.min_hf, UnwindBps + HealthMargin, UnwindBps)
accepts(u, data) ==
    /\ ~is_hf_under(data, u.oracle, margin(u))
    /\ data.collateral_base >= u.min_collateral

after_withdrawal(u, p, a, amount) ==
    [p EXCEPT !.collateral[a] = @ - Min({to_b_token_up(u.reserves[a], amount), @})]

\* Faulty variant: the difference of two amounts of the underlying.
primary_excess_Underlying(u, p) ==
    Max({0, to_asset_from_b_token(u.reserves[u.primary], p.collateral[u.primary]) - u.min_primary})

\* In b-tokens, so that what stays is to_b_token_up(floor).
primary_excess(u, p) ==
    LET r == u.reserves[u.primary]
    IN  to_asset_from_b_token(r, Max({0, p.collateral[u.primary] - to_b_token_up(r, u.min_primary)}))

dust(u, amount) == amount < mul_floor(u.min_primary, DustFloor, UnwindBps)

\* Step 2: nothing is owed, and the contract checks nothing.
FreeWithdrawals(u, p) ==
    LET others == SetToSortSeq({a \in Listed \ {u.primary} : p.collateral[a] > 0}, <)
        excess == primary_excess(u, p)
    IN  [k \in 1..Len(others) |-> Withdrawal(others[k], All)]
          \o (IF p.collateral[u.primary] = 0 THEN << >>
              ELSE IF u.min_primary = 0 THEN <<Withdrawal(u.primary, All)>>
              ELSE IF excess <= 0 \/ dust(u, excess) THEN << >>
              ELSE <<Withdrawal(u.primary, excess)>>)

\* Step 3's order: also owed; then the others, the least valuable first; then
\* the primary.
candidates(u, p) ==
    LET held == {a \in Listed : p.collateral[a] > 0}
        owed == {a \in held \ {u.primary} : p.liabilities[a] # 0}
        value(a) == CollateralValue(u.reserves[a], u.prices[a], p.collateral[a]).effective
    IN  SetToSortSeq(owed, <)
          \o SetToSortSeq(held \ (owed \cup {u.primary}),
                          LAMBDA a, b : value(a) < value(b) \/ (value(a) = value(b) /\ a < b))
          \o (IF u.primary \in held THEN <<u.primary>> ELSE << >>)

\* Faulty variant: the effective amount rounds down on its way back.
StaysOf_Down(r, price, base) ==
    to_b_token_up(r, div_floor(mul_floor(base, r.scalar, price), r.c_factor, Scalar7))

\* The b-tokens that carry `base`, every step rounded up.
StaysOf(r, price, base) ==
    to_b_token_up(r, div_ceil(mul_ceil(base, r.scalar, price), r.c_factor, Scalar7))

\* partial's formula: the most of `a` that may go.
Formula(u, p, a) ==
    LET r == u.reserves[a]
        data == projected(u, p)
        required == Max({mul_ceil(data.liability_base, margin(u), Scalar7), u.min_collateral})
        carries == CollateralValue(r, u.prices[a], p.collateral[a]).effective
        stays == StaysOf(r, u.prices[a], Max({0, carries - (data.collateral_base - required)}))
        floor == IF a = u.primary THEN to_b_token_up(r, u.min_primary) ELSE 0
    IN  IF r.c_factor = 0 THEN 0
        ELSE to_asset_from_b_token(r, Max({0, p.collateral[a] - Max({stays, floor})}))

\* An amount, cut by a basis point of itself n times.
BackedOff(amount, n) ==
    LET cut[k \in 0..n] == IF k = 0 THEN amount ELSE cut[k - 1] - mul_ceil(cut[k - 1], 1, UnwindBps)
    IN  cut[n]

Worth(u, a, amount) == amount > 0 /\ ~(a = u.primary /\ dust(u, amount))

\* The back-offs partial may try, up to the first that is not worth sending,
\* whose projection is accepted.
Agreed(u, p, a) ==
    {n \in 0..BackoffRounds :
        /\ \A k \in 0..n : Worth(u, a, BackedOff(Formula(u, p, a), k))
        /\ accepts(u, projected(u, after_withdrawal(u, p, a, BackedOff(Formula(u, p, a), n))))}

----------------------------------------------------------------------------
(* The pass.                                                               *)

UnwindInit ==
    /\ unwind \in UnwindCases
    /\ unwindPc = "repay"
    /\ working = unwind.position
    /\ repaid = Nothing
    /\ taken = << >>
    /\ order = << >>
    /\ backedOff = FALSE

\* repay, and what plan_unwind goes on with.
Repay ==
    /\ unwindPc = "repay"
    /\ repaid' = [a \in Listed |-> RepayOf(unwind, a)]
    /\ working' = [working EXCEPT !.liabilities = [a \in Listed |-> LeftOwing(unwind, a)]]
    /\ unwindPc' = IF working'.liabilities = Nothing THEN "free" ELSE "candidates"
    /\ order' = IF working'.liabilities = Nothing THEN << >> ELSE candidates(unwind, working')
    /\ UNCHANGED <<unwind, taken, backedOff>>

withdraw_free ==
    /\ unwindPc = "free"
    /\ taken' = FreeWithdrawals(unwind, working)
    /\ unwindPc' = "planned"
    /\ UNCHANGED <<unwind, working, repaid, order, backedOff>>

\* Nothing to go on with, or already within the margin of the minimum.
Rest ==
    /\ unwindPc = "candidates"
    /\ order = << >> \/ is_hf_under(projected(unwind, working), unwind.oracle, margin(unwind))
    /\ unwindPc' = "planned"
    /\ UNCHANGED <<unwind, working, repaid, taken, order, backedOff>>

Take(a, amount, left) ==
    /\ taken' = Append(taken, Withdrawal(a, amount))
    /\ working' = left

\* withdraw_candidate: the whole of it, else the most that agrees.
withdraw_candidate ==
    /\ unwindPc = "candidates"
    /\ order # << >>
    /\ ~is_hf_under(projected(unwind, working), unwind.oracle, margin(unwind))
    /\ LET u == unwind
           a == Head(order)
           excess == primary_excess(u, working)
           whole == IF a = u.primary THEN after_withdrawal(u, working, a, excess)
                    ELSE [working EXCEPT !.collateral[a] = 0]
           agreed == Agreed(u, working, a)
           amount == BackedOff(Formula(u, working, a), Min(agreed))
           ends == a = u.primary /\ ~Worth(u, a, excess)
           all == ~ends /\ accepts(u, projected(u, whole))
       IN  /\ IF all THEN Take(a, IF a = u.primary THEN excess ELSE All, whole)
              ELSE IF ~ends /\ agreed # {}
                THEN Take(a, amount, after_withdrawal(u, working, a, amount))
              ELSE UNCHANGED <<taken, working>>
           /\ backedOff' = (backedOff \/ (/\ ~ends /\ ~all
                                          /\ Worth(u, a, Formula(u, working, a))
                                          /\ 0 \notin agreed))
    /\ order' = Tail(order)
    /\ UNCHANGED <<unwind, unwindPc, repaid>>

UnwindNext == Repay \/ withdraw_free \/ withdraw_candidate \/ Rest

UnwindSpec == UnwindInit /\ [][UnwindNext]_unwinding

----------------------------------------------------------------------------
(* What the plan promises.                                                 *)

\* The reserves after some interest, no more than a repay's allowance.
Drifted(u) ==
    {[a \in Listed |-> [u.reserves[a] EXCEPT !.d_rate = @ + up[a]]] :
        up \in [Listed -> {0, u.drift}]}

\* The contract, executing the plan: the position it leaves.
Burn(reserves, p) ==
    LET withdrawals(a) == SelectSeq(taken, LAMBDA w : w.asset = a)
        left(a) == FoldLeft(LAMBDA held, w :
                        IF w.amount = All THEN 0
                        ELSE held - Min({held, to_b_token_up(reserves[a], w.amount)}),
                     p.collateral[a], withdrawals(a))
    IN  [p EXCEPT !.collateral = [a \in Listed |-> left(a)],
                  !.liabilities = [a \in Listed |->
                      @[a] - Min({@[a], to_d_token_down(reserves[a], repaid[a])})]]

\* Whatever the plan withdraws, the contract lets go: executed with the
\* interest of up to one allowance, the position is free of debt, or keeps
\* the pool's minimum health and minimum collateral; a debt left by a repay
\* the wallet capped is never left against nothing (unwind.rs, repay and
\* withdraw_within_floor).
ContractTakesUnwind ==
    unwindPc = "planned" /\ taken # << >> =>
        \A reserves \in Drifted(unwind) :
            LET after == Burn(reserves, unwind.position)
                data == calculate_position_data(reserves, unwind.prices, after)
            IN  after.liabilities # Nothing =>
                    /\ ~is_hf_under(data, unwind.oracle, unwind.min_hf)
                    /\ data.collateral_base >= unwind.min_collateral

\* The primary asset the operator wants kept is kept: no withdrawal takes it
\* below the floor, whatever the rate rounds to, and the wallet covers the
\* repays (unwind.rs, primary_excess, partial).
PrimaryIsKept ==
    unwindPc = "planned" =>
        LET u == unwind
            r == u.reserves[u.primary]
            after == Burn(u.reserves, u.position).collateral[u.primary]
        IN  /\ after < u.position.collateral[u.primary] =>
                  to_asset_from_b_token(r, after) >= u.min_primary
            /\ \A a \in Listed : repaid[a] <= u.wallet[a]

\* The formula is exact: its first projection is always accepted, so that the
\* back-off never shrinks a withdrawal (unwind.rs, partial: the back-off is
\* the guard rather than the mechanism).
NeverBacksOff == ~backedOff

\* An unwind is one the contract lets through, that keeps what the operator
\* wants kept and takes all it may, its guard never needed (unwind.rs,
\* plan_unwind).
UnwindIsSound == ContractTakesUnwind /\ PrimaryIsKept /\ NeverBacksOff
=============================================================================
