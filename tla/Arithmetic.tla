----------------------------- MODULE Arithmetic -----------------------------
(***************************************************************************)
(* The pure functions of the bot's arithmetic, each called with an input of *)
(* its own: a job.  Interest is the exception, a call after the other on    *)
(* one reserve, as the pool's storage is accrued again and again.           *)
(***************************************************************************)
EXTENDS FillPlan, Configuration

CONSTANTS
    Jobs,      \* the inputs
    Lapses,    \* the seconds between two accruals
    LastAccrual \* bound: the last accrual

VARIABLE
    job        \* the input of a pure function

----------------------------------------------------------------------------
(* What is passed to them.                                                 *)

Curves == [util : Nat, r_base : Nat, r_one : Nat, r_two : Nat, r_three : Nat, reactivity : Nat]

\* Amounts, rates and factors are never negative, a debt is worth something,
\* and the modifier starts within its bounds.
Reserves ==
    [b_rate : Nat, d_rate : Nat \ {0}, c_factor : Nat, l_factor : Nat, b_supply : Nat,
     d_supply : Nat, scalar : Nat, supply_cap : Nat, ir_mod : IrModMin..IrModMax, credit : Nat,
     last_time : Nat, config : Curves]

Auctions == [block : Nat, bid : [Listed -> Nat], lot : [Listed -> Nat]]

FixedJob(j) ==
    j \in [kind : {"fixed"}, x : MinInt..MaxInt, y : MinInt..MaxInt, z : MinInt..MaxInt]

AccrualJob(j) ==
    /\ j \in [kind : {"accrual"}, take : 0..Scalar7, now : Nat, before : Reserves, after : Reserves]
    /\ j.after.last_time = j.now

AuctionJob(j) ==
    /\ j \in [kind : {"auction"}, block : Nat, percent : 1..WholePercent, auction : Auctions]
    /\ j.auction.block <= j.block

\* A borrower's claim is part of the supply.
DefaultJob(j) ==
    /\ j \in [kind : {"default"}, owed : Nat, claim : Nat, reserve : Reserves]
    /\ j.claim <= j.reserve.b_supply

DelayJob(j) == j \in [kind : {"delay"}, lot : Nat, bid : Nat, bps : Nat]

\* A reserve that was never wiped out has a rate.
HeadroomJob(j) ==
    /\ j \in [kind : {"headroom"}, wanted : Nat, reserve : Reserves]
    /\ j.reserve.b_rate # 0

DecimalJob(j) ==
    /\ j.kind = "decimal"
    /\ j.text.whole \in Seq(0..9) /\ j.text.fraction \in Seq(0..9)

ASSUME ArithmeticAssumption ==
    /\ \A j \in Jobs :
          \/ FixedJob(j) \/ (AccrualJob(j) /\ j.before = j.after)
          \/ AuctionJob(j) \/ DefaultJob(j) \/ DelayJob(j) \/ HeadroomJob(j) \/ DecimalJob(j)
    /\ Lapses \subseteq Nat /\ LastAccrual \in Nat

----------------------------------------------------------------------------
(* The calls.                                                              *)

JobInit == job \in Jobs

\* Interest accrues step by step.
AccrueStep ==
    /\ job.kind = "accrual" /\ job.now < LastAccrual
    /\ \E dt \in Lapses :
          job' = [job EXCEPT !.before = job.after, !.now = @ + dt,
                             !.after = accrue(job.after, job.take, job.now + dt)]

JobSpec == JobInit /\ [][AccrueStep]_job

----------------------------------------------------------------------------
(* What the functions promise, over their inputs.                          *)

\* mul_div answers with the exact quotient wherever there is one in range,
\* and with an error elsewhere (math/fixed.rs).
MulDivExact ==
    job.kind = "fixed" => \A up \in BOOLEAN : MulDivExactAt(job.x, job.y, job.z, up)

\* However interest is accrued step by step, suppliers and the backstop never
\* gain more than borrowers come to owe (math/reserve.rs, accrue).
InterestIsOwed == job.kind = "accrual" => AccruesFairly(job.before, job.after, job.take)

\* Filling in parts pays no more than filling at once, and waiting costs
\* nothing (math/auction.rs, scale_auction).
NoSplitPays == job.kind = "auction" => SplittingNeverPays(job.auction, job.block, job.percent)

\* A projected default charges the suppliers all that is not set off
\* (math/setoff.rs, project_default).
LossIsCharged == job.kind = "default" => DefaultIsCharged(job.reserve, job.owed, job.claim)

\* fill_delay is the least delay that meets the margin (math/fill.rs).
DelayIsLeast == job.kind = "delay" => FillDelayIsLeast(job.lot, job.bid, job.bps)

\* The search for supply headroom ends at the most that fits the cap
\* (math/fill.rs, supply_headroom).
HeadroomFits == job.kind = "headroom" => HeadroomIsMost(job.reserve, job.wanted)

\* A decimal knob is read exactly (config.rs, Decimal7).
DecimalsAreExact == job.kind = "decimal" => DecimalIsExact(job.text)

\* What is computed is the exact value or the best there is: quotients at the
\* edges of their width, decimal knobs, the least delay that pays and the most
\* supply that fits (math/fixed.rs; config.rs; math/fill.rs).
NumbersAreExact == MulDivExact /\ DecimalsAreExact /\ DelayIsLeast /\ HeadroomFits

\* Every rounding is the pool's: neither accruing step by step, nor filling in
\* parts, nor a default leaves the pool owing more than it is owed
\* (math/reserve.rs, math/auction.rs, math/setoff.rs).
RoundsForPool == InterestIsOwed /\ NoSplitPays /\ LossIsCharged
=============================================================================
