----------------------------- MODULE PriceWatch -----------------------------
(***************************************************************************)
(* The oracle scan of one pool (src/auctioneer.rs, PriceWatch and           *)
(* scan_oracle): the price each asset was last noticed at, and the rows a   *)
(* significant move flags.  References are in memory only; the flags are in *)
(* the store, whose write may fail after the references have moved.         *)
(***************************************************************************)
EXTENDS FixedPoint, SequencesExt

CONSTANTS
    Priced,      \* the assets the pool's oracle prices, in their order
    Prices,      \* the prices it may report
    WatchBps,    \* 10_000
    DeltaBps,    \* ORACLE_SCAN_BPS: a significant move
    StaleAfter,  \* seconds a reference stands without one
    MaxClock,    \* bound: seconds
    MaxLost      \* bound: writes of the store that fail

ASSUME PriceWatchAssumption ==
    /\ Prices \subseteq Nat \ {0}
    /\ WatchBps \in Nat \ {0}
    /\ DeltaBps \in Nat \ {0}
    /\ StaleAfter \in Nat

VARIABLES
    price,       \* the oracle
    clock,       \* the tick's close time
    references,  \* PriceWatch::references: at most one per asset
    exposed,     \* what the last scan flagged: assets and sides
    failures,    \* store writes that failed
    noticed,     \* history: the price each asset was last seeded or flagged at
    excused      \* history: assets refreshed silently, or whose flag was lost, since

watchVars == <<price, clock, references, exposed, failures, noticed, excused>>

Assets == ToSet(Priced)
Unseen == [price |-> 0, set_at |-> 0]

WatchInit ==
    /\ price \in [Assets -> Prices]
    /\ clock = 0
    /\ references = [a \in Assets |-> Unseen]
    /\ exposed = {}
    /\ failures = 0
    /\ noticed = [a \in Assets |-> 0]
    /\ excused = {}

\* The price moves, or time passes.
OracleMoves(a, p) ==
    /\ p # price[a]
    /\ price' = [price EXCEPT ![a] = p]
    /\ UNCHANGED <<clock, references, exposed, failures, noticed, excused>>

TimePasses ==
    /\ clock < MaxClock
    /\ clock' = clock + 1
    /\ UNCHANGED <<price, references, exposed, failures, noticed, excused>>

Apart(p, reference) == IF p >= reference THEN p - reference ELSE reference - p

\* Faulty variant: a move of exactly the threshold is none.
moved_direction_Above(p, reference) ==
    IF div_floor(Apart(p, reference), reference, WatchBps) <= DeltaBps THEN "none"
    ELSE IF p > reference THEN "up" ELSE "down"

moved_direction(p, reference) ==
    IF div_floor(Apart(p, reference), reference, WatchBps) < DeltaBps THEN "none"
    ELSE IF p > reference THEN "up" ELSE "down"

\* What moved makes of each asset: first seen, moved, stale or left alone.
Verdict(a) ==
    IF references[a] = Unseen THEN "seed"
    ELSE IF moved_direction(price[a], references[a].price) # "none"
      THEN moved_direction(price[a], references[a].price)
    ELSE IF clock - references[a].set_at >= StaleAfter THEN "stale"
    ELSE "none"

\* Up hurts who owes the asset, down who holds it.
SideOf(verdict) == IF verdict = "up" THEN "Liability" ELSE "Collateral"

\* scan_oracle: every reference is settled first, then the moves are flagged
\* in the assets' order; a write that fails ends the scan, with the moves of
\* the first n assets flagged.
scan_oracle(n) ==
    LET verdict == [a \in Assets |-> Verdict(a)]
        moves == {a \in Assets : verdict[a] \in {"up", "down"}}
        done == moves \cap ToSet(SubSeq(Priced, 1, n))
        lost == moves \ done
    IN  /\ failures' = IF lost = {} THEN failures ELSE failures + 1
        /\ failures' <= MaxLost
        /\ references' = [a \in Assets |->
              IF verdict[a] = "none" THEN references[a]
              ELSE [price |-> price[a], set_at |-> clock]]
        /\ exposed' = {<<a, SideOf(verdict[a])>> : a \in done}
        /\ noticed' = [a \in Assets |->
              IF verdict[a] = "seed" \/ a \in done THEN price[a] ELSE noticed[a]]
        /\ excused' = (excused \ done) \cup lost \cup {a \in Assets : verdict[a] = "stale"}
        /\ UNCHANGED <<price, clock>>

ScanStep == \E n \in 0..Len(Priced) : scan_oracle(n)

WatchNext ==
    \/ \E a \in Assets, p \in Prices : OracleMoves(a, p)
    \/ TimePasses
    \/ ScanStep

WatchSpec == WatchInit /\ [][WatchNext]_watchVars

----------------------------------------------------------------------------

Significant(p, reference) == div_floor(Apart(p, reference), reference, WatchBps) >= DeltaBps
Owed(a) == noticed[a] # 0 /\ Significant(price[a], noticed[a])

\* A move adds up until it is flagged: a scan that finds an asset the
\* threshold away from the price it was last flagged at flags the side it
\* hurts, over however many scans and however slowly it got there; unless the
\* reference was refreshed in between, or the store failed (auctioneer.rs,
\* moved, moved_direction, scan_oracle).
MoveIsFlagged ==
    [][ScanStep => \A a \in Assets :
          Owed(a) /\ a \notin excused \cup excused' =>
              <<a, IF price[a] > noticed[a] THEN "Liability" ELSE "Collateral">> \in exposed'
      ]_watchVars
=============================================================================
