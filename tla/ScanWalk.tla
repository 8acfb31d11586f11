------------------------------- MODULE ScanWalk -------------------------------
(***************************************************************************)
(* full_scan_and_flag (src/service.rs) over Store::users_below_health      *)
(* (src/store.rs): the auctioneer pages through the borrowers below a      *)
(* health factor and flags them, while the tracker rewrites their rows     *)
(* between two pages.  Accounts are numbers, in the order they compare in. *)
(***************************************************************************)
EXTENDS Integers, Sequences, FiniteSets

CONSTANTS
    Walked,      \* how many accounts there may be
    Healths,     \* health factors, positive numbers
    Threshold,   \* scan_health_factor
    PageLimit,   \* page_limit
    MaxRewrites  \* bound: rows the tracker rewrites during the walk

ASSUME ScanAssumption ==
    /\ Walked \in Nat /\ Healths \subseteq Nat \ {0} /\ Threshold \in Nat
    /\ PageLimit \in Nat \ {0} /\ MaxRewrites \in Nat

VARIABLES
    rows,      \* users.health_factor, 0 where there is no row
    walk,      \* the scan: where it is, its keyset and the page it flags
    marked,    \* the accounts flagged for a recheck since the scan began
    toMark,    \* accounts the tracker's tick has refreshed and not flagged yet
    seeded,    \* history: accounts a reseed rewrote during the walk
    rewrites   \* rows rewritten during the walk

scanVars == <<rows, walk, marked, toMark, seeded, rewrites>>

Unhealthy == 1..Walked
Untracked == 0
Start == <<0, 0>>

ScanInit ==
    /\ rows \in [Unhealthy -> Healths \cup {Untracked}]
    /\ walk = [at |-> "paging", after |-> Start, page |-> << >>]
    /\ marked = {} /\ toMark = {} /\ seeded = {} /\ rewrites = 0

Key(a) == <<rows[a], a>>
Before(k, l) == k[1] < l[1] \/ (k[1] = l[1] /\ k[2] < l[2])

Below == {a \in Unhealthy : rows[a] # Untracked /\ rows[a] < Threshold}

\* The first PageLimit of a set of accounts in (health_factor, account) order.
FirstOf(s) ==
    LET place(a) == Cardinality({b \in s : Before(Key(b), Key(a))}) + 1
        n == IF Cardinality(s) < PageLimit THEN Cardinality(s) ELSE PageLimit
    IN [i \in 1..n |-> CHOOSE a \in s : place(a) = i]

\* Faulty variant: the walk goes on by health factor alone.
users_below_health_Ties(after) == FirstOf({a \in Below : after = Start \/ rows[a] > after[1]})

users_below_health(after) == FirstOf({a \in Below : after = Start \/ Before(after, Key(a))})

\* A shutdown is looked at between two pages; a store failure ends the scan.
ReadPage ==
    /\ walk.at = "paging"
    /\ LET page == users_below_health(walk.after)
       IN walk' = IF page = << >> THEN [walk EXCEPT !.at = "done"]
                  ELSE [at |-> "flagging", after |-> Key(page[Len(page)]), page |-> page]
    /\ UNCHANGED <<rows, marked, toMark, seeded, rewrites>>

StopScan ==
    /\ walk.at \in {"paging", "flagging"}
    /\ walk' = [walk EXCEPT !.at = "stopped"]
    /\ UNCHANGED <<rows, marked, toMark, seeded, rewrites>>

\* flag_recheck is an UPDATE: where the row has gone it does nothing.
FlagNext ==
    /\ walk.at = "flagging"
    /\ marked' = marked \cup ({Head(walk.page)} \cap {a \in Unhealthy : rows[a] # Untracked})
    /\ walk' = [walk EXCEPT !.page = Tail(@), !.at = IF Len(walk.page) = 1 THEN "paging" ELSE @]
    /\ UNCHANGED <<rows, toMark, seeded, rewrites>>

Rewrite(a, health) ==
    /\ walk.at \in {"paging", "flagging"}
    /\ rewrites < MaxRewrites
    /\ rows' = [rows EXCEPT ![a] = health]
    /\ rewrites' = rewrites + 1
    /\ marked' = IF health = Untracked THEN marked \ {a} ELSE marked

\* apply_tick refreshes accounts and flags them afterwards.
RefreshRow ==
    /\ \E a \in Unhealthy, h \in Healths \cup {Untracked} :
           Rewrite(a, h) /\ toMark' = toMark \cup {a}
    /\ UNCHANGED <<walk, seeded>>

FlagRefreshed ==
    /\ \E a \in toMark :
           /\ toMark' = toMark \ {a}
           /\ marked' = marked \cup ({a} \cap {b \in Unhealthy : rows[b] # Untracked})
    /\ UNCHANGED <<rows, walk, seeded, rewrites>>

\* A reseed refreshes too, and flags nobody.
SeedRow ==
    /\ \E a \in Unhealthy, h \in Healths \cup {Untracked} :
           Rewrite(a, h) /\ seeded' = seeded \cup {a}
    /\ UNCHANGED <<walk, toMark>>

ScanNext == ReadPage \/ StopScan \/ FlagNext \/ RefreshRow \/ FlagRefreshed \/ SeedRow

ScanSpec == ScanInit /\ [][ScanNext]_scanVars

\* When a scan has gone through, every borrower below the threshold is
\* flagged, however the rows moved between its pages: by the scan, or by the
\* tick that moved the row past where the scan was.  Only a row a reseed
\* wrote during the walk may be left for the next scan.
ScanMissesNobody ==
    walk.at = "done" => Below \subseteq marked \cup toMark \cup seeded

=============================================================================
