---------------------------- MODULE AuctionBook ----------------------------
(***************************************************************************)
(* The auctions table (src/store.rs) and its three writers, for one        *)
(* borrower's liquidation auction:                                         *)
(*                                                                         *)
(*   - the tracker applies the pool's events in order (src/tracker.rs), and *)
(*     applies them again after a failure or a restart;                     *)
(*   - the auctioneer adopts an auction the contract says is in progress    *)
(*     and the table does not hold (src/auctioneer.rs);                     *)
(*   - the filler re-reads the entry of each row it walks and deletes the   *)
(*     row when the chain holds no auction (src/filler.rs).                 *)
(*                                                                         *)
(* None of them locks the row, none compares updated_ledger, and each chain *)
(* read may be served by a node that lags.  What makes the book right in    *)
(* the end is that every wrong row is met again by one of the three.        *)
(*                                                                         *)
(* The auctioneer's rechecks and the filler's ticks come with the ledgers   *)
(* (RecheckQueue, Filler), which never stop: here both may run at any time. *)
(***************************************************************************)
EXTENDS Naturals

CONSTANTS
    None,        \* no auction entry, no row
    HasKey,      \* whether an auctioneer key is configured
    MaxLedger,   \* bound: ledgers after which the borrower is left alone
    MaxFaults    \* bound: failed reads, failed ticks and restarts

ASSUME BookAssumption ==
    /\ HasKey \in BOOLEAN
    /\ MaxLedger \in Nat \ {0}
    /\ MaxFaults \in Nat

VARIABLES
    head,      \* the last closed ledger
    entry,     \* the auction entry as each ledger left it
    event,     \* the auction event of each ledger
    hurt,      \* whether the borrower is liquidatable now
    served,    \* the oldest ledger a node still answers from
    row,       \* store: the auctions row
    cursor,    \* store: the ledger the tracker's events are committed up to
    applied,   \* the ledger the tracker has applied events up to
    apc,       \* where the auctioneer's act is
    found,     \* the entry adopt read and has not written yet
    fpc,       \* where the filler's walk is
    faults,
    tracked    \* history: the row is what the tracker's last event made it

chain == <<head, entry, event, hurt, served>>
tracker == <<cursor, applied>>
auctioneer == <<apc, found>>
vars == <<head, entry, event, hurt, served, row, cursor, applied, apc, found, fpc, faults, tracked>>

\* An auction is the ledger it started in, and whether all of it is left.  The
\* events cursor may start after it was opened: then the table does not
\* hold it.
Init ==
    /\ head = 1
    /\ entry \in [{1} -> {None, [start |-> 1, whole |-> TRUE]}]
    /\ event = [l \in {1} |-> "none"]
    /\ hurt \in BOOLEAN
    /\ served = 1
    /\ row = None
    /\ cursor = 1 /\ applied = 1
    /\ apc = "idle" /\ found = None
    /\ fpc = "idle"
    /\ faults = 0
    /\ tracked = (entry[1] = None)

----------------------------------------------------------------------------
(* The chain, and reads of it.                                             *)

\* What a ledger may do to the auction, and the event it emits.
Happens ==
    LET now == entry[head]
    IN  {<<"none", now>>}
        \cup (IF now = None
                THEN {<<"new", [start |-> head + 1, whole |-> TRUE]>>}
                ELSE {<<"full", None>>, <<"delete", None>>})
        \cup {<<"partial", [now EXCEPT !.whole = FALSE]>> :
                 x \in {y \in {now} : y # None /\ y.whole}}

\* A ledger closes; a node may still answer from the one before it.
CloseLedger ==
    /\ head < MaxLedger
    /\ head' = head + 1
    /\ \E h \in Happens :
          /\ event' = [l \in 1..(head + 1) |-> IF l > head THEN h[1] ELSE event[l]]
          /\ entry' = [l \in 1..(head + 1) |-> IF l > head THEN h[2] ELSE entry[l]]
    /\ hurt' \in BOOLEAN
    /\ served' \in {head, head + 1}
    /\ UNCHANGED <<row, tracker, auctioneer, fpc, faults, tracked>>

\* The slowest node catches up.
NodeCatchesUp ==
    /\ served < head
    /\ served' = head
    /\ UNCHANGED <<head, entry, event, hurt, row, tracker, auctioneer, fpc, faults, tracked>>

\* PoolReader::auction, at some ledger a node answers from.
Views == served..head

Fault ==
    /\ faults < MaxFaults
    /\ faults' = faults + 1

----------------------------------------------------------------------------
(* The tracker.                                                            *)

\* Faulty variant: a partial fill is taken for the end of the auction.
ApplyEvent_PartialEnds(l, v) ==
    IF event[l] = "new" THEN entry[l]
    ELSE IF event[l] = "none" THEN row ELSE None

\* Tracker::apply: the row an event makes.  What a partial fill left is read
\* back from the chain, at v, rather than computed.
ApplyEvent(l, v) ==
    CASE event[l] = "none" -> row
      [] event[l] = "new" -> entry[l]
      [] event[l] = "partial" -> entry[v]
      [] event[l] \in {"full", "delete"} -> None

TrackEvent ==
    /\ applied < head
    /\ applied' = applied + 1
    /\ \E v \in Views :
          /\ row' = ApplyEvent(applied', v)
          /\ tracked' = CASE event[applied'] = "none" -> tracked
                          [] event[applied'] = "partial" -> v = head
                          [] OTHER -> TRUE
    /\ UNCHANGED <<chain, cursor, auctioneer, fpc, faults>>

\* The tick was applied and its cursor written.
Commit ==
    /\ cursor < applied
    /\ cursor' = applied
    /\ UNCHANGED <<chain, row, applied, auctioneer, fpc, faults, tracked>>

\* An event or the tick failed: the events since the cursor come again.
TickFails ==
    /\ Fault
    /\ cursor < applied
    /\ applied' = cursor
    /\ UNCHANGED <<chain, row, cursor, auctioneer, fpc, tracked>>

----------------------------------------------------------------------------
(* The auctioneer.                                                         *)

\* decide_one: an open row is a skip; the rest goes on only when there is
\* something to liquidate and a key to simulate with.
Decide ==
    /\ apc = "idle"
    /\ row = None
    /\ hurt /\ HasKey
    /\ apc' = "judge"
    /\ UNCHANGED <<chain, row, tracker, found, fpc, faults, tracked>>

\* new_auction is simulated: AuctionInProgress is adopted, and any other
\* answer is Creation's subject.
Judge ==
    /\ apc = "judge"
    /\ \E v \in Views : apc' = IF entry[v] # None THEN "adopt" ELSE "idle"
    /\ UNCHANGED <<chain, row, tracker, found, fpc, faults, tracked>>

\* Faulty variant: what the contract answered is not acted on.
AdoptRead_Never ==
    /\ apc = "adopt"
    /\ apc' = "idle" /\ found' = None
    /\ UNCHANGED <<chain, row, tracker, fpc, faults, tracked>>

\* adopt reads the entry; none, or a failed read, ends it.
AdoptRead ==
    /\ apc = "adopt"
    /\ \/ \E v \in Views :
             /\ found' = entry[v]
             /\ apc' = IF entry[v] = None THEN "idle" ELSE "write"
          /\ UNCHANGED faults
       \/ Fault /\ apc' = "idle" /\ UNCHANGED found
    /\ UNCHANGED <<chain, row, tracker, fpc, tracked>>

\* adopt writes the row from what it read, whatever happened since.
AdoptWrite ==
    /\ apc = "write"
    /\ row' = found
    /\ apc' = "idle" /\ found' = None
    /\ tracked' = FALSE
    /\ UNCHANGED <<chain, tracker, fpc, faults>>

----------------------------------------------------------------------------
(* The filler.                                                             *)

\* open_auctions, and the row is considered.
ListRow ==
    /\ fpc = "idle" /\ row # None
    /\ fpc' = "read"
    /\ UNCHANGED <<chain, row, tracker, auctioneer, faults, tracked>>

\* Faulty variant: a row without an entry is only passed over.
ReadEntry_Passes ==
    /\ fpc = "read"
    /\ fpc' = "idle"
    /\ UNCHANGED <<chain, row, tracker, auctioneer, faults, tracked>>

\* read_entries: no entry deletes the row, by its key alone; a failed read
\* leaves it for the next tick.
ReadEntry ==
    /\ fpc = "read"
    /\ fpc' = "idle"
    /\ \/ /\ \E v \in Views :
                /\ row' = IF entry[v] = None THEN None ELSE row
                /\ tracked' = IF entry[v] = None THEN FALSE ELSE tracked
          /\ UNCHANGED faults
       \/ Fault /\ UNCHANGED <<row, tracked>>
    /\ UNCHANGED <<chain, tracker, auctioneer>>

\* The process ends and starts again from what the store holds.
Restart ==
    /\ Fault
    /\ applied' = cursor
    /\ apc' = "idle" /\ found' = None
    /\ fpc' = "idle"
    /\ UNCHANGED <<chain, row, cursor, tracked>>

Next ==
    \/ CloseLedger \/ NodeCatchesUp
    \/ TrackEvent \/ Commit \/ TickFails
    \/ Decide \/ Judge \/ AdoptRead \/ AdoptWrite
    \/ ListRow \/ ReadEntry
    \/ Restart

\* The chain goes on and its nodes catch up, the tasks run, and the filler
\* and the auctioneer come back to every row and every flagged borrower: a
\* row is due again after replan_ledgers, a borrower is flagged again by the
\* full scan (FULL_SCAN_LEDGERS > 0).
Fairness ==
    /\ WF_vars(CloseLedger) /\ WF_vars(NodeCatchesUp)
    /\ WF_vars(TrackEvent) /\ WF_vars(Commit)
    /\ WF_vars(Decide) /\ WF_vars(Judge) /\ WF_vars(AdoptRead) /\ WF_vars(AdoptWrite)
    /\ WF_vars(ListRow) /\ WF_vars(ReadEntry)

Spec == Init /\ [][Next]_vars /\ Fairness

----------------------------------------------------------------------------
(* Properties.                                                             *)

Open == entry[head] # None

\* Events applied twice, in order, with partial fills read back from a later
\* ledger than their own, end in the row the chain's entry says: once the
\* tracker has caught up and was the last to write the row, the row is the
\* entry (tracker.rs, apply; service.rs, the redelivery after a failure).
ReplayConverges == tracked /\ applied = head => row = entry[head]

\* A row never outlives its auction for good.  The tracker's delete may be
\* overtaken by adopt's write of what it read before, and a lagging node may
\* bring a filled auction back; the filler's re-read removes both.
ClosedIsForgotten == <>[]~Open => <>[](row = None)

\* An auction that stays open on a borrower who stays liquidatable gets its
\* row, and keeps it: though the cursor started after its event, and though
\* the filler deletes a row on a lagging node's answer, the next recheck
\* meets AuctionInProgress and adopts it.
OpenIsFound == HasKey /\ <>[](Open /\ hurt) => <>[](row # None)

\* The book settles on what the chain holds: the row of a closed auction goes
\* and that of an open one comes, whatever was read late or written over
\* (tracker.rs, apply; auctioneer.rs, adopt; filler.rs, read_entries).
Settles == ClosedIsForgotten /\ OpenIsFound
=============================================================================
