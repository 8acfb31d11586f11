------------------------------ MODULE PoolReader ------------------------------
(***************************************************************************)
(* PoolReader::snapshot (src/chain/pool.rs): one ledger's view of a pool,  *)
(* put together from calls that are each answered by whichever node serves *)
(* them, at that node's ledger, while ledgers go on closing.  A content is *)
(* the ledger that last wrote it; a ledger closes at its own number.       *)
(***************************************************************************)
EXTENDS Integers, Sequences, FiniteSets

CONSTANTS
    ENTRY_BATCH,        \* keys in a getLedgerEntries call
    SNAPSHOT_ATTEMPTS,
    NodeLag,            \* bound: how far behind the chain a node answers
    MaxClosed           \* bound: ledgers closed

ASSUME PoolReaderAssumption ==
    /\ ENTRY_BATCH \in Nat \ {0} /\ SNAPSHOT_ATTEMPTS \in Nat \ {0}
    /\ NodeLag \in Nat /\ MaxClosed \in Nat \ {0}

VARIABLES
    closed,   \* the ledgers so far, each by what its storage holds
    reading   \* the caller's read

readerVars == <<closed, reading>>

\* What snapshot_once asks for after the shape: the reserves' entries and a
\* borrower's positions.  Unasked is an entry nobody asks for.
Reserves == {"r1", "r2"}
Wanted == <<"r1", "r2", "user">>
Unasked == "unasked"
Requested == {Wanted[i] : i \in DOMAIN Wanted}
Oracle == <<"decimals", "price">>
OracleParts == {Oracle[i] : i \in DOMAIN Oracle}
Parts == {"shape", Unasked} \cup Requested \cup OracleParts

NoPositions == 0

Genesis == [p \in Parts |-> IF p = "user" THEN NoPositions ELSE 1]

\* tick is what the caller was woken for; parts what it has read so far.
Idle == [at |-> "idle", attempt |-> 0, ledger |-> 0, first |-> 0, next |-> 1,
         parts |-> << >>, tick |-> 0]

ReaderInit ==
    /\ closed = <<Genesis>>
    /\ reading = Idle

\* A ledger closes over one write, over writes to everything, or over none.
Close ==
    /\ Len(closed) < MaxClosed
    /\ \E written \in {{}, Parts} \cup {{p} : p \in Parts} :
           LET l == Len(closed) + 1
           IN closed' = Append(closed, [p \in Parts |-> IF p \in written THEN l ELSE closed[l - 1][p]])
    /\ UNCHANGED reading

AnswersFrom == {l \in 1..Len(closed) : Len(closed) - l <= NodeLag}

Snapshot ==
    /\ reading.at \in {"idle", "returned", "failed"}
    /\ \E t \in 1..Len(closed) :
           reading' = [Idle EXCEPT !.at = "shape", !.attempt = 1, !.tick = t]
    /\ UNCHANGED closed

Put(parts, more) == [p \in DOMAIN parts \cup DOMAIN more |->
                        IF p \in DOMAIN more THEN more[p] ELSE parts[p]]

\* snapshot's loop: a moved ledger starts the attempt over, or is returned.
Moved ==
    reading' = IF reading.attempt < SNAPSHOT_ATTEMPTS
               THEN [Idle EXCEPT !.at = "shape", !.attempt = reading.attempt + 1,
                                 !.tick = reading.tick]
               ELSE [reading EXCEPT !.at = "failed"]

same_ledger(expected, actual) == expected = actual

ReadShape ==
    /\ reading.at = "shape"
    /\ \E at \in AnswersFrom :
           reading' = [reading EXCEPT !.at = "entries", !.ledger = at, !.first = 0,
                                      !.parts = [p \in {"shape"} |-> closed[at][p]]]
    /\ UNCHANGED closed

\* An entry whose key was not requested is dropped.
Keep(entries) == [p \in DOMAIN entries \cap Requested |-> entries[p]]

\* The batches must agree with each other, and their ledger with the shape's.
EntriesEnd(parts, first) ==
    IF same_ledger(reading.ledger, first)
    THEN reading' = [reading EXCEPT !.at = "oracle", !.parts = parts, !.next = 1]
    ELSE Moved

\* Faulty variant: the batches are not compared with each other.
ledger_entries_Unchecked(at, entries) ==
    LET parts == Put(reading.parts, Keep(entries))
        next == reading.next + ENTRY_BATCH
    IN IF next <= Len(Wanted)
       THEN reading' = [reading EXCEPT !.parts = parts, !.first = at, !.next = next]
       ELSE EntriesEnd(parts, at)

ledger_entries(at, entries) ==
    LET first == IF reading.first = 0 THEN at ELSE reading.first
        parts == Put(reading.parts, Keep(entries))
        next == reading.next + ENTRY_BATCH
    IN IF first # at THEN Moved
       ELSE IF next <= Len(Wanted)
       THEN reading' = [reading EXCEPT !.parts = parts, !.first = first, !.next = next]
       ELSE EntriesEnd(parts, first)

\* The keys of the next getLedgerEntries call.
Batch ==
    LET end == IF reading.next + ENTRY_BATCH - 1 < Len(Wanted)
               THEN reading.next + ENTRY_BATCH - 1 ELSE Len(Wanted)
    IN {Wanted[i] : i \in reading.next..end}

\* An absent key is left out of the answer.
Answer(at, unasked) ==
    [p \in {q \in Batch : closed[at][q] # NoPositions} \cup unasked |-> closed[at][p]]

ReadEntries ==
    /\ reading.at = "entries"
    /\ \E at \in AnswersFrom, unasked \in {{}, {Unasked}} : ledger_entries(at, Answer(at, unasked))
    /\ UNCHANGED closed

\* view: the oracle's decimals, then a price, each at the snapshot's ledger.
\* A borrower without an entry has empty positions.
ReadOracle ==
    /\ reading.at = "oracle"
    /\ \E at \in AnswersFrom :
           LET p == Oracle[reading.next]
               parts == Put(reading.parts, [q \in {p} |-> closed[at][p]])
           IN IF ~same_ledger(reading.ledger, at) THEN Moved
              ELSE reading' = IF reading.next < Len(Oracle)
                              THEN [reading EXCEPT !.parts = parts, !.next = @ + 1]
                              ELSE [reading EXCEPT !.at = "returned",
                                       !.parts = Put([q \in {"user"} |-> NoPositions], parts)]
    /\ UNCHANGED closed

\* Any other error of a call is returned at once.
CallFails ==
    /\ reading.at \in {"shape", "entries", "oracle"}
    /\ reading' = [reading EXCEPT !.at = "failed"]
    /\ UNCHANGED closed

ReaderNext == Close \/ Snapshot \/ ReadShape \/ ReadEntries \/ ReadOracle \/ CallFails

ReaderSpec == ReaderInit /\ [][ReaderNext]_readerVars

-----------------------------------------------------------------------------
(* What the positions of a snapshot are valued at.                          *)

last_time(parts) == {parts[p] : p \in Reserves}

Newest(s) == CHOOSE x \in s : \A y \in s : y <= x

\* Faulty variant: the tick alone says when.
valued_at_Tick(parts, close_time) == close_time

valued_at(parts, close_time) == Newest(last_time(parts) \cup {close_time})

\* accrued_reserves and position_data, which clamp again.
ValuedByScan(s) == valued_at(s.parts, s.tick)
ValuedByRefresh(s) == valued_at(s.parts, valued_at(s.parts, s.tick))

-----------------------------------------------------------------------------

\* A snapshot that is returned is what one ledger held: every part of it,
\* whichever node and whichever attempt it came from, is the content of that
\* ledger's storage, a borrower without an entry included, and nothing that
\* was not asked for is in it.
OneLedger ==
    reading.at = "returned" =>
        /\ DOMAIN reading.parts = {"shape"} \cup Requested \cup OracleParts
        /\ \A p \in DOMAIN reading.parts : reading.parts[p] = closed[reading.ledger][p]

\* However far the chain has moved past the tick its caller was woken for, a
\* snapshot is valued at an instant no reserve has to be accrued backwards
\* to, and the same instant whether the tracker or the auctioneer values it.
ValuedForward ==
    reading.at = "returned" =>
        /\ \A t \in last_time(reading.parts) : t <= ValuedByScan(reading)
        /\ reading.tick <= ValuedByScan(reading)
        /\ ValuedByRefresh(reading) = ValuedByScan(reading)

\* A snapshot is the view of one ledger, valued at one instant not before it
\* (chain/pool.rs, snapshot and valued_at).
SnapshotIsOne == OneLedger /\ ValuedForward
=============================================================================
