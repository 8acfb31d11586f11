--------------------------- MODULE ReadingProofs ---------------------------
(***************************************************************************)
(* Theorems about what the bot reads: the rows of AuctionBook, for any     *)
(* number of ledgers and faults; the snapshots of PoolReader, however the  *)
(* chain closes ledgers between two requests; and the pages of ScanWalk,   *)
(* however the tracker rewrites the rows between two of them.              *)
(*                                                                         *)
(* A partial fill is read back from a ledger past its own, so the row may  *)
(* run ahead of the events applied; and a redelivery takes the events back,*)
(* not the row.  Either way a row that the tracker wrote last is the entry *)
(* of some ledger the tracker has not passed, and every event between the  *)
(* two will write it again.                                                *)
(***************************************************************************)
EXTENDS AuctionBook, PoolReader, ScanWalk, FiniteSetTheorems, TLAPS

Events == {"none", "new", "partial", "full", "delete"}

BookType ==
    /\ head \in Nat /\ head >= 1
    /\ DOMAIN entry = 1..head
    /\ event \in [1..head -> Events]
    /\ cursor \in Nat /\ cursor >= 1 /\ cursor <= applied
    /\ applied \in Nat /\ applied <= head
    /\ served \in Nat /\ served >= 1 /\ served <= head

\* The events tell what became of the entry, but for what a partial fill left.
EventsTell ==
    \A l \in 2..head :
        /\ event[l] = "none" => entry[l] = entry[l - 1]
        /\ event[l] \in {"full", "delete"} => entry[l] = None

\* The tracker's own row is never of a ledger it has passed.
NotPassed == tracked => \E w \in applied..head : row = entry[w]

IInv == BookType /\ EventsTell /\ NotPassed

----------------------------------------------------------------------------
LEMMA HappensShape ==
  ASSUME NEW h \in Happens
  PROVE  /\ h[1] \in Events
         /\ h[1] = "none" => h[2] = entry[head]
         /\ h[1] \in {"full", "delete"} => h[2] = None
  BY DEF Happens, Events

\* A ledger is added after those there are.
LEMMA LedgerStep ==
  ASSUME IInv, CloseLedger
  PROVE  IInv'
  <1>1. PICK h \in Happens :
          /\ event' = [l \in 1..(head + 1) |-> IF l > head THEN h[1] ELSE event[l]]
          /\ entry' = [l \in 1..(head + 1) |-> IF l > head THEN h[2] ELSE entry[l]]
    BY DEF CloseLedger
  <1>2. /\ head' = head + 1 /\ served' \in {head, head + 1}
        /\ UNCHANGED <<row, cursor, applied, tracked>>
    BY DEF CloseLedger, tracker
  <1>3. /\ head \in Nat /\ head >= 1
        /\ \A l \in 1..head : event'[l] = event[l] /\ entry'[l] = entry[l]
        /\ event'[head + 1] = h[1] /\ entry'[head + 1] = h[2]
    BY <1>1 DEF IInv, BookType
  <1>4. /\ h[1] \in Events
        /\ h[1] = "none" => h[2] = entry[head]
        /\ h[1] \in {"full", "delete"} => h[2] = None
    BY HappensShape
  <1>5. BookType'
    BY <1>1, <1>2, <1>3, <1>4 DEF IInv, BookType
  <1>6. EventsTell'
    <2>1. ASSUME NEW l \in 2..head'
          PROVE  /\ event'[l] = "none" => entry'[l] = entry'[l - 1]
                 /\ event'[l] \in {"full", "delete"} => entry'[l] = None
      <3>1. CASE l = head + 1
        BY <1>3, <1>4, <3>1
      <3>2. CASE l \in 2..head
        <4>1. l - 1 \in 1..head
          BY <1>3, <3>2
        <4> QED
          BY <1>3, <3>2, <4>1 DEF IInv, EventsTell
      <3> QED
        BY <1>2, <1>3, <2>1, <3>1, <3>2
    <2> QED
      BY <2>1 DEF EventsTell
  <1>7. NotPassed'
    <2>1. ASSUME tracked
          PROVE  \E w \in applied..(head + 1) : row = entry'[w]
      <3>1. PICK w \in applied..head : row = entry[w]
        BY <2>1 DEF IInv, NotPassed
      <3>2. w \in 1..head /\ w \in applied..(head + 1)
        BY <1>3, <3>1 DEF IInv, BookType
      <3> QED
        BY <1>3, <3>1, <3>2
    <2> QED
      BY <1>2, <2>1 DEF NotPassed
  <1> QED
    BY <1>5, <1>6, <1>7 DEF IInv

\* An event overtakes the row, or leaves it where it is.
LEMMA EventStep ==
  ASSUME IInv, TrackEvent
  PROVE  IInv'
  <1>1. PICK v \in Views :
          /\ row' = ApplyEvent(applied', v)
          /\ tracked' = CASE event[applied'] = "none" -> tracked
                          [] event[applied'] = "partial" -> v = head
                          [] OTHER -> TRUE
    BY DEF TrackEvent
  <1>2. /\ applied < head /\ applied' = applied + 1
        /\ UNCHANGED <<head, entry, event, served, cursor>>
    BY DEF TrackEvent, chain
  <1>3. /\ applied' \in 2..head /\ applied' \in Nat /\ head \in Nat /\ applied \in Nat
        /\ event[applied'] \in Events /\ applied' - 1 = applied
    BY <1>2 DEF IInv, BookType
  <1>4. BookType'
    BY <1>2, <1>3 DEF IInv, BookType
  <1>5. EventsTell'
    BY <1>2 DEF IInv, EventsTell
  <1>6. ASSUME tracked'
        PROVE  \E w \in applied'..head : row' = entry[w]
    <2>1. CASE event[applied'] = "none"
      <3>1. tracked /\ row' = row
        BY <1>1, <1>6, <2>1 DEF ApplyEvent
      <3>2. PICK w \in applied..head : row = entry[w]
        BY <3>1 DEF IInv, NotPassed
      <3>3. CASE w = applied
        <4>1. entry[applied'] = entry[applied]
          BY <1>3, <2>1 DEF IInv, EventsTell
        <4> QED
          BY <1>3, <3>1, <3>2, <3>3, <4>1
      <3>4. CASE w # applied
        <4>1. w \in applied'..head
          BY <1>2, <1>3, <3>2, <3>4
        <4> QED
          BY <3>1, <3>2, <4>1
      <3> QED
        BY <3>3, <3>4
    <2>2. CASE event[applied'] = "partial"
      <3>1. v = head /\ row' = entry[head]
        BY <1>1, <1>6, <2>2 DEF ApplyEvent
      <3> QED
        BY <1>3, <3>1
    <2>3. CASE event[applied'] \in {"new", "full", "delete"}
      <3>1. row' = entry[applied']
        BY <1>1, <1>3, <2>3 DEF ApplyEvent, IInv, EventsTell
      <3> QED
        BY <1>3, <3>1
    <2> QED
      BY <1>3, <2>1, <2>2, <2>3 DEF Events
  <1> QED
    BY <1>2, <1>4, <1>5, <1>6 DEF IInv, NotPassed

\* The tracker goes on, or back, and the row is not past it either way.
LEMMA ElsewhereStep ==
  ASSUME IInv,
         UNCHANGED <<head, entry, event>>,
         served' \in {served, head},
         \/ applied' = applied /\ cursor' \in {cursor, applied}
         \/ applied' = cursor /\ cursor' = cursor,
         ~tracked' \/ UNCHANGED <<row, tracked>>
  PROVE  IInv'
  <1>1. BookType'
    BY DEF IInv, BookType
  <1>2. EventsTell'
    BY DEF IInv, EventsTell
  <1>3. ASSUME tracked'
        PROVE  \E w \in applied'..head : row' = entry[w]
    <2>1. tracked /\ row' = row
      BY <1>3
    <2>2. PICK w \in applied..head : row = entry[w]
      BY <2>1 DEF IInv, NotPassed
    <2>3. w \in applied'..head
      BY <2>2 DEF IInv, BookType
    <2> QED
      BY <2>1, <2>2, <2>3
  <1> QED
    BY <1>1, <1>2, <1>3 DEF IInv, NotPassed

LEMMA InitIInv == Init => IInv
  <1> SUFFICES ASSUME Init PROVE IInv
    OBVIOUS
  <1>1. BookType
    BY DEF Init, BookType, Events
  <1>2. EventsTell
    BY DEF Init, EventsTell
  <1>3. NotPassed
    <2>1. row = None /\ applied = 1 /\ head = 1
      BY DEF Init
    <2>2. tracked => entry[1] = None
      BY DEF Init
    <2> QED
      BY <2>1, <2>2 DEF NotPassed
  <1> QED
    BY <1>1, <1>2, <1>3 DEF IInv

\* Every step of the chain, of the three writers and of the process keeps the
\* tracker's own row at a ledger that it has not passed.
THEOREM Invariance == Spec => []IInv
  <1>1. ASSUME IInv, [Next]_vars
        PROVE  IInv'
    <2>1. CASE CloseLedger
      BY <1>1, <2>1, LedgerStep
    <2>2. CASE TrackEvent
      BY <1>1, <2>2, EventStep
    <2>3. CASE NodeCatchesUp \/ Commit \/ TickFails
      BY <1>1, <2>3, ElsewhereStep DEF NodeCatchesUp, Commit, TickFails, chain, tracker
    <2>4. CASE Decide \/ Judge \/ AdoptRead \/ AdoptWrite
      BY <1>1, <2>4, ElsewhereStep DEF Decide, Judge, AdoptRead, AdoptWrite, chain, tracker
    <2>5. CASE ListRow \/ ReadEntry \/ Restart
      BY <1>1, <2>5, ElsewhereStep DEF ListRow, ReadEntry, Restart, chain, tracker
    <2>6. CASE UNCHANGED vars
      BY <1>1, <2>6, ElsewhereStep DEF vars
    <2> QED
      BY <1>1, <2>1, <2>2, <2>3, <2>4, <2>5, <2>6 DEF Next
  <1> QED
    BY <1>1, InitIInv, PTL DEF Spec

\* Events applied twice after a failure or a restart, with partial fills read
\* back from a later ledger, end in the row the chain's entry says (Tracker's
\* apply, and the redelivery of a tick that failed).
THEOREM ReplaysConverge == Spec => []ReplayConverges
  <1>1. ASSUME IInv
        PROVE  ReplayConverges
    <2>1. ASSUME tracked, applied = head
          PROVE  row = entry[head]
      <3>1. PICK w \in applied..head : row = entry[w]
        BY <1>1, <2>1 DEF IInv, NotPassed
      <3>2. w = head
        BY <1>1, <2>1, <3>1 DEF IInv, BookType
      <3> QED
        BY <3>1, <3>2
    <2> QED
      BY <2>1 DEF ReplayConverges
  <1> QED
    BY <1>1, Invariance, PTL

----------------------------------------------------------------------------
(* PoolReader: a snapshot is of one ledger.                                *)

\* The chain: whatever a ledger holds was written by some ledger, and only a
\* borrower's positions may be absent.
ChainKept ==
    /\ closed \in Seq([Parts -> Nat]) /\ Len(closed) >= 1
    /\ \A l \in 1..Len(closed) : \A p \in Parts \ {"user"} : closed[l][p] # NoPositions

ReadingFields ==
    /\ reading = [at |-> reading.at, attempt |-> reading.attempt, ledger |-> reading.ledger,
                  first |-> reading.first, next |-> reading.next, parts |-> reading.parts,
                  tick |-> reading.tick]
    /\ reading.at \in {"idle", "shape", "entries", "oracle", "returned", "failed"}
    /\ reading.tick \in Nat
    /\ reading.at \in {"entries", "oracle", "returned"} => reading.ledger \in 1..Len(closed)
    /\ reading.at = "shape" => reading.next = 1

\* The keys asked for before the batch that starts at n.
Asked(n) == {Wanted[i] : i \in 1..(n - 1)}
Held(l, keys) == {p \in keys : closed[l][p] # NoPositions}

\* Between two batches: what came before is the content of the first batch's
\* ledger, and the shape that of its own.
EntriesRead ==
    reading.at = "entries" =>
        /\ reading.next \in 1..Len(Wanted)
        /\ reading.first = 0 => reading.next = 1
        /\ reading.first # 0 => reading.first \in 1..Len(closed)
        /\ "shape" \in DOMAIN reading.parts
        /\ reading.parts["shape"] = closed[reading.ledger]["shape"]
        /\ DOMAIN reading.parts \ {"shape"} = IF reading.first = 0 THEN {}
                                               ELSE Held(reading.first, Asked(reading.next))
        /\ \A p \in DOMAIN reading.parts \ {"shape"} : reading.parts[p] = closed[reading.first][p]

\* From there on every part is the content of the snapshot's ledger.
OracleRead ==
    reading.at = "oracle" =>
        /\ reading.next \in {1, 2}
        /\ DOMAIN reading.parts = {"shape"} \cup Held(reading.ledger, Requested)
                                  \cup (IF reading.next = 1 THEN {} ELSE {"decimals"})
        /\ \A p \in DOMAIN reading.parts : reading.parts[p] = closed[reading.ledger][p]

ReaderInv == ChainKept /\ ReadingFields /\ EntriesRead /\ OracleRead /\ OneLedger

LEMMA WantedKeys ==
  /\ Len(Wanted) = 3
  /\ Wanted[1] = "r1" /\ Wanted[2] = "r2" /\ Wanted[3] = "user"
  /\ Requested = {"r1", "r2", "user"}
  BY DEF Wanted, Requested

LEMMA OracleKeys ==
  /\ Len(Oracle) = 2 /\ Oracle[1] = "decimals" /\ Oracle[2] = "price"
  /\ OracleParts = {"decimals", "price"}
  BY DEF Oracle, OracleParts

LEMMA PartsAre ==
  /\ Parts = {"shape", "unasked", "r1", "r2", "user", "decimals", "price"}
  /\ "shape" \in Parts /\ "user" \in Parts
  BY WantedKeys, OracleKeys DEF Parts, Unasked

LEMMA BatchAsked ==
  ASSUME NEW n \in 1..3, NEW e \in n..3
  PROVE  Asked(n) \cup {Wanted[i] : i \in n..e} = Asked(e + 1)
  BY DEF Asked

LEMMA AllAsked == Asked(4) = Requested
  <1>1. \A i : i \in 1..(4 - 1) <=> i = 1 \/ i = 2 \/ i = 3
    OBVIOUS
  <1> QED
    BY <1>1, WantedKeys DEF Asked

LEMMA AskedAreRequested ==
  ASSUME NEW n \in 1..4
  PROVE  Asked(n) \subseteq Requested
  <1>1. \A i \in 1..(n - 1) : i = 1 \/ i = 2 \/ i = 3
    OBVIOUS
  <1> QED
    BY <1>1, WantedKeys DEF Asked

LEMMA ReaderStarts == ReaderInit => ReaderInv
  <1> SUFFICES ASSUME ReaderInit PROVE ReaderInv
    OBVIOUS
  <1>1. Genesis \in [Parts -> Nat] /\ \A p \in Parts \ {"user"} : Genesis[p] # NoPositions
    BY DEF Genesis, NoPositions
  <1>2. ChainKept
    BY <1>1 DEF ChainKept, ReaderInit
  <1>3. ReadingFields /\ reading.at = "idle"
    BY DEF ReadingFields, ReaderInit, Idle
  <1> QED
    BY <1>2, <1>3 DEF ReaderInv, EntriesRead, OracleRead, OneLedger

\* A ledger that closes leaves the ones before it as they are.
LEMMA LedgerClosed ==
  ASSUME ReaderInv, Close
  PROVE  ReaderInv'
  <1> DEFINE n == Len(closed)
  <1>1. PICK new :
           /\ new \in [Parts -> Nat] /\ closed' = Append(closed, new)
           /\ \A p \in Parts \ {"user"} : new[p] # NoPositions
    <2>1. PICK written : closed' = Append(closed, [p \in Parts |->
                 IF p \in written THEN Len(closed) + 1 ELSE closed[Len(closed) + 1 - 1][p]])
      BY DEF Close
    <2>2. n \in 1..Len(closed) /\ closed[n] \in [Parts -> Nat] /\ n + 1 - 1 = n
      BY DEF ReaderInv, ChainKept
    <2> DEFINE new == [p \in Parts |-> IF p \in written THEN n + 1 ELSE closed[n][p]]
    <2>3. new \in [Parts -> Nat]
      BY <2>2
    <2>4. \A p \in Parts \ {"user"} : new[p] # NoPositions
      BY <2>2 DEF ReaderInv, ChainKept, NoPositions
    <2>5. closed' = Append(closed, new)
      BY <2>1, <2>2
    <2> QED
      BY <2>3, <2>4, <2>5
  <1>2. /\ closed' \in Seq([Parts -> Nat]) /\ Len(closed') = n + 1 /\ n \in Nat
        /\ \A l \in 1..n : closed'[l] = closed[l]
        /\ closed'[n + 1] = new
    BY <1>1 DEF ReaderInv, ChainKept
  <1>3. ChainKept'
    BY <1>1, <1>2 DEF ReaderInv, ChainKept
  <1>4. UNCHANGED reading
    BY DEF Close
  <1>5. ReadingFields'
    BY <1>2, <1>4 DEF ReaderInv, ReadingFields
  <1>6. ASSUME NEW l \in 1..n, NEW keys
        PROVE  Held(l, keys)' = Held(l, keys)
    BY <1>2 DEF Held
  <1>7. EntriesRead'
    <2> SUFFICES ASSUME reading.at = "entries"
                 PROVE  EntriesRead'
      BY <1>4 DEF EntriesRead
    <2>1. reading.ledger \in 1..n
      BY DEF ReaderInv, ReadingFields
    <2>2. CASE reading.first = 0
      BY <2>1, <2>2, <1>2, <1>4 DEF ReaderInv, EntriesRead
    <2>3. CASE reading.first # 0
      <3>1. reading.first \in 1..n /\ reading.first \in 1..(n + 1)
        BY <2>3, <1>2 DEF ReaderInv, EntriesRead
      <3> QED
        BY <2>1, <2>3, <3>1, <1>2, <1>4, <1>6 DEF ReaderInv, EntriesRead, Asked
    <2> QED
      BY <2>2, <2>3
  <1>8. OracleRead' /\ OneLedger'
    <2>1. reading.at \in {"oracle", "returned"} => reading.ledger \in 1..n
      BY DEF ReaderInv, ReadingFields
    <2> QED
      BY <2>1, <1>2, <1>4, <1>6 DEF ReaderInv, OracleRead, OneLedger
  <1> QED
    BY <1>3, <1>5, <1>7, <1>8 DEF ReaderInv

\* A moved ledger or a failed call leaves nothing in hand.
LEMMA AttemptOver ==
  ASSUME ReaderInv, UNCHANGED closed,
         \/ Moved
         \/ reading' = [reading EXCEPT !.at = "failed"]
  PROVE  ReaderInv'
  <1>1. ReadingFields' /\ reading'.at \in {"shape", "failed"}
    BY DEF ReaderInv, Moved, ReadingFields, Idle
  <1> QED
    BY <1>1 DEF ReaderInv, ChainKept, EntriesRead, OracleRead, OneLedger

LEMMA SnapshotBegins ==
  ASSUME ReaderInv, Snapshot
  PROVE  ReaderInv'
  <1>0. PICK t \in 1..Len(closed) :
            reading' = [Idle EXCEPT !.at = "shape", !.attempt = 1, !.tick = t]
    BY DEF Snapshot
  <1>1. ReadingFields' /\ reading'.at = "shape"
    <2>1. t \in Nat
      BY DEF ReaderInv, ChainKept
    <2> QED
      BY <1>0, <2>1 DEF ReadingFields, Idle
  <1> QED
    BY <1>1 DEF ReaderInv, ChainKept, EntriesRead, OracleRead, OneLedger, Snapshot

LEMMA ShapeRead ==
  ASSUME ReaderInv, ReadShape
  PROVE  ReaderInv'
  <1>1. PICK l \in AnswersFrom :
           reading' = [reading EXCEPT !.at = "entries", !.ledger = l, !.first = 0,
                                      !.parts = [p \in {"shape"} |-> closed[l][p]]]
    BY DEF ReadShape
  <1>2. l \in 1..Len(closed) /\ UNCHANGED closed /\ reading.next = 1
    BY DEF AnswersFrom, ReadShape, ReaderInv, ReadingFields
  <1>3. /\ reading'.at = "entries" /\ reading'.ledger = l /\ reading'.first = 0
        /\ reading'.next = 1 /\ reading'.parts = [p \in {"shape"} |-> closed[l][p]]
        /\ ReadingFields'
    BY <1>1, <1>2 DEF ReaderInv, ReadingFields
  <1>4. EntriesRead'
    BY <1>2, <1>3, WantedKeys DEF EntriesRead
  <1> QED
    BY <1>2, <1>3, <1>4 DEF ReaderInv, ChainKept, OracleRead, OneLedger

\* A batch read at the ledger of the ones before it adds that ledger's content.
LEMMA BatchRead ==
  ASSUME ReaderInv, ReadEntries
  PROVE  ReaderInv'
  <1> DEFINE next == reading.next + ENTRY_BATCH
             end == IF reading.next + ENTRY_BATCH - 1 < Len(Wanted)
                    THEN reading.next + ENTRY_BATCH - 1 ELSE Len(Wanted)
             batch == {Wanted[i] : i \in reading.next..end}
  <1>0. /\ reading.at = "entries" /\ UNCHANGED closed
        /\ reading.next \in 1..3 /\ next \in Nat /\ end \in reading.next..3
        /\ reading.ledger \in 1..Len(closed)
        /\ (next <= 3 => end + 1 = next) /\ (~(next <= 3) => end + 1 = 4)
    <2>1. reading.at = "entries" /\ UNCHANGED closed
      BY DEF ReadEntries
    <2>2. Len(Wanted) = 3 /\ ENTRY_BATCH \in Nat \ {0}
      BY WantedKeys, PoolReaderAssumption DEF PoolReaderAssumption
    <2>3. reading.ledger \in 1..Len(closed)
      BY <2>1 DEF ReaderInv, ReadingFields
    <2>4. reading.next \in 1..3
      BY <2>1, <2>2 DEF ReaderInv, EntriesRead
    <2>5. next \in Nat /\ end \in reading.next..3
      BY <2>2, <2>4
    <2>6. (next <= 3 => end + 1 = next) /\ (~(next <= 3) => end + 1 = 4)
      BY <2>2, <2>4
    <2> QED
      BY <2>1, <2>3, <2>4, <2>5, <2>6
  <1>1. PICK l \in AnswersFrom, unasked \in {{}, {Unasked}} : ledger_entries(l, Answer(l, unasked))
    BY DEF ReadEntries
  <1> DEFINE entries == Answer(l, unasked)
             first == IF reading.first = 0 THEN l ELSE reading.first
             parts == Put(reading.parts, Keep(entries))
  <1>2. \/ Moved
        \/ /\ first = l
           /\ IF next <= 3
              THEN reading' = [reading EXCEPT !.parts = parts, !.first = first, !.next = next]
              ELSE EntriesEnd(parts, first)
    BY <1>1, WantedKeys DEF ledger_entries
  <1>3. CASE Moved
    BY <1>3, <1>0, AttemptOver
  <1>4. CASE first = l
    <2>1. l \in 1..Len(closed) /\ l # 0
      BY DEF AnswersFrom
    <2>2. batch \subseteq Requested /\ Asked(reading.next) \cup batch = Asked(end + 1)
      <3> HIDE DEF end
      <3>1. Asked(reading.next) \cup batch = Asked(end + 1)
        BY <1>0, BatchAsked
      <3>2. end + 1 \in 1..4
        BY <1>0
      <3>3. Asked(end + 1) \subseteq Requested
        BY <3>2, AskedAreRequested
      <3> QED
        BY <3>1, <3>3
    <2>3. Keep(entries) = [p \in Held(l, batch) |-> closed[l][p]]
      <3>1. entries = [p \in Held(l, batch) \cup unasked |-> closed[l][p]]
        <4>1. batch = Batch
          BY Zenon DEF Batch
        <4> HIDE DEF batch
        <4> QED
          BY <4>1 DEF Answer, Held
      <3>2. unasked \cap Requested = {}
        BY WantedKeys DEF Unasked
      <3>3. Held(l, batch) \subseteq Requested
        BY <2>2 DEF Held
      <3> DEFINE held == Held(l, batch)
      <3> HIDE DEF batch, entries, held
      <3>4. DOMAIN entries \cap Requested = held
        BY <3>1, <3>2, <3>3 DEF held
      <3>5. \A p \in held : entries[p] = closed[l][p]
        BY <3>1 DEF held
      <3> QED
        BY <3>4, <3>5 DEF Keep, held
    <2> HIDE DEF batch, entries, next, end
    <2>4. /\ DOMAIN parts = DOMAIN reading.parts \cup Held(l, batch)
          /\ \A p \in Held(l, batch) : parts[p] = closed[l][p]
          /\ \A p \in DOMAIN reading.parts \ Held(l, batch) : parts[p] = reading.parts[p]
      BY <2>3 DEF Put
    <2>5. "shape" \notin Held(l, batch)
      BY <2>2, WantedKeys DEF Held
    <2>6. "shape" \in DOMAIN reading.parts
          /\ reading.parts["shape"] = closed[reading.ledger]["shape"]
      BY <1>0 DEF ReaderInv, EntriesRead
    <2>7. /\ DOMAIN reading.parts \ {"shape"} = Held(l, Asked(reading.next))
          /\ \A p \in DOMAIN reading.parts \ {"shape"} : reading.parts[p] = closed[l][p]
      <3>1. CASE reading.first = 0
        <4>1. reading.next = 1 /\ DOMAIN reading.parts \ {"shape"} = {}
          BY <3>1, <1>0 DEF ReaderInv, EntriesRead
        <4>2. Asked(reading.next) = {}
          BY <4>1 DEF Asked
        <4> QED
          BY <4>1, <4>2 DEF Held
      <3>2. CASE reading.first # 0
        BY <3>2, <1>0, <1>4 DEF ReaderInv, EntriesRead
      <3> QED
        BY <3>1, <3>2
    <2>8. DOMAIN parts \ {"shape"} = Held(l, Asked(end + 1))
      BY <2>2, <2>4, <2>5, <2>7 DEF Held
    <2>9. /\ "shape" \in DOMAIN parts /\ parts["shape"] = closed[reading.ledger]["shape"]
          /\ \A p \in DOMAIN parts \ {"shape"} : parts[p] = closed[l][p]
      BY <2>4, <2>5, <2>6, <2>7
    <2> HIDE DEF parts, first
    <2>10. CASE next <= 3
      <3>1. \/ Moved
            \/ reading' = [reading EXCEPT !.parts = parts, !.first = l, !.next = next]
        BY <1>2, <1>4, <2>10
      <3>2. CASE reading' = [reading EXCEPT !.parts = parts, !.first = l, !.next = next]
        <4>1. /\ ReadingFields' /\ reading'.at = "entries" /\ reading'.ledger = reading.ledger
              /\ reading'.first = l /\ reading'.next = next /\ reading'.parts = parts
          BY <3>2, <1>0 DEF ReaderInv, ReadingFields
        <4>2. next \in 1..3 /\ end + 1 = next
          BY <1>0, <2>10, PoolReaderAssumption DEF PoolReaderAssumption, next
        <4>4. EntriesRead'
          BY <4>1, <4>2, <1>0, <2>1, <2>8, <2>9, WantedKeys DEF EntriesRead, Held
        <4> QED
          BY <4>1, <4>4, <1>0 DEF ReaderInv, ChainKept, OracleRead, OneLedger
      <3> QED
        BY <3>1, <3>2, <1>3
    <2>11. CASE ~(next <= 3)
      <3>1. \/ Moved
            \/ /\ reading.ledger = l
               /\ reading' = [reading EXCEPT !.at = "oracle", !.parts = parts, !.next = 1]
        BY <1>2, <1>4, <2>11 DEF EntriesEnd, same_ledger
      <3>2. CASE /\ reading.ledger = l
                 /\ reading' = [reading EXCEPT !.at = "oracle", !.parts = parts, !.next = 1]
        <4>1. /\ ReadingFields' /\ reading'.at = "oracle" /\ reading'.ledger = l
              /\ reading'.next = 1 /\ reading'.parts = parts
          BY <3>2, <1>0 DEF ReaderInv, ReadingFields
        <4>2. Asked(end + 1) = Requested
          BY <1>0, <2>11, AllAsked
        <4>3. DOMAIN parts = {"shape"} \cup Held(l, Requested)
          BY <4>2, <2>8, <2>9
        <4>4. OracleRead'
          BY <4>1, <4>3, <3>2, <1>0, <2>9 DEF OracleRead, Held
        <4> QED
          BY <4>1, <4>4, <1>0 DEF ReaderInv, ChainKept, EntriesRead, OneLedger
      <3> QED
        BY <3>1, <3>2, <1>3
    <2> QED
      BY <2>10, <2>11
  <1> QED
    BY <1>2, <1>3, <1>4

\* A call on the oracle adds the snapshot's ledger's content, and the last one
\* fills in the borrower without an entry.
LEMMA OracleAnswered ==
  ASSUME ReaderInv, ReadOracle
  PROVE  ReaderInv'
  <1>0. /\ reading.at = "oracle" /\ UNCHANGED closed
        /\ reading.ledger \in 1..Len(closed) /\ reading.next \in {1, 2}
        /\ DOMAIN reading.parts = {"shape"} \cup Held(reading.ledger, Requested)
                                  \cup (IF reading.next = 1 THEN {} ELSE {"decimals"})
        /\ \A p \in DOMAIN reading.parts : reading.parts[p] = closed[reading.ledger][p]
    BY DEF ReaderInv, ReadingFields, OracleRead, ReadOracle
  <1> DEFINE l == reading.ledger
             q == Oracle[reading.next]
             parts == Put(reading.parts, [p \in {q} |-> closed[l][q]])
  <1>1. \/ Moved
        \/ reading' = IF reading.next < 2
                      THEN [reading EXCEPT !.parts = parts, !.next = @ + 1]
                      ELSE [reading EXCEPT !.at = "returned",
                               !.parts = Put([p \in {"user"} |-> NoPositions], parts)]
    BY OracleKeys DEF ReadOracle, same_ledger
  <1>2. CASE Moved
    BY <1>2, <1>0, AttemptOver
  <1>3. /\ DOMAIN parts = DOMAIN reading.parts \cup {q}
        /\ \A p \in DOMAIN parts : parts[p] = closed[l][p]
    BY <1>0 DEF Put
  <1> HIDE DEF parts
  <1>4. CASE reading.next = 1
    <2>1. q = "decimals"
      BY <1>4, OracleKeys
    <2>2. CASE reading' = [reading EXCEPT !.parts = parts, !.next = @ + 1]
      <3>1. /\ ReadingFields' /\ reading'.at = "oracle" /\ reading'.ledger = l
            /\ reading'.next = 2 /\ reading'.parts = parts
        <4>1. reading.next + 1 = 2
          BY <1>4
        <4> QED
          BY <1>0, <4>1, <2>2 DEF ReaderInv, ReadingFields
      <3>2. OracleRead'
        BY <3>1, <2>1, <1>0, <1>3, <1>4 DEF OracleRead, Held
      <3> QED
        BY <3>1, <3>2, <1>0 DEF ReaderInv, ChainKept, EntriesRead, OneLedger
    <2> QED
      BY <1>1, <1>2, <1>4, <2>2
  <1>5. CASE reading.next = 2
    <2>1. q = "price"
      BY <1>5, OracleKeys
    <2> DEFINE all == Put([p \in {"user"} |-> NoPositions], parts)
    <2>2. CASE reading' = [reading EXCEPT !.at = "returned", !.parts = all]
      <3>1. /\ ReadingFields' /\ reading'.at = "returned" /\ reading'.ledger = l
            /\ reading'.parts = all
        BY <1>0, <2>2 DEF ReaderInv, ReadingFields
      <3>2. DOMAIN parts = {"shape", "decimals", "price"} \cup Held(l, Requested)
        BY <1>0, <1>3, <1>5, <2>1
      <3>3. {"r1", "r2"} \subseteq Held(l, Requested) /\ Held(l, Requested) \subseteq Requested
        BY <1>0, WantedKeys, PartsAre DEF Held, ReaderInv, ChainKept
      <3>4. DOMAIN all = {"shape"} \cup Requested \cup OracleParts
        BY <3>2, <3>3, WantedKeys, OracleKeys DEF Put
      <3>5. \A p \in DOMAIN all : all[p] = closed[l][p]
        <4>1. "user" \notin DOMAIN parts => closed[l]["user"] = NoPositions
          BY <3>2, WantedKeys DEF Held
        <4>2. \A p \in DOMAIN all : IF p \in DOMAIN parts THEN all[p] = parts[p]
                                    ELSE p = "user" /\ all[p] = NoPositions
          BY DEF Put
        <4> QED
          BY <4>1, <4>2, <1>3
      <3> HIDE DEF all
      <3>6. OneLedger'
        BY <3>1, <3>4, <3>5, <1>0 DEF OneLedger
      <3> QED
        BY <3>1, <3>6, <1>0 DEF ReaderInv, ChainKept, EntriesRead, OracleRead
    <2> QED
      BY <1>1, <1>2, <1>5, <2>2
  <1> QED
    BY <1>0, <1>4, <1>5

LEMMA ReaderStays == ReaderInv /\ [ReaderNext]_readerVars => ReaderInv'
  <1> SUFFICES ASSUME ReaderInv, [ReaderNext]_readerVars PROVE ReaderInv'
    OBVIOUS
  <1>1. CASE Close
    BY <1>1, LedgerClosed
  <1>2. CASE Snapshot
    BY <1>2, SnapshotBegins
  <1>3. CASE ReadShape
    BY <1>3, ShapeRead
  <1>4. CASE ReadEntries
    BY <1>4, BatchRead
  <1>5. CASE ReadOracle
    BY <1>5, OracleAnswered
  <1>6. CASE CallFails
    BY <1>6, AttemptOver DEF CallFails
  <1>7. CASE UNCHANGED readerVars
    BY <1>7 DEF readerVars, ReaderInv, ChainKept, ReadingFields, EntriesRead, OracleRead,
                OneLedger, Held, Asked
  <1> QED
    BY <1>1, <1>2, <1>3, <1>4, <1>5, <1>6, <1>7 DEF ReaderNext

----------------------------------------------------------------------------
(* The instant a snapshot is valued at.                                    *)

LEMMA NewestOfThree ==
  ASSUME NEW x \in Nat, NEW y \in Nat, NEW z \in Nat
  PROVE  Newest({x, y, z}) \in {x, y, z} /\ \A t \in {x, y, z} : t <= Newest({x, y, z})
  <1>1. \E m \in {x, y, z} : \A t \in {x, y, z} : t <= m
    <2>1. CASE x >= y /\ x >= z
      BY <2>1
    <2>2. CASE y >= x /\ y >= z
      BY <2>2
    <2>3. CASE z >= x /\ z >= y
      BY <2>3
    <2> QED
      BY <2>1, <2>2, <2>3
  <1> QED
    BY <1>1 DEF Newest

LEMMA OneLedgerIsForward == ReaderInv => ValuedForward
  <1> SUFFICES ASSUME ReaderInv, reading.at = "returned"
               PROVE  /\ \A t \in last_time(reading.parts) : t <= ValuedByScan(reading)
                      /\ reading.tick <= ValuedByScan(reading)
                      /\ ValuedByRefresh(reading) = ValuedByScan(reading)
    BY DEF ValuedForward
  <1> DEFINE x == reading.parts["r1"]
             y == reading.parts["r2"]
             z == reading.tick
             v == Newest({x, y, z})
  <1>1. x \in Nat /\ y \in Nat /\ z \in Nat
    <2>1. closed[reading.ledger] \in [Parts -> Nat] /\ z \in Nat
      BY DEF ReaderInv, ReadingFields, ChainKept
    <2>2. "r1" \in DOMAIN reading.parts /\ "r2" \in DOMAIN reading.parts
      BY WantedKeys DEF ReaderInv, OneLedger
    <2> QED
      BY <2>1, <2>2, PartsAre DEF ReaderInv, OneLedger
  <1>2. last_time(reading.parts) = {x, y}
    BY DEF last_time, Reserves
  <1>3. ValuedByScan(reading) = v
    <2>1. {x, y} \cup {z} = {x, y, z}
      OBVIOUS
    <2> QED
      BY <1>2, <2>1 DEF ValuedByScan, valued_at
  <1> HIDE DEF x, y, z
  <1>4. v \in {x, y, z} /\ v \in Nat /\ \A t \in {x, y, z} : t <= v
    BY <1>1, NewestOfThree
  <1>5. ValuedByRefresh(reading) = Newest({x, y, v})
    <2>1. {x, y} \cup {v} = {x, y, v}
      OBVIOUS
    <2>2. valued_at(reading.parts, z) = v
      BY <1>3 DEF ValuedByScan, z
    <2> HIDE DEF v
    <2> QED
      BY <1>2, <2>1, <2>2 DEF ValuedByRefresh, valued_at, z
  <1> HIDE DEF v
  <1>6. Newest({x, y, v}) = v
    <2> DEFINE w == Newest({x, y, v})
    <2>1. w \in {x, y, v} /\ \A t \in {x, y, v} : t <= w
      BY <1>1, <1>4, NewestOfThree
    <2> HIDE DEF w
    <2>2. w \in Nat /\ v <= w /\ w <= v
      BY <2>1, <1>1, <1>4
    <2>3. w = v
      BY <2>2, <1>4
    <2> QED
      BY <2>3 DEF w
  <1> QED
    BY <1>2, <1>3, <1>4, <1>5, <1>6 DEF z

\* A snapshot that is returned is the view of one ledger, whichever replicas
\* answered its batches and however many ledgers closed in between, and both
\* callers value it at one instant, before none of its contents
\* (chain/pool.rs, snapshot; math/reserve.rs, valued_at).
THEOREM SnapshotsAreOne == ReaderSpec => []SnapshotIsOne
  <1>1. ReaderInv => SnapshotIsOne
    BY OneLedgerIsForward DEF SnapshotIsOne, ReaderInv
  <1> QED
    BY <1>1, ReaderStarts, ReaderStays, PTL DEF ReaderSpec

----------------------------------------------------------------------------
(* ScanWalk: the full scan passes nobody over.                             *)

ScanType ==
    /\ rows \in [Unhealthy -> Nat]
    /\ walk \in [at : {"paging", "flagging", "stopped", "done"}, after : Nat \X Nat,
                 page : Seq(Unhealthy)]
    /\ marked \subseteq Unhealthy /\ toMark \subseteq Unhealthy

\* A page is in hand exactly while its accounts are flagged.
PageInHand ==
    /\ walk.at \in {"paging", "done"} => walk.page = << >>
    /\ walk.at = "flagging" => walk.page # << >>

OnPage(a) == \E i \in 1..Len(walk.page) : walk.page[i] = a
Ahead(a) == walk.after = Start \/ Before(walk.after, Key(a))
Told(a) == a \in marked \cup toMark \cup seeded

\* A borrower below the threshold is flagged or about to be, or is on the page
\* in hand, or the scan has not come past it yet.
NobodyPassed ==
    \A a \in Below : Told(a) \/ OnPage(a) \/ (walk.at # "done" /\ Ahead(a))

ScanInv == ScanType /\ PageInHand /\ NobodyPassed

USE ScanAssumption DEF ScanAssumption

----------------------------------------------------------------------------
(* A page holds the first of the accounts that are left.                   *)

Earlier(s, a) == {b \in s : Before(Key(b), Key(a))}
Place(s, a) == Cardinality(Earlier(s, a)) + 1

LEMMA UnhealthyFinite == IsFiniteSet(Unhealthy)
  BY FS_Interval DEF Unhealthy

LEMMA KeyOrder ==
  ASSUME ScanType, NEW a \in Unhealthy, NEW b \in Unhealthy
  PROVE  /\ a # b => Before(Key(a), Key(b)) \/ Before(Key(b), Key(a))
         /\ ~(Before(Key(a), Key(b)) /\ Before(Key(b), Key(a)))
         /\ ~Before(Key(a), Key(a))
  BY DEF ScanType, Before, Key, Unhealthy

LEMMA KeyTransitive ==
  ASSUME ScanType, NEW a \in Unhealthy, NEW b \in Unhealthy, NEW c \in Unhealthy,
         Before(Key(a), Key(b)), Before(Key(b), Key(c))
  PROVE  Before(Key(a), Key(c))
  BY DEF ScanType, Before, Key, Unhealthy

LEMMA EarlierFinite ==
  ASSUME NEW s \in SUBSET Unhealthy, NEW a
  PROVE  IsFiniteSet(s) /\ IsFiniteSet(Earlier(s, a)) /\ Cardinality(Earlier(s, a)) \in Nat
         /\ Cardinality(s) \in Nat
  <1>1. IsFiniteSet(s)
    BY UnhealthyFinite, FS_Subset
  <1>2. Earlier(s, a) \in SUBSET s
    BY DEF Earlier
  <1> QED
    BY <1>1, <1>2, FS_Subset, FS_CardinalityType

\* The place of an account is by who comes before it.
LEMMA PlaceGrows ==
  ASSUME ScanType, NEW s \in SUBSET Unhealthy, NEW a \in s, NEW b \in s,
         Before(Key(a), Key(b))
  PROVE  Place(s, a) < Place(s, b)
  <1>1. a \notin Earlier(s, a)
    BY KeyOrder DEF Earlier
  <1>2. Earlier(s, a) \cup {a} \in SUBSET Earlier(s, b)
    BY KeyTransitive DEF Earlier
  <1>3. Cardinality(Earlier(s, a) \cup {a}) = Cardinality(Earlier(s, a)) + 1
    BY <1>1, EarlierFinite, FS_AddElement
  <1>4. Cardinality(Earlier(s, a) \cup {a}) <= Cardinality(Earlier(s, b))
    BY <1>2, EarlierFinite, FS_Subset
  <1> QED
    BY <1>3, <1>4, EarlierFinite DEF Place

LEMMA PlaceInRange ==
  ASSUME ScanType, NEW s \in SUBSET Unhealthy, NEW a \in s
  PROVE  Place(s, a) \in 1..Cardinality(s)
  <1>1. Earlier(s, a) \in SUBSET (s \ {a})
    BY KeyOrder DEF Earlier
  <1>2. IsFiniteSet(s \ {a}) /\ Cardinality(s \ {a}) = Cardinality(s) - 1
    BY EarlierFinite, FS_RemoveElement
  <1>3. Cardinality(Earlier(s, a)) <= Cardinality(s \ {a})
    BY <1>1, <1>2, FS_Subset
  <1> QED
    BY <1>2, <1>3, EarlierFinite DEF Place

LEMMA OneInPlace ==
  ASSUME ScanType, NEW s \in SUBSET Unhealthy, NEW a \in s, NEW b \in s,
         Place(s, a) = Place(s, b)
  PROVE  a = b
  <1>1. Place(s, a) \in Int /\ Place(s, b) \in Int
    BY PlaceInRange, EarlierFinite
  <1> QED
    BY <1>1, KeyOrder, PlaceGrows

LEMMA EveryPlaceTaken ==
  ASSUME ScanType, NEW s \in SUBSET Unhealthy, NEW i \in 1..Cardinality(s)
  PROVE  \E a \in s : Place(s, a) = i
  <1> SUFFICES ASSUME \A a \in s : Place(s, a) # i
               PROVE  FALSE
    OBVIOUS
  <1> DEFINE T == (1..Cardinality(s)) \ {i}
             f == [a \in s |-> Place(s, a)]
  <1>1. IsFiniteSet(s) /\ Cardinality(s) \in Nat
    BY EarlierFinite
  <1>2. IsFiniteSet(1..Cardinality(s)) /\ Cardinality(1..Cardinality(s)) = Cardinality(s)
    BY <1>1, FS_Interval
  <1>3. IsFiniteSet(T) /\ Cardinality(T) < Cardinality(s)
    <2> DEFINE whole == 1..Cardinality(s)
    <2>1. i \in whole /\ IsFiniteSet(whole) /\ Cardinality(whole) = Cardinality(s)
      BY <1>2
    <2> HIDE DEF whole
    <2>2. IsFiniteSet(whole \ {i}) /\ Cardinality(whole \ {i}) = Cardinality(whole) - 1
      BY <2>1, FS_RemoveElement
    <2> QED
      BY <1>1, <2>1, <2>2 DEF whole
  <1>4. f \in [s -> T]
    BY PlaceInRange
  <1> HIDE DEF T, f
  <1>5. \E x, y \in s : x # y /\ f[x] = f[y]
    BY <1>1, <1>3, <1>4, FS_PigeonHole
  <1> QED
    BY <1>5, OneInPlace DEF f

LEMMA PageIsFirst ==
  ASSUME ScanType, NEW s \in SUBSET Unhealthy
  PROVE  LET page == FirstOf(s)
         IN  /\ page \in Seq(s)
             /\ page = << >> <=> s = {}
             /\ \A a \in s : \/ \E i \in 1..Len(page) : page[i] = a
                             \/ page # << >> /\ Before(Key(page[Len(page)]), Key(a))
  <1> DEFINE n == IF Cardinality(s) < PageLimit THEN Cardinality(s) ELSE PageLimit
             page == [i \in 1..n |-> CHOOSE a \in s : Place(s, a) = i]
  <1>1. FirstOf(s) = page
    BY DEF FirstOf, Place, Earlier
  <1>2. Cardinality(s) \in Nat /\ IsFiniteSet(s)
    BY EarlierFinite
  <1>3. n \in Nat /\ n <= Cardinality(s) /\ (n = 0 <=> Cardinality(s) = 0)
    BY <1>2
  <1>4. \A i \in 1..n : page[i] \in s /\ Place(s, page[i]) = i
    BY <1>2, <1>3, EveryPlaceTaken
  <1>5. page \in Seq(s) /\ Len(page) = n
    <2>1. page \in [1..n -> s]
      BY <1>4
    <2> HIDE DEF page, n
    <2> QED
      BY <1>3, <2>1
  <1>6. page = << >> <=> s = {}
    <2>1. n = 0 <=> s = {}
      BY <1>2, <1>3, FS_EmptySet
    <2> QED
      BY <2>1, <1>5, <1>3
  <1>7. ASSUME NEW a \in s, \A i \in 1..n : page[i] # a
        PROVE  page # << >> /\ Before(Key(page[n]), Key(a))
    <2>1. n \in 1..n /\ page # << >>
      BY <1>3, <1>6, <1>5
    <2>2. page[n] \in s /\ Place(s, page[n]) = n /\ page[n] # a
      BY <2>1, <1>4, <1>7
    <2>3. Place(s, a) \in 1..Cardinality(s)
      BY PlaceInRange
    <2>4. Place(s, a) > n
      <3>1. CASE Place(s, a) \in 1..n
        <4> DEFINE k == Place(s, a)
        <4>1. page[k] \in s /\ Place(s, page[k]) = Place(s, a) /\ page[k] # a
          BY <3>1, <1>4, <1>7
        <4> QED
          BY <4>1, OneInPlace
      <3> QED
        BY <3>1, <2>3, <1>3
    <2>5. ~Before(Key(a), Key(page[n]))
      BY <2>2, <2>3, <2>4, <1>3, PlaceGrows
    <2> QED
      BY <2>1, <2>2, <2>5, KeyOrder
  <1> HIDE DEF page
  <1> QED
    BY <1>1, <1>5, <1>6, <1>7

----------------------------------------------------------------------------
(* The walk.                                                               *)

LEMMA ScanStarts == ScanInit => ScanInv
  <1> SUFFICES ASSUME ScanInit PROVE ScanInv
    OBVIOUS
  <1>1. ScanType /\ PageInHand
    <2>1. walk = [at |-> "paging", after |-> <<0, 0>>, page |-> << >>]
      BY DEF ScanInit, Start
    <2>2. << >> \in Seq(Unhealthy) /\ <<0, 0>> \in Nat \X Nat
      OBVIOUS
    <2>3. walk \in [at : {"paging", "flagging", "stopped", "done"}, after : Nat \X Nat,
                    page : Seq(Unhealthy)]
      BY <2>1, <2>2
    <2>4. rows \in [Unhealthy -> Nat]
      <3>1. Healths \cup {Untracked} \subseteq Nat
        BY DEF Untracked
      <3> QED
        BY <3>1 DEF ScanInit
    <2>5. marked = {} /\ toMark = {}
      BY DEF ScanInit
    <2> QED
      BY <2>1, <2>3, <2>4, <2>5 DEF ScanType, PageInHand
  <1>2. walk.after = Start /\ walk.at # "done"
    BY DEF ScanInit
  <1> QED
    BY <1>1, <1>2 DEF ScanInv, NobodyPassed, Ahead

\* The rest of the walk, after a page was read.
LEMMA PageRead ==
  ASSUME ScanInv, ReadPage
  PROVE  ScanInv'
  <1> DEFINE s == {a \in Below : Ahead(a)}
             page == FirstOf(s)
  <1>0. ScanType /\ walk.at = "paging" /\ walk.page = << >>
    BY DEF ScanInv, ReadPage, PageInHand
  <1>1. s \in SUBSET Unhealthy
    BY DEF Below
  <1>2. /\ walk' = IF page = << >> THEN [walk EXCEPT !.at = "done"]
                   ELSE [at |-> "flagging", after |-> Key(page[Len(page)]), page |-> page]
        /\ UNCHANGED <<rows, marked, toMark, seeded, rewrites>>
    <2>1. s = {a \in Below : walk.after = Start \/ Before(walk.after, Key(a))}
      BY DEF Ahead
    <2>2. users_below_health(walk.after) = page
      BY <2>1 DEF users_below_health
    <2> HIDE DEF page
    <2> QED
      BY <2>2 DEF ReadPage
  <1>3. /\ page \in Seq(s)
        /\ page = << >> <=> s = {}
        /\ \A a \in s : \/ \E i \in 1..Len(page) : page[i] = a
                        \/ page # << >> /\ Before(Key(page[Len(page)]), Key(a))
    <2> HIDE DEF s
    <2> QED
      BY <1>0, <1>1, PageIsFirst
  <1>4. \A a \in Below : Told(a) \/ a \in s
    BY <1>0 DEF ScanInv, NobodyPassed, OnPage
  <1>5. Below' = Below /\ \A a : Key(a)' = Key(a) /\ (Told(a)' <=> Told(a))
    BY <1>2 DEF Below, Key, Told
  <1> HIDE DEF s, page
  <1>6. CASE page = << >>
    <2>1. walk' = [walk EXCEPT !.at = "done"]
      BY <1>2, <1>6
    <2>2. ScanType' /\ PageInHand'
      BY <2>1, <1>0, <1>2 DEF ScanType, PageInHand
    <2> QED
      BY <2>2, <1>3, <1>4, <1>5, <1>6 DEF ScanInv, NobodyPassed
  <1>7. CASE page # << >>
    <2>1. walk' = [at |-> "flagging", after |-> Key(page[Len(page)]), page |-> page]
      BY <1>2, <1>7
    <2>2. page[Len(page)] \in Unhealthy /\ page \in Seq(Unhealthy)
      BY <1>1, <1>3, <1>7
    <2>3. Key(page[Len(page)]) \in Nat \X Nat
      BY <2>2, <1>0 DEF ScanType, Key, Unhealthy
    <2>4. ScanType' /\ PageInHand'
      <3> DEFINE last == Key(page[Len(page)])
      <3>1. walk' = [at |-> "flagging", after |-> last, page |-> page] /\ last \in Nat \X Nat
        BY <2>1, <2>3
      <3> HIDE DEF last
      <3>2. walk' \in [at : {"paging", "flagging", "stopped", "done"}, after : Nat \X Nat,
                       page : Seq(Unhealthy)]
        BY <2>2, <3>1
      <3>3. ScanType'
        BY <1>0, <1>2, <3>2 DEF ScanType
      <3>4. PageInHand'
        BY <1>7, <3>1 DEF PageInHand
      <3> QED
        BY <3>3, <3>4
    <2>5. \A a \in s : OnPage(a)' \/ Ahead(a)'
      BY <2>1, <1>3, <1>5 DEF OnPage, Ahead
    <2> QED
      BY <2>1, <2>4, <2>5, <1>4, <1>5 DEF ScanInv, NobodyPassed
  <1> QED
    BY <1>6, <1>7

\* An account of the page is flagged.
LEMMA AccountFlagged ==
  ASSUME ScanInv, FlagNext
  PROVE  ScanInv'
  <1>0. /\ ScanType /\ walk.at = "flagging" /\ walk.page # << >>
        /\ walk.page \in Seq(Unhealthy)
    BY DEF ScanInv, ScanType, FlagNext, PageInHand
  <1>1. /\ walk'.page = Tail(walk.page) /\ walk'.after = walk.after
        /\ walk'.at = IF Len(walk.page) = 1 THEN "paging" ELSE "flagging"
        /\ walk' = [at |-> walk'.at, after |-> walk'.after, page |-> walk'.page]
    BY <1>0 DEF FlagNext, ScanType
  <1>2. UNCHANGED <<rows, toMark, seeded>> /\ marked \subseteq marked'
    BY DEF FlagNext
  <1>3. Head(walk.page) \in Below => Head(walk.page) \in marked'
    BY DEF FlagNext, Below
  <1>4. Tail(walk.page) \in Seq(Unhealthy)
        /\ Len(Tail(walk.page)) = Len(walk.page) - 1
        /\ \A i \in 2..Len(walk.page) : Tail(walk.page)[i - 1] = walk.page[i]
    BY <1>0
  <1>5. ScanType'
    <2>1. walk.after \in Nat \X Nat
      BY <1>0 DEF ScanType
    <2>2. marked' \subseteq Unhealthy
      BY <1>0 DEF FlagNext, ScanType
    <2> QED
      BY <1>0, <1>1, <1>2, <1>4, <2>1, <2>2 DEF ScanType
  <1>6. PageInHand'
    <2> DEFINE q == walk.page
               t == Tail(walk.page)
    <2>0. t \in Seq(Unhealthy) /\ Len(t) = Len(q) - 1 /\ Len(q) \in Nat /\ Len(q) # 0
      BY <1>0, <1>4
    <2> HIDE DEF q, t
    <2>1. Len(q) = 1 => t = << >>
      BY <2>0
    <2>2. Len(q) # 1 => t # << >>
      BY <2>0
    <2> QED
      BY <1>1, <2>1, <2>2 DEF PageInHand, q, t
  <1>7. ASSUME NEW a \in Below', ~Told(a)'
        PROVE  OnPage(a)' \/ (walk'.at # "done" /\ Ahead(a)')
    <2>1. a \in Below /\ ~Told(a) /\ Key(a)' = Key(a)
      BY <1>2, <1>7 DEF Below, Told, Key
    <2>2. OnPage(a) \/ Ahead(a)
      BY <2>1 DEF ScanInv, NobodyPassed
    <2>3. CASE Ahead(a)
      BY <2>1, <2>3, <1>1 DEF Ahead
    <2>4. CASE OnPage(a)
      <3>1. PICK i \in 1..Len(walk.page) : walk.page[i] = a
        BY <2>4 DEF OnPage
      <3>2. i # 1
        BY <3>1, <2>1, <1>0, <1>3, <1>7 DEF Told
      <3>3. i - 1 \in 1..Len(Tail(walk.page)) /\ Tail(walk.page)[i - 1] = a
        BY <3>1, <3>2, <1>0, <1>4
      <3> QED
        BY <3>3, <1>1 DEF OnPage
    <2> QED
      BY <2>2, <2>3, <2>4
  <1> QED
    BY <1>5, <1>6, <1>7 DEF ScanInv, NobodyPassed

\* A row is rewritten, by a tick that will flag it or by a reseed.
LEMMA RowRewritten ==
  ASSUME ScanInv, RefreshRow \/ SeedRow
  PROVE  ScanInv'
  <1>1. PICK b \in Unhealthy, h \in Healths \cup {Untracked} :
            Rewrite(b, h) /\ b \in toMark' \cup seeded'
    <2>1. CASE RefreshRow
      BY <2>1 DEF RefreshRow
    <2>2. CASE SeedRow
      BY <2>2 DEF SeedRow
    <2> QED
      BY <2>1, <2>2
  <1>2. /\ UNCHANGED walk
        /\ toMark \subseteq toMark' /\ seeded \subseteq seeded'
        /\ toMark' \subseteq toMark \cup Unhealthy
    BY DEF RefreshRow, SeedRow
  <1>3. /\ rows' = [rows EXCEPT ![b] = h]
        /\ marked \ {b} \subseteq marked' /\ marked' \subseteq marked
    BY <1>1 DEF Rewrite
  <1>4. h \in Nat
    BY DEF Untracked
  <1>5. ScanType' /\ PageInHand'
    BY <1>2, <1>3, <1>4 DEF ScanInv, ScanType, PageInHand
  <1>6. ASSUME NEW a \in Below', ~Told(a)'
        PROVE  OnPage(a)' \/ (walk'.at # "done" /\ Ahead(a)')
    <2>1. a # b /\ a \in Unhealthy
      BY <1>1, <1>6 DEF Told, Below
    <2>2. rows'[a] = rows[a]
      BY <2>1, <1>3 DEF ScanInv, ScanType
    <2>3. a \in Below /\ ~Told(a) /\ Key(a)' = Key(a)
      BY <2>1, <2>2, <1>2, <1>3, <1>6 DEF Below, Told, Key
    <2>4. OnPage(a) \/ (walk.at # "done" /\ Ahead(a))
      BY <2>3 DEF ScanInv, NobodyPassed
    <2> QED
      BY <2>3, <2>4, <1>2 DEF OnPage, Ahead
  <1> QED
    BY <1>5, <1>6 DEF ScanInv, NobodyPassed

LEMMA RefreshedFlagged ==
  ASSUME ScanInv, FlagRefreshed
  PROVE  ScanInv'
  <1>1. UNCHANGED <<rows, walk, seeded>>
    BY DEF FlagRefreshed
  <1>2. ScanType' /\ PageInHand'
    BY <1>1 DEF ScanInv, ScanType, PageInHand, FlagRefreshed
  <1>3. \A a \in Below : Told(a) => Told(a)'
    BY DEF Told, Below, FlagRefreshed
  <1>4. Below' = Below /\ \A a : (OnPage(a)' <=> OnPage(a)) /\ (Ahead(a)' <=> Ahead(a))
    BY <1>1 DEF Below, OnPage, Ahead, Key
  <1> QED
    BY <1>1, <1>2, <1>3, <1>4 DEF ScanInv, NobodyPassed

LEMMA ScanStays == ScanInv /\ [ScanNext]_scanVars => ScanInv'
  <1> SUFFICES ASSUME ScanInv, [ScanNext]_scanVars PROVE ScanInv'
    OBVIOUS
  <1>1. CASE StopScan
    <2>1. /\ walk' = [walk EXCEPT !.at = "stopped"]
          /\ UNCHANGED <<rows, marked, toMark, seeded>>
      BY <1>1 DEF StopScan
    <2>2. walk'.at = "stopped" /\ walk'.page = walk.page /\ walk'.after = walk.after
      BY <2>1 DEF ScanInv, ScanType
    <2>3. ScanType' /\ PageInHand'
      BY <2>1, <2>2 DEF ScanInv, ScanType, PageInHand
    <2>4. Below' = Below /\ \A a : /\ Told(a)' <=> Told(a)
                                   /\ OnPage(a)' <=> OnPage(a)
                                   /\ Ahead(a)' <=> Ahead(a)
      BY <2>1, <2>2 DEF Below, Told, OnPage, Ahead, Key
    <2> QED
      BY <2>2, <2>3, <2>4 DEF ScanInv, NobodyPassed
  <1>2. CASE UNCHANGED scanVars
    <2>1. UNCHANGED <<rows, walk, marked, toMark, seeded>>
      BY <1>2 DEF scanVars
    <2>2. Below' = Below /\ \A a : /\ Told(a)' <=> Told(a)
                                   /\ OnPage(a)' <=> OnPage(a)
                                   /\ Ahead(a)' <=> Ahead(a)
      BY <2>1 DEF Below, Told, OnPage, Ahead, Key
    <2> QED
      BY <2>1, <2>2 DEF ScanInv, ScanType, PageInHand, NobodyPassed
  <1> QED
    BY <1>1, <1>2, PageRead, AccountFlagged, RowRewritten, RefreshedFlagged DEF ScanNext

\* A scan that has gone through has missed nobody (service.rs,
\* full_scan_and_flag; store.rs, users_below_health): for any number of
\* borrowers, any page limit, and however often the tracker rewrites their
\* rows between two pages.
THEOREM ScanIsComplete == ScanSpec => []ScanMissesNobody
  <1>1. ScanInv => ScanMissesNobody
    BY DEF ScanInv, PageInHand, NobodyPassed, ScanMissesNobody, Told, OnPage
  <1> QED
    BY <1>1, ScanStarts, ScanStays, PTL DEF ScanSpec
=============================================================================
