------------------------- MODULE RecheckQueueProofs -------------------------
(***************************************************************************)
(* Theorems about RecheckQueue, for any number of borrowers, any batch     *)
(* size, any scan cadence and startup delay, and any number of ledgers,    *)
(* other pools' ticks and restarts.                                        *)
(*                                                                         *)
(* A flag is a ledger number, and clear_recheck trusts that a flag it finds*)
(* as the batch read it stands for nothing newer.  Two facts make that     *)
(* true: what a pass reads is not past the ledger of its snapshot, and     *)
(* what a tick raises is past everything committed before it.  Refreshing  *)
(* rows alone, as a reseed does, moves no flag: it may drop one with its   *)
(* row, when nothing is owed any more.                                     *)
(***************************************************************************)
EXTENDS RecheckQueue, FiniteSetTheorems, TLAPS

\* Something owed is flagged: a row that was dropped owes nothing.
OwedIsFlagged == owing \subseteq Flagged

\* Who failed while a waited is flagged past it.
BehindIsLater ==
    \A a \in Accounts : \A b \in behind[a] : flag[a] > Unflagged /\ flag[a] < flag[b]

\* A borrower without a flag was dealt with after all that is committed.
DealtWith ==
    \A a \in Accounts, l \in 1..cursor :
        a \in Told(l) /\ flag[a] <= Unflagged => decided[a] >= l

\* The flags of a process that was not restarted are behind the chain, or
\* one past the tick of a pass that is over.
FlagsKnown ==
    /\ \A a \in Accounts : flag[a] <= head \/ flag[a] <= seen + 1
    /\ apc = "batch" => \A a \in Accounts : flag[a] <= head
    /\ apc = "decide" => \A a \in DOMAIN batch : batch[a] <= head
    /\ apc = "act" => \A a \in DOMAIN batch : batch[a] <= snap

\* A flag found as the batch read it stands for nothing past the snapshot.
ReadIsCovered ==
    apc = "act" =>
        \A a \in todo, l \in 1..cursor :
            flag[a] = batch[a] /\ a \in Told(l) => l <= snap

\* While the process was not restarted.
Remembered == restarts = 0 => DealtWith /\ FlagsKnown /\ ReadIsCovered

\* Nobody is waited for before the batch is decided.
NothingToDo == apc # "act" => todo = {}

IInv ==
    /\ TypeOK
    /\ NothingToDo
    /\ OwedIsFlagged
    /\ BehindIsLater
    /\ FailedGoBehind
    /\ Remembered

----------------------------------------------------------------------------
USE RecheckAssumption DEF RecheckAssumption, Told

\* Batches, which are functions on some of the accounts.
Batches(h) == UNION {[some -> 1..(h + 1)] : some \in SUBSET Accounts}

LEMMA BatchShape ==
  ASSUME NEW h, NEW b \in Batches(h)
  PROVE  /\ DOMAIN b \subseteq Accounts
         /\ b \in [DOMAIN b -> 1..(h + 1)]
  <1>1. PICK some \in SUBSET Accounts : b \in [some -> 1..(h + 1)]
    BY DEF Batches
  <1> QED
    BY <1>1

LEMMA BatchMade ==
  ASSUME NEW h, NEW some \in SUBSET Accounts, NEW b \in [some -> 1..(h + 1)]
  PROVE  b \in Batches(h) /\ DOMAIN b = some
  BY DEF Batches

LEMMA BatchGrows ==
  ASSUME NEW h \in Nat, NEW k \in Nat, h <= k, NEW b \in Batches(h)
  PROVE  b \in Batches(k)
  <1>1. DOMAIN b \subseteq Accounts /\ b \in [DOMAIN b -> 1..(h + 1)]
    BY BatchShape
  <1>2. 1..(h + 1) \subseteq 1..(k + 1)
    OBVIOUS
  <1>3. b \in [DOMAIN b -> 1..(k + 1)]
    BY <1>1, <1>2
  <1> QED
    BY <1>1, <1>3, BatchMade

LEMMA NoBatchShape ==
  ASSUME NEW h
  PROVE  NoBatch \in Batches(h) /\ DOMAIN NoBatch = {} /\ Cardinality(DOMAIN NoBatch) = 0
  <1>1. NoBatch \in [{} -> 1..(h + 1)] /\ DOMAIN NoBatch = {}
    BY DEF NoBatch
  <1> QED
    BY <1>1, BatchMade, FS_EmptySet

\* The type invariant in the parts that different steps touch.
ChainType ==
    /\ head \in 1..MaxLedger
    /\ events \in [1..head -> SUBSET Accounts]
    /\ unread \subseteq 1..head
    /\ owes \subseteq Accounts
    /\ cursor \in 1..head
    /\ polled \in cursor..head
    /\ published \in 0..head

PassType ==
    /\ seen \in 0..published
    /\ firstTick \in 0..seen
    /\ unlocked \in BOOLEAN
    /\ lastOracle \in 0..seen
    /\ retried \in BOOLEAN
    /\ lastFull \in 0..seen

WorkType ==
    /\ apc \in {"idle", "batch", "decide", "act"}
    /\ batch \in Batches(head)
    /\ Cardinality(DOMAIN batch) <= Batch
    /\ todo \subseteq DOMAIN batch
    /\ snap \in 0..head

FlagType == flag \in [Accounts -> -1..(head + 1)]

HistoryType ==
    /\ decided \in [Accounts -> 0..head]
    /\ owing \subseteq Accounts
    /\ behind \in [Accounts -> SUBSET Accounts]

ProcessType == shutdown \in BOOLEAN /\ restarts \in 0..MaxRestarts

LEMMA TypeParts ==
  TypeOK <=> /\ ChainType /\ PassType /\ WorkType
             /\ FlagType /\ HistoryType /\ ProcessType
  BY DEF TypeOK, ChainType, PassType, WorkType, FlagType, HistoryType, ProcessType, Batches

\* The numbers, as numbers.
LEMMA Numbers ==
  ASSUME TypeOK
  PROVE  /\ head \in Nat /\ head >= 1 /\ cursor \in Nat /\ cursor >= 1 /\ cursor <= head
         /\ polled \in Nat /\ cursor <= polled /\ polled <= head
         /\ published \in Nat /\ published <= head
         /\ seen \in Nat /\ seen <= published /\ snap \in Nat /\ snap <= head
         /\ \A a \in Accounts : flag[a] \in Int /\ flag[a] >= -1 /\ flag[a] <= head + 1
         /\ \A a \in Accounts : decided[a] \in Nat /\ decided[a] <= head
  <1>1. ChainType /\ PassType /\ WorkType /\ FlagType /\ HistoryType
    BY TypeParts
  <1>2. head \in Nat /\ head >= 1 /\ cursor \in Nat /\ cursor >= 1 /\ cursor <= head
    BY <1>1 DEF ChainType
  <1>3. polled \in Nat /\ cursor <= polled /\ polled <= head /\ published \in Nat /\ published <= head
    BY <1>1, <1>2 DEF ChainType
  <1>4. seen \in Nat /\ seen <= published /\ snap \in Nat /\ snap <= head
    BY <1>1, <1>2, <1>3 DEF PassType, WorkType
  <1>5. \A a \in Accounts : flag[a] \in Int /\ flag[a] >= -1 /\ flag[a] <= head + 1
    BY <1>1, <1>2 DEF FlagType
  <1>6. \A a \in Accounts : decided[a] \in Nat /\ decided[a] <= head
    BY <1>1, <1>2 DEF HistoryType
  <1> QED
    BY <1>2, <1>3, <1>4, <1>5, <1>6

LEMMA BatchNumbers ==
  ASSUME TypeOK
  PROVE  /\ DOMAIN batch \subseteq Accounts /\ todo \subseteq Accounts
         /\ \A a \in DOMAIN batch : batch[a] \in Nat /\ batch[a] >= 1 /\ batch[a] <= head + 1
  <1>1. batch \in Batches(head) /\ todo \subseteq DOMAIN batch /\ head \in Nat
    BY TypeParts DEF WorkType, ChainType
  <1>2. DOMAIN batch \subseteq Accounts /\ batch \in [DOMAIN batch -> 1..(head + 1)]
    BY <1>1, BatchShape
  <1> QED
    BY <1>1, <1>2

LEMMA ForwardNumber ==
  ASSUME TypeOK, NEW a \in DOMAIN batch
  PROVE  /\ move_flag_forward(a) \in Nat
         /\ move_flag_forward(a) >= seen + 1 /\ move_flag_forward(a) <= head + 1
         /\ move_flag_forward(a) = seen + 1 \/ move_flag_forward(a) = batch[a]
  BY Numbers, BatchNumbers DEF move_flag_forward

----------------------------------------------------------------------------
(* The query: the first Batch flagged accounts.                            *)

\* The accounts the query returns before a.
Before(a) == {b \in Flagged : Ahead(b, a)}

LEMMA BeforeFinite ==
  ASSUME NEW a
  PROVE  IsFiniteSet(Before(a)) /\ Cardinality(Before(a)) \in Nat
  <1>1. IsFiniteSet(Accounts)
    BY FS_Interval DEF Accounts
  <1>2. Before(a) \in SUBSET Accounts
    BY DEF Before, Flagged
  <1>3. IsFiniteSet(Before(a))
    BY <1>1, <1>2, FS_Subset
  <1> QED
    BY <1>3, FS_CardinalityType

\* The query's order is strict: who is returned before another has fewer
\* accounts before it.
LEMMA BeforeGrows ==
  ASSUME TypeOK, NEW a \in Flagged, NEW b \in Flagged, Ahead(a, b)
  PROVE  Cardinality(Before(a)) < Cardinality(Before(b))
  <1>1. \A c \in Flagged : flag[c] \in Int /\ c \in Int
    BY Numbers DEF Flagged, Accounts
  <1>2. Before(a) \subseteq Before(b)
    BY <1>1 DEF Before, Ahead
  <1>3. a \in Before(b) /\ a \notin Before(a)
    BY <1>1 DEF Before, Ahead
  <1>4. Before(a) # Before(b)
    BY <1>3
  <1>5. /\ Cardinality(Before(a)) <= Cardinality(Before(b))
        /\ Cardinality(Before(b)) = Cardinality(Before(a)) => Before(b) = Before(a)
    BY <1>2, BeforeFinite, FS_Subset
  <1> QED
    BY <1>4, <1>5, BeforeFinite

LEMMA QueryShape ==
  users_needing_recheck = {a \in Flagged : Cardinality(Before(a)) < Batch}
  BY DEF users_needing_recheck, Before

\* The query keeps to its LIMIT.
LEMMA QueryLimit ==
  ASSUME TypeOK
  PROVE  Cardinality(users_needing_recheck) <= Batch
  <1> DEFINE S == users_needing_recheck
             T == 0..(Batch - 1)
             f == [a \in S |-> Cardinality(Before(a))]
  <1>1. IsFiniteSet(T) /\ Cardinality(T) = Batch
    BY FS_Interval
  <1>2. f \in [S -> T]
    <2>1. \A a \in S : Cardinality(Before(a)) \in Nat /\ Cardinality(Before(a)) < Batch
      BY BeforeFinite, QueryShape
    <2> QED
      BY <2>1
  <1>3. ASSUME NEW a \in S, NEW b \in S, f[a] = f[b] PROVE a = b
    <2>1. a \in Flagged /\ b \in Flagged /\ Cardinality(Before(a)) = Cardinality(Before(b))
      BY <1>3, QueryShape
    <2>2. ~Ahead(a, b) /\ ~Ahead(b, a)
      BY <2>1, BeforeGrows, BeforeFinite
    <2>3. flag[a] \in Int /\ flag[b] \in Int /\ a \in Int /\ b \in Int
      BY <2>1, Numbers DEF Flagged, Accounts
    <2> QED
      BY <2>2, <2>3 DEF Ahead
  <1>4. f \in Injection(S, T)
    <2>1. IsInjective(f)
      BY <1>3 DEF IsInjective
    <2> QED
      BY <1>2, <2>1 DEF Injection
  <1> HIDE DEF S, T, f
  <1>5. Cardinality(S) <= Cardinality(T)
    BY <1>1, <1>4, FS_Injection
  <1> QED
    BY <1>1, <1>5 DEF S

----------------------------------------------------------------------------
(* What each action does to the flags, account by account.                 *)

Flags(h) == [Accounts -> -1..(h + 1)]

LEMMA RecheckAt ==
  ASSUME NEW flags, NEW accounts, NEW ledger, NEW a \in Accounts
  PROVE  flag_recheck(flags, accounts, ledger)[a] =
            IF a \in accounts /\ flags[a] # NoRow /\ flags[a] < ledger
              THEN ledger ELSE flags[a]
  BY DEF flag_recheck

LEMMA RecheckType ==
  ASSUME NEW h \in Nat, NEW flags \in Flags(h), NEW accounts, NEW ledger \in 0..(h + 1)
  PROVE  flag_recheck(flags, accounts, ledger) \in Flags(h)
  <1>1. \A a \in Accounts : flag_recheck(flags, accounts, ledger)[a] \in -1..(h + 1)
    BY RecheckAt DEF Flags
  <1> QED
    BY <1>1 DEF Flags, flag_recheck

LEMMA TickNumbers ==
  ASSUME TypeOK, NEW ledger \in TickLedgers
  PROVE  /\ ledger \in 1..head
         /\ ledger \in Nat /\ ledger > cursor /\ ledger >= polled /\ ledger <= head
  BY Numbers DEF TickLedgers

LEMMA RefreshFlags ==
  ASSUME TypeOK, NEW ledger \in 1..head,
         NEW done \in SUBSET Accounts, NEW raised \in SUBSET done,
         Refresh(done, raised, ledger)
  PROVE  /\ flag' \in Flags(head)
         /\ \A a \in Accounts \ done : flag'[a] = flag[a]
         /\ \A a \in done \ owes : flag'[a] = NoRow
         /\ \A a \in done \cap owes :
               \/ flag'[a] = flag[a] /\ flag[a] # NoRow /\ (a \in raised => flag[a] >= ledger)
               \/ flag'[a] = Unflagged /\ flag[a] = NoRow /\ a \notin raised
               \/ flag'[a] = ledger /\ a \in raised /\ flag[a] < ledger
  <1>1. ledger \in Nat /\ ledger <= head
    BY Numbers
  <1>2. flag' = flag_recheck(Refreshed(done), raised, ledger)
    BY DEF Refresh
  <1>3. \A a \in Accounts : Refreshed(done)[a] =
            IF a \notin done THEN flag[a]
            ELSE IF a \notin owes THEN NoRow
            ELSE IF flag[a] = NoRow THEN Unflagged ELSE flag[a]
    BY DEF Refreshed
  <1>4. Refreshed(done) \in Flags(head)
    <2>1. \A a \in Accounts : Refreshed(done)[a] \in -1..(head + 1)
      BY <1>3, Numbers DEF NoRow, Unflagged
    <2> QED
      BY <2>1 DEF Refreshed, Flags
  <1>5. flag' \in Flags(head)
    BY <1>1, <1>2, <1>4, RecheckType, Numbers
  <1>6. \A a \in Accounts :
           flag'[a] = IF a \in raised /\ Refreshed(done)[a] # NoRow /\ Refreshed(done)[a] < ledger
                        THEN ledger ELSE Refreshed(done)[a]
    BY <1>2, RecheckAt
  <1>7. \A a \in Accounts \ done : flag'[a] = flag[a]
    BY <1>3, <1>6
  <1>8. \A a \in done \ owes : flag'[a] = NoRow
    BY <1>3, <1>6
  <1>9. ASSUME NEW a \in done \cap owes
        PROVE  \/ flag'[a] = flag[a] /\ flag[a] # NoRow /\ (a \in raised => flag[a] >= ledger)
               \/ flag'[a] = Unflagged /\ flag[a] = NoRow /\ a \notin raised
               \/ flag'[a] = ledger /\ a \in raised /\ flag[a] < ledger
    <2>1. a \in Accounts /\ flag[a] \in Int
      BY Numbers
    <2>2. Refreshed(done)[a] = IF flag[a] = NoRow THEN Unflagged ELSE flag[a]
      BY <1>3, <2>1
    <2> QED
      BY <1>1, <1>6, <2>1, <2>2, Numbers DEF NoRow, Unflagged
  <1> QED
    BY <1>5, <1>7, <1>8, <1>9

\* What the history of those dealt with keeps.
LEMMA DealKeeps ==
  ASSUME TypeOK, NEW accounts, NEW ledger \in 0..head, Deal(accounts, ledger)
  PROVE  /\ decided' \in [Accounts -> 0..head]
         /\ \A a \in Accounts : decided'[a] >= decided[a]
         /\ \A a \in Accounts : restarts = 0 /\ a \in accounts => decided'[a] >= ledger
  <1>1. head \in Nat /\ decided \in [Accounts -> 0..head]
    BY TypeParts, Numbers DEF HistoryType
  <1> QED
    BY <1>1 DEF Deal

LEMMA ScanFlags ==
  ASSUME TypeOK, BeginPass
  PROVE  /\ flag' \in Flags(head)
         /\ \A a \in Accounts :
               flag'[a] = flag[a] \/ (flag[a] # NoRow /\ flag[a] < published /\ flag'[a] = published)
  <1>1. PICK hurt, below \in SUBSET Accounts :
            flag' = flag_recheck(flag, hurt \cup below, published)
    BY DEF BeginPass
  <1>2. flag \in Flags(head) /\ head \in Nat /\ published \in 0..(head + 1)
    BY TypeParts, Numbers DEF FlagType, Flags
  <1> QED
    BY <1>1, <1>2, RecheckType, RecheckAt

LEMMA DecideFlags ==
  ASSUME TypeOK, NEW undecided \in SUBSET DOMAIN batch,
         flag' = [a \in Accounts |->
             IF a \in undecided THEN flag_recheck(flag, {a}, move_flag_forward(a))[a] ELSE flag[a]]
  PROVE  /\ flag' \in Flags(head)
         /\ \A a \in Accounts \ undecided : flag'[a] = flag[a]
         /\ \A a \in undecided :
               \/ flag'[a] = NoRow /\ flag[a] = NoRow
               \/ flag'[a] = flag[a] /\ flag[a] >= move_flag_forward(a)
               \/ flag'[a] = move_flag_forward(a) /\ flag[a] # NoRow /\ flag[a] < move_flag_forward(a)
  <1>1. undecided \subseteq Accounts
    BY BatchNumbers
  <1>2. \A a \in undecided : flag'[a] =
            IF flag[a] # NoRow /\ flag[a] < move_flag_forward(a)
              THEN move_flag_forward(a) ELSE flag[a]
    BY <1>1, RecheckAt
  <1>3. \A a \in Accounts \ undecided : flag'[a] = flag[a]
    OBVIOUS
  <1>4. \A a \in undecided : /\ flag[a] \in -1..(head + 1) /\ move_flag_forward(a) \in -1..(head + 1)
                             /\ head \in Nat
    BY <1>1, Numbers, ForwardNumber
  <1>5. \A a \in Accounts : flag'[a] \in -1..(head + 1)
    <2>1. \A a \in undecided : flag'[a] \in -1..(head + 1)
      BY <1>2, <1>4
    <2>2. \A a \in Accounts \ undecided : flag'[a] \in -1..(head + 1)
      BY <1>3, Numbers
    <2> QED
      BY <2>1, <2>2
  <1>6. flag' \in Flags(head)
    BY <1>5 DEF Flags
  <1>7. ASSUME NEW a \in undecided
        PROVE  \/ flag'[a] = NoRow /\ flag[a] = NoRow
               \/ flag'[a] = flag[a] /\ flag[a] >= move_flag_forward(a)
               \/ flag'[a] = move_flag_forward(a) /\ flag[a] # NoRow /\ flag[a] < move_flag_forward(a)
    <2>1. flag[a] \in Int /\ move_flag_forward(a) \in Int
      BY <1>4
    <2>2. flag'[a] = IF flag[a] # NoRow /\ flag[a] < move_flag_forward(a)
                       THEN move_flag_forward(a) ELSE flag[a]
      BY <1>2
    <2> QED
      BY <2>1, <2>2
  <1> QED
    BY <1>3, <1>6, <1>7

LEMMA ClearFlags ==
  ASSUME TypeOK, NEW a \in DOMAIN batch, flag' = clear_recheck(a, batch[a])
  PROVE  /\ flag' \in Flags(head)
         /\ \A b \in Accounts \ {a} : flag'[b] = flag[b]
         /\ \/ flag[a] = batch[a] /\ flag'[a] = Unflagged
            \/ flag[a] # batch[a] /\ flag'[a] = flag[a]
  <1>1. a \in Accounts /\ flag \in Flags(head) /\ head \in Nat
    BY BatchNumbers, TypeParts, Numbers DEF FlagType, Flags
  <1>2. flag' \in Flags(head)
    BY <1>1 DEF Flags, clear_recheck, Unflagged
  <1> QED
    BY <1>1, <1>2 DEF Flags, clear_recheck, Unflagged

LEMMA ForwardFlags ==
  ASSUME TypeOK, NEW a \in DOMAIN batch,
         flag' = flag_recheck(flag, {a}, move_flag_forward(a))
  PROVE  /\ flag' \in Flags(head)
         /\ \A b \in Accounts \ {a} : flag'[b] = flag[b]
         /\ \/ flag'[a] = NoRow /\ flag[a] = NoRow
            \/ flag'[a] = flag[a] /\ flag[a] >= move_flag_forward(a)
            \/ flag'[a] = move_flag_forward(a) /\ flag[a] # NoRow /\ flag[a] < move_flag_forward(a)
  <1>1. a \in Accounts /\ flag \in Flags(head) /\ head \in Nat
        /\ move_flag_forward(a) \in 0..(head + 1)
    BY BatchNumbers, TypeParts, Numbers, ForwardNumber DEF FlagType, Flags
  <1>2. flag' \in Flags(head)
    BY <1>1, RecheckType
  <1>3. flag[a] \in Int
    BY <1>1, Numbers
  <1> QED
    BY <1>1, <1>2, <1>3, RecheckAt

\* What the history of a write to the flags keeps.
LEMMA NoteKeeps ==
  ASSUME TypeOK, BehindIsLater, flag' \in Flags(head),
         NEW failed \in SUBSET Accounts, NoteFlags(failed),
         \A a \in Accounts : flag'[a] >= flag[a] \/ flag'[a] <= Unflagged,
         \A b \in failed : flag'[b] > seen \/ flag'[b] <= Unflagged
  PROVE  /\ behind' \in [Accounts -> SUBSET Accounts]
         /\ BehindIsLater'
         /\ \A a \in Accounts : behind'[a] \subseteq behind[a] \cup failed
  <1> DEFINE raised == {a \in Accounts : flag'[a] > flag[a]}
             ended == {a \in Accounts : flag'[a] <= Unflagged}
  <1>1. behind' = [a \in Accounts |->
            IF a \in raised \cup ended THEN {}
            ELSE (behind[a] \ ended) \cup {b \in failed \ ended : flag[a] <= seen}]
    BY DEF NoteFlags
  <1>2. behind \in [Accounts -> SUBSET Accounts]
    BY TypeParts DEF HistoryType
  <1>3. behind' \in [Accounts -> SUBSET Accounts]
    BY <1>1, <1>2
  <1>4. \A a \in Accounts : behind'[a] \subseteq behind[a] \cup failed
    BY <1>1, <1>2
  <1>5. ASSUME NEW a \in Accounts, NEW b \in behind'[a]
        PROVE  flag'[a] > Unflagged /\ flag'[a] < flag'[b]
    <2>1. /\ flag[a] \in Int /\ flag'[a] \in Int /\ seen \in Nat
          /\ b \in Accounts /\ flag[b] \in Int /\ flag'[b] \in Int
      BY <1>3, <1>5, Numbers DEF Flags
    <2>2. a \notin raised /\ a \notin ended /\ b \notin ended
          /\ (b \in behind[a] \/ (b \in failed /\ flag[a] <= seen))
      BY <1>1, <1>5
    <2>3. flag'[a] = flag[a] /\ flag[a] > Unflagged /\ flag'[b] > Unflagged
      BY <2>1, <2>2 DEF Unflagged
    <2>4. CASE b \in behind[a]
      <3>1. flag[a] < flag[b] /\ flag'[b] >= flag[b]
        BY <2>1, <2>3, <2>4 DEF BehindIsLater, Unflagged
      <3> QED
        BY <2>1, <2>3, <3>1
    <2>5. CASE b \in failed /\ flag[a] <= seen
      <3>1. flag'[b] > seen
        BY <2>1, <2>3, <2>5 DEF Unflagged
      <3> QED
        BY <2>1, <2>3, <2>5, <3>1
    <2> QED
      BY <2>2, <2>4, <2>5
  <1>6. BehindIsLater'
    BY <1>5 DEF BehindIsLater
  <1> QED
    BY <1>3, <1>4, <1>6

----------------------------------------------------------------------------
(* Every action keeps the invariant.                                       *)

LEMMA TypePartsNext ==
  TypeOK' <=> /\ ChainType' /\ PassType' /\ WorkType'
              /\ FlagType' /\ HistoryType' /\ ProcessType'
  BY DEF TypeOK, ChainType, PassType, WorkType, FlagType, HistoryType, ProcessType, Batches

\* A pass that ends leaves no batch behind.
LEMMA EndPassType ==
  ASSUME TypeOK, EndPass, head' = head
  PROVE  WorkType'
  <1>1. NoBatch \in Batches(head) /\ DOMAIN NoBatch = {} /\ Cardinality(DOMAIN NoBatch) = 0
    BY NoBatchShape
  <1>2. 0 \in 0..head /\ 0 <= Batch
    BY Numbers
  <1> QED
    BY <1>1, <1>2 DEF EndPass, WorkType

\* The flags and their history are left alone.
LEMMA FlagsAlone ==
  ASSUME IInv, UNCHANGED <<flag, history>>
  PROVE  OwedIsFlagged' /\ BehindIsLater'
  BY DEF IInv, OwedIsFlagged, BehindIsLater, Flagged, history

LEMMA CloseLedgerStep == IInv /\ CloseLedger => IInv'
  <1> SUFFICES ASSUME IInv, CloseLedger PROVE IInv'
    OBVIOUS
  <1>1. TypeOK
    BY DEF IInv
  <1>2. /\ head < MaxLedger /\ head' = head + 1
        /\ UNCHANGED <<cursor, polled, flag, published, seen, firstTick, unlocked, lastOracle,
                       retried, lastFull, apc, batch, todo, snap, shutdown, restarts, history>>
    BY DEF CloseLedger, gate, scans, work, process
  <1>3. PICK named \in {{a} : a \in Accounts} \cup {{}}, after \in SUBSET Accounts :
          /\ events' = [l \in 1..(head + 1) |-> IF l = head + 1 THEN named ELSE events[l]]
          /\ owes' = after
          /\ unread' \in {unread, unread \cup {head + 1}}
    BY DEF CloseLedger
  <1>4. head \in Nat /\ events \in [1..head -> SUBSET Accounts] /\ head \in 1..MaxLedger
    BY <1>1, TypeParts DEF ChainType
  <1>5. TypeOK'
    <2>1. events' \in [1..(head + 1) -> SUBSET Accounts]
      <3>1. named \subseteq Accounts
        OBVIOUS
      <3>2. \A l \in 1..(head + 1) : l # head + 1 => l \in 1..head
        BY <1>4
      <3> QED
        BY <1>3, <1>4, <3>1, <3>2
    <2>a. unread' \subseteq 1..(head + 1)
      <3>1. unread \subseteq 1..head
        BY <1>1, TypeParts DEF ChainType
      <3> QED
        BY <1>3, <1>4, <3>1
    <2>2. ChainType'
      BY <1>1, <1>2, <1>3, <1>4, <2>1, <2>a, TypeParts DEF ChainType
    <2>3. PassType' /\ ProcessType'
      BY <1>1, <1>2, TypeParts DEF PassType, ProcessType
    <2>4. WorkType'
      <3>1. batch \in Batches(head + 1)
        BY <1>1, <1>4, TypeParts, BatchGrows DEF WorkType
      <3> QED
        BY <1>1, <1>2, <1>4, <3>1, TypeParts DEF WorkType
    <2>5. FlagType' /\ HistoryType'
      <3>1. -1..(head + 1) \subseteq -1..((head + 1) + 1) /\ 0..head \subseteq 0..(head + 1)
        BY <1>4
      <3>2. flag \in [Accounts -> -1..(head + 1)] /\ decided \in [Accounts -> 0..head]
        BY <1>1, TypeParts DEF FlagType, HistoryType
      <3>3. flag \in [Accounts -> -1..((head + 1) + 1)] /\ decided \in [Accounts -> 0..(head + 1)]
        BY <3>1, <3>2
      <3> QED
        BY <1>1, <1>2, <3>3, TypeParts DEF FlagType, HistoryType, history
    <2> QED
      BY <2>2, <2>3, <2>4, <2>5, TypePartsNext
  <1>6. OwedIsFlagged' /\ BehindIsLater'
    BY <1>2, FlagsAlone
  <1>7. FailedGoBehind' /\ NothingToDo'
    BY <1>2 DEF IInv, FailedGoBehind, NothingToDo, history
  <1>8. Remembered'
    <2> SUFFICES ASSUME restarts = 0 PROVE (DealtWith /\ FlagsKnown /\ ReadIsCovered)'
      BY <1>2 DEF Remembered
    <2>1. DealtWith /\ FlagsKnown /\ ReadIsCovered
      BY DEF IInv, Remembered
    <2>2. \A l \in 1..cursor : events'[l] = events[l] /\ (l \in unread' <=> l \in unread)
      BY <1>1, <1>3, <1>4, Numbers
    <2>3. DealtWith'
      BY <1>2, <2>1, <2>2 DEF DealtWith, history
    <2>4. FlagsKnown'
      <3>1. \A a \in Accounts : flag[a] \in Int
        BY <1>1, Numbers
      <3>2. \A a \in DOMAIN batch : batch[a] \in Int
        BY <1>1, BatchNumbers
      <3> QED
        BY <1>2, <1>4, <2>1, <3>1, <3>2 DEF FlagsKnown
    <2>5. ReadIsCovered'
      BY <1>2, <2>1, <2>2 DEF ReadIsCovered
    <2> QED
      BY <2>3, <2>4, <2>5
  <1> QED
    BY <1>5, <1>6, <1>7, <1>8 DEF IInv

\* Rows that are refreshed, by a tick or by a seed, up to the cursor.
LEMMA RefreshKeeps ==
  ASSUME IInv, NEW ledger \in 1..head,
         NEW done \in SUBSET Accounts, NEW raised \in SUBSET done,
         Refresh(done, raised, ledger),
         UNCHANGED <<chain, seen, gate, scans, work, process>>
  PROVE  /\ PassType' \/ published' # published
         /\ WorkType' /\ FlagType' /\ HistoryType' /\ ProcessType'
         /\ OwedIsFlagged' /\ BehindIsLater' /\ FailedGoBehind' /\ NothingToDo'
  <1>1. TypeOK
    BY DEF IInv
  <1>2. UNCHANGED <<head, events, owes, seen, firstTick, unlocked, lastOracle, retried,
                    lastFull, apc, batch, todo, snap, shutdown, restarts>>
    BY DEF chain, read, gate, scans, work, process
  <1>3. /\ flag' \in Flags(head)
        /\ \A a \in Accounts : flag'[a] \in Int /\ flag[a] \in Int
        /\ \A a \in Accounts : flag'[a] >= flag[a] \/ flag'[a] <= Unflagged
        /\ \A a \in Accounts \ (done \ owes) : flag'[a] >= flag[a]
    <2>1. flag' \in Flags(head)
      BY <1>1, RefreshFlags
    <2>2. \A a \in Accounts : flag'[a] \in Int /\ flag[a] \in Int
      BY <1>1, <2>1, Numbers DEF Flags
    <2>3. \A a \in Accounts \ done : flag'[a] = flag[a]
      BY <1>1, RefreshFlags
    <2>4. \A a \in done \ owes : flag'[a] = NoRow
      BY <1>1, RefreshFlags
    <2>5. \A a \in done \cap owes : flag'[a] >= flag[a]
      <3>1. \A a \in done \cap owes : flag'[a] = flag[a] \/ (flag'[a] = Unflagged /\ flag[a] = NoRow)
                                       \/ (flag'[a] = ledger /\ flag[a] < ledger)
        BY <1>1, RefreshFlags
      <3> QED
        BY <2>2, <3>1 DEF NoRow, Unflagged
    <2> QED
      BY <2>1, <2>2, <2>3, <2>4, <2>5 DEF NoRow, Unflagged
  <1>4. /\ behind' \in [Accounts -> SUBSET Accounts] /\ BehindIsLater'
        /\ \A a \in Accounts : behind'[a] \subseteq behind[a]
    <2>1. NoteFlags({})
      BY DEF Refresh
    <2> QED
      BY <1>1, <1>3, <2>1, NoteKeeps DEF IInv
  <1>5. WorkType' /\ ProcessType'
    BY <1>1, <1>2, TypeParts DEF WorkType, ProcessType
  <1>6. PassType' \/ published' # published
    BY <1>1, <1>2, TypeParts DEF PassType
  <1>7. HistoryType' /\ FlagType'
    <2>1. Deal(done \ owes, head) /\ owing' = owing \ (done \ owes)
      BY DEF Refresh
    <2>2. owing \subseteq Accounts /\ head \in 0..head
      BY <1>1, TypeParts, Numbers DEF HistoryType
    <2>3. decided' \in [Accounts -> 0..head] /\ owing' \subseteq Accounts
      BY <1>1, <2>1, <2>2, DealKeeps
    <2> QED
      BY <1>2, <1>3, <1>4, <2>3 DEF HistoryType, FlagType, Flags
  <1>8. OwedIsFlagged'
    <2>1. owing' = owing \ (done \ owes) /\ owing \subseteq Flagged
      BY DEF Refresh, IInv, OwedIsFlagged
    <2> QED
      BY <1>3, <2>1 DEF OwedIsFlagged, Flagged, Unflagged
  <1>9. FailedGoBehind' /\ NothingToDo'
    BY <1>2, <1>4 DEF IInv, FailedGoBehind, NothingToDo
  <1> QED
    BY <1>4, <1>5, <1>6, <1>7, <1>8, <1>9

\* Nor is anything forgotten: what a tick commits it has flagged, past all
\* that a pass at work can have read, and what it raises without committing is
\* past all that was committed.
LEMMA RefreshRemembers ==
  ASSUME IInv, NEW ledger \in 1..head,
         NEW done \in SUBSET Accounts, NEW raised \in SUBSET done,
         Refresh(done, raised, ledger),
         UNCHANGED <<chain, seen, gate, scans, work, process>>,
         raised = {} \/ ledger > cursor,
         unread \subseteq unread',
         \/ cursor' = cursor
         \/ /\ cursor' = ledger /\ ledger > cursor /\ raised = done
            /\ \A l \in (cursor + 1)..ledger : Told(l)' \subseteq done
  PROVE  Remembered'
  <1>1. TypeOK
    BY DEF IInv
  <1>2. UNCHANGED <<head, events, owes, seen, apc, batch, todo, snap, restarts>>
    BY DEF chain, read, gate, scans, work, process
  <1> SUFFICES ASSUME restarts = 0 PROVE (DealtWith /\ FlagsKnown /\ ReadIsCovered)'
    BY <1>2 DEF Remembered
  <1>3. DealtWith /\ FlagsKnown /\ ReadIsCovered
    BY DEF IInv, Remembered
  <1>4. /\ ledger \in Nat /\ ledger <= head
        /\ head \in Nat /\ cursor \in Nat /\ seen \in Nat /\ snap \in Nat
    BY <1>1, Numbers
  <1>5. \A a \in Accounts : flag'[a] \in Int /\ flag[a] \in Int
    <2>1. flag' \in Flags(head)
      BY <1>1, RefreshFlags
    <2> QED
      BY <1>1, <1>4, <2>1, Numbers DEF Flags
  <1>6. /\ \A a \in Accounts \ done : flag'[a] = flag[a]
        /\ \A a \in done \ owes : flag'[a] = NoRow
        /\ \A a \in done \cap owes :
               \/ flag'[a] = flag[a] /\ flag[a] # NoRow /\ (a \in raised => flag[a] >= ledger)
               \/ flag'[a] = Unflagged /\ flag[a] = NoRow /\ a \notin raised
               \/ flag'[a] = ledger /\ a \in raised /\ flag[a] < ledger
    BY <1>1, RefreshFlags
  <1>7. /\ \A a \in Accounts : decided'[a] \in Nat /\ decided[a] \in Nat
        /\ \A a \in Accounts : decided'[a] >= decided[a]
        /\ \A a \in done \ owes : decided'[a] >= head
    <2>1. Deal(done \ owes, head) /\ head \in 0..head
      BY <1>4 DEF Refresh
    <2> QED
      BY <1>1, <1>4, <2>1, DealKeeps, Numbers
  <1>8. ASSUME NEW a \in Accounts, NEW l \in 1..cursor', a \in Told(l)', l > cursor
        PROVE  a \in done /\ a \in raised /\ l <= ledger /\ cursor' = ledger
    <2>1. cursor' = ledger /\ raised = done
          /\ \A k \in (cursor + 1)..ledger : Told(k)' \subseteq done
      BY <1>4, <1>8
    <2>2. l \in (cursor + 1)..ledger
      BY <1>4, <1>8, <2>1
    <2> QED
      BY <1>4, <1>8, <2>1, <2>2
  <1>9. cursor' \in Nat /\ cursor' >= cursor /\ cursor' <= head
    BY <1>1, <1>4, Numbers
  <1>10. DealtWith'
    <2>1. ASSUME NEW a \in Accounts, NEW l \in 1..cursor', a \in Told(l)', flag'[a] <= Unflagged
          PROVE  decided'[a] >= l
      <3>1. CASE a \in done \ owes
        BY <1>4, <1>7, <1>9, <3>1
      <3>2. CASE a \notin done \ owes
        <4>1. decided'[a] >= decided[a] /\ decided'[a] \in Nat /\ decided[a] \in Nat
          BY <1>7
        <4>2. flag[a] <= Unflagged /\ a \notin raised
          BY <1>4, <1>5, <1>6, <2>1, <3>2 DEF Unflagged, NoRow
        <4>3. l \in 1..cursor /\ l \in Nat
          BY <1>4, <1>8, <1>9, <2>1, <4>2
        <4>4. decided[a] >= l
          BY <1>2, <1>3, <2>1, <4>2, <4>3 DEF DealtWith
        <4> QED
          BY <4>1, <4>3, <4>4
      <3> QED
        BY <3>1, <3>2
    <2> QED
      BY <1>2, <2>1 DEF DealtWith
  <1>11. FlagsKnown'
    <2>1. \A a \in Accounts : flag'[a] = flag[a] \/ flag'[a] <= head
      BY <1>4, <1>6 DEF Unflagged, NoRow
    <2> QED
      BY <1>2, <1>3, <2>1 DEF FlagsKnown
  <1>12. ReadIsCovered'
    <2>1. ASSUME apc = "act", NEW a \in todo, NEW l \in 1..cursor',
                 flag'[a] = batch[a], a \in Told(l)'
          PROVE  l <= snap
      <3>1. a \in Accounts /\ batch[a] \in Nat /\ batch[a] >= 1 /\ batch[a] <= snap
        <4>1. a \in DOMAIN batch
          BY <1>1, TypeParts DEF WorkType
        <4> QED
          BY <1>1, <1>3, <2>1, <4>1, BatchNumbers DEF FlagsKnown
      <3>2. CASE l > cursor
        <4>1. a \in done /\ a \in raised /\ l <= ledger
          BY <1>8, <2>1, <3>1, <3>2
        <4>2. flag'[a] >= ledger
          BY <1>4, <1>5, <1>6, <2>1, <3>1, <4>1 DEF Unflagged, NoRow
        <4> QED
          BY <1>4, <1>9, <2>1, <3>1, <4>1, <4>2
      <3>3. CASE l <= cursor
        <4>1. l \in 1..cursor
          BY <1>4, <1>9, <3>3
        <4>2. CASE flag[a] = batch[a]
          BY <1>2, <1>3, <2>1, <4>1, <4>2 DEF ReadIsCovered
        <4>3. CASE flag[a] # batch[a]
          <5>1. flag'[a] = ledger /\ ledger > cursor
            BY <1>5, <1>6, <2>1, <3>1, <4>3 DEF Unflagged, NoRow
          <5> QED
            BY <1>4, <2>1, <3>1, <4>1, <5>1
        <4> QED
          BY <4>2, <4>3
      <3> QED
        BY <1>4, <1>9, <3>2, <3>3
    <2> QED
      BY <1>2, <2>1 DEF ReadIsCovered
  <1> QED
    BY <1>10, <1>11, <1>12

LEMMA TrackerTickStep == IInv /\ TrackerTick => IInv'
  <1> SUFFICES ASSUME IInv, TrackerTick PROVE IInv'
    OBVIOUS
  <1>0. PICK ledger \in TickLedgers, from \in Starts :
          \E upTo \in ledger..head : \E done \in SUBSET (Named(from, upTo) \cup Stale) :
            /\ from <= ledger
            /\ Named(from, upTo) \subseteq done
            /\ ApplyTick(ledger, done, done)
            /\ published' = IF ledger > published THEN ledger ELSE published
            /\ \/ UNCHANGED <<cursor, unread>>
               \/ /\ cursor' = ledger
                  /\ unread' = unread \cup ((cursor + 1)..(from - 1))
    BY DEF TrackerTick
  <1>8. PICK upTo \in ledger..head : \E done \in SUBSET (Named(from, upTo) \cup Stale) :
            /\ from <= ledger
            /\ Named(from, upTo) \subseteq done
            /\ ApplyTick(ledger, done, done)
            /\ published' = IF ledger > published THEN ledger ELSE published
            /\ \/ UNCHANGED <<cursor, unread>>
               \/ /\ cursor' = ledger
                  /\ unread' = unread \cup ((cursor + 1)..(from - 1))
    BY <1>0
  <1>1. PICK done \in SUBSET (Named(from, upTo) \cup Stale) :
            /\ from <= ledger
            /\ Named(from, upTo) \subseteq done
            /\ ApplyTick(ledger, done, done)
            /\ published' = IF ledger > published THEN ledger ELSE published
            /\ \/ UNCHANGED <<cursor, unread>>
               \/ /\ cursor' = ledger
                  /\ unread' = unread \cup ((cursor + 1)..(from - 1))
    BY <1>8
  <1>2. UNCHANGED <<chain, seen, gate, scans, work, process>>
    BY DEF TrackerTick
  <1>3. TypeOK
    BY DEF IInv
  <1>6. /\ ledger \in Nat /\ ledger > cursor /\ ledger >= polled /\ ledger <= head
        /\ ledger \in 1..head /\ cursor \in Nat /\ cursor >= 1 /\ head \in Nat
        /\ from \in Nat /\ from >= cursor + 1
    BY <1>3, TickNumbers, Numbers DEF Starts
  <1>a. done \in SUBSET Accounts /\ done \in SUBSET done
    <2>1. \A l \in from..upTo : l \in 1..head
      BY <1>6
    <2>2. events \in [1..head -> SUBSET Accounts]
      BY <1>3, TypeParts DEF ChainType
    <2>3. Named(from, upTo) \subseteq Accounts
      BY <2>1, <2>2 DEF Named
    <2> QED
      BY <2>3 DEF Stale
  <1>b. Refresh(done, done, ledger) /\ polled' = ledger
    BY <1>1 DEF ApplyTick
  <1>4. /\ WorkType' /\ FlagType' /\ HistoryType' /\ ProcessType'
        /\ OwedIsFlagged' /\ BehindIsLater' /\ FailedGoBehind' /\ NothingToDo'
    BY <1>2, <1>6, <1>a, <1>b, RefreshKeeps
  <1>c. unread \subseteq unread' /\ unread' \subseteq 1..head
    <2>1. unread \subseteq 1..head
      BY <1>3, TypeParts DEF ChainType
    <2>2. unread' = unread \/ unread' = unread \cup ((cursor + 1)..(from - 1))
      BY <1>1
    <2>3. from <= ledger
      BY <1>1
    <2>4. (cursor + 1)..(from - 1) \subseteq 1..head
      BY <1>6, <2>3
    <2> QED
      BY <2>1, <2>2, <2>4
  <1>5. Remembered'
    <2>1. CASE cursor' = cursor
      BY <1>2, <1>6, <1>a, <1>b, <1>c, <2>1, RefreshRemembers
    <2>2. CASE cursor' = ledger /\ unread' = unread \cup ((cursor + 1)..(from - 1))
      <3>1. ASSUME NEW l \in (cursor + 1)..ledger, NEW a \in Told(l)' PROVE a \in done
        <4>1. l \notin unread' /\ l \in Nat /\ a \in events[l]
          BY <1>2, <1>6, <3>1 DEF chain
        <4>2. l \in from..upTo /\ l \notin unread
          BY <1>1, <1>6, <2>2, <4>1
        <4>3. a \in Named(from, upTo)
          BY <4>1, <4>2 DEF Named
        <4> QED
          BY <1>1, <4>3
      <3>2. \A l \in (cursor + 1)..ledger : Told(l)' \subseteq done
        BY <3>1
      <3> QED
        BY <1>2, <1>6, <1>a, <1>b, <1>c, <2>2, <3>2, RefreshRemembers
    <2> QED
      BY <1>1, <2>1, <2>2
  <1>7. ChainType' /\ PassType'
    <2>2. ChainType'
      BY <1>1, <1>2, <1>3, <1>6, <1>b, <1>c, TypeParts, Numbers DEF ChainType, chain
    <2>3. published' \in Nat /\ published' >= published
      BY <1>1, <1>3, <1>6, Numbers
    <2>4. PassType'
      BY <1>2, <1>3, <2>3, TypeParts, Numbers DEF PassType, gate, scans
    <2> QED
      BY <2>2, <2>4
  <1> QED
    BY <1>4, <1>5, <1>7, TypePartsNext DEF IInv

LEMMA TrackerTickFailsStep == IInv /\ TrackerTickFails => IInv'
  <1> SUFFICES ASSUME IInv, TrackerTickFails PROVE IInv'
    OBVIOUS
  <1>0. PICK ledger \in TickLedgers : \E done \in SUBSET (Named(cursor + 1, head) \cup Stale) :
          \E raised \in SUBSET done : ApplyTick(ledger, done, raised)
    BY DEF TrackerTickFails
  <1>1. PICK done \in SUBSET (Named(cursor + 1, head) \cup Stale) :
          \E raised \in SUBSET done : ApplyTick(ledger, done, raised)
    BY <1>0
  <1>1a. PICK raised \in SUBSET done : ApplyTick(ledger, done, raised)
    BY <1>1
  <1>2. UNCHANGED <<chain, seen, gate, scans, work, process, unread, cursor, published>>
    BY DEF TrackerTickFails
  <1>3. TypeOK
    BY DEF IInv
  <1>6. ledger \in 1..head /\ ledger \in Nat /\ ledger > cursor /\ ledger <= head
    BY <1>3, TickNumbers
  <1>a. done \in SUBSET Accounts
    <2>1. \A l \in (cursor + 1)..head : l \in 1..head
      BY <1>3, Numbers
    <2>2. events \in [1..head -> SUBSET Accounts]
      BY <1>3, TypeParts DEF ChainType
    <2>3. Named(cursor + 1, head) \subseteq Accounts
      BY <2>1, <2>2 DEF Named
    <2> QED
      BY <2>3 DEF Stale
  <1>b. Refresh(done, raised, ledger) /\ polled' = ledger
    BY <1>1a DEF ApplyTick
  <1>4. /\ PassType' /\ WorkType' /\ FlagType' /\ HistoryType' /\ ProcessType'
        /\ OwedIsFlagged' /\ BehindIsLater' /\ FailedGoBehind' /\ NothingToDo'
    BY <1>2, <1>6, <1>a, <1>b, RefreshKeeps
  <1>5. Remembered'
    BY <1>2, <1>6, <1>a, <1>b, RefreshRemembers
  <1>7. ChainType'
    BY <1>2, <1>3, <1>6, <1>b, TypeParts, Numbers DEF ChainType, chain
  <1> QED
    BY <1>4, <1>5, <1>7, TypePartsNext DEF IInv

LEMMA ReseedStep == IInv /\ Reseed => IInv'
  <1> SUFFICES ASSUME IInv, Reseed PROVE IInv'
    OBVIOUS
  <1>1. PICK found \in SUBSET Accounts : Refresh(found, {}, head)
    BY DEF Reseed
  <1>2. UNCHANGED <<chain, seen, gate, scans, work, process, unread, cursor, polled, published>>
    BY DEF Reseed, read
  <1>3. TypeOK /\ head \in 1..head /\ {} \in SUBSET found
    BY Numbers DEF IInv
  <1>4. /\ PassType' /\ WorkType' /\ FlagType' /\ HistoryType' /\ ProcessType'
        /\ OwedIsFlagged' /\ BehindIsLater' /\ FailedGoBehind' /\ NothingToDo'
    BY <1>1, <1>2, <1>3, RefreshKeeps
  <1>5. Remembered'
    BY <1>1, <1>2, <1>3, RefreshRemembers
  <1>6. ChainType'
    BY <1>2, <1>3, TypeParts DEF ChainType, chain
  <1> QED
    BY <1>4, <1>5, <1>6, TypePartsNext DEF IInv

LEMMA OtherPoolTickStep == IInv /\ OtherPoolTick => IInv'
  <1> SUFFICES ASSUME IInv, OtherPoolTick PROVE IInv'
    OBVIOUS
  <1>1. /\ published' \in (published + 1)..head
        /\ UNCHANGED <<head, events, unread, owes, cursor, polled, flag, seen, firstTick, unlocked,
                       lastOracle, retried, lastFull, apc, batch, todo, snap, shutdown,
                       restarts, decided, owing, behind>>
    BY DEF OtherPoolTick, chain, read, gate, scans, work, process, history
  <1>2. TypeOK
    BY DEF IInv
  <1>3. TypeOK'
    <2>1. ChainType' /\ PassType'
      BY <1>1, <1>2, TypeParts, Numbers DEF ChainType, PassType
    <2>2. WorkType' /\ FlagType' /\ HistoryType' /\ ProcessType'
      BY <1>1, <1>2, TypeParts DEF WorkType, FlagType, HistoryType, ProcessType
    <2> QED
      BY <2>1, <2>2, TypePartsNext
  <1>4. OwedIsFlagged' /\ BehindIsLater' /\ FailedGoBehind' /\ NothingToDo'
    BY <1>1 DEF IInv, OwedIsFlagged, BehindIsLater, FailedGoBehind, NothingToDo, Flagged
  <1>5. Remembered'
    BY <1>1 DEF IInv, Remembered, DealtWith, FlagsKnown, ReadIsCovered
  <1> QED
    BY <1>3, <1>4, <1>5 DEF IInv

LEMMA BeginPassStep == IInv /\ BeginPass => IInv'
  <1> SUFFICES ASSUME IInv, BeginPass PROVE IInv'
    OBVIOUS
  <1>1. /\ published > seen /\ seen' = published /\ apc' = "batch" /\ Observe /\ NoteFlags({})
        /\ UNCHANGED <<head, events, unread, owes, cursor, polled, published, batch, todo, snap,
                       shutdown, restarts, decided, owing>>
    BY DEF BeginPass, chain, read, process
  <1>2. TypeOK
    BY DEF IInv
  <1>3. /\ flag' \in Flags(head)
        /\ \A a \in Accounts : flag'[a] \in Int /\ flag[a] \in Int
        /\ \A a \in Accounts : flag'[a] = flag[a] \/ (flag[a] < published /\ flag'[a] = published)
        /\ published \in Nat /\ seen \in Nat /\ head \in Nat /\ published <= head
    <2>1. /\ flag' \in Flags(head)
          /\ \A a \in Accounts :
               flag'[a] = flag[a] \/ (flag[a] < published /\ flag'[a] = published)
      BY <1>2, ScanFlags
    <2> QED
      BY <1>2, <2>1, Numbers DEF Flags
  <1>4. /\ behind' \in [Accounts -> SUBSET Accounts] /\ BehindIsLater'
    <2>1. \A a \in Accounts : flag'[a] >= flag[a] \/ flag'[a] <= Unflagged
      BY <1>3
    <2> QED
      BY <1>1, <1>2, <1>3, <2>1, NoteKeeps DEF IInv
  <1>5. TypeOK'
    <2>1. ChainType' /\ ProcessType' /\ FlagType' /\ HistoryType'
      BY <1>1, <1>2, <1>3, <1>4, TypeParts DEF ChainType, ProcessType, FlagType, HistoryType, Flags
    <2>2. WorkType'
      BY <1>1, <1>2, TypeParts DEF WorkType
    <2>3. PassType'
      <3>1. firstTick' \in 0..published /\ unlocked' \in BOOLEAN
        <4>1. firstTick \in 0..seen /\ unlocked \in BOOLEAN
          BY <1>2, TypeParts DEF PassType
        <4>2. firstTick' = IF firstTick = None THEN published ELSE firstTick
          BY <1>1 DEF Observe
        <4>3. unlocked' \in BOOLEAN
          BY <1>1 DEF Observe
        <4> QED
          BY <1>1, <1>3, <4>1, <4>2, <4>3
      <3>2. lastOracle' \in 0..published /\ retried' \in BOOLEAN /\ lastFull' \in 0..published
        <4>1. lastOracle \in 0..seen /\ retried \in BOOLEAN /\ lastFull \in 0..seen
          BY <1>2, TypeParts DEF PassType
        <4>2. PICK hurt, below \in SUBSET Accounts : OracleScan(hurt) /\ FullScan(below)
          BY DEF BeginPass
        <4>3. lastOracle' \in {published, lastOracle}
          BY <4>2 DEF OracleScan
        <4>5. retried' \in BOOLEAN
          BY <4>1, <4>2, Zenon DEF OracleScan
        <4>4. lastFull' \in {published, lastFull}
          BY <4>2 DEF FullScan
        <4> QED
          BY <1>1, <1>3, <4>1, <4>3, <4>4, <4>5
      <3>3. published' = published /\ seen' \in 0..published'
        BY <1>1, <1>3
      <3> QED
        BY <1>1, <3>1, <3>2, <3>3 DEF PassType
    <2> QED
      BY <2>1, <2>2, <2>3, TypePartsNext
  <1>6. OwedIsFlagged'
    BY <1>1, <1>3 DEF IInv, OwedIsFlagged, Flagged, Unflagged
  <1>7. FailedGoBehind' /\ NothingToDo'
    BY <1>1 DEF IInv, FailedGoBehind, NothingToDo, BeginPass
  <1>8. Remembered'
    <2> SUFFICES ASSUME restarts = 0 PROVE (DealtWith /\ FlagsKnown /\ ReadIsCovered)'
      BY <1>1 DEF Remembered
    <2>1. DealtWith /\ FlagsKnown
      BY DEF IInv, Remembered
    <2>2. \A a \in Accounts : flag'[a] <= Unflagged => flag[a] <= Unflagged
      BY <1>1, <1>3 DEF Unflagged
    <2>3. DealtWith'
      BY <1>1, <2>1, <2>2 DEF DealtWith
    <2>4. \A a \in Accounts : flag'[a] <= head
      BY <1>1, <1>3, <2>1 DEF FlagsKnown
    <2>5. FlagsKnown' /\ ReadIsCovered'
      BY <1>1, <2>4 DEF FlagsKnown, ReadIsCovered
    <2> QED
      BY <2>3, <2>5
  <1> QED
    BY <1>4, <1>5, <1>6, <1>7, <1>8 DEF IInv

\* A step that ends a pass, and leaves the flags alone.
LEMMA PassEnds ==
  ASSUME IInv, EndPass,
         UNCHANGED <<chain, read, flag, published, seen, gate, scans, process, history>>
  PROVE  IInv'
  <1>1. UNCHANGED <<head, events, unread, owes, cursor, polled, flag, published, seen, firstTick,
                    unlocked, lastOracle, retried, lastFull, shutdown, restarts, decided,
                    owing, behind>>
    BY DEF chain, read, gate, scans, process, history
  <1>2. TypeOK'
    <2>1. ChainType' /\ PassType' /\ FlagType' /\ HistoryType' /\ ProcessType'
      BY <1>1, TypeParts DEF IInv, ChainType, PassType, FlagType, HistoryType, ProcessType
    <2> QED
      BY <1>1, <2>1, EndPassType, TypePartsNext DEF IInv
  <1>3. OwedIsFlagged' /\ BehindIsLater'
    BY FlagsAlone
  <1>4. apc' = "idle"
    BY DEF EndPass
  <1>5. FailedGoBehind' /\ NothingToDo' /\ Remembered'
    BY <1>1, <1>4 DEF IInv, EndPass, NothingToDo, FailedGoBehind, Remembered, DealtWith, FlagsKnown, ReadIsCovered
  <1> QED
    BY <1>2, <1>3, <1>5 DEF IInv

\* The batch a pass reads holds everyone ahead of whom it holds.
LEMMA ReadBatchStep == IInv /\ ReadBatch => IInv'
  <1> SUFFICES ASSUME IInv, ReadBatch PROVE IInv'
    OBVIOUS
  <1>1. CASE EndPass
    BY <1>1, PassEnds DEF ReadBatch
  <1>2. CASE ~EndPass
    <2> DEFINE some == users_needing_recheck
    <2>1. /\ apc = "batch" /\ apc' = "decide" /\ batch' = [a \in some |-> flag[a]]
          /\ UNCHANGED <<head, events, unread, owes, cursor, polled, flag, published, seen, firstTick,
                         unlocked, lastOracle, retried, lastFull, shutdown, restarts, decided,
                         owing, behind, todo, snap>>
      BY <1>2 DEF ReadBatch, chain, read, gate, scans, process, history
    <2>2. TypeOK
      BY DEF IInv
    <2>3. /\ some \subseteq Flagged /\ some \in SUBSET Accounts
          /\ DOMAIN batch' = some /\ \A a \in some : batch'[a] = flag[a]
      BY <2>1 DEF users_needing_recheck, Flagged
    <2>4. TypeOK'
      <3>1. ChainType' /\ PassType' /\ FlagType' /\ HistoryType' /\ ProcessType'
        BY <2>1, <2>2, TypeParts DEF ChainType, PassType, FlagType, HistoryType, ProcessType
      <3>2. batch' \in Batches(head)
        <4>1. \A a \in some : flag[a] \in 1..(head + 1)
          BY <2>2, <2>3, Numbers DEF Flagged, Unflagged
        <4>2. batch' \in [some -> 1..(head + 1)]
          BY <2>1, <4>1
        <4> QED
          BY <2>3, <4>2, BatchMade
      <3>3. Cardinality(DOMAIN batch') <= Batch
        BY <2>2, <2>3, QueryLimit
      <3>4. todo = {}
        BY <2>1 DEF IInv, NothingToDo
      <3>5. snap \in 0..head
        BY <2>2, TypeParts DEF WorkType
      <3>6. WorkType'
        BY <2>1, <3>2, <3>3, <3>4, <3>5 DEF WorkType
      <3> QED
        BY <3>1, <3>6, TypePartsNext
    <2>5. FailedGoBehind'
      <3>1. ASSUME NEW a \in Accounts, a \notin some, NEW b \in some, b \in behind[a]
            PROVE  FALSE
        <4>1. flag[a] > Unflagged /\ flag[a] < flag[b]
          BY <3>1 DEF IInv, BehindIsLater
        <4>2. a \in Flagged /\ b \in Flagged /\ Ahead(a, b)
          BY <2>3, <4>1 DEF Flagged, Ahead
        <4>3. Cardinality(Before(a)) < Cardinality(Before(b)) /\ Cardinality(Before(b)) < Batch
          BY <2>2, <4>2, BeforeGrows, QueryShape
        <4> QED
          BY <3>1, <4>2, <4>3, QueryShape, BeforeFinite
      <3> QED
        BY <2>1, <2>3, <3>1 DEF FailedGoBehind
    <2>6. OwedIsFlagged' /\ BehindIsLater'
      BY <2>1, FlagsAlone DEF history
    <2>7. NothingToDo'
      BY <2>1 DEF IInv, NothingToDo
    <2>8. Remembered'
      <3>1. restarts = 0 => \A a \in DOMAIN batch' : batch'[a] <= head
        BY <2>1, <2>3 DEF IInv, Remembered, FlagsKnown
      <3> QED
        BY <2>1, <3>1 DEF IInv, Remembered, DealtWith, FlagsKnown, ReadIsCovered
    <2> QED
      BY <2>4, <2>5, <2>6, <2>7, <2>8 DEF IInv
  <1> QED
    BY <1>1, <1>2

\* Who could not be decided, or was not settled, is moved past the tick.
LEMMA ForwardIsLater ==
  ASSUME TypeOK, NEW a \in DOMAIN batch,
         \/ flag'[a] = NoRow /\ flag[a] = NoRow
         \/ flag'[a] = flag[a] /\ flag[a] >= move_flag_forward(a)
         \/ flag'[a] = move_flag_forward(a) /\ flag[a] # NoRow /\ flag[a] < move_flag_forward(a)
  PROVE  /\ flag'[a] >= flag[a]
         /\ flag'[a] > seen \/ flag'[a] = NoRow
         /\ flag[a] # NoRow => flag'[a] > Unflagged
         /\ flag'[a] <= Unflagged => flag[a] <= Unflagged
         /\ flag'[a] = flag[a] \/ flag'[a] = seen + 1 \/ flag'[a] = batch[a]
  <1>1. a \in Accounts /\ flag[a] \in Int /\ seen \in Nat /\ batch[a] \in Nat
    BY Numbers, BatchNumbers
  <1>2. /\ move_flag_forward(a) \in Nat /\ move_flag_forward(a) >= seen + 1
        /\ move_flag_forward(a) = seen + 1 \/ move_flag_forward(a) = batch[a]
    BY ForwardNumber
  <1> HIDE DEF move_flag_forward
  <1> QED
    BY <1>1, <1>2 DEF Unflagged, NoRow

LEMMA DecideStep == IInv /\ Decide => IInv'
  <1> SUFFICES ASSUME IInv, Decide PROVE IInv'
    OBVIOUS
  <1>1. /\ apc = "decide"
        /\ UNCHANGED <<head, events, unread, owes, cursor, polled, published, seen, firstTick, unlocked,
                       lastOracle, retried, lastFull, shutdown, restarts, decided>>
    BY DEF Decide, chain, read, gate, scans, process
  <1>2. TypeOK
    BY DEF IInv
  <1>3. CASE EndPass /\ UNCHANGED <<flag, owing, behind>>
    BY <1>1, <1>3, PassEnds DEF chain, read, gate, scans, process, history
  <1>4. ASSUME NEW undecided \in SUBSET DOMAIN batch,
               flag' = [a \in Accounts |->
                   IF a \in undecided THEN flag_recheck(flag, {a}, move_flag_forward(a))[a]
                   ELSE flag[a]],
               \/ EndPass
               \/ /\ apc' = "act" /\ todo' = DOMAIN batch \ undecided
                  /\ snap' = head /\ batch' = batch,
               NoteFlags(undecided),
               owing' = owing \cup {a \in undecided : flag[a] # NoRow}
        PROVE  IInv'
    <2>1. undecided \subseteq Accounts /\ DOMAIN batch \subseteq Accounts
      BY <1>2, BatchNumbers
    <2>2. flag' \in Flags(head) /\ \A a \in Accounts \ undecided : flag'[a] = flag[a]
      BY <1>2, <1>4, DecideFlags
    <2>3. \A a \in undecided :
             /\ flag'[a] >= flag[a]
             /\ flag'[a] > seen \/ flag'[a] = NoRow
             /\ flag[a] # NoRow => flag'[a] > Unflagged
             /\ flag'[a] <= Unflagged => flag[a] <= Unflagged
             /\ flag'[a] = flag[a] \/ flag'[a] = seen + 1 \/ flag'[a] = batch[a]
      <3>1. \A a \in undecided :
               \/ flag'[a] = NoRow /\ flag[a] = NoRow
               \/ flag'[a] = flag[a] /\ flag[a] >= move_flag_forward(a)
               \/ flag'[a] = move_flag_forward(a) /\ flag[a] # NoRow /\ flag[a] < move_flag_forward(a)
        BY <1>2, <1>4, DecideFlags
      <3> QED
        BY <1>2, <3>1, ForwardIsLater
    <2>4. \A a \in Accounts : flag[a] \in Int /\ flag'[a] \in Int
      BY <1>2, <2>2, Numbers DEF Flags
    <2>5. behind' \in [Accounts -> SUBSET Accounts] /\ BehindIsLater'
      <3>1. \A a \in Accounts : flag'[a] >= flag[a]
        BY <2>2, <2>3, <2>4
      <3>2. \A b \in undecided : flag'[b] > seen \/ flag'[b] <= Unflagged
        BY <2>3 DEF NoRow, Unflagged
      <3> QED
        BY <1>2, <1>4, <2>1, <2>2, <3>1, <3>2, NoteKeeps DEF IInv
    <2>6. TypeOK'
      <3>1. ChainType' /\ PassType' /\ FlagType' /\ ProcessType'
        BY <1>1, <1>2, <2>2, TypeParts DEF ChainType, PassType, FlagType, ProcessType, Flags
      <3>2. HistoryType'
        BY <1>1, <1>2, <1>4, <2>1, <2>5, TypeParts DEF HistoryType
      <3>3. WorkType'
        <4>1. CASE EndPass
          BY <1>1, <1>2, <4>1, EndPassType
        <4>2. CASE apc' = "act" /\ todo' = DOMAIN batch \ undecided /\ snap' = head /\ batch' = batch
          <5>1. head \in 0..head
            BY <1>2, Numbers
          <5> QED
            BY <1>1, <1>2, <4>2, <5>1, TypeParts DEF WorkType
        <4> QED
          BY <1>4, <4>1, <4>2
      <3> QED
        BY <3>1, <3>2, <3>3, TypePartsNext
    <2>7. OwedIsFlagged'
      <3>1. \A a \in owing : a \in Accounts /\ flag[a] > Unflagged
        BY DEF IInv, OwedIsFlagged, Flagged
      <3>2. \A a \in Accounts : flag'[a] >= flag[a]
        BY <2>2, <2>3, <2>4
      <3>3. \A a \in owing' : a \in Accounts /\ flag'[a] > Unflagged
        <4>1. ASSUME NEW a \in owing' PROVE a \in Accounts /\ flag'[a] > Unflagged
          <5>1. a \in owing \/ (a \in undecided /\ flag[a] # NoRow)
            BY <1>4
          <5>2. CASE a \in owing
            BY <2>4, <3>1, <3>2, <5>2 DEF Unflagged
          <5>3. CASE a \in undecided /\ flag[a] # NoRow
            BY <2>1, <2>3, <5>3
          <5> QED
            BY <5>1, <5>2, <5>3
        <4> QED
          BY <4>1
      <3> QED
        BY <3>3 DEF OwedIsFlagged, Flagged
    <2>8. FailedGoBehind' /\ NothingToDo'
      BY <1>4 DEF FailedGoBehind, NothingToDo, EndPass
    <2>9. Remembered'
      <3> SUFFICES ASSUME restarts = 0 PROVE (DealtWith /\ FlagsKnown /\ ReadIsCovered)'
        BY <1>1 DEF Remembered
      <3>1. DealtWith /\ FlagsKnown /\ \A a \in DOMAIN batch : batch[a] <= head
        BY <1>1 DEF IInv, Remembered, FlagsKnown
      <3>2. DealtWith'
        <4>1. \A a \in Accounts : flag'[a] <= Unflagged => flag[a] <= Unflagged
          BY <2>2, <2>3
        <4> QED
          BY <1>1, <3>1, <4>1 DEF DealtWith
      <3>3. \A a \in Accounts : flag'[a] <= head \/ flag'[a] <= seen + 1
        <4>1. ASSUME NEW a \in Accounts PROVE flag'[a] <= head \/ flag'[a] <= seen + 1
          <5>1. flag'[a] = flag[a] \/ flag'[a] = seen + 1 \/ (a \in undecided /\ flag'[a] = batch[a])
            BY <2>2, <2>3
          <5>2. seen \in Nat
            BY <1>2, Numbers
          <5> QED
            BY <3>1, <5>1, <5>2 DEF FlagsKnown
        <4> QED
          BY <4>1
      <3>4. FlagsKnown'
        BY <1>1, <1>4, <3>1, <3>3 DEF FlagsKnown, EndPass
      <3>5. ReadIsCovered'
        BY <1>1, <1>2, <1>4, Numbers DEF ReadIsCovered, EndPass
      <3> QED
        BY <3>2, <3>4, <3>5
    <2> QED
      BY <2>5, <2>6, <2>7, <2>8, <2>9 DEF IInv
  <1> QED
    <2>1. CASE ~(EndPass /\ UNCHANGED <<flag, owing, behind>>)
      <3>1. PICK undecided \in SUBSET DOMAIN batch :
             /\ flag' = [a \in Accounts |->
                   IF a \in undecided THEN flag_recheck(flag, {a}, move_flag_forward(a))[a]
                   ELSE flag[a]]
             /\ \/ EndPass
                \/ /\ apc' = "act" /\ todo' = DOMAIN batch \ undecided
                   /\ snap' = head /\ batch' = batch
             /\ NoteFlags(undecided)
             /\ owing' = owing \cup {a \in undecided : flag[a] # NoRow}
        BY <2>1 DEF Decide
      <3> QED
        BY <1>4, <3>1
    <2> QED
      BY <1>3, <2>1

\* One account of the batch is acted on: settled and cleared if the flag is
\* the one the batch read, or moved forward.
LEMMA ActStep == IInv /\ Act => IInv'
  <1> SUFFICES ASSUME IInv, Act PROVE IInv'
    OBVIOUS
  <1>1. /\ apc = "act"
        /\ UNCHANGED <<head, events, unread, owes, cursor, polled, published, seen, firstTick, unlocked,
                       lastOracle, retried, lastFull, shutdown, restarts>>
    BY DEF Act, chain, read, gate, scans, process
  <1>2. TypeOK
    BY DEF IInv
  <1>3. PICK a \in todo, outcome \in Outcomes :
          /\ \/ /\ settled(outcome)
                /\ flag' = clear_recheck(a, batch[a])
                /\ NoteFlags({})
             \/ /\ ~settled(outcome)
                /\ flag' = flag_recheck(flag, {a}, move_flag_forward(a))
                /\ NoteFlags({a})
          /\ NoteAct(a, outcome)
          /\ EndPass \/ (todo' = todo \ {a} /\ UNCHANGED <<apc, batch, snap>>)
    BY DEF Act
  <1>4. a \in DOMAIN batch /\ a \in Accounts /\ batch[a] \in Nat /\ batch[a] >= 1
    BY <1>2, TypeParts, BatchNumbers DEF WorkType
  <1>5. /\ flag' \in Flags(head) /\ \A b \in Accounts \ {a} : flag'[b] = flag[b]
        /\ \A b \in Accounts : flag[b] \in Int /\ flag'[b] \in Int
    <2>1. flag' \in Flags(head) /\ \A b \in Accounts \ {a} : flag'[b] = flag[b]
      BY <1>2, <1>3, <1>4, ClearFlags, ForwardFlags
    <2> QED
      BY <1>2, <2>1, Numbers DEF Flags
  <1>6. settled(outcome) =>
          /\ \/ flag[a] = batch[a] /\ flag'[a] = Unflagged
             \/ flag[a] # batch[a] /\ flag'[a] = flag[a]
          /\ Deal({a}, snap)
          /\ owing' = owing \ {a}
    BY <1>2, <1>3, <1>4, ClearFlags DEF NoteAct, settled
  <1>7. ~settled(outcome) =>
          /\ flag'[a] >= flag[a]
          /\ flag'[a] > seen \/ flag'[a] = NoRow
          /\ flag[a] # NoRow => flag'[a] > Unflagged
          /\ flag'[a] <= Unflagged => flag[a] <= Unflagged
          /\ flag'[a] = flag[a] \/ flag'[a] = seen + 1 \/ flag'[a] = batch[a]
          /\ decided' = decided
          /\ owing' = owing \cup {b \in {a} : flag[b] # NoRow}
    <2> SUFFICES ASSUME ~settled(outcome)
                 PROVE  /\ flag'[a] >= flag[a]
                        /\ flag'[a] > seen \/ flag'[a] = NoRow
                        /\ flag[a] # NoRow => flag'[a] > Unflagged
                        /\ flag'[a] <= Unflagged => flag[a] <= Unflagged
                        /\ flag'[a] = flag[a] \/ flag'[a] = seen + 1 \/ flag'[a] = batch[a]
                        /\ decided' = decided
                        /\ owing' = owing \cup {b \in {a} : flag[b] # NoRow}
      OBVIOUS
    <2>1. \/ flag'[a] = NoRow /\ flag[a] = NoRow
          \/ flag'[a] = flag[a] /\ flag[a] >= move_flag_forward(a)
          \/ flag'[a] = move_flag_forward(a) /\ flag[a] # NoRow /\ flag[a] < move_flag_forward(a)
      BY <1>2, <1>3, <1>4, ForwardFlags
    <2>2. decided' = decided /\ owing' = owing \cup {b \in {a} : flag[b] # NoRow}
      BY <1>3 DEF NoteAct, settled
    <2> QED
      BY <1>2, <1>4, <2>1, <2>2, ForwardIsLater
  <1>8. behind' \in [Accounts -> SUBSET Accounts] /\ BehindIsLater'
    <2>1. CASE settled(outcome)
      <3>1. \A b \in Accounts : flag'[b] >= flag[b] \/ flag'[b] <= Unflagged
        BY <1>5, <1>6, <2>1 DEF Unflagged
      <3> QED
        BY <1>2, <1>3, <1>5, <2>1, <3>1, NoteKeeps DEF IInv
    <2>2. CASE ~settled(outcome)
      <3>1. \A b \in Accounts : flag'[b] >= flag[b] \/ flag'[b] <= Unflagged
        BY <1>5, <1>7, <2>2
      <3>2. \A b \in {a} : flag'[b] > seen \/ flag'[b] <= Unflagged
        BY <1>7, <2>2 DEF Unflagged, NoRow
      <3>3. {a} \in SUBSET Accounts
        BY <1>4
      <3> QED
        BY <1>2, <1>3, <1>5, <2>2, <3>1, <3>2, <3>3, NoteKeeps DEF IInv
    <2> QED
      BY <2>1, <2>2
  <1>9. TypeOK'
    <2>1. ChainType' /\ PassType' /\ FlagType' /\ ProcessType'
      BY <1>1, <1>2, <1>5, TypeParts DEF ChainType, PassType, FlagType, ProcessType, Flags
    <2>2. HistoryType'
      <3>1. /\ decided \in [Accounts -> 0..head] /\ owing \subseteq Accounts /\ snap \in 0..head
        BY <1>2, TypeParts DEF HistoryType, WorkType
      <3>2. decided' \in [Accounts -> 0..head] /\ owing' \subseteq Accounts
        BY <1>2, <1>4, <1>6, <1>7, <3>1, DealKeeps
      <3> QED
        BY <1>1, <1>8, <3>2 DEF HistoryType
    <2>3. WorkType'
      <3>1. CASE EndPass
        BY <1>1, <1>2, <3>1, EndPassType
      <3>2. CASE ~EndPass
        BY <1>1, <1>2, <1>3, <3>2, TypeParts DEF WorkType
      <3> QED
        BY <3>1, <3>2
    <2> QED
      BY <2>1, <2>2, <2>3, TypePartsNext
  <1>10. OwedIsFlagged'
    <2>1. \A b \in owing : b \in Accounts /\ flag[b] > Unflagged
      BY DEF IInv, OwedIsFlagged, Flagged
    <2>2. ASSUME NEW b \in owing' PROVE b \in Accounts /\ flag'[b] > Unflagged
      <3>1. CASE b # a
        BY <1>5, <1>6, <1>7, <2>1, <2>2, <3>1
      <3>2. CASE b = a
        <4>1. ~settled(outcome)
          BY <1>6, <2>2, <3>2
        <4>2. flag[a] # NoRow
          BY <1>7, <2>1, <2>2, <3>2, <4>1 DEF NoRow, Unflagged
        <4> QED
          BY <1>4, <1>7, <3>2, <4>1, <4>2
      <3> QED
        BY <3>1, <3>2
    <2> QED
      BY <2>2 DEF OwedIsFlagged, Flagged
  <1>11. FailedGoBehind' /\ NothingToDo'
    BY <1>1, <1>3 DEF FailedGoBehind, NothingToDo, EndPass
  <1>12. Remembered'
    <2> SUFFICES ASSUME restarts = 0 PROVE (DealtWith /\ FlagsKnown /\ ReadIsCovered)'
      BY <1>1 DEF Remembered
    <2>1. DealtWith /\ FlagsKnown /\ ReadIsCovered /\ \A b \in DOMAIN batch : batch[b] <= snap
      BY <1>1 DEF IInv, Remembered, FlagsKnown
    <2>2. head \in Nat /\ snap \in Nat /\ snap <= head /\ seen \in Nat
          /\ \A b \in Accounts : decided[b] \in Nat
          /\ cursor \in Nat
      BY <1>2, Numbers
    <2>7. snap \in 0..head
      BY <1>2, TypeParts DEF WorkType
    <2>8. \A b \in Accounts : decided'[b] \in Nat
      BY <1>1, <1>9, TypePartsNext, <2>2 DEF HistoryType
    <2>3. ASSUME NEW b \in Accounts, NEW l \in 1..cursor, b \in Told(l), flag'[b] <= Unflagged
          PROVE  decided'[b] >= l
      <3>1. l \in Nat
        BY <2>2
      <3>3. CASE flag[b] <= Unflagged
        <4>1. decided[b] >= l
          BY <2>1, <2>3, <3>3 DEF DealtWith
        <4>2. decided'[b] >= decided[b]
          BY <1>2, <1>6, <1>7, <2>2, <2>7, DealKeeps
        <4> QED
          BY <2>2, <2>8, <3>1, <4>1, <4>2
      <3>4. CASE ~(flag[b] <= Unflagged)
        <4>1. b = a /\ settled(outcome) /\ flag[a] = batch[a]
          BY <1>5, <1>6, <1>7, <2>3, <3>4
        <4>2. l <= snap
          BY <1>1, <2>1, <2>3, <4>1 DEF ReadIsCovered
        <4>3. decided'[b] >= snap
          BY <1>2, <1>4, <1>6, <2>7, <4>1, DealKeeps
        <4> QED
          BY <2>2, <2>8, <3>1, <4>2, <4>3
      <3> QED
        BY <3>3, <3>4
    <2>4. DealtWith'
      BY <1>1, <2>3 DEF DealtWith
    <2>5. FlagsKnown'
      <3>1. ASSUME NEW b \in Accounts PROVE flag'[b] <= head \/ flag'[b] <= seen + 1
        <4>1. \/ flag'[b] = flag[b] \/ flag'[b] = seen + 1
              \/ (flag'[b] = batch[a] /\ batch[a] <= snap) \/ flag'[b] = Unflagged
          BY <1>4, <1>5, <1>6, <1>7, <2>1
        <4> QED
          BY <1>4, <2>1, <2>2, <4>1 DEF FlagsKnown, Unflagged
      <3> QED
        BY <1>1, <1>3, <2>1, <3>1 DEF FlagsKnown, EndPass
    <2>6. ReadIsCovered'
      <3>1. CASE EndPass
        BY <3>1 DEF ReadIsCovered, EndPass
      <3>2. CASE ~EndPass
        <4>1. /\ todo' = todo \ {a} /\ UNCHANGED <<apc, batch, snap>>
              /\ todo \subseteq Accounts
          BY <1>2, <1>3, <3>2, BatchNumbers
        <4>2. \A b \in todo' : b \in todo /\ flag'[b] = flag[b]
          BY <1>5, <4>1
        <4> QED
          BY <1>1, <2>1, <4>1, <4>2 DEF ReadIsCovered
      <3> QED
        BY <3>1, <3>2
    <2> QED
      BY <2>4, <2>5, <2>6
  <1> QED
    BY <1>8, <1>9, <1>10, <1>11, <1>12 DEF IInv

LEMMA StopPassStep == IInv /\ StopPass => IInv'
  BY PassEnds DEF StopPass

LEMMA RequestShutdownStep == IInv /\ RequestShutdown => IInv'
  <1> SUFFICES ASSUME IInv, RequestShutdown PROVE IInv'
    OBVIOUS
  <1>1. /\ shutdown' = TRUE
        /\ UNCHANGED <<head, events, unread, owes, cursor, polled, flag, published, seen, firstTick,
                       unlocked, lastOracle, retried, lastFull, apc, batch, todo, snap,
                       restarts, decided, owing, behind>>
    BY DEF RequestShutdown, chain, read, gate, scans, work, history
  <1>2. TypeOK'
    BY <1>1, TypeParts, TypePartsNext
    DEF IInv, ChainType, PassType, WorkType, FlagType, HistoryType, ProcessType
  <1>3. OwedIsFlagged' /\ BehindIsLater' /\ FailedGoBehind' /\ NothingToDo'
    BY <1>1 DEF IInv, OwedIsFlagged, BehindIsLater, FailedGoBehind, NothingToDo, Flagged
  <1>4. Remembered'
    BY <1>1 DEF IInv, Remembered, DealtWith, FlagsKnown, ReadIsCovered
  <1> QED
    BY <1>2, <1>3, <1>4 DEF IInv

\* What a start does to the flags: nothing, or it fills an empty table, when
\* nothing was flagged and so nothing owed.
LEMMA StartUpFlags ==
  ASSUME IInv, StartUpSeed, UNCHANGED <<chain, owing, behind>>
  PROVE  FlagType' /\ OwedIsFlagged' /\ BehindIsLater'
  <1>1. TypeOK /\ head' = head /\ flag \in [Accounts -> -1..(head + 1)] /\ head \in Nat
    BY TypeParts, Numbers DEF IInv, FlagType, chain
  <1>2. CASE flag' = flag
    BY <1>1, <1>2 DEF IInv, FlagType, OwedIsFlagged, BehindIsLater, Flagged
  <1>3. CASE \A a \in Accounts : flag[a] = NoRow
    <2>1. flag' = flag \/ \E found \in SUBSET Accounts : flag' = Refreshed(found)
      BY DEF StartUpSeed
    <2>2. FlagType'
      BY <1>1, <2>1 DEF FlagType, Refreshed, NoRow, Unflagged
    <2>3. owing = {}
      BY <1>3 DEF IInv, OwedIsFlagged, Flagged, NoRow, Unflagged
    <2>4. \A a \in Accounts : behind[a] = {}
      BY <1>3 DEF IInv, BehindIsLater, NoRow, Unflagged
    <2> QED
      BY <2>2, <2>3, <2>4 DEF OwedIsFlagged, BehindIsLater
  <1> QED
    BY <1>2, <1>3 DEF StartUpSeed

LEMMA RestartStep == IInv /\ Restart => IInv'
  <1> SUFFICES ASSUME IInv, Restart PROVE IInv'
    OBVIOUS
  <1>1. UNCHANGED <<head, events, owes, owing, behind>>
    BY DEF Restart, chain
  <1>2. TypeOK
    BY DEF IInv
  <1>3. restarts' \in 1..MaxRestarts /\ restarts' # 0
    BY <1>2, TypeParts DEF Restart, ProcessType
  <1>7. FlagType' /\ OwedIsFlagged' /\ BehindIsLater'
    BY StartUpFlags DEF Restart
  <1>4. TypeOK'
    <2>1. ChainType'
      <3>1. \/ UNCHANGED <<unread, cursor, polled>>
            \/ /\ cursor' = head /\ polled' = head
               /\ unread' = unread \cup ((cursor + 1)..head)
        BY DEF Restart, StartUpSeed, read
      <3>2. published' = 0
        BY DEF Restart
      <3> QED
        BY <1>1, <1>2, <3>1, <3>2, TypeParts, Numbers DEF ChainType
    <2>2. PassType'
      <3>1. unlocked' = FALSE /\ retried' = FALSE
        BY DEF Restart
      <3>2. unlocked' \in BOOLEAN /\ retried' \in BOOLEAN
        BY <3>1, Zenon
      <3>3. published' = 0 /\ seen' = 0 /\ firstTick' = 0 /\ lastOracle' = 0 /\ lastFull' = 0
        BY DEF Restart, None
      <3> QED
        BY <3>2, <3>3 DEF PassType
    <2>3. HistoryType'
      <3>1. decided' = [a \in Accounts |-> 0]
        BY DEF Restart
      <3> QED
        BY <1>1, <1>2, <3>1, TypeParts, Numbers DEF HistoryType
    <2>4. ProcessType'
      <3>1. shutdown' = FALSE
        BY DEF Restart
      <3>2. shutdown' \in BOOLEAN
        BY <3>1, Zenon
      <3> QED
        BY <1>3, <3>2 DEF ProcessType
    <2>5. WorkType'
      BY <1>1, <1>2, EndPassType DEF Restart
    <2> QED
      BY <1>7, <2>1, <2>2, <2>3, <2>4, <2>5, TypePartsNext
  <1>6. FailedGoBehind' /\ NothingToDo' /\ Remembered'
    BY <1>3 DEF FailedGoBehind, NothingToDo, Remembered, Restart, EndPass
  <1> QED
    BY <1>4, <1>6, <1>7 DEF IInv

LEMMA InitEstablishes == Init => IInv
  <1> SUFFICES ASSUME Init PROVE IInv
    OBVIOUS
  <1>1. TypeOK
    <2>1. ChainType /\ PassType /\ ProcessType
      <3>1. shutdown \in BOOLEAN /\ unlocked \in BOOLEAN /\ retried \in BOOLEAN
        BY Zenon DEF Init
      <3>2. ChainType
        <4>1. events \in [1..1 -> SUBSET Accounts]
          BY DEF Init
        <4> QED
          BY <4>1 DEF Init, ChainType
      <3>3. restarts = 0 /\ published = 0 /\ seen = 0 /\ firstTick = 0 /\ lastOracle = 0 /\ lastFull = 0
        BY DEF Init, None
      <3> QED
        BY <3>1, <3>2, <3>3 DEF PassType, ProcessType
    <2>2. FlagType /\ HistoryType
      BY DEF Init, FlagType, HistoryType, NoRow, Unflagged
    <2>3. WorkType
      <3>1. NoBatch \in Batches(head) /\ Cardinality(DOMAIN NoBatch) = 0 /\ DOMAIN NoBatch = {}
        BY NoBatchShape
      <3> QED
        BY <3>1 DEF Init, WorkType
    <2> QED
      BY <2>1, <2>2, <2>3, TypeParts
  <1>2. OwedIsFlagged /\ BehindIsLater /\ FailedGoBehind /\ NothingToDo
    BY DEF Init, OwedIsFlagged, BehindIsLater, FailedGoBehind, NothingToDo
  <1>3. Remembered
    <2>1. DealtWith
      BY DEF Init, DealtWith
    <2>2. FlagsKnown /\ ReadIsCovered
      BY DEF Init, FlagsKnown, ReadIsCovered, NoRow, Unflagged
    <2> QED
      BY <2>1, <2>2 DEF Remembered
  <1> QED
    BY <1>1, <1>2, <1>3 DEF IInv

LEMMA StutterStep == IInv /\ UNCHANGED vars => IInv'
  <1> SUFFICES ASSUME IInv, UNCHANGED vars PROVE IInv'
    OBVIOUS
  <1>1. TypeOK'
    BY DEF IInv, TypeOK, vars
  <1>2. OwedIsFlagged' /\ BehindIsLater' /\ FailedGoBehind' /\ NothingToDo'
    BY DEF IInv, OwedIsFlagged, BehindIsLater, FailedGoBehind, NothingToDo, Flagged, vars
  <1>3. Remembered'
    BY DEF IInv, Remembered, DealtWith, FlagsKnown, ReadIsCovered, vars
  <1> QED
    BY <1>1, <1>2, <1>3 DEF IInv

----------------------------------------------------------------------------
(* The theorems.                                                           *)

\* The inductive invariant holds of every state of the queue.
THEOREM Invariance == Spec => []IInv
  <1>1. IInv /\ [Next]_vars => IInv'
    BY CloseLedgerStep, TrackerTickStep, TrackerTickFailsStep, ReseedStep, OtherPoolTickStep,
       BeginPassStep, ReadBatchStep, DecideStep, ActStep, StopPassStep,
       RequestShutdownStep, RestartStep, StutterStep
    DEF Next, Tracker, Auctioneer
  <1> QED
    BY <1>1, InitEstablishes, PTL DEF Spec

\* Every variable keeps its type; in particular a batch is never larger than
\* REFRESH_BATCH (store.rs, users_needing_recheck).
THEOREM TypeCorrect == Spec => []TypeOK
  <1>1. IInv => TypeOK
    BY DEF IInv
  <1> QED
    BY <1>1, Invariance, PTL

\* Without a restart no committed change of a position that the tracker was
\* told of is forgotten, over gaps, reseeds and events that do not decode: a
\* decision never clears a flag that stands for a newer event (store.rs,
\* clear_recheck).
THEOREM NothingForgotten == Spec => []NoLostRecheck
  <1>1. IInv => NoLostRecheck
    BY DEF IInv, Remembered, DealtWith, NoLostRecheck, Unflagged
  <1> QED
    BY <1>1, Invariance, PTL

\* Who is owed something stays queued, over shutdowns and any number of
\* restarts (service.rs, recheck_batch; auctioneer.rs, ActOutcome::settled).
THEOREM OwedStays == Spec => []OwedStaysFlagged
  <1>1. IInv => OwedStaysFlagged
    BY DEF IInv, OwedIsFlagged, Flagged, OwedStaysFlagged, Unflagged
  <1> QED
    BY <1>1, Invariance, PTL

\* Who failed is not tried again while one that was flagged before it waits,
\* for every batch size (service.rs, move_flag_forward).
THEOREM FailedWaitTheirTurn == Spec => []FailedGoBehind
  <1>1. IInv => FailedGoBehind
    BY DEF IInv
  <1> QED
    BY <1>1, Invariance, PTL
============================================================================
