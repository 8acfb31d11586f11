---------------------------- MODULE FillerProofs ----------------------------
(***************************************************************************)
(* Theorems about Filler, for any pools, assets, borrowers and wallet, any *)
(* fee reserve and backoff, any number of ledgers, shutdowns and restarts. *)
(*                                                                         *)
(* Four arguments carry them.  The wallet: what was read is what is left   *)
(* plus what was sent, to the last unit.  The mark: unwind_after is never  *)
(* older than the last landing of this run in the pool, so a snapshot that *)
(* reaches it has seen every one.  The lag: two neighbouring ledgers differ*)
(* in a position only by a landing the mark knows of.  The record: a row's *)
(* auction never starts after the one an entry of the chain shows.         *)
(***************************************************************************)
EXTENDS Filler, TLAPS

Withheld(a) == IF a = FeeAsset THEN FeeReserve ELSE 0

\* What the task's locals hold at each of its program points.
InPool == {"snapshot", "auctions", "fill", "unwindPlan", "unwinding"}

JobLocals ==
    /\ fpc = "fill" => Busy /\ job.kind = "fill" /\ job.percent \in 1..Whole
    /\ fpc = "unwinding" => Busy /\ job.kind = "unwind"
    /\ Busy => /\ fpc \in {"fill", "unwinding"}
               /\ mode = "armed"
               /\ job.pool = Pools[idx]
               /\ job.at <= head
    /\ fpc \in InPool => idx <= Len(Pools)

\* An unwind fills nobody's auction.
UnwindsFillNone ==
    /\ Busy /\ job.kind = "unwind" => job.who = NoOne
    /\ \A g \in ghosts : g.kind = "unwind" => g.who = NoOne

\* Auctions start and are filled no later than the ledger that shows them.
ChainBound ==
    /\ \A b \in Borrowers : /\ now.auction[b].start <= head
                            /\ now.auction[b].part <= head
                            /\ prev.auction[b].start <= head
                            /\ row[b].start <= head
    /\ \A b \in Borrowers : row[b] # NoAuction => row[b].start >= 1

\* The wallet, to the last unit.
PaidFor ==
    /\ reserved = claim
    /\ claim = IF Busy THEN job.spend ELSE Nothing
    /\ \A a \in Assets : balances[a] + exposed[a] = lastRead[a] + claim[a]
    /\ \A a \in Assets : balances[a] <= lastRead[a]
    /\ \A a \in Assets : claim[a] > 0 => claim[a] + Withheld(a) <= balances[a]

\* Nothing of this run has landed in the pool since its snapshot was read.
FreshSnapshot ==
    fpc \in {"auctions", "fill"} /\ Pools[idx] \notin adrift => moved[Pools[idx]] <= taken

\* Only an armed process sends anything.
OnlyArmedMoves == mode # "armed" => ghosts = {} /\ \A p \in PoolSet : moved[p] = 0

\* What this run has out in a pool, or landed there, its mark knows of.
MarkKnows ==
    fpc # "dead" =>
        \A p \in PoolSet \ adrift :
            /\ (\E g \in ghosts : g.pool = p) => after[p] = Unseen
            /\ moved[p] > 0 => \/ after[p] = Unseen
                               \/ after[p] >= moved[p]
                               \/ after[p] = NoMark /\ p \notin pending /\ seeded

\* A pool whose mark no snapshot reaches is pending.
UnseenIsPending ==
    mode = "armed" /\ seeded => \A p \in PoolSet : after[p] = Unseen => p \in pending

\* A run knows of nothing before its first tick.
NotSeeded == ~seeded => fpc = "idle" /\ after = FreshState.after /\ pending = {}

\* An outcome is Unknown only at a shutdown, and nothing is sent after that.
Hushed ==
    \A p \in PoolSet : after[p] = Unseen =>
        shutdown /\ fpc \in {"idle", "pool", "unwind", "dead"}

\* Nothing lands in a pool after the submission waited for has.
LandedLast ==
    Busy /\ job.fate = "landed" /\ job.pool \notin adrift =>
        job.at >= 1 /\ job.at >= moved[job.pool]

\* An unwind on its way was planned on a snapshot that reaches the mark.
UnwindView ==
    /\ fpc = "unwindPlan" => Pools[idx] \in pending /\ Holds(Pools[idx], view)
    /\ fpc = "unwinding" => job.pool \in pending /\ Holds(job.pool, job.view)

\* Neighbouring ledgers differ in a position by a landing that is known.
LagIsKnown ==
    \A p \in PoolSet \ adrift :
        prev.pos[p] # now.pos[p] =>
            \/ moved[p] = head
            \/ Busy /\ job.pool = p /\ job.fate = "landed" /\ job.at = head

\* A new auction opens only where none is, and a row shows no auction that
\* started after one the chain shows.
RowIsBehind ==
    \A b \in Borrowers :
        /\ \/ now.auction[b].start = 0 \/ prev.auction[b].start = 0
           \/ now.auction[b].start = prev.auction[b].start
        /\ now.auction[b].start = 0 => now.auction[b] = NoAuction
        /\ prev.auction[b].start = 0 => prev.auction[b] = NoAuction
        /\ now.auction[b].start # 0 => now.auction[b].start >= row[b].start
        /\ prev.auction[b].start # 0 => prev.auction[b].start >= row[b].start

\* A dry run's record is remembered, or of an auction its row is past.
RecordsKnown ==
    /\ \A e \in dryRows :
          /\ row[e.who] # NoAuction
          /\ e \in recorded \/ e.ver.start < row[e.who].start
    /\ live \cap dryRows \subseteq recorded
    /\ \A e \in live : e.ver.start # 0

Told ==
    \A p \in PoolSet : /\ notices[p] <= 1
                       /\ p \notin leftovers => notices[p] = 0
                       /\ alerts[p] = IF setback[p].count >= AlertAt THEN 1 ELSE 0

IInv ==
    /\ TypeOK
    /\ JobLocals
    /\ UnwindsFillNone
    /\ ChainBound
    /\ PaidFor
    /\ FreshSnapshot
    /\ OnlyArmedMoves
    /\ MarkKnows
    /\ UnseenIsPending
    /\ NotSeeded
    /\ Hushed
    /\ LandedLast
    /\ UnwindView
    /\ LagIsKnown
    /\ StaysPending
    /\ RowIsBehind
    /\ RecordsKnown
    /\ RecordedOnce
    /\ Told

----------------------------------------------------------------------------
\* The numbers among the constants.
LEMMA Numbers ==
  /\ FeeReserve \in Nat /\ MaxLedger \in Nat /\ MaxFaults \in Nat
  /\ Whole \in Nat /\ Whole >= 1
  /\ AlertAt \in Nat /\ AlertAt >= 1
  /\ BackoffMax \in Nat
  BY FillerAssumption, InventoryAssumption DEF FillerAssumption, InventoryAssumption

LEMMA Sets ==
  /\ Spends \subseteq Amounts /\ Wallet \in Amounts
  /\ PoolOf \in [Borrowers -> PoolSet]
  /\ ModesChecked \subseteq Modes /\ HeldAtFirst \subseteq Positions
  /\ NoOne \notin Borrowers
  BY FillerAssumption DEF FillerAssumption

\* The type invariant in the parts that different steps touch.
WalletType ==
    /\ balances \in Amounts /\ reserved \in Amounts /\ claim \in Amounts
    /\ lastRead \in Amounts /\ exposed \in Amounts

JobType == mode \in Modes /\ job \in Job \cup {NoJob} /\ ghosts \subseteq Job

ChainType ==
    /\ head \in 1..MaxLedger
    /\ now \in Chain /\ prev \in Chain
    /\ row \in [Borrowers -> Version]

WalkType ==
    /\ fpc \in {"idle", "pool", "snapshot", "auctions", "fill",
                "unwind", "unwindPlan", "unwinding", "dead"}
    /\ idx \in 1..(Len(Pools) + 1)
    /\ view \in 0..head /\ taken \in 0..head
    /\ cur \in Borrowers \cup {NoOne} /\ cap \in 1..Whole

RecordType ==
    recorded \subseteq Entry /\ live \subseteq Entry /\ dryRows \subseteq Entry /\ twice \in BOOLEAN

PendingType ==
    /\ pending \subseteq PoolSet /\ seeded \in BOOLEAN
    /\ after \in [PoolSet -> -1..head]
    /\ moved \in [PoolSet -> 0..head] /\ adrift \subseteq PoolSet

ToldType ==
    /\ leftovers \subseteq PoolSet
    /\ setback \in [PoolSet -> [count : Nat, retryAt : Int]]
    /\ alerts \in [PoolSet -> Nat] /\ notices \in [PoolSet -> Nat]
    /\ unheard \subseteq PoolSet

TaskType ==
    /\ tick \in 0..head /\ execute \in BOOLEAN
    /\ everRead \in BOOLEAN
    /\ stale \in BOOLEAN /\ known \subseteq PoolSet /\ covered \subseteq known
    /\ shutdown \in BOOLEAN /\ faults \in 0..MaxFaults

LEMMA TypeParts ==
  TypeOK <=> /\ WalletType /\ JobType /\ ChainType /\ WalkType
             /\ RecordType /\ PendingType /\ ToldType /\ TaskType
  BY DEF TypeOK, ExecutorTypeOK, InventoryTypeOK, WalletType, JobType, ChainType, WalkType,
         RecordType, PendingType, ToldType, TaskType

LEMMA TypePartsNext ==
  TypeOK' <=> /\ WalletType' /\ JobType' /\ ChainType' /\ WalkType'
              /\ RecordType' /\ PendingType' /\ ToldType' /\ TaskType'
  BY DEF TypeOK, ExecutorTypeOK, InventoryTypeOK, WalletType, JobType, ChainType, WalkType,
         RecordType, PendingType, ToldType, TaskType

\* The pool that the walk is at.
LEMMA PoolsShape ==
  /\ Len(Pools) \in Nat
  /\ \A i \in Int : 1 <= i /\ i <= Len(Pools) => Pools[i] \in PoolSet
  BY FillerAssumption DEF FillerAssumption, PoolSet

\* A submission that is waited for.
LEMMA JobShape ==
  ASSUME JobType, Busy
  PROVE  /\ job \in Job
         /\ job.kind \in {"fill", "unwind"} /\ job.pool \in PoolSet
         /\ job.who \in Borrowers \cup {NoOne} /\ job.percent \in Nat
         /\ job.spend \in Amounts /\ job.view \in Nat
         /\ job.fate \in {"floating", "landed", "failed"} /\ job.at \in Nat
  BY DEF JobType, Busy, Job, NoJob

LEMMA ChainShape ==
  ASSUME NEW c \in Chain
  PROVE  /\ c.auction \in [Borrowers -> Version]
         /\ c.pos \in [PoolSet -> Positions]
         /\ c.wallet \in Amounts
  BY DEF Chain

LEMMA VersionShape ==
  ASSUME NEW v \in Version
  PROVE  /\ v.start \in Nat /\ v.start <= MaxLedger /\ v.part \in Nat /\ v.part <= MaxLedger
         /\ v = [start |-> v.start, part |-> v.part]
  BY DEF Version

\* What a node may answer from.
LEMMA ViewsShape ==
  ASSUME ChainType, NEW v \in Views
  PROVE  /\ v.at \in Nat /\ v.at <= head /\ v.at >= head - 1
         /\ v.chain \in Chain
         /\ \/ v.at = head /\ v.chain = now
            \/ v.at = head - 1 /\ v.chain = prev
  BY DEF Views, ChainType

----------------------------------------------------------------------------
(* The wallet.                                                             *)

\* What a step does to it: nothing; it is read; funds are taken for a
\* submission; they are settled; the process and its memory end.
WalletSame ==
    /\ UNCHANGED <<inventory, lastRead, exposed>>
    /\ Busy' <=> Busy
    /\ Busy => job'.spend = job.spend

WalletRead ==
    \E read \in Amounts :
        /\ record_balances(read)
        /\ lastRead' = read /\ exposed' = Nothing
        /\ ~Busy /\ ~Busy'

WalletSend ==
    \E spend \in Amounts :
        /\ reserve(spend)
        /\ exposed' = [a \in Assets |-> exposed[a] + spend[a]]
        /\ ~Busy /\ Busy' /\ job'.spend = spend
        /\ UNCHANGED lastRead

WalletSettle ==
    /\ \/ consume /\ UNCHANGED exposed
       \/ release /\ exposed' = [a \in Assets |-> exposed[a] - job.spend[a]]
    /\ Busy /\ ~Busy'
    /\ UNCHANGED lastRead

WalletGone ==
    /\ balances' = Nothing /\ reserved' = Nothing /\ claim' = Nothing
    /\ lastRead' = Nothing /\ exposed' = Nothing
    /\ ~Busy'

WalletMoves == WalletSame \/ WalletRead \/ WalletSend \/ WalletSettle \/ WalletGone

LEMMA ReadsAmounts ==
  ASSUME ChainType, NEW v \in Views, NEW p
  PROVE  [a \in Assets |-> IF a \in KnownAssets(p) THEN v.chain.wallet[a] ELSE 0] \in Amounts
  <1>1. v.chain.wallet \in Amounts
    BY ViewsShape, ChainShape
  <1> QED
    BY <1>1 DEF Amounts

LEMMA RefreshMoves ==
  ASSUME ChainType, NEW p, RefreshInventory(p), ~Busy, UNCHANGED job
  PROVE  WalletSame \/ WalletRead
  <1>1. \/ UNCHANGED <<inventory, spending>>
        \/ \E v \in Views :
              LET read == [a \in Assets |->
                             IF a \in KnownAssets(p) THEN v.chain.wallet[a] ELSE 0]
              IN  record_balances(read) /\ lastRead' = read /\ exposed' = Nothing
    BY DEF RefreshInventory
  <1>2. ~Busy'
    BY DEF Busy
  <1> QED
    BY <1>1, <1>2, ReadsAmounts DEF WalletSame, WalletRead, spending, Busy

LEMMA AnswerMoves ==
  ASSUME JobType, Busy, NEW answer \in QueueAnswers(shutdown), Settled(answer),
         NoteSettled(answer)
  PROVE  WalletSettle
  <1>1. /\ answer = "Succeeded" => job.fate = "landed"
        /\ job.fate = "landed" => answer \in {"Succeeded", "Unknown"}
    BY JobShape DEF QueueAnswers
  <1>2. ~Busy'
    BY DEF Settled, Busy, NoJob
  <1> QED
    BY <1>1, <1>2 DEF Settled, NoteSettled, settle_of, WalletSettle

LEMMA WalletNext ==
  ASSUME IInv, Next
  PROVE  WalletMoves
  <1>0. /\ JobType /\ ChainType /\ JobLocals
        /\ Spends \subseteq Amounts
    BY TypeParts, Sets DEF IInv
  <1>1. CASE CloseLedger
    <2>1. UNCHANGED <<inventory, spending>>
      BY <1>1 DEF CloseLedger
    <2>2. CASE UNCHANGED job
      BY <2>1, <2>2 DEF WalletMoves, WalletSame, spending, Busy
    <2>3. CASE Busy /\ \E fate : job' = [job EXCEPT !.fate = fate, !.at = head + 1]
      BY <2>1, <2>3, <1>0, JobShape DEF WalletMoves, WalletSame, spending, Busy, Job
    <2> QED
      BY <1>1, <2>2, <2>3 DEF CloseLedger
  <1>2. CASE \E b \in Borrowers : TrackRow(b)
    BY <1>2 DEF TrackRow, WalletMoves, WalletSame, spending, execution, Busy
  <1>3. CASE BeginTick \/ EndWalk \/ ReadEntries \/ RequestShutdown
    BY <1>3 DEF BeginTick, EndWalk, ReadEntries, RequestShutdown, WalletMoves, WalletSame,
                spending, execution, Busy
  <1>4. CASE TakeSnapshot
    <2>1. ~Busy /\ UNCHANGED job
      BY <1>0, <1>4 DEF TakeSnapshot, JobLocals, execution
    <2>2. CASE RefreshInventory(Pools[idx])
      BY <1>0, <2>1, <2>2, RefreshMoves DEF WalletMoves
    <2>3. CASE UNCHANGED <<inventory, spending>>
      BY <2>1, <2>3 DEF WalletMoves, WalletSame, spending, Busy
    <2> QED
      BY <1>4, <2>2, <2>3 DEF TakeSnapshot
  <1>5. CASE WalkAuctions
    <2>1. ~Busy
      BY <1>0, <1>5 DEF WalkAuctions, JobLocals
    <2> QED
      BY <1>0, <1>5, <2>1
      DEF WalkAuctions, WalletMoves, WalletSame, WalletSend, NextPool, Done, PlanFill, Execute,
          RunFill, Replan, Send, Busy
  <1>6. CASE UnwindPlanned
    <2>1. ~Busy
      BY <1>0, <1>6 DEF UnwindPlanned, JobLocals
    <2> QED
      BY <1>0, <1>6, <2>1
      DEF UnwindPlanned, WalletMoves, WalletSame, WalletSend, UnwindSkip, ExecuteUnwind,
          RunUnwind, Send, Busy
  <1>7. CASE UnwindPasses
    <2>1. ~Busy /\ UNCHANGED job
      BY <1>0, <1>7 DEF UnwindPasses, UnwindSkip, UnwindPool, JobLocals
    <2>2. (\E p : RefreshInventory(p)) \/ UNCHANGED <<inventory, spending>>
      BY <1>7 DEF UnwindPasses, UnwindSkip, UnwindPool, spending
    <2> QED
      BY <1>0, <2>1, <2>2, RefreshMoves DEF WalletMoves, WalletSame, spending, Busy
  <1>8. CASE AnswerFill \/ AnswerUnwind
    <2>1. Busy
      BY <1>0, <1>8 DEF AnswerFill, AnswerUnwind, JobLocals
    <2>2. \E answer \in QueueAnswers(shutdown) : Settled(answer) /\ NoteSettled(answer)
      BY <1>8 DEF AnswerFill, AnswerUnwind
    <2> QED
      BY <1>0, <2>1, <2>2, AnswerMoves DEF WalletMoves
  <1>9. CASE Restart
    BY <1>9 DEF Restart, WalletMoves, WalletGone, Busy, NoJob
  <1> QED
    BY <1>1, <1>2, <1>3, <1>4, <1>5, <1>6, <1>7, <1>8, <1>9 DEF Next, Tick

\* Funds are taken only where they are free.
LEMMA ReserveFits ==
  ASSUME WalletType, reserved = Nothing, NEW spend \in Amounts, CanReserve(spend), NEW a \in Assets,
         spend[a] > 0
  PROVE  spend[a] + Withheld(a) <= balances[a]
  BY Numbers DEF CanReserve, available, Withheld, WalletType, Amounts, Nothing

LEMMA WalletStep ==
  ASSUME IInv, Next
  PROVE  WalletType' /\ PaidFor'
  <1>0. WalletType /\ PaidFor /\ JobType
    BY TypeParts DEF IInv
  <1>a. \A a \in Assets : /\ balances[a] \in Nat /\ reserved[a] \in Nat /\ claim[a] \in Nat
                          /\ lastRead[a] \in Nat /\ exposed[a] \in Nat
    BY <1>0 DEF WalletType, Amounts
  <1>b. \A a \in Assets : /\ balances[a] + exposed[a] = lastRead[a] + claim[a]
                          /\ balances[a] <= lastRead[a]
                          /\ claim[a] > 0 => claim[a] + Withheld(a) <= balances[a]
    BY <1>0 DEF PaidFor
  <1>1. CASE WalletSame
    <2>1. UNCHANGED <<balances, reserved, claim, lastRead, exposed>>
      BY <1>1 DEF WalletSame, inventory
    <2>2. claim' = IF Busy' THEN job'.spend ELSE Nothing
      BY <1>0, <1>1, <2>1 DEF WalletSame, PaidFor
    <2> QED
      BY <1>0, <2>1, <2>2 DEF WalletType, PaidFor
  <1>2. CASE WalletRead
    <2>1. PICK read \in Amounts : /\ balances' = read
                                  /\ lastRead' = read /\ exposed' = Nothing
                                  /\ UNCHANGED <<reserved, claim>>
                                  /\ ~Busy /\ ~Busy'
      BY <1>2 DEF WalletRead, record_balances
    <2>2. reserved' = claim' /\ claim' = Nothing /\ claim' = IF Busy' THEN job'.spend ELSE Nothing
      BY <1>0, <2>1 DEF PaidFor
    <2> QED
      BY <1>0, <2>1, <2>2 DEF WalletType, PaidFor, Amounts, Nothing
  <1>3. CASE WalletSend
    <2>1. PICK spend \in Amounts : /\ reserve(spend)
                                   /\ exposed' = [a \in Assets |-> exposed[a] + spend[a]]
                                   /\ ~Busy /\ Busy' /\ job'.spend = spend
                                   /\ UNCHANGED lastRead
      BY <1>3 DEF WalletSend
    <2>2. claim = Nothing /\ reserved = Nothing /\ CanReserve(spend)
      BY <1>0, <2>1 DEF PaidFor, reserve
    <2>3. /\ reserved' = [a \in Assets |-> reserved[a] + spend[a]] /\ claim' = spend
          /\ UNCHANGED balances
      BY <2>1 DEF reserve
    <2>4. \A a \in Assets : spend[a] > 0 => spend[a] + Withheld(a) <= balances[a]
      BY <1>0, <2>2, ReserveFits
    <2>5. reserved' = spend
      BY <2>2, <2>3 DEF Nothing, Amounts
    <2>6. WalletType'
      BY <1>0, <2>1, <2>3, <2>5 DEF WalletType, Amounts
    <2>7. \A a \in Assets : balances'[a] + exposed'[a] = lastRead'[a] + claim'[a]
      BY <1>0, <2>1, <2>2, <2>3 DEF WalletType, PaidFor, Amounts, Nothing
    <2> QED
      BY <1>0, <2>1, <2>3, <2>4, <2>5, <2>6, <2>7 DEF PaidFor
  <1>4. CASE WalletSettle
    <2>1. Busy /\ ~Busy' /\ job.spend \in Amounts /\ claim = job.spend /\ reserved = claim
      BY <1>0, <1>4, JobShape DEF WalletSettle, PaidFor
    <2>2. UNCHANGED lastRead /\ claim' = Nothing /\ reserved' = subtract(reserved, claim)
      BY <1>4 DEF WalletSettle, consume, release
    <2>3. reserved' = Nothing
      BY <1>0, <2>1, <2>2 DEF subtract, Nothing, WalletType, Amounts
    <2>0. \A a \in Assets : Withheld(a) \in Nat
      BY Numbers DEF Withheld
    <2>4. \A a \in Assets : claim[a] <= balances[a]
      <3>1. ASSUME NEW a \in Assets PROVE claim[a] <= balances[a]
        <4>1. claim[a] \in Nat /\ balances[a] \in Nat /\ Withheld(a) \in Nat
          BY <1>a, <2>0
        <4>2. claim[a] > 0 => claim[a] + Withheld(a) <= balances[a]
          BY <1>b
        <4> QED
          BY <4>1, <4>2
      <3> QED
        BY <3>1
    <2>5. CASE consume /\ UNCHANGED exposed
      <3>1. balances' = [a \in Assets |-> balances[a] - claim[a]]
        BY <1>a, <2>4, <2>5 DEF consume, subtract
      <3>2. WalletType'
        BY <1>0, <1>a, <2>2, <2>3, <2>4, <2>5, <3>1 DEF WalletType, Amounts, Nothing
      <3>3. \A a \in Assets : /\ balances'[a] + exposed'[a] = lastRead'[a] + claim'[a]
                              /\ balances'[a] <= lastRead'[a]
        <4>1. ASSUME NEW a \in Assets
              PROVE  /\ balances'[a] + exposed'[a] = lastRead'[a] + claim'[a]
                     /\ balances'[a] <= lastRead'[a]
          <5>1. /\ balances[a] \in Nat /\ claim[a] \in Nat
                /\ lastRead[a] \in Nat /\ exposed[a] \in Nat
            BY <1>a
          <5>2. balances[a] + exposed[a] = lastRead[a] + claim[a] /\ balances[a] <= lastRead[a]
            BY <1>b
          <5>3. /\ balances'[a] = balances[a] - claim[a] /\ exposed'[a] = exposed[a]
                /\ lastRead'[a] = lastRead[a] /\ claim'[a] = 0
            BY <2>2, <2>5, <3>1 DEF Nothing
          <5> QED
            BY <5>1, <5>2, <5>3
        <4> QED
          BY <4>1
      <3> QED
        BY <2>1, <2>2, <2>3, <3>2, <3>3 DEF PaidFor, Nothing
    <2>6. CASE release /\ exposed' = [a \in Assets |-> exposed[a] - job.spend[a]]
      <3>1. UNCHANGED balances
        BY <2>6 DEF release
      <3>2. \A a \in Assets : exposed[a] >= claim[a]
        <4>1. ASSUME NEW a \in Assets PROVE exposed[a] >= claim[a]
          <5>1. /\ balances[a] \in Nat /\ claim[a] \in Nat
                /\ lastRead[a] \in Nat /\ exposed[a] \in Nat
            BY <1>a
          <5>2. balances[a] + exposed[a] = lastRead[a] + claim[a] /\ balances[a] <= lastRead[a]
            BY <1>b
          <5> QED
            BY <5>1, <5>2
        <4> QED
          BY <4>1
      <3>3. WalletType'
        BY <1>0, <1>a, <2>1, <2>2, <2>3, <2>6, <3>1, <3>2 DEF WalletType, Amounts, Nothing
      <3>4. \A a \in Assets : /\ balances'[a] + exposed'[a] = lastRead'[a] + claim'[a]
                              /\ balances'[a] <= lastRead'[a]
        BY <1>a, <1>b, <2>1, <2>2, <2>6, <3>1 DEF Nothing
      <3> QED
        BY <2>1, <2>2, <2>3, <3>3, <3>4 DEF PaidFor, Nothing
    <2> QED
      BY <1>4, <2>5, <2>6 DEF WalletSettle
  <1>5. CASE WalletGone
    <2>1. Nothing \in Amounts /\ (claim' = IF Busy' THEN job'.spend ELSE Nothing)
      BY <1>5 DEF WalletGone, Nothing, Amounts
    <2> QED
      BY <1>5, <2>1 DEF WalletGone, WalletType, PaidFor, Nothing
  <1> QED
    BY <1>1, <1>2, <1>3, <1>4, <1>5, WalletNext DEF WalletMoves

\* What the wallet's part of the invariant says.
LEMMA WalletHolds ==
  ASSUME WalletType, JobType, PaidFor
  PROVE  SpendsWhatItRead /\ ReservedIsClaimed
  <1>1. ReservedIsClaimed
    BY DEF PaidFor, ReservedIsClaimed
  <1>2. ASSUME Busy, NEW a \in Assets, job.spend[a] > 0
        PROVE  exposed[a] + (IF a = FeeAsset THEN FeeReserve ELSE 0) <= lastRead[a]
    <2>1. claim = job.spend
      BY <1>2 DEF PaidFor
    <2> QED
      BY <1>2, <2>1, Numbers DEF PaidFor, WalletType, Amounts, Withheld
  <1> QED
    BY <1>1, <1>2 DEF SpendsWhatItRead

----------------------------------------------------------------------------
(* Where the tick is, and what it waits for.                               *)

LEMMA NextPoolWalk ==
  ASSUME WalkType, head \in Nat, idx <= Len(Pools), NextPool, head' = head
  PROVE  WalkType' /\ fpc' = "pool"
  BY PoolsShape, Numbers DEF WalkType, NextPool

LEMMA NextUnwindWalk ==
  ASSUME WalkType, head \in Nat, idx <= Len(Pools), NextUnwind, head' = head
  PROVE  WalkType' /\ fpc' = "unwind"
  BY PoolsShape DEF WalkType, NextUnwind

LEMMA DoneWalk ==
  ASSUME WalkType, NEW e, Done(e), head' = head
  PROVE  WalkType' /\ fpc' = "auctions" /\ idx' = idx
  BY Numbers DEF WalkType, Done

LEMMA ReplanWalk ==
  ASSUME WalkType, NEW e, e.who \in Borrowers, NEW percent \in 1..Whole, Replan(e, percent),
         head' = head
  PROVE  WalkType' /\ fpc' = "auctions" /\ idx' = idx
  <1>1. CASE cur # NoOne /\ Done(e)
    BY <1>1, DoneWalk
  <1>2. CASE ~(cur # NoOne /\ Done(e))
    <2>1. /\ cur' = e.who /\ cap' = IF percent \div 2 >= 1 THEN percent \div 2 ELSE 1
          /\ fpc' = "auctions" /\ UNCHANGED <<idx, view, taken>>
      BY <1>2 DEF Replan
    <2>2. cap' \in 1..Whole
      BY <2>1, Numbers
    <2> QED
      BY <2>1, <2>2 DEF WalkType
  <1> QED
    BY <1>1, <1>2

\* A submission as it is sent.
LEMMA SendShape ==
  ASSUME NEW kind \in {"fill", "unwind"}, NEW pool \in PoolSet,
         NEW who \in Borrowers \cup {NoOne}, NEW percent \in Nat, NEW spend \in Amounts,
         NEW ledger \in Nat, Send(kind, pool, who, percent, spend, ledger)
  PROVE  /\ job' \in Job /\ Busy'
         /\ job'.kind = kind /\ job'.pool = pool /\ job'.who = who
         /\ job'.percent = percent /\ job'.view = ledger
         /\ job'.fate = "floating" /\ job'.at = 0
  BY DEF Send, Job, Busy

\* What a closed ledger does to the one that is waited for.
Closed(j, fate, at) == [j EXCEPT !.fate = fate, !.at = at]

JobCloses ==
    \/ UNCHANGED job
    \/ /\ Busy /\ job.fate = "floating"
       /\ \E fate \in {"landed", "failed"} :
             job' = Closed(job, fate, head + 1)

LEMMA Closes ==
  ASSUME NEW j \in Job, NEW fate \in {"landed", "failed"}, NEW at \in Nat
  PROVE  LET k == Closed(j, fate, at)
         IN  /\ k \in Job
             /\ k.kind = j.kind /\ k.pool = j.pool /\ k.who = j.who
             /\ k.percent = j.percent /\ k.view = j.view /\ k.spend = j.spend
             /\ k.fate = fate /\ k.at = at
  <1>1. Closed(j, fate, at) \in Job
    BY Zenon DEF Job, Closed
  <1> QED
    BY <1>1 DEF Job, Closed

LEMMA CloseLedgerJob ==
  ASSUME JobType, CloseLedger, head \in Nat
  PROVE  /\ JobCloses
         /\ JobType'
         /\ Busy' <=> Busy
         /\ Busy => /\ job'.kind = job.kind /\ job'.pool = job.pool /\ job'.who = job.who
                    /\ job'.percent = job.percent /\ job'.view = job.view
                    /\ \/ UNCHANGED job
                       \/ job.fate = "floating" /\ job'.at = head + 1
  <1>1. JobCloses /\ ghosts' \subseteq ghosts /\ UNCHANGED mode
    BY DEF CloseLedger, JobCloses, Closed
  <1>2. CASE UNCHANGED job
    BY <1>1, <1>2 DEF JobType, Busy
  <1>3. CASE ~UNCHANGED job
    <2>1. PICK fate \in {"landed", "failed"} :
             Busy /\ job.fate = "floating" /\ job' = Closed(job, fate, head + 1)
      BY <1>1, <1>3 DEF JobCloses
    <2>2. job \in Job
      BY <2>1, JobShape
    <2>0. head + 1 \in Nat
      OBVIOUS
    <2>3. /\ job' \in Job
          /\ job'.kind = job.kind /\ job'.pool = job.pool /\ job'.who = job.who
          /\ job'.percent = job.percent /\ job'.view = job.view /\ job'.at = head + 1
      BY <2>0, <2>1, <2>2, Closes
    <2>4. Busy'
      BY <2>1, <2>3 DEF Busy
    <2> QED
      BY <1>1, <2>1, <2>3, <2>4 DEF JobType
  <1> QED
    BY <1>2, <1>3

LEMMA AnswerJob ==
  ASSUME JobType, Busy, NEW answer, Settled(answer)
  PROVE  JobType' /\ ~Busy' /\ UNCHANGED mode
  BY JobShape DEF Settled, JobType, Busy, NoJob

\* Where nothing is waited for.
LEMMA NotWaiting ==
  ASSUME ~Busy', fpc' \notin {"fill", "unwinding"},
         fpc' \in {"snapshot", "auctions", "unwindPlan"} => idx' <= Len(Pools)
  PROVE  JobLocals'
  BY DEF JobLocals, InPool

LEMMA ControlStep ==
  ASSUME IInv, Next
  PROVE  JobType' /\ WalkType' /\ JobLocals'
  <1>0. /\ JobType /\ WalkType /\ JobLocals
        /\ RecordType /\ head \in Nat /\ head >= 1
    BY TypeParts DEF IInv, ChainType
  <1>a. fpc \in {"snapshot", "auctions", "fill", "unwindPlan", "unwinding"} =>
            idx <= Len(Pools) /\ idx \in 1..(Len(Pools) + 1) /\ Pools[idx] \in PoolSet
    BY <1>0, PoolsShape DEF JobLocals, InPool, WalkType
  <1>b. fpc \notin {"fill", "unwinding"} => ~Busy
    BY <1>0 DEF JobLocals
  <1>1. CASE CloseLedger
    <2>1. /\ JobType' /\ (Busy' <=> Busy)
          /\ Busy => /\ job'.kind = job.kind /\ job'.pool = job.pool
                     /\ job'.percent = job.percent
                     /\ UNCHANGED job \/ job'.at = head + 1
      BY <1>0, <1>1, CloseLedgerJob
    <2>2. head' = head + 1 /\ UNCHANGED <<mode, fpc, idx, live, view, taken, cur, cap>>
      BY <1>1 DEF CloseLedger, walk
    <2>3. WalkType'
      BY <1>0, <2>2 DEF WalkType
    <2>4. Busy => job'.at <= head'
      BY <1>0, <2>1, <2>2, JobShape DEF JobLocals
    <2>5. JobLocals'
      BY <1>0, <2>1, <2>2, <2>4 DEF JobLocals
    <2> QED
      BY <1>0, <2>1, <2>2, <2>3, <2>5
  <1>2. CASE \E b \in Borrowers : TrackRow(b)
    BY <1>0, <1>2 DEF TrackRow, execution, chain, walk, landings, JobType, WalkType, JobLocals,
                      Busy
  <1>3. CASE RequestShutdown
    BY <1>0, <1>3 DEF RequestShutdown, execution, chain, walk, landings, JobType, WalkType,
                      JobLocals, Busy
  <1>4. CASE BeginTick
    <2>1. /\ fpc' = "pool" /\ idx' = 1 /\ head' = head /\ UNCHANGED <<mode, job, ghosts>>
          /\ UNCHANGED <<view, taken, cur, cap>> /\ ~Busy
      BY <1>b, <1>4 DEF BeginTick, execution, chain
    <2>2. WalkType' /\ ~Busy'
      BY <1>0, <2>1, PoolsShape DEF WalkType, Busy
    <2> QED
      BY <1>0, <2>1, <2>2, NotWaiting DEF JobType
  <1>5. CASE EndWalk
    <2>1. /\ fpc' = "unwind" /\ idx' = 1 /\ head' = head /\ UNCHANGED <<mode, job, ghosts>>
          /\ UNCHANGED <<view, taken, cur, cap>> /\ ~Busy
      BY <1>b, <1>5 DEF EndWalk, execution, chain
    <2>2. WalkType' /\ ~Busy'
      BY <1>0, <2>1, PoolsShape DEF WalkType, Busy
    <2> QED
      BY <1>0, <2>1, <2>2, NotWaiting DEF JobType
  <1>6. CASE ReadEntries
    <2>1. /\ fpc' = "snapshot" /\ idx' = idx /\ head' = head /\ UNCHANGED <<mode, job, ghosts>>
          /\ UNCHANGED <<view, taken, cur, cap>> /\ ~Busy /\ idx <= Len(Pools)
      BY <1>b, <1>6 DEF ReadEntries, execution, chain
    <2>2. WalkType' /\ ~Busy'
      BY <1>0, <2>1 DEF WalkType, Busy
    <2> QED
      BY <1>0, <2>1, <2>2, NotWaiting DEF JobType
  <1>7. CASE TakeSnapshot
    <2>1. /\ fpc = "snapshot" /\ head' = head /\ UNCHANGED <<mode, job, ghosts>> /\ ~Busy
      BY <1>b, <1>7 DEF TakeSnapshot, execution, chain, landings
    <2>2. ~Busy' /\ JobType'
      BY <1>0, <2>1 DEF Busy, JobType
    <2>3. CASE NextPool
      BY <1>0, <1>a, <2>1, <2>2, <2>3, NextPoolWalk, NotWaiting
    <2>4. CASE ~NextPool
      <3>1. /\ fpc' = "auctions" /\ UNCHANGED <<idx, live, cur, cap>>
            /\ taken' = head /\ \E v \in Views : view' = v.at
        BY <1>7, <2>4 DEF TakeSnapshot
      <3>2. view' \in 0..head
        BY <3>1, ViewsShape, TypeParts DEF IInv
      <3>3. WalkType'
        BY <1>0, <2>1, <3>1, <3>2 DEF WalkType
      <3> QED
        BY <1>a, <2>1, <2>2, <3>1, <3>3, NotWaiting
    <2> QED
      BY <2>3, <2>4
  <1>8. CASE WalkAuctions
    <2>1. /\ fpc = "auctions" /\ head' = head /\ UNCHANGED <<mode, ghosts>> /\ ~Busy
        BY <1>0, <1>b, <1>8 DEF WalkAuctions, chain, landings
    <2>2. \/ UNCHANGED job /\ NextPool
          \/ UNCHANGED job /\ \E e \in live : Done(e)
          \/ UNCHANGED job /\ \E e \in live, percent \in 1..cap : Replan(e, percent)
          \/ \E e \in live, percent \in 1..cap, spend \in Spends :
                /\ Send("fill", Pools[idx], e.who, percent, spend, view)
                /\ fpc' = "fill" /\ ~DryRun /\ UNCHANGED walk
      BY <1>8 DEF WalkAuctions, PlanFill, Execute, RunFill
    <2>3. \A e \in live : e.who \in Borrowers
      BY <1>0 DEF RecordType, Entry
    <2>4. \A percent \in 1..cap : percent \in 1..Whole /\ percent \in Nat
      BY <1>0, Numbers DEF WalkType
    <2>5. CASE UNCHANGED job /\ NextPool
      <3>1. ~Busy' /\ JobType'
        BY <1>0, <2>1, <2>5 DEF Busy, JobType
      <3> QED
        BY <1>0, <1>a, <2>1, <2>5, <3>1, NextPoolWalk, NotWaiting
    <2>6. CASE UNCHANGED job /\ \/ \E e \in live : Done(e)
                                \/ \E e \in live, percent \in 1..cap : Replan(e, percent)
      <3>1. ~Busy' /\ JobType'
        BY <1>0, <2>1, <2>6 DEF Busy, JobType
      <3>2. WalkType' /\ fpc' = "auctions" /\ idx' = idx
        BY <1>0, <2>1, <2>3, <2>4, <2>6, DoneWalk, ReplanWalk
      <3> QED
        BY <1>a, <2>1, <3>1, <3>2, NotWaiting
    <2>7. CASE \E e \in live, percent \in 1..cap, spend \in Spends :
                  /\ Send("fill", Pools[idx], e.who, percent, spend, view)
                  /\ fpc' = "fill" /\ ~DryRun /\ UNCHANGED walk
      <3>1. PICK e \in live, percent \in 1..cap, spend \in Spends :
                  /\ Send("fill", Pools[idx], e.who, percent, spend, view)
                  /\ fpc' = "fill" /\ ~DryRun /\ UNCHANGED walk
        BY <2>7
      <3>2. view \in Nat /\ spend \in Amounts /\ percent \in Nat /\ percent \in 1..Whole
        BY <1>0, <2>4, Sets DEF WalkType
      <3>3. /\ job' \in Job /\ Busy' /\ job'.kind = "fill" /\ job'.pool = Pools[idx]
            /\ job'.percent = percent /\ job'.at = 0
        BY <1>a, <2>1, <2>3, <3>1, <3>2, SendShape
      <3>4. UNCHANGED <<idx, view, taken, cur, cap>>
        BY <3>1 DEF walk
      <3>5. WalkType' /\ JobType'
        BY <1>0, <2>1, <3>1, <3>3, <3>4 DEF WalkType, JobType
      <3>6. JobLocals'
        BY <1>0, <1>a, <2>1, <3>1, <3>2, <3>3, <3>4 DEF JobLocals, DryRun, InPool
      <3> QED
        BY <2>1, <3>5, <3>6
    <2> QED
      BY <2>2, <2>5, <2>6, <2>7
  <1>9. CASE UnwindPlanned
    <2>1. fpc = "unwindPlan" /\ head' = head /\ UNCHANGED <<mode, ghosts>> /\ ~Busy
      BY <1>0, <1>b, <1>9 DEF UnwindPlanned, chain, landings
    <2>2. \/ UNCHANGED job /\ NextUnwind
          \/ \E spend \in Spends :
                /\ Send("unwind", Pools[idx], NoOne, Whole, spend, view)
                /\ fpc' = "unwinding" /\ ~DryRun /\ UNCHANGED walk
      BY <1>9 DEF UnwindPlanned, UnwindSkip, ExecuteUnwind, RunUnwind
    <2>3. CASE UNCHANGED job /\ NextUnwind
      <3>1. ~Busy' /\ JobType'
        BY <1>0, <2>1, <2>3 DEF Busy, JobType
      <3> QED
        BY <1>0, <1>a, <2>1, <2>3, <3>1, NextUnwindWalk, NotWaiting
    <2>4. CASE \E spend \in Spends :
                  /\ Send("unwind", Pools[idx], NoOne, Whole, spend, view)
                  /\ fpc' = "unwinding" /\ ~DryRun /\ UNCHANGED walk
      <3>1. PICK spend \in Spends :
                  /\ Send("unwind", Pools[idx], NoOne, Whole, spend, view)
                  /\ fpc' = "unwinding" /\ ~DryRun /\ UNCHANGED walk
        BY <2>4
      <3>2. view \in Nat /\ spend \in Amounts /\ Whole \in Nat
        BY <1>0, Sets, Numbers DEF WalkType
      <3>3. /\ job' \in Job /\ Busy' /\ job'.kind = "unwind" /\ job'.pool = Pools[idx]
            /\ job'.at = 0
        BY <1>a, <2>1, <3>1, <3>2, SendShape
      <3>4. UNCHANGED <<idx, view, taken, cur, cap>>
        BY <3>1 DEF walk
      <3>5. WalkType' /\ JobType'
        BY <1>0, <2>1, <3>1, <3>3, <3>4 DEF WalkType, JobType
      <3>6. JobLocals'
        BY <1>0, <1>a, <2>1, <3>1, <3>3, <3>4 DEF JobLocals, DryRun, InPool
      <3> QED
        BY <2>1, <3>1, <3>5, <3>6
    <2> QED
      BY <2>2, <2>3, <2>4
  <1>10. CASE UnwindPasses
    <2>1. /\ fpc = "unwind" /\ head' = head /\ UNCHANGED <<mode, job, ghosts>>
          /\ ~Busy
      BY <1>0, <1>b, <1>10 DEF UnwindPasses, chain, landings, UnwindSkip, UnwindPool
    <2>2. ~Busy' /\ JobType'
      BY <1>0, <2>1 DEF Busy, JobType
    <2>3. \/ fpc' = "idle" /\ idx' = 1 /\ UNCHANGED <<live, view, taken, cur, cap>>
          \/ idx <= Len(Pools) /\ NextUnwind
          \/ /\ idx <= Len(Pools) /\ fpc' = "unwindPlan"
             /\ UNCHANGED <<idx, live, taken, cur, cap>>
             /\ \E v \in Views : view' = v.at
      BY <1>10 DEF UnwindPasses, UnwindSkip, UnwindPool
    <2>4. CASE fpc' = "idle" /\ idx' = 1 /\ UNCHANGED <<live, view, taken, cur, cap>>
      <3>1. WalkType'
        BY <1>0, <2>1, <2>4, PoolsShape DEF WalkType
      <3> QED
        BY <2>2, <2>4, <3>1, NotWaiting
    <2>5. CASE idx <= Len(Pools) /\ NextUnwind
      BY <1>0, <2>1, <2>2, <2>5, NextUnwindWalk, NotWaiting
    <2>6. CASE /\ idx <= Len(Pools) /\ fpc' = "unwindPlan"
             /\ UNCHANGED <<idx, live, taken, cur, cap>>
               /\ \E v \in Views : view' = v.at
      <3>1. view' \in 0..head
        BY <2>6, ViewsShape, TypeParts DEF IInv
      <3>2. WalkType'
        BY <1>0, <2>1, <2>6, <3>1 DEF WalkType
      <3> QED
        BY <2>2, <2>6, <3>2, NotWaiting
    <2> QED
      BY <2>3, <2>4, <2>5, <2>6
  <1>11. CASE AnswerUnwind
    <2>1. /\ fpc = "unwinding" /\ head' = head /\ NextUnwind /\ Busy
          /\ \E answer \in QueueAnswers(shutdown) : Settled(answer)
      BY <1>0, <1>11 DEF AnswerUnwind, chain, JobLocals
    <2>2. ~Busy' /\ JobType'
      BY <1>0, <2>1, AnswerJob
    <2> QED
      BY <1>0, <1>a, <2>1, <2>2, NextUnwindWalk, NotWaiting
  <1>12. CASE AnswerFill
    <2>1. /\ fpc = "fill" /\ head' = head /\ Busy /\ job.percent \in 1..Whole
          /\ \E answer \in QueueAnswers(shutdown) : Settled(answer)
      BY <1>0, <1>12 DEF AnswerFill, chain, JobLocals
    <2>2. ~Busy' /\ JobType'
      BY <1>0, <2>1, AnswerJob
    <2>3. \/ fpc' = "dead" /\ UNCHANGED walk
          \/ NextPool
          \/ \E e \in live : Done(e)
          \/ \E e \in live : Replan(e, job.percent)
      BY <1>12 DEF AnswerFill, AfterFill
    <2>4. CASE fpc' = "dead" /\ UNCHANGED walk
      <3>1. WalkType'
        BY <1>0, <2>1, <2>4 DEF WalkType, walk
      <3> QED
        BY <2>2, <2>4, <3>1, NotWaiting
    <2>5. CASE NextPool
      BY <1>0, <1>a, <2>1, <2>2, <2>5, NextPoolWalk, NotWaiting
    <2>6. CASE \E e \in live : Done(e) \/ Replan(e, job.percent)
      <3>1. \A e \in live : e.who \in Borrowers
        BY <1>0 DEF RecordType, Entry
      <3>2. WalkType' /\ fpc' = "auctions" /\ idx' = idx
        BY <1>0, <2>1, <2>6, <3>1, DoneWalk, ReplanWalk
      <3> QED
        BY <1>a, <2>1, <2>2, <2>6, <3>2, NotWaiting
    <2> QED
      BY <2>3, <2>4, <2>5, <2>6
  <1>13. CASE Restart
    <2>1. /\ fpc' = "idle" /\ idx' = 1 /\ view' = 0 /\ taken' = 0 /\ cur' = NoOne /\ cap' = Whole
          /\ job' = NoJob /\ UNCHANGED mode
          /\ ghosts' = ghosts \cup {j \in {job} : Busy /\ j.fate = "floating"}
          /\ head' = head
      BY <1>13 DEF Restart, chain
    <2>2. ~Busy'
      BY <2>1 DEF Busy, NoJob
    <2>3. ghosts' \subseteq Job
      BY <1>0, <2>1, JobShape DEF JobType
    <2>4. WalkType' /\ JobType'
      BY <1>0, <2>1, <2>3, PoolsShape, Numbers DEF WalkType, JobType
    <2> QED
      BY <2>1, <2>2, <2>4, NotWaiting
  <1> QED
    BY <1>1, <1>2, <1>3, <1>4, <1>5, <1>6, <1>7, <1>8, <1>9, <1>10, <1>11, <1>12, <1>13
    DEF Next, Tick

LEMMA SettledGhosts ==
  ASSUME JobType, Busy, NEW answer, Settled(answer)
  PROVE  \A g \in ghosts' : g \in ghosts \/ (g = job /\ answer = "Unknown" /\ job.fate = "floating")
  BY DEF Settled

LEMMA UnwindsStep ==
  ASSUME IInv, Next
  PROVE  UnwindsFillNone'
  <1>0. /\ JobType /\ WalkType /\ JobLocals /\ UnwindsFillNone
        /\ head \in Nat /\ head >= 1
    BY TypeParts DEF IInv, ChainType
  <1>1. CASE CloseLedger
    <2>1. /\ Busy' <=> Busy
          /\ Busy => job'.kind = job.kind /\ job'.who = job.who
      BY <1>0, <1>1, CloseLedgerJob
    <2>2. ghosts' \subseteq ghosts
      BY <1>1 DEF CloseLedger
    <2> QED
      BY <1>0, <2>1, <2>2 DEF UnwindsFillNone
  <1>2. CASE UNCHANGED <<job, ghosts>>
    BY <1>0, <1>2 DEF UnwindsFillNone, Busy
  <1>3. CASE WalkAuctions \/ UnwindPlanned
    <2>1. /\ UNCHANGED ghosts
          /\ \/ UNCHANGED job
             \/ \E pool, who, percent, spend :
                    Send("fill", pool, who, percent, spend, view)
             \/ \E pool, spend : Send("unwind", pool, NoOne, Whole, spend, view)
      BY <1>3 DEF WalkAuctions, PlanFill, Execute, RunFill, UnwindPlanned, UnwindSkip,
                  ExecuteUnwind, RunUnwind
    <2> QED
      BY <1>0, <2>1 DEF UnwindsFillNone, Send, Busy
  <1>4. CASE AnswerFill \/ AnswerUnwind
    <2>1. Busy /\ \E answer \in QueueAnswers(shutdown) : Settled(answer)
      BY <1>0, <1>4 DEF AnswerFill, AnswerUnwind, JobLocals
    <2>2. ~Busy'
      BY <1>0, <2>1, AnswerJob
    <2>3. ghosts' \subseteq ghosts \cup {job}
      BY <2>1 DEF Settled
    <2> QED
      BY <1>0, <2>1, <2>2, <2>3 DEF UnwindsFillNone
  <1>5. CASE Restart
    <2>1. job' = NoJob /\ ghosts' = ghosts \cup {j \in {job} : Busy /\ j.fate = "floating"}
      BY <1>5 DEF Restart
    <2>2. ~Busy'
      BY <2>1 DEF Busy, NoJob
    <2> QED
      BY <1>0, <2>1, <2>2 DEF UnwindsFillNone
  <1> QED
    BY <1>1, <1>2, <1>3, <1>4, <1>5
    DEF Next, Tick, TrackRow, BeginTick, EndWalk, ReadEntries, TakeSnapshot, UnwindPasses,
        UnwindPool, UnwindSkip, RequestShutdown, execution

----------------------------------------------------------------------------
(* The chain, and the rows that follow it.                                 *)

\* What a ledger does to an auction: nothing; it ends; it is partly filled;
\* one opens where none was.
AuctionMoves(b) ==
    LET v == now.auction[b]
        w == now'.auction[b]
    IN  \/ w = v
        \/ w = NoAuction
        \/ v # NoAuction /\ w = [start |-> v.start, part |-> v.part + 1]
        \/ v = NoAuction /\ w = [start |-> head + 1, part |-> 0]

\* A submission that lands changes one pool's position.
LEMMA LandsMoves ==
  ASSUME ChainType, ChainBound, head < MaxLedger, NEW j \in Job,
         j.kind = "unwind" => j.who = NoOne, Lands(j)
  PROVE  /\ now' \in Chain
         /\ \A b \in Borrowers : AuctionMoves(b)
         /\ \A p \in PoolSet : p # j.pool => now'.pos[p] = now.pos[p]
  <1>1. PICK held \in Positions :
          now' = [auction |-> [b \in Borrowers |->
                                 IF b # j.who THEN now.auction[b]
                                 ELSE IF j.percent >= Whole THEN NoAuction
                                 ELSE [now.auction[b] EXCEPT !.part = @ + 1]],
                  pos |-> [now.pos EXCEPT ![j.pool] = held],
                  wallet |-> [a \in Assets |-> now.wallet[a] - j.spend[a]]]
    BY DEF Lands
  <1>2. /\ now.auction \in [Borrowers -> Version] /\ now.pos \in [PoolSet -> Positions]
        /\ now.wallet \in Amounts /\ head \in Nat
    BY ChainShape DEF ChainType
  <1>3. /\ j.spend \in Amounts /\ j.pool \in PoolSet /\ j.kind \in {"fill", "unwind"}
    BY DEF Job
  <1>4. ASSUME NEW b \in Borrowers
        PROVE  now'.auction[b] \in Version /\ AuctionMoves(b)
    <2>1. /\ now.auction[b] \in Version /\ now.auction[b].part <= head
          /\ now.auction[b].part \in Nat /\ now.auction[b].start \in Nat
          /\ now.auction[b].start <= head
          /\ now.auction[b] = [start |-> now.auction[b].start, part |-> now.auction[b].part]
      BY <1>2, VersionShape DEF ChainBound
    <2>2. CASE b # j.who
      BY <1>1, <2>1, <2>2 DEF AuctionMoves
    <2>3. CASE b = j.who /\ j.percent >= Whole
      BY <1>1, <1>2, <2>3, Numbers DEF AuctionMoves, Version, NoAuction
    <2>4. CASE b = j.who /\ ~(j.percent >= Whole)
      <3>1. now.auction[b] # NoAuction
        BY <1>3, <2>4, Sets DEF Lands
      <3>2. now'.auction[b] = [now.auction[b] EXCEPT !.part = @ + 1]
        BY <1>1, <2>4
      <3>3. now'.auction[b] = [start |-> now.auction[b].start, part |-> now.auction[b].part + 1]
        BY <2>1, <3>2 DEF Version
      <3> QED
        BY <1>2, <2>1, <3>1, <3>3, Numbers DEF AuctionMoves, Version
    <2> QED
      BY <2>2, <2>3, <2>4
  <1>5. now'.auction \in [Borrowers -> Version]
    BY <1>1, <1>4
  <1>6. now'.pos \in [PoolSet -> Positions] /\ \A p \in PoolSet : p # j.pool => now'.pos[p] = now.pos[p]
    BY <1>1, <1>2, <1>3
  <1>7. now'.wallet \in Amounts
    BY <1>1, <1>2, <1>3 DEF Lands, Amounts
  <1>8. now' = [auction |-> now'.auction, pos |-> now'.pos, wallet |-> now'.wallet]
    BY <1>1
  <1>9. now' \in Chain
    BY <1>5, <1>6, <1>7, <1>8 DEF Chain
  <1> QED
    BY <1>4, <1>6, <1>9

LEMMA OthersMove ==
  ASSUME ChainType, ChainBound, head < MaxLedger, NEW c \in Borrowers, OthersAct(c)
  PROVE  /\ now' \in Chain
         /\ \A b \in Borrowers : AuctionMoves(b)
         /\ now'.pos = now.pos
  <1>1. PICK v \in {NoAuction, [start |-> head + 1, part |-> 0],
                    [now.auction[c] EXCEPT !.part = @ + 1]} :
          /\ (v.start = head + 1) => now.auction[c] = NoAuction
          /\ (v.start # head + 1) => now.auction[c] # NoAuction
          /\ now' = [now EXCEPT !.auction[c] = v]
    BY DEF OthersAct
  <1>2. now \in Chain /\ now.auction \in [Borrowers -> Version] /\ head \in Nat
    BY ChainShape DEF ChainType
  <1>3. now'.auction = [now.auction EXCEPT ![c] = v] /\ now'.pos = now.pos /\ now'.wallet = now.wallet
        /\ now' = [auction |-> now'.auction, pos |-> now'.pos, wallet |-> now'.wallet]
    BY <1>1, <1>2 DEF Chain
  <1>4. /\ now.auction[c] \in Version /\ now.auction[c].part <= head
        /\ now.auction[c].part \in Nat /\ now.auction[c].start \in Nat
        /\ now.auction[c].start <= head
        /\ now.auction[c] = [start |-> now.auction[c].start, part |-> now.auction[c].part]
    BY <1>2, VersionShape DEF ChainBound
  <1>5. v \in Version /\ AuctionMoves(c)
    <2>0. now'.auction[c] = v
      BY <1>2, <1>3
    <2>1. CASE v = NoAuction
      BY <1>2, <2>0, <2>1, Numbers DEF AuctionMoves, Version, NoAuction
    <2>2. CASE v = [start |-> head + 1, part |-> 0]
      <3>1. now.auction[c] = NoAuction
        BY <1>1, <2>2
      <3> QED
        BY <1>2, <2>0, <2>2, <3>1, Numbers DEF AuctionMoves, Version
    <2>3. CASE v = [now.auction[c] EXCEPT !.part = @ + 1]
      <3>1. v = [start |-> now.auction[c].start, part |-> now.auction[c].part + 1]
        BY <1>4, <2>3 DEF Version
      <3>2. now.auction[c] # NoAuction
        BY <1>1, <1>2, <1>4, <3>1
      <3> QED
        BY <1>2, <1>4, <2>0, <3>1, <3>2, Numbers DEF AuctionMoves, Version
    <2> QED
      BY <1>1, <2>1, <2>2, <2>3
  <1>6. \A b \in Borrowers : AuctionMoves(b)
    BY <1>2, <1>3, <1>5 DEF AuctionMoves
  <1>7. now'.auction \in [Borrowers -> Version]
    BY <1>2, <1>3, <1>5
  <1>8. now' \in Chain
    BY <1>2, <1>3, <1>7 DEF Chain
  <1> QED
    BY <1>3, <1>6, <1>8

\* What a closed ledger holds that the one before it did not.
LEMMA CloseLedgerChain ==
  ASSUME IInv, CloseLedger
  PROVE  /\ now' \in Chain
         /\ \A b \in Borrowers : AuctionMoves(b)
         /\ \A p \in PoolSet : now'.pos[p] # now.pos[p] =>
               \/ moved'[p] = head + 1
               \/ Busy /\ job.pool = p /\ job'.fate = "landed" /\ job'.at = head + 1
  <1>0. ChainType /\ ChainBound /\ JobType /\ UnwindsFillNone /\ head < MaxLedger /\ PendingType
    BY TypeParts DEF IInv, CloseLedger
  <1>1. CASE Busy /\ Lands(job) /\ job' = [job EXCEPT !.fate = "landed", !.at = head + 1]
    <2>1. job \in Job /\ (job.kind = "unwind" => job.who = NoOne)
      BY <1>0, <1>1, JobShape DEF UnwindsFillNone
    <2>2. head + 1 \in Nat /\ job' = Closed(job, "landed", head + 1)
      BY <1>0, <1>1 DEF ChainType, Closed
    <2>3. job'.fate = "landed" /\ job'.at = head + 1
      BY <2>1, <2>2, Closes
    <2> QED
      BY <1>0, <1>1, <2>1, <2>3, LandsMoves
  <1>2. CASE \E g \in ghosts : Lands(g) /\ moved' = [moved EXCEPT ![g.pool] = head + 1]
    <2>1. PICK g \in ghosts : Lands(g) /\ moved' = [moved EXCEPT ![g.pool] = head + 1]
      BY <1>2
    <2>2. g \in Job /\ (g.kind = "unwind" => g.who = NoOne) /\ g.pool \in PoolSet
      BY <1>0, <2>1 DEF UnwindsFillNone, JobType, Job
    <2>3. moved'[g.pool] = head + 1
      BY <1>0, <2>1, <2>2 DEF PendingType
    <2> QED
      BY <1>0, <2>1, <2>2, <2>3, LandsMoves
  <1>3. CASE \E b \in Borrowers : OthersAct(b)
    BY <1>0, <1>3, OthersMove
  <1>4. CASE UNCHANGED now
    BY <1>0, <1>4 DEF ChainType, AuctionMoves
  <1> QED
    BY <1>1, <1>2, <1>3, <1>4 DEF CloseLedger

\* The rows of the auctions that are gone, and no others, are deleted.
LEMMA ReadEntriesRows ==
  ASSUME ReadEntries
  PROVE  \E gone \in SUBSET Borrowers :
            row' = [b \in Borrowers |-> IF b \in gone THEN NoAuction ELSE row[b]]
  <1>1. PICK read \in SUBSET considered(Pools[idx], prune_recorded(Pools[idx])) :
          \E at \in [read -> Views] :
             LET entry == [b \in read |-> [who |-> b, ver |-> at[b].chain.auction[b]]]
                 gone == {b \in read : entry[b].ver = NoAuction}
             IN  row' = [b \in Borrowers |-> IF b \in gone THEN NoAuction ELSE row[b]]
    BY DEF ReadEntries
  <1>2. read \subseteq Borrowers
    BY DEF considered
  <1> QED
    BY <1>1, <1>2

LEMMA ChainStep ==
  ASSUME IInv, Next
  PROVE  ChainType' /\ ChainBound' /\ RowIsBehind'
  <1>0. ChainType /\ ChainBound /\ RowIsBehind
    BY TypeParts DEF IInv
  <1>a. /\ head \in Nat /\ head >= 1 /\ head <= MaxLedger
        /\ now.auction \in [Borrowers -> Version] /\ prev.auction \in [Borrowers -> Version]
        /\ row \in [Borrowers -> Version]
    BY <1>0, ChainShape, Numbers DEF ChainType
  <1>1. CASE CloseLedger
    <2>1. now' \in Chain /\ \A b \in Borrowers : AuctionMoves(b)
      BY <1>1, CloseLedgerChain
    <2>2. head' = head + 1 /\ prev' = now /\ head < MaxLedger /\ UNCHANGED row
      BY <1>1 DEF CloseLedger
    <2>3. ChainType'
      BY <1>0, <1>a, <2>1, <2>2, Numbers DEF ChainType
    <2>4. ASSUME NEW b \in Borrowers
          PROVE  /\ now'.auction[b].start <= head' /\ now'.auction[b].part <= head'
                 /\ prev'.auction[b].start <= head' /\ row'[b].start <= head'
                 /\ \/ now'.auction[b].start = 0 \/ prev'.auction[b].start = 0
                    \/ now'.auction[b].start = prev'.auction[b].start
                 /\ now'.auction[b].start = 0 => now'.auction[b] = NoAuction
                 /\ prev'.auction[b].start = 0 => prev'.auction[b] = NoAuction
                 /\ now'.auction[b].start # 0 => now'.auction[b].start >= row'[b].start
                 /\ prev'.auction[b].start # 0 => prev'.auction[b].start >= row'[b].start
      <3>1. /\ now.auction[b].start \in Nat /\ now.auction[b].part \in Nat
            /\ row[b].start \in Nat
        BY <1>a, VersionShape
      <3>2. /\ now.auction[b].start <= head /\ now.auction[b].part <= head
            /\ row[b].start <= head
            /\ now.auction[b].start = 0 => now.auction[b] = NoAuction
            /\ now.auction[b].start # 0 => now.auction[b].start >= row[b].start
        BY <1>0 DEF ChainBound, RowIsBehind
      <3> DEFINE v == now.auction[b]
                 w == now'.auction[b]
      <3>3. \/ w = v
            \/ w = NoAuction /\ w.start = 0 /\ w.part = 0
            \/ v # NoAuction /\ w.start = v.start /\ w.part = v.part + 1
            \/ v = NoAuction /\ v.start = 0 /\ w.start = head + 1 /\ w.part = 0
        <4>1. \/ w = v
              \/ w = NoAuction
              \/ v # NoAuction /\ w = [start |-> v.start, part |-> v.part + 1]
              \/ v = NoAuction /\ w = [start |-> head + 1, part |-> 0]
          BY <2>1 DEF AuctionMoves
        <4>2. NoAuction.start = 0 /\ NoAuction.part = 0
          BY DEF NoAuction
        <4> HIDE DEF v, w
        <4> QED
          BY <4>1, <4>2
      <3> HIDE DEF w
      <3>4. /\ w.start <= head + 1 /\ w.part <= head + 1
            /\ w.start = 0 \/ v.start = 0 \/ w.start = v.start
            /\ w.start = 0 => w = NoAuction
            /\ w.start # 0 => w.start >= row[b].start
        BY <1>a, <3>1, <3>2, <3>3
      <3> QED
        BY <1>a, <2>2, <3>1, <3>2, <3>4 DEF w
    <2> QED
      BY <1>0, <2>2, <2>3, <2>4 DEF ChainBound, RowIsBehind
  <1>2. CASE \E b \in Borrowers : TrackRow(b)
    <2>1. PICK c \in Borrowers : TrackRow(c)
      BY <1>2
    <2>2. PICK v \in Views : /\ v.chain.auction[c] = NoAuction \/ v.chain.auction[c] # NoAuction
                             /\ row' = [row EXCEPT ![c] = v.chain.auction[c]]
      BY <2>1 DEF TrackRow
    <2>3. UNCHANGED <<head, now, prev>>
      BY <2>1 DEF TrackRow, chain
    <2>4. v.chain = now \/ v.chain = prev
      BY <1>0, ViewsShape
    <2>5. ChainType'
      BY <1>0, <1>a, <2>2, <2>3, <2>4 DEF ChainType
    <2>6. ASSUME NEW b \in Borrowers
          PROVE  /\ row'[b].start <= head'
                 /\ row'[b] # NoAuction => row'[b].start >= 1
                 /\ now'.auction[b].start # 0 => now'.auction[b].start >= row'[b].start
                 /\ prev'.auction[b].start # 0 => prev'.auction[b].start >= row'[b].start
      <3>1. /\ now.auction[b].start \in Nat /\ prev.auction[b].start \in Nat
            /\ row[b].start \in Nat
        BY <1>a, VersionShape
      <3>2. /\ now.auction[b].start <= head /\ prev.auction[b].start <= head
            /\ row[b].start <= head
            /\ row[b] # NoAuction => row[b].start >= 1
            /\ \/ now.auction[b].start = 0 \/ prev.auction[b].start = 0
               \/ now.auction[b].start = prev.auction[b].start
            /\ now.auction[b].start = 0 => now.auction[b] = NoAuction
            /\ prev.auction[b].start = 0 => prev.auction[b] = NoAuction
            /\ now.auction[b].start # 0 => now.auction[b].start >= row[b].start
            /\ prev.auction[b].start # 0 => prev.auction[b].start >= row[b].start
        BY <1>0 DEF ChainBound, RowIsBehind
      <3>3. row'[b] = row[b] \/ row'[b] = now.auction[b] \/ row'[b] = prev.auction[b]
        BY <1>a, <2>2, <2>4
      <3> QED
        BY <1>a, <2>3, <3>1, <3>2, <3>3
    <2> QED
      BY <1>0, <2>3, <2>5, <2>6 DEF ChainBound, RowIsBehind
  <1>3. CASE ReadEntries
    <2>1. PICK gone \in SUBSET Borrowers :
             row' = [b \in Borrowers |-> IF b \in gone THEN NoAuction ELSE row[b]]
      BY <1>3, ReadEntriesRows
    <2>2. UNCHANGED <<head, now, prev>>
      BY <1>3 DEF ReadEntries, chain
    <2>3. NoAuction \in Version /\ NoAuction.start = 0
      BY Numbers DEF NoAuction, Version
    <2>4. ChainType'
      BY <1>0, <1>a, <2>1, <2>2, <2>3 DEF ChainType
    <2>5. ASSUME NEW b \in Borrowers
          PROVE  /\ row'[b].start <= head'
                 /\ row'[b] # NoAuction => row'[b].start >= 1
                 /\ now'.auction[b].start # 0 => now'.auction[b].start >= row'[b].start
                 /\ prev'.auction[b].start # 0 => prev'.auction[b].start >= row'[b].start
      <3>1. /\ now.auction[b].start \in Nat /\ prev.auction[b].start \in Nat
            /\ row'[b] = row[b] \/ row'[b] = NoAuction
        BY <1>a, <2>1, VersionShape
      <3> QED
        BY <1>0, <1>a, <2>2, <2>3, <3>1 DEF ChainBound, RowIsBehind
    <2> QED
      BY <1>0, <2>2, <2>4, <2>5 DEF ChainBound, RowIsBehind
  <1>4. CASE UNCHANGED <<head, now, prev, row>>
    BY <1>0, <1>4 DEF ChainType, ChainBound, RowIsBehind
  <1> QED
    BY <1>1, <1>2, <1>3, <1>4
    DEF Next, Tick, BeginTick, EndWalk, TakeSnapshot, WalkAuctions, AnswerFill, UnwindPasses,
        UnwindPlanned, AnswerUnwind, RequestShutdown, Restart, chain

----------------------------------------------------------------------------
(* The records of a dry run.                                               *)

LEMMA TrackRowRecords ==
  ASSUME IInv, NEW c \in Borrowers, TrackRow(c)
  PROVE  RecordType' /\ RecordsKnown' /\ RecordedOnce'
  <1>0. RecordType /\ RecordsKnown /\ RecordedOnce /\ ChainType
    BY TypeParts DEF IInv
  <1>1. PICK v \in Views :
          /\ v.chain.auction[c] = NoAuction \/ Newer(v.chain.auction[c], row[c])
          /\ row' = [row EXCEPT ![c] = v.chain.auction[c]]
          /\ dryRows' = dryRows \ Forgotten(c, v.chain.auction[c])
    BY DEF TrackRow
  <1>2. UNCHANGED <<recorded, live, twice>>
    BY DEF TrackRow, walk
  <1>3. row \in [Borrowers -> Version] /\ v.chain.auction[c] \in Version
    BY <1>0, ViewsShape, ChainShape DEF ChainType
  <1>4. RecordType'
    BY <1>0, <1>1, <1>2 DEF RecordType
  <1>5. ASSUME NEW e \in dryRows'
        PROVE  row'[e.who] # NoAuction /\ (e \in recorded' \/ e.ver.start < row'[e.who].start)
    <2>1. /\ e \in dryRows /\ e \notin Forgotten(c, v.chain.auction[c])
          /\ e.who \in Borrowers /\ e.ver \in Version
          /\ row[e.who] # NoAuction /\ (e \in recorded \/ e.ver.start < row[e.who].start)
      BY <1>0, <1>1, <1>5 DEF RecordType, RecordsKnown, Entry
    <2>2. CASE e.who # c
      BY <1>1, <1>2, <1>3, <2>1, <2>2
    <2>3. CASE e.who = c
      <3>1. v.chain.auction[c] # NoAuction /\ ~(e.ver.start < v.chain.auction[c].start)
        BY <2>1, <2>3 DEF Forgotten
      <3>2. /\ e.ver.start \in Nat /\ row[c].start \in Nat /\ v.chain.auction[c].start \in Nat
            /\ row[c].part \in Nat /\ v.chain.auction[c].part \in Nat
        BY <1>3, <2>1, VersionShape
      <3>3. v.chain.auction[c].start >= row[c].start
        BY <1>1, <3>1, <3>2 DEF Newer
      <3>4. e \in recorded
        BY <2>1, <2>3, <3>1, <3>2, <3>3
      <3> QED
        BY <1>1, <1>2, <1>3, <2>3, <3>1, <3>4
    <2> QED
      BY <2>2, <2>3
  <1>6. RecordsKnown'
    BY <1>0, <1>1, <1>2, <1>5 DEF RecordsKnown
  <1> QED
    BY <1>0, <1>2, <1>4, <1>6 DEF RecordedOnce

LEMMA ReadEntriesRecords ==
  ASSUME IInv, ReadEntries
  PROVE  RecordType' /\ RecordsKnown' /\ RecordedOnce'
  <1>0. /\ RecordType /\ RecordsKnown /\ RecordedOnce /\ ChainType /\ RowIsBehind
        /\ row \in [Borrowers -> Version] /\ UNCHANGED twice
    BY TypeParts DEF IInv, ChainType, ReadEntries
  <1> DEFINE p == Pools[idx]
             kept == prune_recorded(p)
  <1>a. PICK read \in SUBSET considered(p, kept) :
          \E at \in [read -> Views] :
             LET entry == [b \in read |-> [who |-> b, ver |-> at[b].chain.auction[b]]]
                 gone == {b \in read : entry[b].ver = NoAuction}
             IN  /\ live' = {entry[b] : b \in read \ gone}
                 /\ row' = [b \in Borrowers |-> IF b \in gone THEN NoAuction ELSE row[b]]
                 /\ recorded' = {e \in kept : e.who \notin gone}
                 /\ dryRows' = dryRows \ UNION {Forgotten(b, NoAuction) : b \in gone}
    BY DEF ReadEntries
  <1>1. PICK at \in [read -> Views] :
          LET entry == [b \in read |-> [who |-> b, ver |-> at[b].chain.auction[b]]]
              gone == {b \in read : entry[b].ver = NoAuction}
          IN  /\ live' = {entry[b] : b \in read \ gone}
              /\ row' = [b \in Borrowers |-> IF b \in gone THEN NoAuction ELSE row[b]]
              /\ recorded' = {e \in kept : e.who \notin gone}
              /\ dryRows' = dryRows \ UNION {Forgotten(b, NoAuction) : b \in gone}
    BY <1>a
  <1> DEFINE shown(b) == at[b].chain.auction[b]
             gone == {b \in read : shown(b) = NoAuction}
  <1>2. /\ live' = {[who |-> b, ver |-> shown(b)] : b \in read \ gone}
        /\ row' = [b \in Borrowers |-> IF b \in gone THEN NoAuction ELSE row[b]]
        /\ recorded' = {e \in kept : e.who \notin gone}
        /\ dryRows' = dryRows \ UNION {Forgotten(b, NoAuction) : b \in gone}
    BY <1>1
  <1>3. /\ read \subseteq Borrowers
        /\ \A b \in read : row[b] # NoAuction /\ PoolOf[b] = p
    BY DEF considered
  <1>4. ASSUME NEW b \in read
        PROVE  /\ shown(b) \in Version
               /\ shown(b).start = 0 => shown(b) = NoAuction
               /\ shown(b).start # 0 => shown(b).start >= row[b].start
    <2>1. at[b] \in Views /\ b \in Borrowers
      BY <1>3
    <2>2. (at[b].chain = now \/ at[b].chain = prev) /\ at[b].chain \in Chain
      BY <1>0, <2>1, ViewsShape
    <2> QED
      BY <1>0, <2>1, <2>2, ChainShape DEF RowIsBehind
  <1> HIDE DEF shown
  <1>5. \A e \in dryRows' : e \in dryRows /\ e.who \notin gone
    BY <1>2 DEF Forgotten
  <1> HIDE DEF gone
  <1>6. recorded' \subseteq recorded /\ live' \subseteq Entry
    <2>1. recorded' \subseteq recorded
      BY <1>2 DEF prune_recorded
    <2>2. \A b \in read : [who |-> b, ver |-> shown(b)] \in Entry
      BY <1>3, <1>4 DEF Entry
    <2> QED
      BY <1>2, <2>1, <2>2
  <1>7. RecordType'
    BY <1>0, <1>2, <1>6 DEF RecordType
  <1>8. ASSUME NEW e \in dryRows'
        PROVE  row'[e.who] # NoAuction /\ (e \in recorded' \/ e.ver.start < row'[e.who].start)
    <2>1. e \in dryRows /\ e.who \notin gone
      BY <1>5, <1>8
    <2>2. /\ e.who \in Borrowers /\ e.ver \in Version
          /\ row[e.who] # NoAuction /\ (e \in recorded \/ e.ver.start < row[e.who].start)
      BY <1>0, <2>1 DEF RecordType, RecordsKnown, Entry
    <2>3. row'[e.who] = row[e.who]
      BY <1>2, <2>1, <2>2
    <2>4. e.ver.start \in Nat /\ row[e.who].start \in Nat
      BY <1>0, <2>2, VersionShape
    <2>5. e \in recorded /\ ~(e.ver.start < row[e.who].start) => e \in kept
      BY <2>2, <2>4 DEF prune_recorded
    <2> QED
      BY <1>2, <2>1, <2>2, <2>3, <2>5
  <1>9. ASSUME NEW e \in live'
        PROVE  e.ver.start # 0 /\ (e \in dryRows' => e \in recorded')
    <2>1. PICK b \in read \ gone : e = [who |-> b, ver |-> shown(b)]
      BY <1>2, <1>9
    <2>2. e.who = b /\ e.ver = shown(b)
      BY <2>1
    <2>3. shown(b) # NoAuction
      BY <2>1 DEF gone
    <2>4. e.ver.start # 0 /\ e.ver.start >= row[b].start
      BY <1>4, <2>1, <2>2, <2>3
    <2>5. ASSUME e \in dryRows'
          PROVE  e \in recorded'
      <3>1. e \in recorded' \/ e.ver.start < row'[e.who].start
        BY <1>8, <2>5
      <3>2. row'[e.who] = row[b]
        BY <1>2, <1>3, <2>1, <2>2
      <3>3. e.ver.start \in Nat /\ row[b].start \in Nat
        BY <1>0, <1>3, <1>4, <2>1, <2>2, VersionShape
      <3> QED
        BY <2>2, <2>4, <3>1, <3>2, <3>3
    <2> QED
      BY <2>4, <2>5
  <1>10. RecordsKnown'
    BY <1>8, <1>9 DEF RecordsKnown
  <1> QED
    BY <1>0, <1>7, <1>10 DEF RecordedOnce

\* Any other step records a fill that is not recorded, or nothing.
RecordsStand == live' \subseteq live /\ UNCHANGED <<row, recorded, dryRows, twice>>

Records(e) ==
    /\ e \in live /\ e \notin recorded /\ row[e.who] # NoAuction
    /\ live' \subseteq live
    /\ recorded' = recorded \cup {e}
    /\ dryRows' = dryRows \cup {e}
    /\ twice' = (twice \/ e \in dryRows)
    /\ UNCHANGED row

LEMMA RecordStep ==
  ASSUME IInv, Next
  PROVE  RecordType' /\ RecordsKnown' /\ RecordedOnce'
  <1>0. RecordType /\ RecordsKnown /\ RecordedOnce
    BY TypeParts DEF IInv
  <1>1. CASE RecordsStand
    <2>1. RecordType' /\ RecordedOnce'
      BY <1>0, <1>1, Zenon DEF RecordsStand, RecordType, RecordedOnce
    <2> QED
      BY <1>0, <1>1, <2>1 DEF RecordsStand, RecordsKnown
  <1>2. CASE \E e \in live : Records(e)
    <2>1. PICK e \in live : Records(e)
      BY <1>2
    <2>2. e \notin dryRows
      BY <1>0, <2>1 DEF Records, RecordsKnown
    <2>3. twice' = FALSE
      BY <1>0, <2>1, <2>2 DEF Records, RecordedOnce
    <2>4. RecordsKnown'
      BY <1>0, <2>1 DEF Records, RecordsKnown
    <2>5. RecordType'
      BY <1>0, <2>1, <2>3 DEF Records, RecordType
    <2> QED
      BY <2>3, <2>4, <2>5 DEF RecordedOnce
  <1>3. CASE \E b \in Borrowers : TrackRow(b)
    BY <1>3, TrackRowRecords
  <1>4. CASE ReadEntries
    BY <1>4, ReadEntriesRecords
  <1>5. CASE Restart
    BY <1>5 DEF Restart, RecordType, RecordsKnown, RecordedOnce
  <1>6. CASE CloseLedger \/ BeginTick \/ EndWalk \/ TakeSnapshot \/ RequestShutdown
    BY <1>1, <1>6 DEF CloseLedger, BeginTick, EndWalk, TakeSnapshot, RequestShutdown, NextPool,
                      walk, audit, RecordsStand
  <1>7. CASE UnwindPasses \/ UnwindPlanned \/ AnswerUnwind
    BY <1>1, <1>7 DEF UnwindPasses, UnwindPlanned, AnswerUnwind, UnwindPool, UnwindSkip,
                      NextUnwind, ExecuteUnwind, RunUnwind, walk, audit, RecordsStand
  <1>8. CASE AnswerFill
    BY <1>1, <1>8 DEF AnswerFill, AfterFill, NextPool, Done, Replan, walk, audit, RecordsStand
  <1>9. CASE WalkAuctions
    BY <1>1, <1>2, <1>9 DEF WalkAuctions, NextPool, Done, PlanFill, Execute, RunFill, Replan,
                            walk, RecordsStand, Records
  <1> QED
    BY <1>3, <1>4, <1>5, <1>6, <1>7, <1>8, <1>9 DEF Next, Tick

----------------------------------------------------------------------------
(* Alerts and notices.                                                     *)

SetbackMoves ==
    \/ UNCHANGED <<setback, alerts>>
    \/ \E p \in PoolSet : clear_setback(p) \/ note_setback(p)

NoticeMoves ==
    \/ UNCHANGED <<leftovers, notices>>
    \/ \E p \in PoolSet : /\ leftovers' = leftovers \ {p}
                          /\ notices' = [notices EXCEPT ![p] = 0]
    \/ \E p \in PoolSet : /\ p \notin leftovers
                          /\ leftovers' = leftovers \cup {p}
                          /\ notices' = [notices EXCEPT ![p] = @ + 1]

\* A notice the notifier dropped is remembered as such until the next.
UnheardMoves ==
    \/ UNCHANGED unheard
    \/ \E p \in PoolSet : unheard' = unheard \ {p} \/ unheard' = unheard \cup {p}

ToldForgotten ==
    /\ leftovers' = {} /\ unheard' = {} /\ setback' = FreshState.setback
    /\ alerts' = FreshState.none /\ notices' = FreshState.none

\* The pool that a tick at an auction or an unwind is about.
LEMMA PoolAt ==
  ASSUME IInv
  PROVE  /\ Busy => job.pool \in PoolSet
         /\ fpc \in InPool => Pools[idx] \in PoolSet
         /\ idx <= Len(Pools) => Pools[idx] \in PoolSet
  <1>1. JobType /\ WalkType /\ JobLocals
    BY TypeParts DEF IInv
  <1> QED
    BY <1>1, JobShape, PoolsShape DEF WalkType, JobLocals

LEMMA ToldNext ==
  ASSUME IInv, Next
  PROVE  (SetbackMoves /\ NoticeMoves /\ UnheardMoves) \/ ToldForgotten
  <1>0. JobLocals
    BY DEF IInv
  <1>1. CASE CloseLedger \/ BeginTick \/ EndWalk \/ ReadEntries \/ TakeSnapshot \/ WalkAuctions
             \/ RequestShutdown \/ \E b \in Borrowers : TrackRow(b)
    BY <1>1 DEF CloseLedger, BeginTick, EndWalk, ReadEntries, TakeSnapshot, WalkAuctions,
                RequestShutdown, TrackRow, unwinds, told, SetbackMoves, NoticeMoves, UnheardMoves
  <1>2. CASE AnswerFill
    <2>1. job.pool \in PoolSet /\ UNCHANGED <<leftovers, notices, unheard>>
      BY <1>0, <1>2, PoolAt DEF AnswerFill, JobLocals
    <2> QED
      BY <1>2, <2>1 DEF AnswerFill, note_landed, SetbackMoves, NoticeMoves, UnheardMoves
  <1>3. CASE AnswerUnwind
    <2>1. job.pool \in PoolSet /\ UNCHANGED <<leftovers, notices, unheard>>
      BY <1>0, <1>3, PoolAt DEF AnswerUnwind, JobLocals
    <2> QED
      BY <1>3, <2>1 DEF AnswerUnwind, SetbackMoves, NoticeMoves, UnheardMoves
  <1>4. CASE UnwindPlanned
    <2>1. Pools[idx] \in PoolSet
      BY <1>4, PoolAt DEF UnwindPlanned, InPool
    <2> QED
      BY <1>4, <2>1 DEF UnwindPlanned, UnwindSkip, ExecuteUnwind, RunUnwind, Cleared,
                        SetbackMoves, NoticeMoves, UnheardMoves
  <1>5. CASE UnwindPasses
    <2>1. idx <= Len(Pools) => Pools[idx] \in PoolSet
      BY PoolAt
    <2> QED
      BY <1>5, <2>1 DEF UnwindPasses, UnwindPool, UnwindSkip, Cleared, note_idle,
                        SetbackMoves, NoticeMoves, UnheardMoves
  <1>6. CASE Restart
    BY <1>6 DEF Restart, ToldForgotten
  <1> QED
    BY <1>1, <1>2, <1>3, <1>4, <1>5, <1>6 DEF Next, Tick

LEMMA BackoffIsInt ==
  ASSUME NEW n \in Nat, NEW m \in Int
  PROVE  (IF 2^n < m THEN 2^n ELSE m) \in Int
  BY Z3

LEMMA SetbackStep ==
  ASSUME ToldType, Told, tick \in Int, SetbackMoves
  PROVE  /\ setback' \in [PoolSet -> [count : Nat, retryAt : Int]]
         /\ alerts' \in [PoolSet -> Nat]
         /\ \A p \in PoolSet : alerts'[p] = IF setback'[p].count >= AlertAt THEN 1 ELSE 0
  <1>1. CASE UNCHANGED <<setback, alerts>>
    BY <1>1 DEF ToldType, Told
  <1>2. ASSUME NEW p \in PoolSet, clear_setback(p)
        PROVE  /\ setback' \in [PoolSet -> [count : Nat, retryAt : Int]]
               /\ alerts' \in [PoolSet -> Nat]
               /\ \A q \in PoolSet : alerts'[q] = IF setback'[q].count >= AlertAt THEN 1 ELSE 0
    BY <1>2, Numbers DEF clear_setback, NoSetback, ToldType, Told
  <1>3. ASSUME NEW p \in PoolSet, note_setback(p)
        PROVE  /\ setback' \in [PoolSet -> [count : Nat, retryAt : Int]]
               /\ alerts' \in [PoolSet -> Nat]
               /\ \A q \in PoolSet : alerts'[q] = IF setback'[q].count >= AlertAt THEN 1 ELSE 0
    <2> DEFINE count == setback[p].count + 1
               backoff == IF 2^count < BackoffMax THEN 2^count ELSE BackoffMax
    <2>1. /\ setback' = [setback EXCEPT ![p] = [count |-> count, retryAt |-> tick + backoff]]
          /\ alerts' = [alerts EXCEPT ![p] = IF count = AlertAt THEN @ + 1 ELSE @]
      BY <1>3 DEF note_setback
    <2>2. setback[p].count \in Nat /\ alerts[p] \in Nat
      BY DEF ToldType
    <2>3. count \in Nat /\ BackoffMax \in Int
      BY <2>2, Numbers
    <2> HIDE DEF count
    <2>4. backoff \in Int
      BY <2>3, BackoffIsInt
    <2> USE DEF count
    <2>5. tick + backoff \in Int /\ count \in Nat
      BY <2>2, <2>4
    <2> HIDE DEF backoff
    <2>6. setback' \in [PoolSet -> [count : Nat, retryAt : Int]]
      BY <2>1, <2>5 DEF ToldType
    <2>7. alerts' \in [PoolSet -> Nat]
      BY <2>1, <2>2 DEF ToldType
    <2>8. setback'[p].count = count /\ alerts'[p] = IF count = AlertAt THEN alerts[p] + 1 ELSE alerts[p]
      BY <2>1 DEF ToldType
    <2>9. alerts[p] = IF setback[p].count >= AlertAt THEN 1 ELSE 0
      BY DEF Told
    <2>10. alerts'[p] = IF setback'[p].count >= AlertAt THEN 1 ELSE 0
      BY <2>2, <2>8, <2>9, Numbers
    <2>11. \A q \in PoolSet : q # p => alerts'[q] = IF setback'[q].count >= AlertAt THEN 1 ELSE 0
      BY <2>1 DEF ToldType, Told
    <2> QED
      BY <2>6, <2>7, <2>10, <2>11
  <1> QED
    BY <1>1, <1>2, <1>3 DEF SetbackMoves

LEMMA ToldStep ==
  ASSUME IInv, Next
  PROVE  ToldType' /\ Told'
  <1>0. ToldType /\ Told /\ tick \in Int
    BY TypeParts DEF IInv, TaskType
  <1>1. CASE SetbackMoves /\ NoticeMoves /\ UnheardMoves
    <2>1. /\ setback' \in [PoolSet -> [count : Nat, retryAt : Int]]
          /\ alerts' \in [PoolSet -> Nat]
          /\ \A p \in PoolSet : alerts'[p] = IF setback'[p].count >= AlertAt THEN 1 ELSE 0
      BY <1>0, <1>1, SetbackStep
    <2>2. /\ leftovers' \subseteq PoolSet /\ notices' \in [PoolSet -> Nat]
          /\ \A p \in PoolSet : notices'[p] <= 1 /\ (p \notin leftovers' => notices'[p] = 0)
      BY <1>0, <1>1 DEF NoticeMoves, ToldType, Told
    <2>3. unheard' \subseteq PoolSet
      BY <1>0, <1>1 DEF UnheardMoves, ToldType
    <2> QED
      BY <2>1, <2>2, <2>3 DEF ToldType, Told
  <1>2. CASE ToldForgotten
    BY <1>2, Numbers DEF ToldForgotten, FreshState, NoSetback, ToldType, Told
  <1> QED
    BY <1>1, <1>2, ToldNext

----------------------------------------------------------------------------
(* The tick, the flags and the assets known.                               *)

FlagType ==
    /\ execute \in BOOLEAN /\ everRead \in BOOLEAN /\ stale \in BOOLEAN
    /\ shutdown \in BOOLEAN

CountType == tick \in 0..head /\ faults \in 0..MaxFaults

AssetType == known \subseteq PoolSet /\ covered \subseteq known

LEMMA TaskParts == (TaskType <=> FlagType /\ CountType /\ AssetType)
  BY DEF TaskType, FlagType, CountType, AssetType

LEMMA TaskPartsNext == (TaskType' <=> FlagType' /\ CountType' /\ AssetType')
  BY DEF TaskType, FlagType, CountType, AssetType

LEMMA FlagStep ==
  ASSUME IInv, Next
  PROVE  FlagType'
  <1>0. FlagType
    BY TypeParts, TaskParts DEF IInv
  <1>1. execute' \in {execute, TRUE, FALSE}
    BY DEF Next, Tick, CloseLedger, TrackRow, BeginTick, EndWalk, ReadEntries, TakeSnapshot,
           WalkAuctions, AnswerFill, UnwindPasses, UnwindPlanned, AnswerUnwind, RequestShutdown,
           Restart
  <1>2. everRead' \in {everRead, TRUE, FALSE}
    <2>1. CASE AnswerFill \/ AnswerUnwind
      BY <2>1 DEF AnswerFill, AnswerUnwind, Settled, consume, release
    <2>2. CASE WalkAuctions \/ UnwindPlanned
      <3>1. ASSUME NEW e, NEW percent, NEW spend, RunFill(e, percent, spend)
            PROVE  everRead' = everRead
        BY <3>1 DEF RunFill, reserve, inventory
      <3>2. ASSUME NEW e, PlanFill(e)
            PROVE  everRead' = everRead
        BY <3>1, <3>2 DEF PlanFill, Execute, inventory
      <3>3. ASSUME NEW p, NEW spend, NEW ledger, RunUnwind(p, spend, ledger)
            PROVE  everRead' = everRead
        BY <3>3 DEF RunUnwind, reserve, inventory
      <3>4. CASE WalkAuctions
        BY <3>2, <3>4 DEF WalkAuctions, inventory
      <3>5. CASE UnwindPlanned
        BY <3>3, <3>5 DEF UnwindPlanned, ExecuteUnwind, UnwindSkip, inventory
      <3> QED
        BY <2>2, <3>4, <3>5
    <2>3. CASE TakeSnapshot \/ UnwindPasses
      BY <2>3 DEF TakeSnapshot, UnwindPasses, UnwindPool, UnwindSkip, RefreshInventory,
                  record_balances, inventory
    <2> QED
      BY <2>1, <2>2, <2>3
      DEF Next, Tick, CloseLedger, TrackRow, BeginTick, EndWalk, ReadEntries, RequestShutdown,
          Restart, inventory
  <1>3. stale' \in {stale, TRUE, FALSE}
    <2>1. CASE AnswerFill \/ AnswerUnwind
      BY <2>1 DEF AnswerFill, AnswerUnwind, note_landed
    <2>2. CASE TakeSnapshot \/ UnwindPasses
      BY <2>2 DEF TakeSnapshot, UnwindPasses, UnwindPool, RefreshInventory, wallet
    <2> QED
      BY <2>1, <2>2
      DEF Next, Tick, CloseLedger, TrackRow, BeginTick, EndWalk, ReadEntries, WalkAuctions,
          UnwindPlanned, RequestShutdown, Restart, wallet
  <1>4. shutdown' \in {shutdown, TRUE, FALSE}
    BY DEF Next, Tick, CloseLedger, TrackRow, BeginTick, EndWalk, ReadEntries, TakeSnapshot,
           WalkAuctions, AnswerFill, UnwindPasses, UnwindPlanned, AnswerUnwind, RequestShutdown,
           Restart, process
  <1> QED
    BY <1>0, <1>1, <1>2, <1>3, <1>4, Zenon DEF FlagType

LEMMA CountStep ==
  ASSUME IInv, Next
  PROVE  CountType'
  <1>0. CountType /\ head \in Nat /\ head >= 1 /\ MaxFaults \in Nat
    BY TypeParts, TaskParts, Numbers DEF IInv, ChainType
  <1>1. CASE BeginTick
    BY <1>0, <1>1 DEF BeginTick, CountType, chain, process
  <1>2. CASE RequestShutdown \/ Restart
    BY <1>0, <1>2 DEF RequestShutdown, Restart, CountType, chain
  <1>3. CASE CloseLedger
    BY <1>0, <1>3 DEF CloseLedger, CountType, process
  <1>4. CASE UNCHANGED <<head, tick, faults>>
    BY <1>0, <1>4 DEF CountType
  <1> QED
    BY <1>1, <1>2, <1>3, <1>4
    DEF Next, Tick, TrackRow, EndWalk, ReadEntries, TakeSnapshot, WalkAuctions, AnswerFill,
        UnwindPasses, UnwindPlanned, AnswerUnwind, chain, process

LEMMA AssetStep ==
  ASSUME IInv, Next
  PROVE  AssetType'
  <1>0. AssetType
    BY TypeParts, TaskParts DEF IInv
  <1>1. ASSUME NEW p \in PoolSet, RefreshInventory(p)
        PROVE  AssetType'
    BY <1>0, <1>1 DEF RefreshInventory, AssetType, wallet
  <1>2. CASE UNCHANGED <<known, covered>>
    BY <1>0, <1>2 DEF AssetType
  <1>3. CASE TakeSnapshot
    <2>1. Pools[idx] \in PoolSet
      BY <1>3, PoolAt DEF TakeSnapshot, InPool
    <2> QED
      BY <1>1, <1>2, <1>3, <2>1 DEF TakeSnapshot, wallet
  <1>4. CASE UnwindPasses
    <2>1. idx <= Len(Pools) => Pools[idx] \in PoolSet
      BY PoolAt
    <2> QED
      BY <1>1, <1>2, <1>4, <2>1 DEF UnwindPasses, UnwindPool, wallet
  <1>5. CASE Restart
    BY <1>5 DEF Restart, AssetType
  <1> QED
    BY <1>2, <1>3, <1>4, <1>5
    DEF Next, Tick, CloseLedger, TrackRow, BeginTick, EndWalk, ReadEntries, WalkAuctions,
        AnswerFill, UnwindPlanned, AnswerUnwind, RequestShutdown, wallet

----------------------------------------------------------------------------
(* What is pending, and the marks.                                         *)

Quiet == {"idle", "pool", "unwind", "dead"}

PendingInv ==
    /\ PendingType
    /\ OnlyArmedMoves
    /\ MarkKnows
    /\ UnseenIsPending
    /\ NotSeeded
    /\ Hushed
    /\ LandedLast
    /\ UnwindView
    /\ LagIsKnown
    /\ StaysPending

LEMMA PendingNumbers ==
  ASSUME PendingType, ChainType
  PROVE  /\ head \in Nat /\ head >= 1
         /\ \A p \in PoolSet : /\ after[p] \in Int /\ after[p] >= -1 /\ after[p] <= head
                               /\ moved[p] \in Nat /\ moved[p] <= head
  BY DEF PendingType, ChainType

\* A step that leaves the chain, the marks and the landings alone.
LEMMA MarksStand ==
  ASSUME IInv,
         UNCHANGED <<mode, ghosts, head, now, prev, pending, seeded, after, moved, adrift>>,
         UNCHANGED <<leftovers, unheard>>,
         shutdown => shutdown',
         UNCHANGED job \/ (~Busy /\ Busy' /\ job'.fate = "floating"),
         fpc = "dead" => fpc' = "dead",
         seeded \/ fpc' = fpc,
         shutdown /\ fpc \in Quiet => fpc' \in Quiet,
         UnwindView'
  PROVE  PendingInv'
  <1>0. PendingInv
    BY TypeParts DEF IInv, PendingInv
  <1>1. Busy => (Busy' /\ UNCHANGED job)
    BY DEF Busy
  <1>2. Busy' /\ ~Busy => job'.fate = "floating"
    BY DEF Busy
  <1>3. PendingType' /\ OnlyArmedMoves' /\ NotSeeded'
    BY <1>0 DEF PendingInv, PendingType, OnlyArmedMoves, NotSeeded
  <1>4. MarkKnows' /\ UnseenIsPending'
    BY <1>0 DEF PendingInv, MarkKnows, UnseenIsPending
  <1>5. Hushed'
    BY <1>0 DEF PendingInv, Hushed, Quiet
  <1>6. LandedLast'
    BY <1>0, <1>1, <1>2 DEF PendingInv, LandedLast
  <1>7. LagIsKnown'
    BY <1>0, <1>1 DEF PendingInv, LagIsKnown
  <1>8. StaysPending'
    BY <1>0, <1>1 DEF PendingInv, StaysPending
  <1> QED
    BY <1>3, <1>4, <1>5, <1>6, <1>7, <1>8 DEF PendingInv

\* A submission of this run that nobody waits for leaves its pool quiet.
LEMMA NoGhostHere ==
  ASSUME PendingInv, fpc \notin Quiet
  PROVE  /\ \A p \in PoolSet : after[p] # Unseen
         /\ \A p \in PoolSet \ adrift : \A g \in ghosts : g.pool # p
  BY DEF PendingInv, Hushed, MarkKnows, Quiet

LEMMA CloseLedgerMarks ==
  ASSUME IInv, CloseLedger
  PROVE  PendingInv'
  <1>0. PendingInv /\ JobType /\ ChainType /\ JobLocals /\ ChainType'
    BY TypeParts, ChainStep DEF IInv, PendingInv, Next
  <1>a. /\ head' = head + 1 /\ prev' = now
        /\ UNCHANGED <<mode, pending, seeded, after, adrift, fpc, idx, view, shutdown>>
        /\ UNCHANGED <<leftovers, unheard>>
    BY DEF CloseLedger, unwinds, walk, process, told
  <1>b. /\ head \in Nat /\ head >= 1
        /\ \A p \in PoolSet : /\ after[p] \in Int /\ after[p] >= -1 /\ after[p] <= head
                              /\ moved[p] \in Nat /\ moved[p] <= head
    BY <1>0, PendingNumbers DEF PendingInv
  <1>c. /\ Busy' <=> Busy
        /\ Busy => /\ job'.pool = job.pool /\ job'.view = job.view
                   /\ UNCHANGED job \/ (job.fate = "floating" /\ job'.at = head + 1)
    BY <1>0, <1>b, CloseLedgerJob
  <1>d. \/ UNCHANGED <<ghosts, moved>>
        \/ \E g \in ghosts : /\ ghosts' = ghosts \ {g}
                             /\ moved' = [moved EXCEPT ![g.pool] = head + 1]
                             /\ UNCHANGED job
    BY DEF CloseLedger
  <1>e. \A p \in PoolSet : now'.pos[p] # now.pos[p] =>
           \/ moved'[p] = head + 1
           \/ Busy /\ job.pool = p /\ job'.fate = "landed" /\ job'.at = head + 1
    BY CloseLedgerChain
  <1>f. /\ moved' \in [PoolSet -> 0..(head + 1)]
        /\ \A p \in PoolSet : \/ moved'[p] = moved[p]
                              \/ moved'[p] = head + 1 /\ \E g \in ghosts : g.pool = p
        /\ ghosts' \subseteq ghosts
    <2>1. moved \in [PoolSet -> 0..head] /\ \A g \in ghosts : g.pool \in PoolSet
      BY <1>0 DEF PendingInv, PendingType, JobType, Job
    <2>2. CASE UNCHANGED <<ghosts, moved>>
      BY <1>b, <2>1, <2>2
    <2>3. CASE \E g \in ghosts : /\ ghosts' = ghosts \ {g}
                                 /\ moved' = [moved EXCEPT ![g.pool] = head + 1]
      BY <1>b, <2>1, <2>3
    <2> QED
      BY <1>d, <2>2, <2>3
  <1>1. PendingType'
    <2>1. after' \in [PoolSet -> -1..head'] /\ moved' \in [PoolSet -> 0..head']
      BY <1>0, <1>a, <1>b, <1>f DEF PendingInv, PendingType
    <2> QED
      BY <1>0, <1>a, <2>1 DEF PendingInv, PendingType
  <1>2. OnlyArmedMoves'
    BY <1>0, <1>a, <1>f DEF PendingInv, OnlyArmedMoves
  <1>3. MarkKnows'
    <2>1. ASSUME fpc # "dead", NEW p \in PoolSet \ adrift
          PROVE  /\ (\E g \in ghosts' : g.pool = p) => after[p] = Unseen
                 /\ moved'[p] > 0 => \/ after[p] = Unseen
                                     \/ after[p] >= moved'[p]
                                     \/ after[p] = NoMark /\ p \notin pending /\ seeded
      BY <1>0, <1>f, <2>1 DEF PendingInv, MarkKnows
    <2> QED
      BY <1>a, <2>1 DEF MarkKnows
  <1>4. UnseenIsPending' /\ NotSeeded' /\ Hushed'
    BY <1>0, <1>a DEF PendingInv, UnseenIsPending, NotSeeded, Hushed
  <1>5. LandedLast'
    <2>1. ASSUME Busy, job'.fate = "landed", job.pool \notin adrift
          PROVE  job'.at >= 1 /\ job'.at >= moved'[job.pool]
      <3>1. job.pool \in PoolSet /\ fpc \notin Quiet
        BY <1>0, <2>1, JobShape DEF JobLocals, Quiet
      <3>2. moved'[job.pool] = moved[job.pool]
        BY <1>0, <1>f, <2>1, <3>1, NoGhostHere
      <3>3. CASE UNCHANGED job
        BY <1>0, <2>1, <3>2, <3>3 DEF PendingInv, LandedLast
      <3>4. CASE job'.at = head + 1
        BY <1>b, <3>1, <3>2, <3>4
      <3> QED
        BY <1>c, <2>1, <3>3, <3>4
    <2> QED
      BY <1>a, <1>c, <2>1 DEF LandedLast
  <1>6. UnwindView'
    <2>1. fpc = "unwinding" => Busy
      BY <1>0 DEF JobLocals
    <2> QED
      BY <1>0, <1>a, <1>c, <2>1 DEF PendingInv, UnwindView, Holds
  <1>7. LagIsKnown'
    <2>1. ASSUME NEW p \in PoolSet \ adrift', prev'.pos[p] # now'.pos[p]
          PROVE  \/ moved'[p] = head'
                 \/ Busy' /\ job'.pool = p /\ job'.fate = "landed" /\ job'.at = head'
      BY <1>a, <1>c, <1>e, <2>1
    <2> QED
      BY <2>1 DEF LagIsKnown
  <1>8. StaysPending'
    <2>1. ASSUME mode = "armed", seeded, fpc # "dead", NEW p \in PoolSet \ adrift,
                 now'.pos[p] \in {"move", "debt"}
          PROVE  \/ p \in pending
                 \/ Busy' /\ job'.pool = p /\ job'.fate = "landed"
                 \/ now'.pos[p] = "debt" /\ p \in leftovers \cup unheard
      <3>1. CASE now'.pos[p] = now.pos[p]
        BY <1>0, <1>c, <2>1, <3>1 DEF PendingInv, StaysPending
      <3>2. CASE now'.pos[p] # now.pos[p] /\ moved'[p] = head + 1
        <4>1. \E g \in ghosts : g.pool = p
          BY <1>b, <1>f, <3>2
        <4> QED
          BY <1>0, <2>1, <4>1 DEF PendingInv, MarkKnows, UnseenIsPending
      <3>3. CASE Busy /\ job.pool = p /\ job'.fate = "landed"
        BY <1>c, <3>3
      <3> QED
        BY <1>e, <3>1, <3>2, <3>3
    <2> QED
      BY <1>a, <2>1 DEF StaysPending
  <1> QED
    BY <1>1, <1>2, <1>3, <1>4, <1>5, <1>6, <1>7, <1>8 DEF PendingInv

LEMMA BeginTickMarks ==
  ASSUME IInv, BeginTick
  PROVE  PendingInv'
  <1>0. PendingInv /\ ChainType
    BY TypeParts DEF IInv, PendingInv
  <1>1. /\ UNCHANGED <<mode, job, ghosts, head, now, prev, after, moved, adrift, shutdown>>
        /\ fpc = "idle" /\ fpc' = "pool" /\ seeded' = TRUE
        /\ pending' = IF seeded THEN pending ELSE PoolSet
        /\ UNCHANGED <<leftovers, unheard>>
    BY DEF BeginTick, execution, chain, landings, process, told
  <1>2. /\ head \in Nat
        /\ \A p \in PoolSet : after[p] \in Int /\ moved[p] \in Nat
    BY <1>0, PendingNumbers DEF PendingInv
  <1>3. Busy' <=> Busy
    BY <1>1 DEF Busy
  <1>4. CASE seeded
    <2>1. pending' = pending
      BY <1>1, <1>4
    <2>2. UnwindView'
      BY <1>1 DEF UnwindView
    <2>3. PendingType' /\ OnlyArmedMoves' /\ NotSeeded' /\ Hushed' /\ LandedLast' /\ LagIsKnown'
      BY <1>0, <1>1, <1>3, <2>1
      DEF PendingInv, PendingType, OnlyArmedMoves, NotSeeded, Hushed, LandedLast, LagIsKnown
    <2>4. MarkKnows' /\ UnseenIsPending' /\ StaysPending'
      BY <1>0, <1>1, <1>3, <1>4, <2>1
      DEF PendingInv, MarkKnows, UnseenIsPending, StaysPending
    <2> QED
      BY <2>2, <2>3, <2>4 DEF PendingInv
  <1>5. CASE ~seeded
    <2>1. pending' = PoolSet /\ \A p \in PoolSet : after[p] = NoMark
      BY <1>0, <1>1, <1>5 DEF PendingInv, NotSeeded, FreshState
    <2>2. \A p \in PoolSet \ adrift : ~(moved[p] > 0) /\ \A g \in ghosts : g.pool # p
      BY <1>0, <1>1, <1>2, <1>5, <2>1 DEF PendingInv, MarkKnows, NoMark, Unseen
    <2>3. UnwindView'
      BY <1>1 DEF UnwindView
    <2>4. PendingType' /\ OnlyArmedMoves' /\ NotSeeded' /\ Hushed' /\ LandedLast' /\ LagIsKnown'
      BY <1>0, <1>1, <1>3, <2>1
      DEF PendingInv, PendingType, OnlyArmedMoves, NotSeeded, Hushed, LandedLast, LagIsKnown
    <2>5. MarkKnows' /\ UnseenIsPending' /\ StaysPending'
      BY <1>1, <2>1, <2>2 DEF MarkKnows, UnseenIsPending, StaysPending
    <2> QED
      BY <2>3, <2>4, <2>5 DEF PendingInv
  <1> QED
    BY <1>4, <1>5

\* What a snapshot that reaches the mark shows of its pool is still so.
LEMMA HeldIsNow ==
  ASSUME PendingInv, ChainType, ~Busy, fpc # "dead", NEW p \in PoolSet \ adrift, p \in pending,
         NEW v \in Views, Holds(p, v.at)
  PROVE  v.chain.pos[p] = now.pos[p]
  <1>1. /\ head \in Nat /\ head >= 1 /\ after[p] \in Int /\ moved[p] \in Nat
    BY PendingNumbers DEF PendingInv
  <1>2. CASE v.chain = now
    BY <1>2
  <1>3. CASE v.at = head - 1 /\ v.chain = prev
    <2>1. SUFFICES ASSUME prev.pos[p] # now.pos[p]
                   PROVE  FALSE
      BY <1>3
    <2>2. moved[p] = head
      BY <2>1 DEF PendingInv, LagIsKnown
    <2>3. after[p] = Unseen \/ after[p] >= head
      BY <1>1, <2>2 DEF PendingInv, MarkKnows
    <2> QED
      BY <1>1, <1>3, <2>3 DEF Holds, NoMark, Unseen
  <1> QED
    BY <1>2, <1>3, ViewsShape

\* A pool stops being pending on such a snapshot only.
LEMMA ClearedMarks ==
  ASSUME IInv, ~Busy, fpc = "unwind", fpc' = "unwind",
         NEW p \in PoolSet, p \in pending, NEW v \in Views, Holds(p, v.at),
         v.chain.pos[p] \in {"move", "debt"} =>
             v.chain.pos[p] = "debt" /\ p \in leftovers' \cup unheard',
         \A q \in PoolSet : q # p /\ q \in leftovers \cup unheard => q \in leftovers' \cup unheard',
         UNCHANGED <<mode, job, ghosts, head, now, prev, seeded, moved, adrift, shutdown>>,
         pending' = pending \ {p},
         UNCHANGED after \/ after' = [after EXCEPT ![p] = NoMark]
  PROVE  PendingInv'
  <1>0. PendingInv /\ ChainType
    BY TypeParts DEF IInv, PendingInv
  <1>1. /\ head \in Nat /\ head >= 1
        /\ \A q \in PoolSet : after[q] \in Int /\ moved[q] \in Nat
    BY <1>0, PendingNumbers DEF PendingInv
  <1>2. /\ after' \in [PoolSet -> -1..head]
        /\ after'[p] = after[p] \/ after'[p] = NoMark
        /\ \A q \in PoolSet : q # p => after'[q] = after[q]
        /\ after[p] # Unseen /\ after'[p] # Unseen
    BY <1>0, <1>1 DEF PendingInv, PendingType, Holds, NoMark, Unseen
  <1>3. ~Busy' /\ seeded
    BY <1>0 DEF Busy, PendingInv, NotSeeded
  <1>4. PendingType' /\ OnlyArmedMoves' /\ NotSeeded' /\ LandedLast' /\ UnwindView'
    BY <1>0, <1>2, <1>3
    DEF PendingInv, PendingType, OnlyArmedMoves, NotSeeded, LandedLast, UnwindView
  <1>5. MarkKnows'
    <2>1. ASSUME NEW q \in PoolSet \ adrift
          PROVE  /\ (\E g \in ghosts : g.pool = q) => after'[q] = Unseen
                 /\ moved[q] > 0 => \/ after'[q] = Unseen
                                    \/ after'[q] >= moved[q]
                                    \/ after'[q] = NoMark /\ q \notin pending' /\ seeded
      <3>1. /\ (\E g \in ghosts : g.pool = q) => after[q] = Unseen
            /\ moved[q] > 0 => \/ after[q] = Unseen
                               \/ after[q] >= moved[q]
                               \/ after[q] = NoMark /\ q \notin pending /\ seeded
        BY <1>0, <2>1 DEF PendingInv, MarkKnows
      <3> QED
        BY <1>2, <1>3, <3>1
    <2> QED
      BY <2>1 DEF MarkKnows
  <1>6. UnseenIsPending' /\ Hushed'
    BY <1>0, <1>2 DEF PendingInv, UnseenIsPending, Hushed
  <1>7. LagIsKnown'
    BY <1>0 DEF PendingInv, LagIsKnown
  <1>8. StaysPending'
    <2>1. p \notin adrift => v.chain.pos[p] = now.pos[p]
      BY <1>0, HeldIsNow
    <2>2. ASSUME mode = "armed", NEW q \in PoolSet \ adrift, now.pos[q] \in {"move", "debt"}
          PROVE  q \in pending' \/ (now.pos[q] = "debt" /\ q \in leftovers' \cup unheard')
      <3>1. CASE q = p
        BY <2>1, <2>2, <3>1
      <3>2. CASE q # p
        BY <1>0, <1>3, <2>2, <3>2 DEF PendingInv, StaysPending
      <3> QED
        BY <3>1, <3>2
    <2> QED
      BY <2>2 DEF StaysPending
  <1> QED
    BY <1>4, <1>5, <1>6, <1>7, <1>8 DEF PendingInv

\* Without the filler's key, or in a dry run, nothing is ever sent.
LEMMA UnarmedMarks ==
  ASSUME IInv, mode # "armed", fpc' \in {"idle", "unwind"},
         UNCHANGED <<mode, job, ghosts, head, now, prev, seeded, moved, adrift, shutdown>>,
         fpc # "dead", seeded,
         pending' \subseteq pending,
         UNCHANGED after \/ after' = FreshState.after
  PROVE  PendingInv'
  <1>0. PendingInv /\ ChainType /\ JobLocals
    BY TypeParts DEF IInv, PendingInv
  <1>1. ghosts = {} /\ (\A p \in PoolSet : moved[p] = 0) /\ ~Busy
    BY <1>0 DEF PendingInv, OnlyArmedMoves, JobLocals
  <1>2. after' \in [PoolSet -> -1..head] /\ \A p \in PoolSet : after'[p] = Unseen => after[p] = Unseen
    BY <1>0, PendingNumbers DEF PendingInv, PendingType, FreshState, NoMark, Unseen
  <1>3. ~Busy'
    BY <1>1 DEF Busy
  <1>4. PendingType' /\ OnlyArmedMoves' /\ NotSeeded' /\ LandedLast' /\ UnwindView'
    BY <1>0, <1>2, <1>3
    DEF PendingInv, PendingType, OnlyArmedMoves, NotSeeded, LandedLast, UnwindView
  <1>5. MarkKnows' /\ UnseenIsPending' /\ StaysPending'
    BY <1>1 DEF MarkKnows, UnseenIsPending, StaysPending
  <1>6. Hushed'
    BY <1>0, <1>2 DEF PendingInv, Hushed
  <1>7. LagIsKnown'
    BY <1>0, <1>1 DEF PendingInv, LagIsKnown
  <1> QED
    BY <1>4, <1>5, <1>6, <1>7 DEF PendingInv

\* The answer to a submission: the task ends with it; or it landed, or may
\* have, and the mark says so; or it did not.
AnswerEnds == fpc' = "dead" /\ UNCHANGED <<pending, after>>

AnswerLands(answer) ==
    /\ Landed(answer)
    /\ fpc' \in {"pool", "unwind"}
    /\ after' = [after EXCEPT ![job.pool] = Mark(answer)]
    /\ pending' = pending \cup {job.pool}

AnswerMisses(answer) ==
    /\ ~Landed(answer)
    /\ fpc' \in {"auctions", "unwind"}
    /\ UNCHANGED <<pending, after>>

LEMMA AnswerMarks ==
  ASSUME IInv, Busy, NEW answer \in QueueAnswers(shutdown), Settled(answer), NoteSettled(answer),
         UNCHANGED <<head, now, prev, seeded, leftovers, unheard, shutdown>>,
         AnswerEnds \/ AnswerLands(answer) \/ AnswerMisses(answer)
  PROVE  PendingInv'
  <1>0. PendingInv /\ ChainType /\ JobLocals /\ JobType
    BY TypeParts DEF IInv, PendingInv
  <1>1. /\ head \in Nat /\ head >= 1
        /\ \A q \in PoolSet : after[q] \in Int /\ moved[q] \in Nat
    BY <1>0, PendingNumbers DEF PendingInv
  <1>2. /\ job.pool \in PoolSet /\ job.at \in Nat /\ job.at <= head
        /\ fpc \notin Quiet /\ mode = "armed"
    BY <1>0, JobShape DEF JobLocals, Quiet
  <1>3. /\ \A p \in PoolSet : after[p] # Unseen
        /\ \A p \in PoolSet \ adrift : \A g \in ghosts : g.pool # p
    BY <1>0, <1>2, NoGhostHere
  <1>4. ~Busy' /\ UNCHANGED <<mode, adrift>>
    BY DEF Settled, NoteSettled, Busy, NoJob
  <1>5. /\ answer = "Succeeded" => job.fate = "landed"
        /\ answer = "Unknown" => shutdown
        /\ job.fate = "landed" => Landed(answer)
    BY <1>0, JobShape DEF QueueAnswers, Landed
  <1>6. \A g \in ghosts' : g \in ghosts \/ (g.pool = job.pool /\ answer = "Unknown")
    BY DEF Settled
  <1>7. /\ moved' \in [PoolSet -> 0..head]
        /\ \A p \in PoolSet : p # job.pool => moved'[p] = moved[p]
        /\ moved'[job.pool] = IF job.fate = "landed" THEN job.at ELSE moved[job.pool]
    BY <1>0, <1>1, <1>2 DEF NoteSettled, PendingInv, PendingType
  <1>8. /\ after' \in [PoolSet -> -1..head]
        /\ pending' \subseteq PoolSet
    BY <1>0, <1>1, <1>2
    DEF AnswerEnds, AnswerLands, AnswerMisses, Mark, Unseen, PendingInv, PendingType
  <1>9. seeded /\ fpc' \notin {"unwindPlan", "unwinding"}
    BY <1>0, <1>2 DEF PendingInv, NotSeeded, Quiet, AnswerEnds, AnswerLands, AnswerMisses
  <1>10. PendingType' /\ OnlyArmedMoves' /\ NotSeeded' /\ LandedLast' /\ UnwindView'
    BY <1>0, <1>2, <1>4, <1>7, <1>8, <1>9
    DEF PendingInv, PendingType, OnlyArmedMoves, NotSeeded, LandedLast, UnwindView
  <1>11. LagIsKnown'
    <2>1. ASSUME NEW p \in PoolSet \ adrift, prev.pos[p] # now.pos[p]
          PROVE  moved'[p] = head
      <3>1. \/ moved[p] = head
            \/ job.pool = p /\ job.fate = "landed" /\ job.at = head
        BY <1>0, <2>1 DEF PendingInv, LagIsKnown
      <3>2. CASE p # job.pool
        BY <1>7, <3>1, <3>2
      <3>3. CASE p = job.pool /\ job.fate = "landed"
        <4>1. job.at >= moved[p]
          BY <1>0, <2>1, <3>3 DEF PendingInv, LandedLast
        <4> QED
          BY <1>1, <1>2, <1>7, <3>1, <3>3, <4>1
      <3>4. CASE p = job.pool /\ job.fate # "landed"
        BY <1>7, <3>1, <3>4
      <3> QED
        BY <3>2, <3>3, <3>4
    <2> QED
      BY <1>4, <2>1 DEF LagIsKnown
  <1>12. CASE AnswerEnds
    <2>1. MarkKnows' /\ StaysPending'
      BY <1>12 DEF AnswerEnds, MarkKnows, StaysPending
    <2>2. UnseenIsPending' /\ Hushed'
      BY <1>3, <1>12 DEF AnswerEnds, UnseenIsPending, Hushed
    <2> QED
      BY <1>10, <1>11, <2>1, <2>2 DEF PendingInv
  <1>13. CASE AnswerLands(answer)
    <2>1. /\ after'[job.pool] = Mark(answer)
          /\ \A p \in PoolSet : p # job.pool => after'[p] = after[p]
      BY <1>0, <1>2, <1>13 DEF AnswerLands, PendingInv, PendingType
    <2>2. /\ answer = "Succeeded" \/ answer = "Unknown"
          /\ Mark(answer) = IF answer = "Succeeded" THEN job.at ELSE Unseen
      BY <1>13 DEF AnswerLands, Landed, Mark
    <2>3. MarkKnows'
      <3>1. ASSUME NEW p \in PoolSet \ adrift
            PROVE  /\ (\E g \in ghosts' : g.pool = p) => after'[p] = Unseen
                   /\ moved'[p] > 0 => \/ after'[p] = Unseen
                                       \/ after'[p] >= moved'[p]
                                       \/ after'[p] = NoMark /\ p \notin pending' /\ seeded
        <4>1. CASE p = job.pool
          BY <1>2, <1>3, <1>5, <1>6, <1>7, <2>1, <2>2, <4>1
        <4>2. CASE p # job.pool
          <5>1. ~\E g \in ghosts' : g.pool = p
            BY <1>3, <1>6, <4>2
          <5>2. p \in pending' <=> p \in pending
            BY <1>13, <4>2 DEF AnswerLands
          <5>3. moved[p] > 0 => \/ after[p] = Unseen
                                \/ after[p] >= moved[p]
                                \/ after[p] = NoMark /\ p \notin pending /\ seeded
            BY <1>0, <1>2, <3>1 DEF PendingInv, MarkKnows, Quiet
          <5> QED
            BY <1>7, <2>1, <4>2, <5>1, <5>2, <5>3
        <4> QED
          BY <4>1, <4>2
      <3> QED
        BY <1>4, <3>1 DEF MarkKnows
    <2>4. UnseenIsPending'
      BY <1>3, <1>13, <2>1 DEF AnswerLands, UnseenIsPending
    <2>5. Hushed'
      BY <1>2, <1>3, <1>5, <1>13, <2>1, <2>2 DEF AnswerLands, Hushed, Unseen
    <2>6. StaysPending'
      BY <1>0, <1>2, <1>4, <1>13 DEF AnswerLands, PendingInv, StaysPending, Quiet
    <2> QED
      BY <1>10, <1>11, <2>3, <2>4, <2>5, <2>6 DEF PendingInv
  <1>14. CASE AnswerMisses(answer)
    <2>1. job.fate # "landed" /\ answer # "Unknown" /\ UNCHANGED <<pending, after>>
      BY <1>5, <1>14 DEF AnswerMisses, Landed
    <2>2. ghosts' \subseteq ghosts /\ \A p \in PoolSet : moved'[p] = moved[p]
      BY <1>6, <1>7, <2>1
    <2>3. MarkKnows' /\ UnseenIsPending' /\ Hushed'
      BY <1>0, <1>2, <1>3, <1>4, <2>1, <2>2
      DEF PendingInv, MarkKnows, UnseenIsPending, Hushed, Quiet
    <2>4. StaysPending'
      BY <1>0, <1>2, <1>4, <2>1 DEF PendingInv, StaysPending, Quiet
    <2> QED
      BY <1>10, <1>11, <2>3, <2>4 DEF PendingInv
  <1> QED
    BY <1>12, <1>13, <1>14

LEMMA RestartMarks ==
  ASSUME IInv, Restart
  PROVE  PendingInv'
  <1>0. PendingInv /\ ChainType /\ JobLocals /\ JobType
    BY TypeParts DEF IInv, PendingInv
  <1>1. /\ UNCHANGED <<mode, head, now, prev>> /\ job' = NoJob
        /\ ghosts' = ghosts \cup {j \in {job} : Busy /\ j.fate = "floating"}
        /\ pending' = {} /\ seeded' = FALSE /\ after' = FreshState.after /\ fpc' = "idle"
        /\ moved' = FreshState.none
    BY DEF Restart, chain
  <1>2. adrift' = adrift
          \cup {p \in PoolSet : \/ moved[p] = head
                                \/ \E g \in ghosts' : g.pool = p
                                \/ Busy /\ job.fate = "landed" /\ job.pool = p /\ job.at = head}
    BY DEF Restart
  <1>3. /\ ~Busy' /\ head \in Nat /\ head >= 1
        /\ \A p \in PoolSet : after'[p] = NoMark /\ moved'[p] = 0
    BY <1>0, <1>1 DEF Busy, NoJob, FreshState, ChainType
  <1>4. PendingType'
    <2>1. FreshState.after \in [PoolSet -> -1..head] /\ FreshState.none \in [PoolSet -> 0..head]
      BY <1>3 DEF FreshState, NoMark
    <2>2. adrift' \subseteq PoolSet
      BY <1>0, <1>2 DEF PendingInv, PendingType
    <2> QED
      BY <1>1, <2>1, <2>2 DEF PendingType
  <1>5. OnlyArmedMoves'
    BY <1>0, <1>1, <1>3 DEF PendingInv, OnlyArmedMoves, JobLocals
  <1>6. MarkKnows'
    BY <1>2, <1>3 DEF MarkKnows
  <1>7. UnseenIsPending' /\ NotSeeded' /\ Hushed' /\ LandedLast' /\ UnwindView' /\ StaysPending'
    BY <1>1, <1>3 DEF UnseenIsPending, NotSeeded, Hushed, LandedLast, UnwindView, StaysPending,
                      NoMark, Unseen, FreshState
  <1>8. LagIsKnown'
    BY <1>0, <1>1, <1>2 DEF PendingInv, LagIsKnown
  <1> QED
    BY <1>4, <1>5, <1>6, <1>7, <1>8 DEF PendingInv

LEMMA PendingStep ==
  ASSUME IInv, Next
  PROVE  PendingInv'
  <1>0. PendingInv /\ ChainType /\ JobLocals /\ JobType
    BY TypeParts DEF IInv, PendingInv
  <1>a. fpc # "idle" => seeded
    BY <1>0 DEF PendingInv, NotSeeded
  <1>b. fpc \notin {"fill", "unwinding"} => ~Busy
    BY <1>0 DEF JobLocals
  <1>1. CASE CloseLedger
    BY <1>1, CloseLedgerMarks
  <1>2. CASE (\E b \in Borrowers : TrackRow(b)) \/ RequestShutdown
    <2>1. /\ UNCHANGED <<mode, job, ghosts, head, now, prev, pending, seeded, after, moved, adrift,
                         leftovers, unheard, fpc, idx, view>>
          /\ shutdown => shutdown'
      BY <1>2 DEF TrackRow, RequestShutdown, execution, chain, unwinds, told, landings, walk,
                  process
    <2>2. UnwindView'
      BY <1>0, <2>1 DEF PendingInv, UnwindView, Holds
    <2> QED
      BY <2>1, <2>2, MarksStand
  <1>3. CASE BeginTick
    BY <1>3, BeginTickMarks
  <1>4. CASE EndWalk \/ ReadEntries \/ TakeSnapshot
    <2>1. /\ UNCHANGED <<mode, job, ghosts, head, now, prev, pending, seeded, after, moved, adrift,
                         leftovers, unheard, shutdown>>
          /\ fpc \in {"pool", "snapshot"}
          /\ fpc' \in {"unwind", "snapshot", "auctions", "pool"}
          /\ shutdown /\ fpc = "pool" => fpc' = "unwind"
      BY <1>4 DEF EndWalk, ReadEntries, TakeSnapshot, NextPool, execution, chain, unwinds,
                  told, landings, process
    <2>2. UnwindView'
      BY <2>1 DEF UnwindView
    <2> QED
      BY <1>a, <2>1, <2>2, MarksStand DEF Quiet
  <1>5. CASE WalkAuctions
    <2>1. /\ UNCHANGED <<mode, ghosts, head, now, prev, pending, seeded, after, moved, adrift,
                         leftovers, unheard, shutdown>>
          /\ fpc = "auctions" /\ fpc' \in {"pool", "auctions", "fill"}
          /\ \/ UNCHANGED job
             \/ \E pool, who, percent, spend : Send("fill", pool, who, percent, spend, view)
      BY <1>5 DEF WalkAuctions, NextPool, Done, PlanFill, Execute, RunFill, Replan, chain,
                  unwinds, told, landings, process
    <2>2. UNCHANGED job \/ (Busy' /\ job'.fate = "floating")
      BY <2>1 DEF Send, Busy
    <2>3. UnwindView'
      BY <2>1 DEF UnwindView
    <2> QED
      BY <1>a, <1>b, <2>1, <2>2, <2>3, MarksStand DEF Quiet
  <1>6. CASE AnswerFill
    <2>1. /\ Busy /\ UNCHANGED <<head, now, prev, seeded, leftovers, unheard, shutdown>>
      BY <1>0, <1>6 DEF AnswerFill, JobLocals, chain, process
    <2>2. \E answer \in QueueAnswers(shutdown) :
             /\ Settled(answer) /\ NoteSettled(answer)
             /\ AnswerEnds \/ AnswerLands(answer) \/ AnswerMisses(answer)
      BY <1>6 DEF AnswerFill, AnswerEnds, AnswerLands, AnswerMisses, Landed, AfterFill, NextPool,
                  note_landed, Done, Replan
    <2> QED
      BY <2>1, <2>2, AnswerMarks
  <1>7. CASE AnswerUnwind
    <2>1. /\ Busy /\ UNCHANGED <<head, now, prev, seeded, leftovers, unheard, shutdown>> /\ job.pool \in pending
      BY <1>0, <1>7 DEF AnswerUnwind, JobLocals, chain, process, PendingInv, UnwindView
    <2>2. \E answer \in QueueAnswers(shutdown) :
             /\ Settled(answer) /\ NoteSettled(answer)
             /\ AnswerEnds \/ AnswerLands(answer) \/ AnswerMisses(answer)
      BY <1>7, <2>1 DEF AnswerUnwind, AnswerEnds, AnswerLands, AnswerMisses, NextUnwind
    <2> QED
      BY <2>1, <2>2, AnswerMarks
  <1>8. CASE UnwindPlanned
    <2>1. /\ UNCHANGED <<mode, ghosts, head, now, prev, seeded, moved, adrift, shutdown, after>>
          /\ UNCHANGED <<leftovers, unheard>> /\ fpc = "unwindPlan" /\ ~Busy
      BY <1>b, <1>8 DEF UnwindPlanned, UnwindSkip, ExecuteUnwind, RunUnwind, chain, landings,
                        process
    <2>2. \/ UNCHANGED <<job, pending>> /\ fpc' = "unwind"
          \/ mode # "armed" /\ UNCHANGED job /\ fpc' = "unwind" /\ pending' \subseteq pending
          \/ /\ \E spend : Send("unwind", Pools[idx], NoOne, Whole, spend, view)
             /\ fpc' = "unwinding" /\ UNCHANGED <<idx, view, pending>>
      BY <1>8 DEF UnwindPlanned, UnwindSkip, NextUnwind, ExecuteUnwind, RunUnwind, Cleared,
                  DryRun, walk
    <2>3. CASE UNCHANGED <<job, pending>> /\ fpc' = "unwind"
      <3>1. UnwindView'
        BY <2>3 DEF UnwindView
      <3> QED
        BY <1>a, <2>1, <2>3, <3>1, MarksStand DEF Quiet
    <2>4. CASE mode # "armed" /\ UNCHANGED job /\ fpc' = "unwind" /\ pending' \subseteq pending
      BY <1>a, <2>1, <2>4, UnarmedMarks
    <2>5. CASE /\ \E spend : Send("unwind", Pools[idx], NoOne, Whole, spend, view)
               /\ fpc' = "unwinding" /\ UNCHANGED <<idx, view, pending>>
      <3>1. Busy' /\ job'.fate = "floating" /\ job'.pool = Pools[idx] /\ job'.view = view
        BY <2>5 DEF Send, Busy
      <3>2. UnwindView'
        BY <1>0, <2>1, <2>5, <3>1 DEF PendingInv, UnwindView, Holds
      <3> QED
        BY <1>a, <2>1, <2>5, <3>1, <3>2, MarksStand DEF Quiet
    <2> QED
      BY <2>2, <2>3, <2>4, <2>5
  <1>9. CASE UnwindPasses
    <2>1. /\ UNCHANGED <<mode, job, ghosts, head, now, prev, seeded, moved, adrift, shutdown>>
          /\ fpc = "unwind" /\ ~Busy
      BY <1>b, <1>9 DEF UnwindPasses, UnwindPool, UnwindSkip, chain, landings, process
    <2>2. CASE /\ fpc' = "idle" /\ ~HasKey
               /\ pending' = {} /\ after' = FreshState.after
      BY <1>a, <2>1, <2>2, UnarmedMarks DEF HasKey
    <2>3. CASE UNCHANGED <<pending, after, leftovers, unheard>> /\ fpc' \in {"idle", "unwind"}
      <3>1. UnwindView'
        BY <2>3 DEF UnwindView
      <3> QED
        BY <1>a, <2>1, <2>3, <3>1, MarksStand DEF Quiet
    <2>4. CASE /\ idx <= Len(Pools) /\ Pools[idx] \in pending /\ ~shutdown
               /\ \E v \in Views : /\ Holds(Pools[idx], v.at)
                                   /\ view' = v.at /\ fpc' = "unwindPlan"
               /\ UNCHANGED <<pending, after, leftovers, unheard, idx>>
      <3>1. UnwindView'
        BY <2>4 DEF UnwindView, Holds
      <3> QED
        BY <1>a, <2>1, <2>4, <3>1, MarksStand DEF Quiet
    <2>5. CASE /\ idx <= Len(Pools) /\ Pools[idx] \in pending
               /\ \E v \in Views :
                     /\ Holds(Pools[idx], v.at)
                     /\ v.chain.pos[Pools[idx]] \in {"move", "debt"} =>
                           /\ v.chain.pos[Pools[idx]] = "debt"
                           /\ Pools[idx] \in leftovers' \cup unheard'
               /\ \A q \in PoolSet : q # Pools[idx] /\ q \in leftovers \cup unheard =>
                                        q \in leftovers' \cup unheard'
               /\ pending' = pending \ {Pools[idx]}
               /\ UNCHANGED after \/ after' = [after EXCEPT ![Pools[idx]] = NoMark]
               /\ fpc' = "unwind"
      <3>1. Pools[idx] \in PoolSet
        BY <2>5, PoolAt
      <3> QED
        BY <2>1, <2>5, <3>1, ClearedMarks
    <2> QED
      BY <1>9, <2>2, <2>3, <2>4, <2>5
      DEF UnwindPasses, UnwindPool, UnwindSkip, NextUnwind, Cleared, note_idle
  <1>10. CASE Restart
    BY <1>10, RestartMarks
  <1> QED
    BY <1>1, <1>2, <1>3, <1>4, <1>5, <1>6, <1>7, <1>8, <1>9, <1>10 DEF Next, Tick

\* From the read of a pool's snapshot to the answer of a fill planned on it
\* nothing of this run lands in the pool.
LEMMA FreshStep ==
  ASSUME IInv, Next
  PROVE  FreshSnapshot'
  <1>0. /\ PendingInv /\ ChainType /\ WalkType /\ JobLocals /\ JobType /\ FreshSnapshot
        /\ head \in Nat
    BY TypeParts DEF IInv, PendingInv, ChainType
  <1>a. fpc \in {"snapshot", "auctions", "fill"} => Pools[idx] \in PoolSet
    BY PoolAt DEF InPool
  <1>1. CASE UNCHANGED <<fpc, idx, taken, moved, adrift>>
    BY <1>0, <1>1 DEF FreshSnapshot
  <1>2. CASE fpc' \notin {"auctions", "fill"}
    BY <1>2 DEF FreshSnapshot
  <1>3. CASE CloseLedger
    <2>1. UNCHANGED <<fpc, idx, taken, adrift>>
      BY <1>3 DEF CloseLedger, walk
    <2>2. \/ UNCHANGED moved
          \/ \E g \in ghosts : moved' = [moved EXCEPT ![g.pool] = head + 1]
      BY <1>3 DEF CloseLedger
    <2>3. ASSUME fpc \in {"auctions", "fill"}, Pools[idx] \notin adrift
          PROVE  moved'[Pools[idx]] = moved[Pools[idx]]
      <3>1. \A g \in ghosts : g.pool # Pools[idx]
        BY <1>0, <1>a, <2>3, NoGhostHere DEF Quiet
      <3>2. moved \in [PoolSet -> 0..head]
        BY <1>0 DEF PendingInv, PendingType
      <3> QED
        BY <1>a, <2>2, <2>3, <3>1, <3>2
    <2> QED
      BY <1>0, <2>1, <2>3 DEF FreshSnapshot
  <1>4. CASE TakeSnapshot
    <2>1. UNCHANGED moved /\ fpc = "snapshot"
      BY <1>4 DEF TakeSnapshot, landings
    <2>2. CASE fpc' = "auctions" /\ taken' = head /\ UNCHANGED idx
      BY <1>0, <1>a, <2>1, <2>2, PendingNumbers DEF FreshSnapshot, PendingInv
    <2> QED
      BY <1>2, <1>4, <2>2 DEF TakeSnapshot, NextPool
  <1>5. CASE WalkAuctions
    <2>1. UNCHANGED <<moved, adrift>> /\ fpc = "auctions"
      BY <1>5 DEF WalkAuctions, landings
    <2>2. UNCHANGED <<idx, taken>> \/ fpc' = "pool"
      BY <1>5 DEF WalkAuctions, NextPool, Done, PlanFill, Execute, RunFill, Replan, walk
    <2> QED
      BY <1>0, <1>2, <2>1, <2>2 DEF FreshSnapshot
  <1>6. CASE AnswerFill
    <2>1. PICK answer \in QueueAnswers(shutdown) :
            /\ NoteSettled(answer)
            /\ \/ fpc' \in {"dead", "pool"}
               \/ answer \in {"Failed", "Expired", "Dropped", "Refused", "Stale", "Replan"}
                  /\ UNCHANGED <<idx, taken>>
      BY <1>6 DEF AnswerFill, AfterFill, NextPool, Done, Replan
    <2>2. fpc = "fill" /\ Busy
      BY <1>0, <1>6 DEF AnswerFill, JobLocals
    <2>3. CASE /\ answer \in {"Failed", "Expired", "Dropped", "Refused", "Stale", "Replan"}
               /\ UNCHANGED <<idx, taken>>
      <3>1. job.fate # "landed"
        BY <1>0, <2>2, <2>3, JobShape DEF QueueAnswers
      <3>2. UNCHANGED <<moved, adrift>>
        BY <2>1, <3>1 DEF NoteSettled
      <3> QED
        BY <1>0, <2>2, <2>3, <3>2 DEF FreshSnapshot
    <2> QED
      BY <1>2, <2>1, <2>3
  <1>7. CASE BeginTick \/ EndWalk \/ ReadEntries \/ UnwindPasses \/ UnwindPlanned \/ AnswerUnwind
             \/ Restart
    <2>1. fpc' \notin {"auctions", "fill"}
      BY <1>7 DEF BeginTick, EndWalk, ReadEntries, UnwindPasses, UnwindPool, UnwindSkip,
                  NextUnwind, UnwindPlanned, ExecuteUnwind, RunUnwind, AnswerUnwind, Restart
    <2> QED
      BY <1>2, <2>1
  <1>8. CASE RequestShutdown \/ \E b \in Borrowers : TrackRow(b)
    BY <1>1, <1>8 DEF RequestShutdown, TrackRow, walk, landings
  <1> QED
    BY <1>3, <1>4, <1>5, <1>6, <1>7, <1>8 DEF Next, Tick

----------------------------------------------------------------------------
(* The invariant, and what it says.                                        *)

LEMMA InitIInv == Init => IInv
  <1> SUFFICES ASSUME Init PROVE IInv
    OBVIOUS
  <1>1. /\ balances = Nothing /\ reserved = Nothing /\ everRead = FALSE /\ claim = Nothing
        /\ lastRead = Nothing /\ exposed = Nothing
        /\ mode \in Modes /\ job = NoJob /\ ghosts = {}
    BY Sets DEF Init, InventoryInit
  <1>2. ~Busy
    BY <1>1 DEF Busy, NoJob
  <1>3. PICK held \in [PoolSet -> HeldAtFirst],
             open \in [Borrowers -> {NoAuction, [start |-> 1, part |-> 0]}] :
             now = [auction |-> open, pos |-> held, wallet |-> Wallet]
    BY DEF Init
  <1>4. /\ head = 1 /\ prev = now /\ row = open /\ now.auction = open /\ now.pos = held
        /\ prev.auction = open /\ prev.pos = held
    BY <1>3 DEF Init
  <1>5. \A b \in Borrowers :
           /\ open[b] \in Version
           /\ open[b].start <= 1 /\ open[b].start >= 0 /\ open[b].part = 0
           /\ open[b].start = 0 => open[b] = NoAuction
           /\ open[b] # NoAuction => open[b].start = 1
    <2>1. NoAuction \in Version /\ [start |-> 1, part |-> 0] \in Version
      BY FillerAssumption DEF FillerAssumption, NoAuction, Version
    <2>2. NoAuction.start = 0 /\ NoAuction.part = 0
      BY DEF NoAuction
    <2> QED
      BY <2>1, <2>2
  <1>6. WalletType /\ PaidFor
    <2>1. Nothing \in Amounts /\ \A a \in Assets : Nothing[a] = 0
      BY DEF Nothing, Amounts
    <2> QED
      BY <1>1, <1>2, <2>1 DEF WalletType, PaidFor
  <1>7. ChainType /\ ChainBound /\ RowIsBehind
    <2>1. open \in [Borrowers -> Version]
      BY <1>5
    <2>2. now \in Chain
      BY <1>3, <2>1, Sets DEF Chain
    <2>3. ChainType
      BY <1>4, <2>1, <2>2, FillerAssumption DEF FillerAssumption, ChainType
    <2>4. ChainBound
      BY <1>4, <1>5 DEF ChainBound
    <2>5. RowIsBehind
      <3>1. \A b \in Borrowers : open[b].start >= open[b].start
        BY <1>5, VersionShape
      <3> QED
        BY <1>4, <1>5, <3>1 DEF RowIsBehind
    <2> QED
      BY <2>3, <2>4, <2>5
  <1>8. JobType /\ UnwindsFillNone
    BY <1>1, <1>2 DEF JobType, UnwindsFillNone
  <1>9. /\ fpc = "idle" /\ idx = 1 /\ view = 0 /\ taken = 0 /\ cur = NoOne /\ cap = Whole
        /\ live = {} /\ recorded = {} /\ dryRows = {} /\ twice = FALSE
        /\ pending = {} /\ seeded = FALSE /\ leftovers = {} /\ adrift = {}
        /\ setback = FreshState.setback /\ after = FreshState.after
        /\ moved = FreshState.none /\ alerts = FreshState.none /\ notices = FreshState.none
        /\ tick = 0 /\ execute = FALSE /\ stale = FALSE /\ known = {} /\ covered = {}
        /\ shutdown = FALSE /\ faults = 0 /\ unheard = {}
    BY DEF Init
  <1>10. WalkType /\ JobLocals /\ FreshSnapshot
    BY <1>2, <1>4, <1>9, PoolsShape, Numbers DEF WalkType, JobLocals, FreshSnapshot, InPool
  <1>11. RecordType /\ RecordsKnown /\ RecordedOnce
    BY <1>9 DEF RecordType, RecordsKnown, RecordedOnce
  <1>12. ToldType /\ Told
    BY <1>9, Numbers DEF ToldType, Told, FreshState, NoSetback
  <1>13. TaskType
    <2>1. FlagType
      BY <1>1, <1>9, Zenon DEF FlagType
    <2>2. CountType /\ AssetType
      BY <1>4, <1>9, Numbers DEF CountType, AssetType
    <2> QED
      BY <2>1, <2>2, TaskParts
  <1>14. PendingType
    <2>1. FreshState.after \in [PoolSet -> -1..1] /\ FreshState.none \in [PoolSet -> 0..1]
      BY DEF FreshState, NoMark
    <2> QED
      BY <1>4, <1>9, <2>1 DEF PendingType
  <1>15. \A p \in PoolSet : after[p] = NoMark /\ moved[p] = 0
    BY <1>9 DEF FreshState
  <1>16. /\ OnlyArmedMoves /\ MarkKnows /\ UnseenIsPending /\ NotSeeded /\ Hushed /\ LandedLast
         /\ UnwindView /\ LagIsKnown /\ StaysPending
    BY <1>1, <1>2, <1>4, <1>9, <1>15
    DEF OnlyArmedMoves, MarkKnows, UnseenIsPending, NotSeeded, Hushed, LandedLast, UnwindView,
        LagIsKnown, StaysPending, NoMark, Unseen
  <1> QED
    BY <1>6, <1>7, <1>8, <1>10, <1>11, <1>12, <1>13, <1>14, <1>16, TypeParts DEF IInv

LEMMA NextIInv ==
  ASSUME IInv, Next
  PROVE  IInv'
  <1>1. TypeOK'
    BY WalletStep, ControlStep, ChainStep, RecordStep, ToldStep, FlagStep, CountStep, AssetStep,
       PendingStep, TaskPartsNext, TypePartsNext DEF PendingInv
  <1> QED
    BY <1>1, WalletStep, ControlStep, UnwindsStep, ChainStep, RecordStep, ToldStep, PendingStep,
       FreshStep
    DEF IInv, PendingInv

LEMMA StutterIInv ==
  ASSUME IInv, UNCHANGED vars
  PROVE  IInv'
  <1>0. UNCHANGED <<balances, reserved, everRead, claim, mode, job, ghosts, head, now, prev, row,
                    tick, execute, recorded, stale, known, covered, pending, seeded, leftovers,
                    setback, after, fpc, idx, live, view, taken, cur, cap, shutdown, faults,
                    lastRead, exposed, moved, adrift, dryRows, twice, alerts, notices, unheard>>
    BY DEF vars, inventory, execution
  <1>1. TypeOK'
    BY <1>0 DEF IInv, TypeOK, ExecutorTypeOK, InventoryTypeOK
  <1>2. (Busy' <=> Busy) /\ \A p \in PoolSet : \A l : Holds(p, l)' <=> Holds(p, l)
    BY <1>0 DEF Busy, Holds
  <1>3. JobLocals' /\ UnwindsFillNone' /\ ChainBound' /\ PaidFor' /\ FreshSnapshot'
    BY <1>0, <1>2
    DEF IInv, JobLocals, UnwindsFillNone, ChainBound, PaidFor, FreshSnapshot
  <1>4. OnlyArmedMoves' /\ MarkKnows' /\ UnseenIsPending' /\ NotSeeded' /\ Hushed'
    BY <1>0 DEF IInv, OnlyArmedMoves, MarkKnows, UnseenIsPending, NotSeeded, Hushed
  <1>5. LandedLast' /\ UnwindView' /\ LagIsKnown' /\ StaysPending'
    BY <1>0, <1>2 DEF IInv, LandedLast, UnwindView, LagIsKnown, StaysPending, Holds
  <1>6. RowIsBehind' /\ RecordsKnown' /\ RecordedOnce' /\ Told'
    BY <1>0 DEF IInv, RowIsBehind, RecordsKnown, RecordedOnce, Told
  <1> QED
    BY <1>1, <1>3, <1>4, <1>5, <1>6 DEF IInv

\* Every step of the tick, the chain, the tracker and the process keeps the
\* invariant.
THEOREM Invariance == Spec => []IInv
  <1>1. IInv /\ [Next]_vars => IInv'
    BY NextIInv, StutterIInv
  <1> QED
    BY <1>1, InitIInv, PTL DEF Spec

\* The filler's memory, its wallet, the rows and the submissions it waits for
\* keep their types: amounts never go below zero, and no walk leaves its pools.
THEOREM TypeCorrect == Spec => []TypeOK
  BY Invariance, PTL DEF IInv

\* Whatever is sent was covered, with the fee reserve, by the balances last
\* read, however answers, shutdowns and restarts interleave (enqueue, settle).
THEOREM NeverOverspends == Spec => []SpendsWhatItRead
  <1>1. IInv => SpendsWhatItRead
    BY TypeParts, WalletHolds DEF IInv
  <1> QED
    BY <1>1, Invariance, PTL

\* A reservation is consumed or released exactly once, on every way out of an
\* execution (Reservation).
THEOREM SettledOnce == Spec => []ReservedIsClaimed
  <1>1. IInv => ReservedIsClaimed
    BY TypeParts, WalletHolds DEF IInv
  <1> QED
    BY <1>1, Invariance, PTL

\* From the read of a pool's snapshot to the answer of a fill planned on it
\* nothing else of this run lands in the pool or may still land, and no unwind is
\* sent from a snapshot that lacks a submission of this run (tick_pool,
\* unwind_pool).
THEOREM PlansOnFresh == Spec => []ActsOnFresh
  <1>1. ASSUME IInv PROVE OneFillPerSnapshot
    <2>1. PendingInv /\ FreshSnapshot /\ (fpc \in {"auctions", "fill"} => Pools[idx] \in PoolSet)
      BY <1>1, TypeParts, PoolAt DEF IInv, PendingInv, InPool
    <2>2. fpc \in {"auctions", "fill"} /\ Pools[idx] \notin adrift =>
            \A g \in ghosts : g.pool # Pools[idx]
      BY <2>1, NoGhostHere DEF Quiet
    <2> QED
      BY <2>1, <2>2 DEF FreshSnapshot, OneFillPerSnapshot
  <1>2. ASSUME IInv PROVE UnwindSeesSubmissions
    <2>1. JobType /\ JobLocals /\ PendingInv /\ ChainType
      BY <1>2, TypeParts DEF IInv, PendingInv
    <2>2. ASSUME Busy, job.kind = "unwind", job.pool \notin adrift
          PROVE  job.view >= moved[job.pool] /\ \A g \in ghosts : g.pool # job.pool
      <3>1. /\ job.pool \in PoolSet /\ job.view \in Nat /\ fpc = "unwinding"
            /\ Holds(job.pool, job.view) /\ job.pool \in pending
        BY <2>1, <2>2, JobShape DEF JobLocals, PendingInv, UnwindView
      <3>2. after[job.pool] \in Int /\ moved[job.pool] \in Nat
        BY <2>1, <3>1, PendingNumbers DEF PendingInv
      <3>3. after[job.pool] # Unseen
        BY <3>1 DEF Holds, NoMark, Unseen
      <3>4. /\ \A g \in ghosts : g.pool # job.pool
            /\ moved[job.pool] > 0 => after[job.pool] >= moved[job.pool]
        BY <2>1, <2>2, <3>1, <3>3 DEF PendingInv, MarkKnows
      <3> QED
        BY <3>1, <3>2, <3>4 DEF Holds, NoMark
    <2> QED
      BY <2>2 DEF UnwindSeesSubmissions
  <1> QED
    BY <1>1, <1>2, Invariance, PTL DEF ActsOnFresh

\* A position with something to withdraw or to repay stays pending, but where an
\* earlier process's submission landed too late to be seen; debt is given up only
\* with a notice, sent or dropped (unwind_pending, the startup seed, note_idle).
THEOREM NothingStranded == Spec => []StaysPending
  BY Invariance, PTL DEF IInv

\* One record of a dry run's fill, one alert of a run of setbacks, one notice
\* of what is left over (recorded_dry_run, note_setback, leftovers_notified).
THEOREM NothingRepeated == Spec => []SaysOnce
  <1>1. IInv => SaysOnce
    BY DEF IInv, Told, SaysOnce, ToldOnce
  <1> QED
    BY <1>1, Invariance, PTL
============================================================================
