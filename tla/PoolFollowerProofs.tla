------------------------- MODULE PoolFollowerProofs -------------------------
(***************************************************************************)
(* Theorems about PoolFollower, for any accounts, any room in the channel, *)
(* any retention and cadence, and any number of ledgers and restarts.      *)
(*                                                                         *)
(* AppliedOrOwed is about what was declared done, and is not inductive: a  *)
(* ledger becomes done when its tick is acknowledged, so what the pass has *)
(* read so far must be accounted for all the way.  It is in a row, in the  *)
(* tracker's hands, in the channel before the tick, poisoned, or behind a  *)
(* gap that is queued before the tick too (PassCovers).  When the tick is  *)
(* handled nothing else is left in the channel, and what remains is in the *)
(* rows (AckedCovers).  GapCovers carries the one reseed of a gap over to  *)
(* the later passes that skip the same ledgers without reporting it again. *)
(***************************************************************************)
EXTENDS PoolFollower, TLAPS

Reflected(l) == l \in unreadable \/ \A a \in events[l] : Covered(a, l)

Excused == owed \/ lapses # {}

GapQueued == \E i \in 1..Len(channel) : channel[i].type = "gap"

EventQueued(a) ==
    \E i \in 1..Len(channel) : channel[i] = [type |-> "event", account |-> a]

\* What the events of a ledger named has reached its row, or is on its way.
InHand(l) ==
    \/ l \in unreadable
    \/ \A a \in events[l] : Covered(a, l) \/ a \in pending \/ EventQueued(a)

\* The pass waits for its tick exactly while the tick is in the channel, and
\* then it is the last message there.
TickIsLast ==
    /\ ppc # "ack" => ack = "none"
    /\ ack = "waiting" => /\ channel # <<>>
                          /\ channel[Len(channel)] = [type |-> "tick", ledger |-> target]
    /\ \A i \in 1..Len(channel) :
          channel[i].type = "tick" => ack = "waiting" /\ i = Len(channel)

\* A ledger's events name one account at most.
OneNamed == \A l \in 1..head : \A a, b \in events[l] : a = b

\* The poller and the tracker have done nothing before the process is running.
QuietBefore ==
    mode # "running" =>
        /\ ppc = "idle" /\ channel = <<>> /\ pending = {}
        /\ ~owed /\ published = 0 /\ gapTo = 0

SeedIsNewer == mode = "seeding" => \A a \in Accounts : row[a] <= seedHead

\* A gap's ledgers are made good by its reseed.
GapCovers == \A l \in 1..head : l < gapTo => Reflected(l) \/ GapQueued \/ Excused

\* What the pass has read, and what it did not have to read.
PassCovers ==
    ppc = "drain" \/ ack = "waiting" =>
        \A l \in 1..head : l < at => InHand(l) \/ unapplied \/ GapQueued \/ Excused

PastTarget == ack # "none" => target < at

AckedCovers == ack = "acked" => \A l \in 1..head : l <= target => Reflected(l) \/ Excused

\* AppliedOrOwed, ledger by ledger.
DoneCovers == \A l \in 1..head : l <= cursor \/ l <= published => Reflected(l) \/ Excused

IInv ==
    /\ TypeOK
    /\ TickIsLast
    /\ OneNamed
    /\ QuietBefore
    /\ SeedIsNewer
    /\ GapCovers
    /\ PassCovers
    /\ PastTarget
    /\ AckedCovers
    /\ DoneCovers

----------------------------------------------------------------------------
USE FollowerAssumption DEF FollowerAssumption, None

LEMMA InitEstablishes == Init => IInv
  <1> SUFFICES ASSUME Init PROVE IInv
    OBVIOUS
  <1>1. TypeOK
    <2>1. events \in [1..head -> SUBSET Accounts] /\ row \in [Accounts -> 0..head]
      BY DEF Init
    <2>2. channel \in Seq(Message) /\ Len(channel) <= ChannelCap
      BY DEF Init
    <2>3. /\ lapses \subseteq Lapses /\ pending \subseteq Accounts
          /\ unreadable \subseteq 1..head /\ unlisted \subseteq Accounts \X (1..head)
      BY DEF Init
    <2>4. /\ head \in 1..MaxLedger /\ cursor \in 0..head /\ seedHead \in 0..head
          /\ oldest \in 0..head /\ target \in 0..head /\ at \in 0..(head + 1)
          /\ gapAt \in 0..head /\ gapTo \in 0..head /\ lastScan \in 0..head
          /\ published \in 0..head /\ restarts \in 0..MaxRestarts
      BY DEF Init
    <2>5. /\ shutdown \in BOOLEAN /\ unapplied \in BOOLEAN /\ owed \in BOOLEAN
          /\ mode \in {"startup", "seeding", "running"}
          /\ ppc \in {"idle", "head", "drain", "ack"}
          /\ ack \in {"none", "waiting", "acked", "dropped"}
      BY DEF Init
    <2> QED
      BY <2>1, <2>2, <2>3, <2>4, <2>5 DEF TypeOK
  <1>2. TickIsLast /\ QuietBefore /\ SeedIsNewer /\ PastTarget /\ AckedCovers
    BY DEF Init, TickIsLast, QuietBefore, SeedIsNewer, PastTarget, AckedCovers
  <1>3. GapCovers /\ PassCovers /\ DoneCovers /\ OneNamed
    BY DEF Init, GapCovers, PassCovers, DoneCovers, OneNamed
  <1> QED
    BY <1>1, <1>2, <1>3 DEF IInv

----------------------------------------------------------------------------
(* Types.                                                                  *)

\* A tick is handled alone, at the ledger of the pass that waits for it.
LEMMA TickHandled ==
  ASSUME IInv, Receiving("tick")
  PROVE  /\ channel = <<[type |-> "tick", ledger |-> target]>>
         /\ Head(channel).ledger = target
         /\ channel' = <<>>
         /\ ack = "waiting" /\ ppc = "ack" /\ mode = "running"
  <1>1. Len(channel) \in Nat /\ Len(channel) >= 1 /\ Head(channel) = channel[1]
    BY DEF IInv, TypeOK, Receiving
  <1>2. ack = "waiting" /\ Len(channel) = 1
    <2>1. channel[1].type = "tick"
      BY <1>1 DEF Receiving
    <2>2. 1 \in 1..Len(channel)
      BY <1>1
    <2> QED
      BY <2>1, <2>2 DEF IInv, TickIsLast
  <1>3. channel = <<[type |-> "tick", ledger |-> target]>>
    BY <1>1, <1>2 DEF IInv, TickIsLast, TypeOK
  <1> QED
    BY <1>1, <1>2, <1>3 DEF IInv, TickIsLast, Receiving

LEMMA ReseedType ==
  ASSUME IInv, NEW base \in [Accounts -> 0..head], Reseed(base)
  PROVE  /\ row' \in [Accounts -> 0..head]
         /\ owed' \in BOOLEAN
         /\ lapses' \subseteq Lapses
         /\ unlisted' \subseteq Accounts \X (1..head)
  <1>1. PICK found \in SUBSET Accounts,
             outcome \in {"complete", "failed_sources", "stopped_early", "error"} :
          /\ row' = [a \in Accounts |-> IF a \in found THEN head ELSE base[a]]
          /\ owed' = (outcome \in {"failed_sources", "error"})
          /\ lapses' = lapses \cup {l \in {"stopped_early"} :
                                    outcome = l /\ found # Accounts}
          /\ unlisted' = unlisted \cup Overlooked(found, outcome, head)
    BY DEF Reseed
  <1>2. row' \in [Accounts -> 0..head]
    BY <1>1 DEF IInv, TypeOK
  <1>3. lapses' \subseteq Lapses
    BY <1>1 DEF IInv, TypeOK, Lapses
  <1>4. unlisted' \subseteq Accounts \X (1..head)
    BY <1>1 DEF IInv, TypeOK, Overlooked
  <1> QED
    BY <1>1, <1>2, <1>3, <1>4

LEMMA ApplyTickType ==
  ASSUME IInv, NEW ledger \in 0..head, ApplyTick(ledger)
  PROVE  /\ row' \in [Accounts -> 0..head]
         /\ owed' \in BOOLEAN
         /\ lapses' \subseteq Lapses
         /\ unlisted' \subseteq Accounts \X (1..head)
         /\ lastScan' \in 0..head
  <1>0. PICK stale \in Stale(ledger) :
          LET base == Refreshed(pending \cup stale)
          IN  Reseed(base) \/ (row' = base /\ UNCHANGED <<owed, lapses, unlisted>>)
    BY DEF ApplyTick
  <1> DEFINE base == Refreshed(pending \cup stale)
  <1>1. base \in [Accounts -> 0..head]
    BY DEF IInv, TypeOK, Refreshed
  <1>2. Reseed(base) \/ (row' = base /\ UNCHANGED <<owed, lapses, unlisted>>)
    BY <1>0
  <1>3. lastScan' \in 0..head
    BY DEF ApplyTick, IInv, TypeOK
  <1> QED
    BY <1>1, <1>2, <1>3, ReseedType DEF IInv, TypeOK

\* A message that finds room.
LEMMA SendType ==
  ASSUME TypeOK, NEW m \in Message, Len(channel) < ChannelCap
  PROVE  /\ Append(channel, m) \in Seq(Message)
         /\ Len(Append(channel, m)) <= ChannelCap
  BY DEF TypeOK

LEMMA EndPassType ==
  ASSUME IInv, EndPass, UNCHANGED <<chain, row, process, reported, channel, loop>>,
         cursor' \in 0..head
  PROVE  TypeOK'
  BY DEF EndPass, IInv, TypeOK, chain, process, reported, loop

\* The ledgers, as numbers.
LEMMA Ledgers ==
  ASSUME TypeOK
  PROVE  /\ head \in Nat /\ head \in 1..MaxLedger
         /\ cursor \in 0..head /\ published \in 0..head /\ target \in 0..head
         /\ seedHead \in 0..head
         /\ events \in [1..head -> SUBSET Accounts] /\ row \in [Accounts -> 0..head]
         /\ unreadable \subseteq 1..head /\ unlisted \subseteq Accounts \X (1..head)
  <1>1. /\ head \in 1..MaxLedger
        /\ cursor \in 0..head /\ published \in 0..head /\ target \in 0..head
        /\ seedHead \in 0..head
        /\ events \in [1..head -> SUBSET Accounts] /\ row \in [Accounts -> 0..head]
        /\ unreadable \subseteq 1..head /\ unlisted \subseteq Accounts \X (1..head)
    BY Zenon DEF TypeOK
  <1>2. head \in Nat
    BY <1>1
  <1> QED
    BY <1>1, <1>2

LEMMA TypeStep == IInv /\ [Next]_vars => TypeOK'
  <1> SUFFICES ASSUME IInv, [Next]_vars PROVE TypeOK'
    OBVIOUS
  <1>0. TypeOK
    BY DEF IInv
  <1>1. CASE CloseLedger
    <2>1. head' = head + 1 /\ head' \in 1..MaxLedger
      <3>1. head < MaxLedger /\ head' = head + 1
        BY <1>1 DEF CloseLedger
      <3>2. head \in Nat /\ head \in 1..MaxLedger
        BY <1>0, Ledgers
      <3> QED
        BY <3>1, <3>2
    <2>2. PICK named \in {{a} : a \in Accounts} \cup {{}} :
            events' = [l \in 1..(head + 1) |-> IF l = head + 1 THEN named ELSE events[l]]
      BY <1>1 DEF CloseLedger
    <2>3. named \in SUBSET Accounts
      OBVIOUS
    <2>4. events' \in [1..head' -> SUBSET Accounts]
      <3>1. head \in Nat /\ events \in [1..head -> SUBSET Accounts]
        BY <1>0 DEF TypeOK
      <3>2. \A l \in 1..(head + 1) : l = head + 1 \/ l \in 1..head
        BY <3>1
      <3>3. \A l \in 1..(head + 1) :
               (IF l = head + 1 THEN named ELSE events[l]) \in SUBSET Accounts
        BY <2>3, <3>1, <3>2
      <3> QED
        BY <2>1, <2>2, <3>3
    <2>5. row' \in [Accounts -> 0..head']
      <3>1. head \in Nat /\ row \in [Accounts -> 0..head]
        BY <1>0 DEF TypeOK
      <3>2. row' = row
        BY <1>1 DEF CloseLedger, store
      <3>3. 0..head \subseteq 0..head'
        BY <2>1, <3>1
      <3> QED
        BY <3>1, <3>2, <3>3
    <2>6. unreadable' \subseteq 1..head' /\ unlisted' \subseteq Accounts \X (1..head')
      <3>1. /\ head \in Nat /\ unreadable \subseteq 1..head
            /\ unlisted \subseteq Accounts \X (1..head)
        BY <1>0, Ledgers
      <3>2. unreadable' \in {unreadable, unreadable \cup {head + 1}} /\ unlisted' = unlisted
        BY <1>1 DEF CloseLedger, loop
      <3>3. 1..head \subseteq 1..head' /\ head + 1 \in 1..head'
        BY <2>1, <3>1
      <3> QED
        BY <3>1, <3>2, <3>3
    <2> QED
      BY <1>0, <1>1, <2>1, <2>4, <2>5, <2>6
         DEF CloseLedger, TypeOK, store, process, pass, reported, loop
  <1>2. CASE StartUp
    BY <1>0, <1>2 DEF StartUp, TypeOK, chain, store, pass, reported, loop
  <1>3. CASE StartUpSeed
    <2>1. PICK found \in SUBSET Accounts,
               outcome \in {"complete", "failed_sources", "stopped_early", "error"},
               read \in seedHead..head :
            /\ row' = [a \in Accounts |-> IF a \in found THEN read ELSE row[a]]
            /\ cursor' = IF outcome = "complete" THEN seedHead ELSE cursor
            /\ owed' = (outcome # "complete")
            /\ unlisted' = unlisted \cup Overlooked(found, outcome, seedHead)
      BY <1>3 DEF StartUpSeed
    <2>2. row' \in [Accounts -> 0..head] /\ cursor' \in 0..head /\ owed' \in BOOLEAN
      BY <1>0, <2>1 DEF TypeOK
    <2>3. unlisted' \subseteq Accounts \X (1..head)
      BY <1>0, <2>1, Ledgers DEF Overlooked
    <2> QED
      BY <1>0, <1>3, <2>2, <2>3 DEF StartUpSeed, TypeOK, chain, pass, reported
  <1>4. CASE PollHealth
    <2>1. OldestLedger \in 0..head
      BY <1>0 DEF OldestLedger, TypeOK
    <2> QED
      BY <1>0, <1>4, <2>1 DEF PollHealth, TypeOK, chain, store, process, reported, loop
  <1>5. CASE PollHead
    <2>1. /\ channel' \in Seq(Message) /\ Len(channel') <= ChannelCap
          /\ gapAt' \in 0..head /\ gapTo' \in 0..head
      <3>1. [type |-> "gap"] \in Message
        BY DEF Message
      <3>2. CASE UNCHANGED <<channel, reported>>
        BY <1>0, <3>2 DEF TypeOK, reported
      <3>3. CASE /\ Len(channel) < ChannelCap
                 /\ channel' = Append(channel, [type |-> "gap"])
                 /\ gapAt' = cursor /\ gapTo' = oldest
        BY <1>0, <3>1, <3>3, SendType DEF TypeOK
      <3> QED
        BY <1>5, <3>2, <3>3 DEF PollHead
    <2>2. /\ ppc' \in {"idle", "head", "drain", "ack"}
          /\ target' \in 0..head /\ at' \in 0..(head + 1) /\ oldest' \in 0..head
      BY <1>0, <1>5 DEF PollHead, TypeOK
    <2>3. lapses' \subseteq Lapses
      BY <1>0, <1>5 DEF PollHead, TypeOK, Lapses
    <2>4. UNCHANGED <<chain, store, process, ack, pending, unapplied, owed, lastScan, published,
                      unlisted>>
      BY <1>5 DEF PollHead
    <2> QED
      BY <1>0, <2>1, <2>2, <2>3, <2>4 DEF TypeOK, chain, store, process
  <1>6. CASE DrainLedger
    <2>1. at' \in 0..(head + 1)
      BY <1>0, <1>6 DEF DrainLedger, TypeOK
    <2>2. channel' \in Seq(Message) /\ Len(channel') <= ChannelCap
      <3>1. events[at] \subseteq Accounts
        BY <1>0, <1>6 DEF DrainLedger, TypeOK, OldestLedger
      <3> QED
        <4>1. CASE UNCHANGED channel
          BY <1>0, <4>1 DEF TypeOK
        <4>2. CASE \E a \in events[at] :
                     /\ Len(channel) < ChannelCap
                     /\ channel' = Append(channel, [type |-> "event", account |-> a])
          <5>1. PICK a \in Accounts :
                  /\ Len(channel) < ChannelCap
                  /\ channel' = Append(channel, [type |-> "event", account |-> a])
            BY <3>1, <4>2
          <5>2. [type |-> "event", account |-> a] \in Message
            BY DEF Message
          <5> QED
            BY <1>0, <5>1, <5>2, SendType
        <4> QED
          BY <1>6, <4>1, <4>2 DEF DrainLedger
    <2> QED
      BY <1>0, <1>6, <2>1, <2>2 DEF DrainLedger, TypeOK, chain, store, process, reported, loop
  <1>7. CASE SendTick
    <2>1. channel' \in Seq(Message) /\ Len(channel') <= ChannelCap
      BY <1>0, <1>7 DEF SendTick, TypeOK, Message
    <2> QED
      BY <1>0, <1>7, <2>1 DEF SendTick, TypeOK, chain, store, process, reported, loop
  <1>8. CASE PassFails \/ RangeGone \/ NotApplied
    <2>1. cursor' = cursor /\ UNCHANGED <<chain, row, process, reported, channel, loop>>
      BY <1>8 DEF PassFails, RangeGone, NotApplied, store
    <2> QED
      BY <1>0, <1>8, <2>1, EndPassType DEF PassFails, RangeGone, NotApplied, TypeOK
  <1>9. CASE CommitCursor
    BY <1>0, <1>9, EndPassType DEF CommitCursor, TypeOK
  <1>10. CASE HandleEvent
    <2>1. channel' \in Seq(Message) /\ Len(channel') <= ChannelCap
      BY <1>0, <1>10 DEF HandleEvent, Receiving, TypeOK
    <2>2. Head(channel).account \in Accounts
      <3>1. Head(channel) \in Message /\ Head(channel).type = "event"
        BY <1>0, <1>10 DEF HandleEvent, Receiving, TypeOK
      <3> QED
        BY <3>1 DEF Message
    <2>3. pending' \subseteq Accounts /\ unapplied' \in BOOLEAN
      BY <1>0, <1>10, <2>2 DEF HandleEvent, TypeOK
    <2> QED
      BY <1>0, <1>10, <2>1, <2>3
         DEF HandleEvent, TypeOK, chain, store, process, pass, reported
  <1>11. CASE HandleTick
    <2>1. Head(channel).ledger = target /\ channel' = <<>> /\ target \in 0..head
      BY <1>0, <1>11, TickHandled DEF HandleTick, TypeOK
    <2>2. /\ row' \in [Accounts -> 0..head] /\ owed' \in BOOLEAN
          /\ lapses' \subseteq Lapses /\ lastScan' \in 0..head
          /\ unlisted' \subseteq Accounts \X (1..head)
      BY <1>11, <2>1, ApplyTickType DEF HandleTick
    <2>3. /\ ack' \in {"none", "waiting", "acked", "dropped"}
          /\ published' \in 0..head /\ pending' = {} /\ unapplied' \in BOOLEAN
      BY <1>0, <1>11, <2>1 DEF HandleTick, TypeOK
    <2>4. channel' \in Seq(Message) /\ Len(channel') <= ChannelCap
      BY <2>1
    <2>5. UNCHANGED <<chain, cursor, process, pass, reported>>
      BY <1>11 DEF HandleTick
    <2> QED
      BY <1>0, <2>2, <2>3, <2>4, <2>5 DEF TypeOK, chain, process, pass, reported
  <1>12. CASE HandleTickFails
    <2>1. row' \in [Accounts -> 0..head]
      BY <1>0, <1>12 DEF HandleTickFails, Refreshed, TypeOK
    <2>2. channel' \in Seq(Message) /\ Len(channel') <= ChannelCap
      BY <1>0, <1>12 DEF HandleTickFails, Receiving, TypeOK
    <2> QED
      BY <1>0, <1>12, <2>1, <2>2 DEF HandleTickFails, TypeOK, chain, process, pass, reported
  <1>13. CASE HandleGap
    <2>1. /\ row' \in [Accounts -> 0..head] /\ owed' \in BOOLEAN /\ lapses' \subseteq Lapses
          /\ unlisted' \subseteq Accounts \X (1..head)
      BY <1>0, <1>13, ReseedType DEF HandleGap, TypeOK
    <2>2. channel' \in Seq(Message) /\ Len(channel') <= ChannelCap
      BY <1>0, <1>13 DEF HandleGap, Receiving, TypeOK
    <2> QED
      BY <1>0, <1>13, <2>1, <2>2 DEF HandleGap, TypeOK, chain, process, pass, reported
  <1>14. CASE RequestShutdown
    BY <1>0, <1>14 DEF RequestShutdown, TypeOK, chain, store, pass, reported, loop
  <1>15. CASE Restart
    <2>1. channel' \in Seq(Message) /\ Len(channel') <= ChannelCap
      BY <1>15 DEF Restart, Fresh
    <2>2. lapses' \subseteq Lapses
      BY <1>0, <1>15 DEF Restart, TypeOK, Lapses
    <2>3. restarts' \in 0..MaxRestarts
      BY <1>0, <1>15 DEF Restart, TypeOK
    <2>4. /\ seedHead' \in 0..head /\ oldest' \in 0..head /\ target' \in 0..head
          /\ at' \in 0..(head + 1) /\ gapAt' \in 0..head /\ gapTo' \in 0..head
          /\ lastScan' \in 0..head /\ published' \in 0..head
      BY <1>0, <1>15 DEF Restart, Fresh, TypeOK
    <2>5. /\ shutdown' \in BOOLEAN /\ unapplied' \in BOOLEAN /\ owed' \in BOOLEAN
          /\ mode' \in {"startup", "seeding", "running"}
          /\ ppc' \in {"idle", "head", "drain", "ack"}
          /\ ack' \in {"none", "waiting", "acked", "dropped"}
          /\ pending' \subseteq Accounts
      BY <1>15 DEF Restart, Fresh
    <2>6. UNCHANGED <<head, events, unreadable, cursor, row, unlisted>>
      BY <1>15 DEF Restart, chain, store
    <2> QED
      BY <1>0, <2>1, <2>2, <2>3, <2>4, <2>5, <2>6 DEF TypeOK
  <1>16. CASE UNCHANGED vars
    BY <1>0, <1>16 DEF vars, TypeOK
  <1> QED
    BY <1>1, <1>2, <1>3, <1>4, <1>5, <1>6, <1>7, <1>8, <1>9, <1>10, <1>11, <1>12, <1>13,
       <1>14, <1>15, <1>16 DEF Next, Poller, TrackerLoop

----------------------------------------------------------------------------
(* Rows are only ever read again, and an excuse ends only in a full seed.  *)

AllFresh ==
    \A l \in 1..head : \A a \in events[l] : row'[a] >= l \/ <<a, l>> \in unlisted'

LEMMA Reseeded ==
  ASSUME IInv, NEW base \in [Accounts -> 0..head], \A a \in Accounts : base[a] >= row[a],
         Reseed(base)
  PROVE  /\ AllFresh \/ Excused'
         /\ \A a \in Accounts : row'[a] >= base[a]
         /\ lapses \subseteq lapses'
         /\ unlisted \subseteq unlisted'
  <1>1. PICK found \in SUBSET Accounts,
             outcome \in {"complete", "failed_sources", "stopped_early", "error"} :
          /\ Seed(found, outcome)
          /\ row' = [a \in Accounts |-> IF a \in found THEN head ELSE base[a]]
          /\ owed' = (outcome \in {"failed_sources", "error"})
          /\ lapses' = lapses \cup {l \in {"stopped_early"} :
                                    outcome = l /\ found # Accounts}
          /\ unlisted' = unlisted \cup Overlooked(found, outcome, head)
    BY DEF Reseed
  <1>2. \A a \in Accounts : row'[a] >= base[a]
    BY <1>1 DEF IInv, TypeOK
  <1>3. CASE found = Accounts \/ outcome = "complete"
    <2>1. /\ head \in Nat /\ events \in [1..head -> SUBSET Accounts]
          /\ row \in [Accounts -> 0..head]
      BY Ledgers DEF IInv
    <2>2. ASSUME NEW l \in 1..head, NEW a \in events[l]
          PROVE  row'[a] >= l \/ <<a, l>> \in unlisted'
      <3>1. a \in Accounts
        BY <2>1
      <3>2. CASE a \in found
        BY <1>1, <2>1, <3>1, <3>2
      <3>3. CASE a \notin found /\ row[a] < l
        <4>1. outcome = "complete"
          BY <1>3, <3>1, <3>3
        <4>2. <<a, l>> \in Overlooked(found, outcome, head)
          BY <3>1, <3>3, <4>1 DEF Overlooked
        <4> QED
          BY <1>1, <4>2
      <3>4. CASE a \notin found /\ ~(row[a] < l)
        BY <1>1, <2>1, <3>1, <3>4
      <3> QED
        BY <3>2, <3>3, <3>4
    <2> QED
      BY <1>1, <1>2, <2>2 DEF AllFresh
  <1>4. CASE found # Accounts /\ outcome # "complete"
    <2>2. CASE outcome \in {"failed_sources", "error"}
      BY <1>1, <1>2, <2>2 DEF Excused
    <2>3. CASE outcome = "stopped_early"
      <3>1. "stopped_early" \in lapses'
        BY <1>1, <1>4, <2>3
      <3> QED
        BY <1>1, <1>2, <3>1 DEF Excused
    <2> QED
      BY <1>4, <2>2, <2>3
  <1> QED
    BY <1>3, <1>4

LEMMA TickApplied ==
  ASSUME IInv, NEW ledger \in 0..head, ApplyTick(ledger)
  PROVE  /\ \A a \in Accounts : row'[a] >= row[a]
         /\ \A a \in pending : row'[a] = head
         /\ Excused => AllFresh \/ Excused'
         /\ lapses \subseteq lapses'
         /\ unlisted \subseteq unlisted'
  <1>0. PICK stale \in Stale(ledger) :
          LET base == Refreshed(pending \cup stale)
          IN  Reseed(base) \/ (row' = base /\ UNCHANGED <<owed, lapses, unlisted>>)
    BY DEF ApplyTick
  <1> DEFINE base == Refreshed(pending \cup stale)
  <1>1. /\ base \in [Accounts -> 0..head]
        /\ \A a \in Accounts : base[a] >= row[a]
        /\ \A a \in pending : base[a] = head
    BY DEF IInv, TypeOK, Refreshed
  <1>a. Reseed(base) \/ (row' = base /\ UNCHANGED <<owed, lapses, unlisted>>)
    BY <1>0
  <1> HIDE DEF base
  <1>2. CASE Reseed(base)
    <2>1. /\ AllFresh \/ Excused'
          /\ \A a \in Accounts : row'[a] >= base[a]
          /\ lapses \subseteq lapses' /\ unlisted \subseteq unlisted'
      BY <1>1, <1>2, Reseeded
    <2>2. row' \in [Accounts -> 0..head] /\ row \in [Accounts -> 0..head] /\ head \in Nat
      BY <1>1, <1>2, ReseedType DEF IInv, TypeOK
    <2>3. \A a \in Accounts : row'[a] >= row[a]
      BY <1>1, <2>1, <2>2
    <2>4. \A a \in pending : row'[a] = head
      <3>1. pending \subseteq Accounts
        BY DEF IInv, TypeOK
      <3> QED
        BY <1>1, <2>1, <2>2, <3>1
    <2> QED
      BY <2>1, <2>3, <2>4
  <1>3. CASE row' = base /\ UNCHANGED <<owed, lapses, unlisted>>
    BY <1>1, <1>3 DEF Excused
  <1> QED
    BY <1>a, <1>2, <1>3

\* What a step does to the rows, the events and the excuses.
LEMMA Onward ==
  ASSUME IInv, [Next]_vars
  PROVE  /\ head' \in {head, head + 1}
         /\ \A l \in 1..head : events'[l] = events[l]
         /\ unreadable \subseteq unreadable' /\ unlisted \subseteq unlisted'
         /\ \A a \in Accounts : row'[a] >= row[a]
         /\ Excused => AllFresh \/ Excused'
  <1>0. TypeOK /\ head \in Nat /\ row \in [Accounts -> 0..head]
    BY DEF IInv, TypeOK
  <1>1. CASE CloseLedger
    <2>1. /\ head' = head + 1 /\ row' = row /\ owed' = owed /\ lapses' = lapses
          /\ unlisted' = unlisted /\ unreadable \subseteq unreadable'
      BY <1>1 DEF CloseLedger, store, loop
    <2>2. PICK named :
            events' = [l \in 1..(head + 1) |-> IF l = head + 1 THEN named ELSE events[l]]
      BY <1>1 DEF CloseLedger
    <2>3. \A l \in 1..head : l \in 1..(head + 1) /\ l # head + 1
      BY <1>0
    <2> QED
      BY <1>0, <2>1, <2>2, <2>3 DEF Excused
  <1>2. CASE StartUpSeed
    <2>1. PICK found \in SUBSET Accounts, read \in seedHead..head :
            row' = [a \in Accounts |-> IF a \in found THEN read ELSE row[a]]
      BY <1>2 DEF StartUpSeed
    <2>2. /\ \A a \in Accounts : row[a] <= seedHead
          /\ ~owed /\ seedHead \in Nat
      BY <1>2 DEF StartUpSeed, IInv, SeedIsNewer, QuietBefore, TypeOK
    <2>3. \A a \in Accounts : row'[a] >= row[a]
      BY <1>0, <2>1, <2>2
    <2>4. unlisted \subseteq unlisted'
      BY <1>2 DEF StartUpSeed
    <2> QED
      BY <1>2, <2>2, <2>3, <2>4 DEF StartUpSeed, chain, Excused
  <1>3. CASE PollHead
    <2>1. lapses \subseteq lapses'
      BY <1>3 DEF PollHead
    <2> QED
      BY <1>0, <1>3, <2>1 DEF PollHead, chain, store, Excused
  <1>4. CASE HandleTick
    <2>1. Head(channel).ledger \in 0..head
      BY <1>0, <1>4, TickHandled DEF HandleTick, TypeOK
    <2> QED
      BY <1>4, <2>1, TickApplied DEF HandleTick, chain
  <1>5. CASE HandleTickFails
    <2>1. \A a \in Accounts : row'[a] >= row[a]
      BY <1>0, <1>5 DEF HandleTickFails, Refreshed
    <2> QED
      BY <1>5, <2>1 DEF HandleTickFails, chain, Excused
  <1>6. CASE HandleGap
    <2>1. \A a \in Accounts : row[a] >= row[a]
      BY <1>0
    <2> QED
      BY <1>0, <1>6, <2>1, Reseeded DEF HandleGap, chain
  <1>7. CASE Restart
    <2>1. lapses \subseteq lapses' /\ (owed => lapses' # {})
      BY <1>7 DEF Restart
    <2> QED
      BY <1>0, <1>7, <2>1 DEF Restart, chain, store, Excused
  <1>8. CASE /\ UNCHANGED <<chain, owed, lapses, unlisted>>
             /\ row' = row
    BY <1>0, <1>8 DEF chain, Excused
  <1>9. \/ StartUp \/ PollHealth \/ DrainLedger \/ SendTick \/ RangeGone \/ CommitCursor
        \/ NotApplied \/ PassFails \/ HandleEvent \/ RequestShutdown \/ UNCHANGED vars
        => UNCHANGED <<chain, owed, lapses, unlisted>> /\ row' = row
    BY DEF StartUp, PollHealth, DrainLedger, SendTick, RangeGone, CommitCursor, NotApplied,
           PassFails, HandleEvent, RequestShutdown, vars, chain, store, loop
  <1> QED
    BY <1>1, <1>2, <1>3, <1>4, <1>5, <1>6, <1>7, <1>8, <1>9 DEF Next, Poller, TrackerLoop

\* What is reflected or excused stays so.
LEMMA StaysGood ==
  ASSUME IInv, [Next]_vars, NEW l \in 1..head, Reflected(l) \/ Excused
  PROVE  Reflected(l)' \/ Excused'
  <1>1. /\ events'[l] = events[l] /\ events[l] \subseteq Accounts /\ l <= head
        /\ head \in Nat /\ row \in [Accounts -> 0..head] /\ l \in Nat
    <2>1. TypeOK
      BY DEF IInv
    <2>2. head \in Nat /\ events \in [1..head -> SUBSET Accounts] /\ row \in [Accounts -> 0..head]
      BY <2>1, Ledgers
    <2>3. events'[l] = events[l]
      BY Onward
    <2> QED
      BY <2>2, <2>3
  <1>2. \A a \in Accounts : row'[a] \in Int /\ row'[a] >= row[a]
    BY Onward, TypeStep DEF TypeOK
  <1>a. unreadable \subseteq unreadable' /\ unlisted \subseteq unlisted'
    BY Onward
  <1>3. CASE Reflected(l)
    <2>1. ASSUME NEW a \in events[l], Covered(a, l) PROVE Covered(a, l)'
      BY <1>1, <1>2, <1>a, <2>1 DEF Covered
    <2> QED
      BY <1>1, <1>3, <1>a, <2>1 DEF Reflected
  <1>4. CASE Excused
    <2>1. AllFresh \/ Excused'
      BY <1>4, Onward
    <2> QED
      BY <1>1, <2>1 DEF AllFresh, Reflected, Covered
  <1> QED
    BY <1>3, <1>4

----------------------------------------------------------------------------
(* The shape of a pass and of the channel.                                 *)

Shape == TickIsLast /\ QuietBefore /\ SeedIsNewer /\ PastTarget

\* A message that is no tick is sent while no tick waits.
LEMMA SendShape ==
  ASSUME IInv, ppc # "ack", ppc' # "ack", ack' = ack, UNCHANGED mode,
         NEW m, m.type # "tick", channel' = Append(channel, m)
  PROVE  TickIsLast'
  <1>1. ack = "none" /\ channel \in Seq(Message)
    BY DEF IInv, TickIsLast, TypeOK
  <1>2. Len(channel') = Len(channel) + 1 /\ Len(channel) \in Nat
    BY <1>1
  <1>3. ASSUME NEW i \in 1..Len(channel') PROVE channel'[i].type # "tick"
    <2>1. CASE i = Len(channel) + 1
      BY <1>1, <2>1
    <2>2. CASE i \in 1..Len(channel)
      BY <1>1, <2>2 DEF IInv, TickIsLast
    <2> QED
      BY <1>2, <2>1, <2>2
  <1> QED
    BY <1>1, <1>3 DEF TickIsLast

\* A message that is no tick is taken from the front.
LEMMA TakeShape ==
  ASSUME IInv, channel # <<>>, Head(channel).type # "tick", channel' = Tail(channel),
         UNCHANGED <<ack, ppc, target>>
  PROVE  TickIsLast'
  <1>1. channel \in Seq(Message) /\ Len(channel) \in Nat \ {0} /\ Head(channel) = channel[1]
    BY DEF IInv, TypeOK
  <1>2. Len(channel') = Len(channel) - 1
    BY <1>1
  <1>3. \A i \in 1..Len(channel') : channel'[i] = channel[i + 1] /\ i + 1 \in 1..Len(channel)
    BY <1>1, <1>2
  <1>4. ack = "waiting" => Len(channel) >= 2
    BY <1>1 DEF IInv, TickIsLast
  <1>5. ack = "waiting" => /\ channel' # <<>>
                           /\ channel'[Len(channel')] = channel[Len(channel)]
    <2> SUFFICES ASSUME ack = "waiting"
                 PROVE  channel' # <<>> /\ channel'[Len(channel')] = channel[Len(channel)]
      OBVIOUS
    <2>1. Len(channel') \in 1..Len(channel')
      BY <1>1, <1>2, <1>4
    <2>2. channel'[Len(channel')] = channel[Len(channel') + 1]
      BY <1>3, <2>1
    <2>3. Len(channel') + 1 = Len(channel)
      BY <1>1, <1>2
    <2>4. channel' # <<>>
      <3>1. Len(channel') # 0
        BY <1>1, <1>2, <1>4
      <3> QED
        BY <3>1
    <2> QED
      BY <2>2, <2>3, <2>4
  <1>6. \A i \in 1..Len(channel') :
           channel'[i].type = "tick" => ack = "waiting" /\ i = Len(channel')
    <2> SUFFICES ASSUME NEW i \in 1..Len(channel'), channel'[i].type = "tick"
                 PROVE  ack = "waiting" /\ i = Len(channel')
      OBVIOUS
    <2>1. channel[i + 1].type = "tick" /\ i + 1 \in 1..Len(channel)
      BY <1>3
    <2>2. ack = "waiting" /\ i + 1 = Len(channel)
      BY <2>1 DEF IInv, TickIsLast
    <2>3. i \in Int
      OBVIOUS
    <2>4. i = Len(channel) - 1
      BY <2>2, <2>3
    <2> QED
      BY <1>2, <2>2, <2>4
  <1> QED
    BY <1>5, <1>6 DEF IInv, TickIsLast

LEMMA ShapeStep == IInv /\ [Next]_vars => Shape'
  <1> SUFFICES ASSUME IInv, [Next]_vars PROVE Shape'
    OBVIOUS
  <1>0. Shape /\ TypeOK
    BY DEF IInv, Shape
  <1>1. CASE CloseLedger \/ RequestShutdown \/ UNCHANGED vars
    BY <1>0, <1>1 DEF CloseLedger, RequestShutdown, vars, Shape, TickIsLast, QuietBefore,
                      SeedIsNewer, PastTarget, store, process, pass, reported, loop
  <1>2. CASE StartUp
    <2>1. \A a \in Accounts : row[a] <= head
      BY <1>0 DEF TypeOK
    <2> QED
      BY <1>0, <1>2, <2>1 DEF StartUp, Shape, TickIsLast, QuietBefore,
                              SeedIsNewer, PastTarget, chain, store, pass, reported, loop
  <1>3. CASE StartUpSeed
    BY <1>0, <1>3 DEF StartUpSeed, Shape, TickIsLast, QuietBefore, SeedIsNewer,
                      PastTarget, chain, pass, reported
  <1>4. CASE PollHealth
    BY <1>0, <1>4 DEF PollHealth, Shape, TickIsLast, QuietBefore, SeedIsNewer,
                      PastTarget, store, process, reported, loop
  <1>5. CASE PollHead
    <2>1. ppc = "head" /\ ppc' # "ack" /\ ack' = ack /\ UNCHANGED <<mode, seedHead, row>>
      BY <1>5 DEF PollHead, process, store
    <2>2. mode = "running" /\ ack = "none"
      BY <1>0, <2>1 DEF Shape, QuietBefore, TickIsLast, TypeOK
    <2>3. CASE UNCHANGED channel
      BY <1>0, <2>1, <2>2, <2>3 DEF Shape, TickIsLast, QuietBefore, SeedIsNewer, PastTarget
    <2>4. CASE channel' = Append(channel, [type |-> "gap"])
      <3>1. TickIsLast'
        BY <2>1, <2>4, SendShape
      <3> QED
        BY <2>1, <2>2, <3>1 DEF Shape, QuietBefore, SeedIsNewer, PastTarget
    <2> QED
      BY <1>5, <2>3, <2>4 DEF PollHead
  <1>6. CASE DrainLedger
    <2>1. /\ ppc = "drain" /\ ppc' = ppc /\ ack' = ack
          /\ UNCHANGED <<mode, seedHead, row>>
      BY <1>6 DEF DrainLedger, process, store
    <2>2. mode = "running" /\ ack = "none"
      BY <1>0, <2>1 DEF Shape, QuietBefore, TickIsLast, TypeOK
    <2>3. CASE UNCHANGED channel
      BY <1>0, <2>1, <2>2, <2>3 DEF Shape, TickIsLast, QuietBefore, SeedIsNewer, PastTarget
    <2>4. CASE \E a : channel' = Append(channel, [type |-> "event", account |-> a])
      <3>1. TickIsLast'
        BY <2>1, <2>4, SendShape
      <3> QED
        BY <2>1, <2>2, <3>1 DEF Shape, QuietBefore, SeedIsNewer, PastTarget
    <2> QED
      BY <1>6, <2>3, <2>4 DEF DrainLedger
  <1>7. CASE SendTick
    <2>1. /\ ppc = "drain" /\ ppc' = "ack" /\ ack' = "waiting" /\ at > head
          /\ channel' = Append(channel, [type |-> "tick", ledger |-> target])
          /\ UNCHANGED <<mode, seedHead, row, target, at>>
      BY <1>7 DEF SendTick, process, store
    <2>2. mode = "running" /\ ack = "none" /\ channel \in Seq(Message)
      BY <1>0, <2>1 DEF Shape, QuietBefore, TickIsLast, TypeOK
    <2>3. Len(channel) \in Nat /\ Len(channel') = Len(channel) + 1
      BY <2>1, <2>2
    <2>4. channel'[Len(channel')] = [type |-> "tick", ledger |-> target] /\ channel' # <<>>
      BY <2>1, <2>2, <2>3
    <2>5. \A i \in 1..Len(channel') : channel'[i].type = "tick" => i = Len(channel')
      <3> SUFFICES ASSUME NEW i \in 1..Len(channel) PROVE channel'[i].type # "tick"
        BY <2>3
      <3>1. channel'[i] = channel[i]
        BY <2>1, <2>2
      <3> QED
        BY <1>0, <2>2, <3>1 DEF Shape, TickIsLast
    <2>6. target < at
      BY <1>0, <2>1 DEF TypeOK
    <2> QED
      BY <2>1, <2>2, <2>4, <2>5, <2>6 DEF Shape, TickIsLast, QuietBefore, SeedIsNewer, PastTarget
  <1>8. CASE PassFails \/ RangeGone \/ NotApplied \/ CommitCursor
    <2>1. /\ EndPass /\ UNCHANGED <<mode, seedHead, row, channel, pending, owed, published, gapTo>>
          /\ ppc # "idle" /\ ack # "waiting"
      BY <1>0, <1>8 DEF PassFails, RangeGone, NotApplied, CommitCursor, store, process, loop,
                        reported, Shape, TickIsLast
    <2> QED
      BY <1>0, <2>1 DEF EndPass, Shape, TickIsLast, QuietBefore, SeedIsNewer, PastTarget
  <1>9. CASE HandleEvent \/ HandleGap
    <2>1. /\ mode = "running" /\ channel # <<>> /\ Head(channel).type # "tick"
          /\ channel' = Tail(channel) /\ UNCHANGED <<ack, ppc, target, at, mode>>
      BY <1>9 DEF HandleEvent, HandleGap, Receiving, pass, process
    <2>2. TickIsLast'
      BY <2>1, TakeShape
    <2> QED
      BY <1>0, <2>1, <2>2 DEF Shape, QuietBefore, SeedIsNewer, PastTarget
  <1>10. CASE HandleTick \/ HandleTickFails
    <2>1. channel' = <<>> /\ ppc = "ack" /\ ack = "waiting" /\ mode = "running"
      BY <1>10, TickHandled DEF HandleTick, HandleTickFails
    <2>2. ack' \in {"acked", "dropped"} /\ UNCHANGED <<ppc, target, at, mode>>
      BY <1>10 DEF HandleTick, HandleTickFails, pass, process
    <2> QED
      BY <1>0, <2>1, <2>2 DEF Shape, TickIsLast, QuietBefore, SeedIsNewer, PastTarget
  <1>11. CASE Restart
    BY <1>11 DEF Restart, Fresh, Shape, TickIsLast, QuietBefore, SeedIsNewer, PastTarget
  <1> QED
    BY <1>1, <1>2, <1>3, <1>4, <1>5, <1>6, <1>7, <1>8, <1>9, <1>10, <1>11
       DEF Next, Poller, TrackerLoop

----------------------------------------------------------------------------
(* What was read, and what was declared done.                              *)

\* What is in hand stays so, or the range is poisoned, until the tick.
LEMMA StaysInHand ==
  ASSUME IInv, [Next]_vars, ~HandleTick, ~HandleTickFails, ~Restart,
         NEW l \in 1..head, InHand(l)
  PROVE  InHand(l)' \/ unapplied'
  <1>1. /\ events'[l] = events[l] /\ events[l] \subseteq Accounts /\ l \in Nat
        /\ head \in Nat /\ row \in [Accounts -> 0..head]
    BY Onward DEF IInv, TypeOK
  <1>2. \A a \in Accounts : row'[a] \in Int /\ row'[a] >= row[a]
    BY Onward, TypeStep DEF TypeOK
  <1>3. channel \in Seq(Message) /\ Len(channel) \in Nat
    BY DEF IInv, TypeOK
  <1>a. unreadable \subseteq unreadable' /\ unlisted \subseteq unlisted'
    BY Onward
  <1>b. ASSUME NEW a \in events[l], Covered(a, l) PROVE Covered(a, l)'
    BY <1>1, <1>2, <1>a, <1>b DEF Covered
  <1>4. CASE pending \subseteq pending' /\ \A a : EventQueued(a) => EventQueued(a)'
    BY <1>1, <1>4, <1>a, <1>b DEF InHand
  <1>5. CASE \E m : channel' = Append(channel, m) /\ pending' = pending
    <2>1. Len(channel') = Len(channel) + 1
          /\ \A i \in 1..Len(channel) : channel'[i] = channel[i]
      BY <1>3, <1>5
    <2>2. \A a : EventQueued(a) => EventQueued(a)'
      BY <1>3, <2>1 DEF EventQueued
    <2> QED
      BY <1>4, <1>5, <2>2
  <1>6. CASE HandleEvent \/ HandleGap
    <2>1. channel # <<>> /\ channel' = Tail(channel) /\ Head(channel) = channel[1]
      BY <1>3, <1>6 DEF HandleEvent, HandleGap, Receiving
    <2>2. /\ Len(channel') = Len(channel) - 1
          /\ \A i \in 2..Len(channel) : channel'[i - 1] = channel[i] /\ i - 1 \in 1..Len(channel')
      BY <1>3, <2>1
    <2>3. \A a : EventQueued(a) =>
             EventQueued(a)' \/ channel[1] = [type |-> "event", account |-> a]
      <3> SUFFICES ASSUME NEW a, NEW i \in 1..Len(channel),
                          channel[i] = [type |-> "event", account |-> a], i # 1
                   PROVE  EventQueued(a)'
        BY DEF EventQueued
      <3>1. i \in 2..Len(channel)
        BY <1>3
      <3> QED
        BY <2>2, <3>1 DEF EventQueued
    <2>4. CASE HandleGap
      <3>1. pending' = pending /\ channel[1].type = "gap"
        BY <2>1, <2>4 DEF HandleGap, Receiving
      <3>a. ASSUME NEW a PROVE channel[1] # [type |-> "event", account |-> a]
        BY <3>1
      <3>2. \A a : EventQueued(a) => EventQueued(a)'
        BY <2>3, <3>a
      <3> QED
        BY <1>4, <3>1, <3>2
    <2>5. CASE HandleEvent
      <3>1. unapplied' \/ pending' = pending \cup {channel[1].account}
        BY <2>1, <2>5 DEF HandleEvent
      <3>2. \A a : channel[1] = [type |-> "event", account |-> a] => channel[1].account = a
        OBVIOUS
      <3> QED
        <4> SUFFICES ASSUME NEW a \in events[l], ~unapplied', l \notin unreadable
                     PROVE  Covered(a, l)' \/ a \in pending' \/ EventQueued(a)'
          BY <1>1, <1>a DEF InHand
        <4>2. CASE Covered(a, l)
          BY <1>b, <4>2
        <4>3. CASE a \in pending
          BY <3>1, <4>3
        <4>4. CASE EventQueued(a)
          BY <2>3, <3>1, <3>2, <4>4
        <4> QED
          BY <4>2, <4>3, <4>4 DEF InHand
    <2> QED
      BY <1>6, <2>4, <2>5
  <1>7. CASE UNCHANGED <<channel, pending>>
    BY <1>4, <1>7 DEF EventQueued
  <1>8. \/ CloseLedger \/ StartUp \/ StartUpSeed \/ PollHealth \/ RangeGone \/ CommitCursor
        \/ NotApplied \/ PassFails \/ RequestShutdown \/ UNCHANGED vars
        => UNCHANGED <<channel, pending>>
    BY DEF CloseLedger, StartUp, StartUpSeed, PollHealth, RangeGone, CommitCursor, NotApplied,
           PassFails, RequestShutdown, vars, loop
  <1>9. PollHead \/ DrainLedger \/ SendTick
        => \/ \E m : channel' = Append(channel, m) /\ pending' = pending
           \/ UNCHANGED <<channel, pending>>
    BY DEF PollHead, DrainLedger, SendTick, loop
  <1> QED
    BY <1>5, <1>6, <1>7, <1>8, <1>9 DEF Next, Poller, TrackerLoop

\* A queued gap ends in its reseed.
LEMMA StaysQueued ==
  ASSUME IInv, [Next]_vars, ~Restart, GapQueued
  PROVE  GapQueued' \/ AllFresh \/ Excused'
  <1>1. channel \in Seq(Message) /\ Len(channel) \in Nat
    BY DEF IInv, TypeOK
  <1>2. PICK i \in 1..Len(channel) : channel[i].type = "gap"
    BY DEF GapQueued
  <1>3. CASE HandleGap
    <2>1. row \in [Accounts -> 0..head] /\ \A a \in Accounts : row[a] >= row[a]
      BY DEF IInv, TypeOK
    <2> QED
      BY <1>3, <2>1, Reseeded DEF HandleGap
  <1>4. CASE HandleEvent
    <2>1. channel # <<>> /\ channel' = Tail(channel) /\ channel[1].type = "event"
      BY <1>1, <1>4 DEF HandleEvent, Receiving
    <2>2. Len(channel') = Len(channel) - 1 /\ i # 1
      BY <1>1, <1>2, <2>1
    <2>3. i - 1 \in 1..Len(channel') /\ channel'[i - 1] = channel[i]
      BY <1>1, <2>1, <2>2
    <2> QED
      BY <1>2, <2>3 DEF GapQueued
  <1>5. CASE HandleTick \/ HandleTickFails
    <2>1. channel = <<[type |-> "tick", ledger |-> target]>>
      BY <1>5, TickHandled DEF HandleTick, HandleTickFails
    <2> QED
      BY <1>2, <2>1
  <1>6. CASE \E m : channel' = Append(channel, m)
    <2>1. i \in 1..Len(channel') /\ channel'[i] = channel[i]
      BY <1>1, <1>6
    <2> QED
      BY <1>2, <2>1 DEF GapQueued
  <1>7. CASE UNCHANGED channel
    BY <1>7 DEF GapQueued
  <1>8. \/ CloseLedger \/ StartUp \/ StartUpSeed \/ PollHealth \/ RangeGone \/ CommitCursor
        \/ NotApplied \/ PassFails \/ RequestShutdown \/ UNCHANGED vars
        => UNCHANGED channel
    BY DEF CloseLedger, StartUp, StartUpSeed, PollHealth, RangeGone, CommitCursor, NotApplied,
           PassFails, RequestShutdown, vars
  <1>9. PollHead \/ DrainLedger \/ SendTick
        => (\E m : channel' = Append(channel, m)) \/ UNCHANGED channel
    BY DEF PollHead, DrainLedger, SendTick
  <1> QED
    BY <1>3, <1>4, <1>5, <1>6, <1>7, <1>8, <1>9 DEF Next, Poller, TrackerLoop

\* Rows that a complete seed has read reflect every closed ledger.
LEMMA FreshReflects ==
  ASSUME IInv, [Next]_vars, AllFresh, NEW l \in 1..head
  PROVE  Reflected(l)'
  <1>1. events'[l] = events[l]
    BY Onward
  <1>2. events[l] \subseteq Accounts /\ l \in Nat /\ l <= head /\ head \in Nat
    BY DEF IInv, TypeOK
  <1> QED
    BY <1>1, <1>2 DEF AllFresh, Reflected, Covered

LEMMA GapStep == IInv /\ [Next]_vars => GapCovers'
  <1> SUFFICES ASSUME IInv, [Next]_vars, NEW l \in 1..head', l < gapTo'
               PROVE  Reflected(l)' \/ GapQueued' \/ Excused'
    BY DEF GapCovers
  <1>1. head \in Nat /\ gapTo \in 0..head /\ oldest \in 0..head /\ cursor \in 0..head
    BY DEF IInv, TypeOK
  <1>2. CASE gapTo' = gapTo /\ ~Restart
    <2>1. l \in 1..head /\ l < gapTo
      BY <1>1, <1>2
    <2>2. Reflected(l) \/ GapQueued \/ Excused
      BY <2>1 DEF IInv, GapCovers
    <2> QED
      BY <1>2, <2>1, <2>2, StaysGood, StaysQueued, FreshReflects
  <1>3. CASE Restart
    <2>1. gapTo' = 0
      BY <1>3 DEF Restart, Fresh
    <2> QED
      BY <2>1
  <1>4. CASE PollHead /\ gapTo' # gapTo
    <2>1. channel' = Append(channel, [type |-> "gap"])
      BY <1>4 DEF PollHead, reported
    <2>2. channel \in Seq(Message)
      BY DEF IInv, TypeOK
    <2>3. Len(channel') \in 1..Len(channel') /\ channel'[Len(channel')] = [type |-> "gap"]
      BY <2>1, <2>2
    <2> QED
      BY <2>3 DEF GapQueued
  <1>5. ~PollHead /\ ~Restart => gapTo' = gapTo
    BY DEF Next, Poller, TrackerLoop, CloseLedger, StartUp, StartUpSeed, PollHealth, DrainLedger,
           SendTick, RangeGone, CommitCursor, NotApplied, PassFails, HandleEvent, HandleTick,
           HandleTickFails, HandleGap, RequestShutdown, vars, reported
  <1>6. PollHead => ~Restart
    BY DEF PollHead, Restart, Fresh, process, IInv, TypeOK
  <1> QED
    BY <1>2, <1>3, <1>4, <1>5

\* The ledgers before the one a pass starts from.
LEMMA PassStarts ==
  ASSUME IInv, [Next]_vars, PollHead, ppc' = "drain", NEW l \in 1..head, l < at'
  PROVE  Reflected(l)' \/ GapQueued' \/ Excused'
  <1>0. /\ head \in Nat /\ cursor \in 0..head /\ oldest \in 0..head /\ gapTo \in 0..head
        /\ l \in Nat /\ channel \in Seq(Message)
    BY DEF IInv, TypeOK
  <1> DEFINE start == IF cursor = None THEN head ELSE cursor + 1
             gap == cursor # None /\ start < oldest
             from == IF gap THEN oldest ELSE start
  <1>1. at' = from
    BY DEF PollHead
  <1>2. CASE cursor = None
    <2>1. CASE owed
      BY <1>0, <2>1, StaysGood DEF Excused
    <2>2. CASE ~owed
      <3>1. "unanchored" \in lapses'
        BY <1>2, <2>2 DEF PollHead
      <3> QED
        BY <3>1 DEF Excused
    <2> QED
      BY <2>1, <2>2
  <1>3. CASE cursor # None /\ ~gap
    <2>1. l <= cursor
      BY <1>0, <1>1, <1>3
    <2>2. Reflected(l) \/ Excused
      BY <2>1 DEF IInv, DoneCovers
    <2> QED
      BY <2>2, StaysGood
  <1>4. CASE gap /\ gapAt # cursor
    <2>1. channel' = Append(channel, [type |-> "gap"])
      BY <1>4 DEF PollHead
    <2>2. Len(channel') \in 1..Len(channel') /\ channel'[Len(channel')] = [type |-> "gap"]
      BY <1>0, <2>1
    <2> QED
      BY <2>2 DEF GapQueued
  <1>5. CASE gap /\ gapAt = cursor /\ oldest > gapTo
    <2>1. "wider_gap" \in lapses'
      BY <1>5 DEF PollHead
    <2> QED
      BY <2>1 DEF Excused
  <1>6. CASE gap /\ gapAt = cursor /\ oldest <= gapTo
    <2>1. l < gapTo
      BY <1>0, <1>1, <1>6
    <2>2. Reflected(l) \/ GapQueued \/ Excused
      BY <2>1 DEF IInv, GapCovers
    <2>3. ~Restart
      <3>1. mode = "running" /\ mode' = mode
        BY DEF PollHead, process, IInv, QuietBefore
      <3> QED
        BY <3>1 DEF Restart, Fresh
    <2> QED
      BY <2>2, <2>3, StaysGood, StaysQueued, FreshReflects
  <1> QED
    BY <1>0, <1>2, <1>3, <1>4, <1>5, <1>6

\* A ledger whose events were sent is in hand.
LEMMA DrainInHand ==
  ASSUME IInv, DrainLedger, NEW l, l = at
  PROVE  InHand(l)'
  <1>1. at \in 1..head
    BY DEF DrainLedger, OldestLedger, IInv, TypeOK
  <1>2. UNCHANGED <<events, unreadable, row, pending>> /\ channel \in Seq(Message)
    BY DEF DrainLedger, chain, store, loop, IInv, TypeOK
  <1>3. CASE events[at] = {} \/ at \in unreadable
    BY <1>2, <1>3 DEF InHand
  <1>4. CASE \E a \in events[at] : channel' = Append(channel, [type |-> "event", account |-> a])
    <2>1. PICK a \in events[at] : channel' = Append(channel, [type |-> "event", account |-> a])
      BY <1>4
    <2>2. /\ Len(channel') \in 1..Len(channel')
          /\ channel'[Len(channel')] = [type |-> "event", account |-> a]
      BY <1>2, <2>1
    <2>3. EventQueued(a)'
      BY <2>2 DEF EventQueued
    <2>4. \A b \in events[at] : b = a
      BY <1>1 DEF IInv, OneNamed
    <2> QED
      BY <1>2, <2>3, <2>4 DEF InHand
  <1> QED
    BY <1>3, <1>4 DEF DrainLedger

LEMMA PassStep == IInv /\ [Next]_vars => PassCovers'
  <1> SUFFICES ASSUME IInv, [Next]_vars, ppc' = "drain" \/ ack' = "waiting",
                      NEW l \in 1..head', l < at'
               PROVE  InHand(l)' \/ unapplied' \/ GapQueued' \/ Excused'
    BY DEF PassCovers
  <1>a. head' \in Nat
    BY TypeStep DEF TypeOK
  <1>0. /\ head \in Nat /\ at \in 0..(head + 1) /\ l \in Nat
        /\ unapplied \in BOOLEAN /\ (ppc # "ack" => ack = "none")
    BY <1>a DEF IInv, TypeOK, TickIsLast
  <1>1. Reflected(l)' => InHand(l)'
    BY DEF Reflected, InHand
  <1>2. ASSUME ~HandleTick, ~HandleTickFails, ~Restart, l \in 1..head, l < at,
               ppc = "drain" \/ ack = "waiting", unapplied => unapplied'
        PROVE  InHand(l)' \/ unapplied' \/ GapQueued' \/ Excused'
    <2>1. InHand(l) \/ unapplied \/ GapQueued \/ Excused
      BY <1>2 DEF IInv, PassCovers
    <2>2. CASE InHand(l)
      BY <1>2, <2>2, StaysInHand
    <2>3. CASE unapplied
      BY <1>2, <2>3
    <2>4. CASE GapQueued
      BY <1>1, <1>2, <2>4, StaysQueued, FreshReflects
    <2>5. CASE Excused
      BY <1>1, <1>2, <2>5, StaysGood
    <2> QED
      BY <2>1, <2>2, <2>3, <2>4, <2>5
  <1>3. CASE HandleTick \/ HandleTickFails \/ Restart
    <2>1. CASE HandleTick \/ HandleTickFails
      <3>1. ppc' = "ack" /\ ack' # "waiting"
        BY <2>1, TickHandled DEF HandleTick, HandleTickFails, pass
      <3> QED
        BY <3>1
    <2>2. CASE Restart
      BY <2>2 DEF Restart, Fresh
    <2> QED
      BY <1>3, <2>1, <2>2
  <1> USE <1>0
  <1>4. CASE PollHead
    <2>1. ppc' = "drain" /\ head' = head
      BY <1>4 DEF PollHead, chain
    <2> QED
      BY <1>1, <1>4, <2>1, PassStarts
  <1>5. CASE DrainLedger
    <2>1. /\ ppc = "drain" /\ head' = head /\ at' = at + 1 /\ unapplied' = unapplied
          /\ ppc' = "drain"
      BY <1>5 DEF DrainLedger, chain, loop
    <2>2. CASE l = at
      BY <1>5, <2>2, DrainInHand
    <2>3. CASE l < at
      BY <1>2, <1>3, <2>1, <2>3
    <2> QED
      BY <2>1, <2>2, <2>3
  <1>6. CASE CloseLedger
    <2>1. UNCHANGED <<ppc, ack, at, unapplied>> /\ head' = head + 1
      BY <1>6 DEF CloseLedger, pass, loop
    <2>2. CASE l \in 1..head
      BY <1>2, <1>3, <2>1, <2>2
    <2>3. CASE l = head + 1
      BY <2>1, <2>3
    <2> QED
      BY <2>1, <2>2, <2>3
  <1>7. CASE \/ SendTick \/ HandleEvent \/ HandleGap \/ RequestShutdown \/ UNCHANGED vars
    <2>1. /\ ppc = "drain" \/ ack = "waiting"
          /\ head' = head /\ at' = at /\ (unapplied => unapplied')
      BY <1>7 DEF SendTick, HandleEvent, HandleGap, RequestShutdown, vars, chain, pass, loop
    <2> QED
      BY <1>2, <1>3, <2>1
  <1>8. CASE \/ StartUp \/ StartUpSeed \/ PollHealth \/ PassFails \/ RangeGone
             \/ CommitCursor \/ NotApplied
    <2>1. CASE StartUp \/ StartUpSeed
      <3>1. ppc = "idle" /\ UNCHANGED <<ppc, ack>>
        BY <2>1 DEF StartUp, StartUpSeed, pass, IInv, QuietBefore
      <3> QED
        BY <3>1
    <2>2. CASE PollHealth
      BY <2>2 DEF PollHealth
    <2>3. CASE PassFails \/ RangeGone \/ CommitCursor \/ NotApplied
      BY <2>3 DEF PassFails, RangeGone, CommitCursor, NotApplied, EndPass
    <2> QED
      BY <1>8, <2>1, <2>2, <2>3
  <1> QED
    BY <1>3, <1>4, <1>5, <1>6, <1>7, <1>8 DEF Next, Poller, TrackerLoop

\* A tick that is handled with nothing poisoned leaves nothing behind.
LEMMA TickReflects ==
  ASSUME IInv, [Next]_vars, HandleTick, ~unapplied, NEW l \in 1..head, l <= target
  PROVE  Reflected(l)' \/ Excused'
  <1>1. /\ channel = <<[type |-> "tick", ledger |-> target]>> /\ ack = "waiting"
        /\ Head(channel).ledger = target
    BY TickHandled DEF HandleTick
  <1>2. l < at /\ target \in 0..head /\ head \in Nat /\ l \in Nat
    BY <1>1 DEF IInv, PastTarget, TypeOK
  <1>3. InHand(l) \/ GapQueued \/ Excused
    BY <1>1, <1>2 DEF IInv, PassCovers
  <1>4. ~GapQueued /\ \A a : ~EventQueued(a)
    <2>1. \A i \in 1..Len(channel) : channel[i] = [type |-> "tick", ledger |-> target]
      BY <1>1
    <2> QED
      BY <2>1 DEF GapQueued, EventQueued
  <1>5. CASE Excused
    BY <1>5, StaysGood
  <1>6. CASE InHand(l)
    <2>1. events'[l] = events[l] /\ events[l] \subseteq Accounts
      BY Onward DEF IInv, TypeOK
    <2>2. \A a \in pending : row'[a] = head
      BY <1>1, <1>2, TickApplied DEF HandleTick
    <2>3. \A a \in Accounts : row'[a] \in Int /\ row[a] \in Int /\ row'[a] >= row[a]
      <3>1. \A a \in Accounts : row'[a] \in Int
        BY TypeStep DEF TypeOK
      <3>2. \A a \in Accounts : row[a] \in Int
        BY DEF IInv, TypeOK
      <3> QED
        BY <3>1, <3>2, Onward
    <2>4. unreadable \subseteq unreadable' /\ unlisted \subseteq unlisted'
      BY Onward
    <2>5. ASSUME NEW a \in events[l], Covered(a, l) \/ a \in pending PROVE Covered(a, l)'
      BY <1>2, <2>1, <2>2, <2>3, <2>4, <2>5 DEF Covered
    <2> QED
      BY <1>4, <1>6, <2>1, <2>4, <2>5 DEF InHand, Reflected
  <1> QED
    BY <1>3, <1>4, <1>5, <1>6

LEMMA AckStep == IInv /\ [Next]_vars => AckedCovers'
  <1> SUFFICES ASSUME IInv, [Next]_vars, ack' = "acked", NEW l \in 1..head', l <= target'
               PROVE  Reflected(l)' \/ Excused'
    BY DEF AckedCovers
  <1>1. head \in Nat /\ target \in 0..head /\ head' \in Nat
    <2>1. TypeOK /\ TypeOK'
      BY TypeStep DEF IInv
    <2>2. head' \in 1..MaxLedger
      BY <2>1 DEF TypeOK
    <2> QED
      BY <2>1, <2>2, Ledgers
  <1>2. CASE HandleTick
    <2>1. ~unapplied /\ target' = target /\ head' = head
      BY <1>2 DEF HandleTick, pass, chain
    <2> QED
      BY <1>2, <2>1, TickReflects
  <1>3. CASE ack = "acked" /\ target' = target
    <2>1. l \in 1..head
      BY <1>1, <1>3
    <2>2. Reflected(l) \/ Excused
      BY <1>3, <2>1 DEF IInv, AckedCovers
    <2> QED
      BY <2>1, <2>2, StaysGood
  <1>4. \/ CloseLedger \/ StartUp \/ StartUpSeed \/ HandleEvent \/ HandleGap \/ RequestShutdown
        \/ UNCHANGED vars
        => ack = "acked" /\ target' = target
    BY DEF CloseLedger, StartUp, StartUpSeed, HandleEvent, HandleGap, RequestShutdown, vars, pass
  <1>5. ~(PollHealth \/ PollHead \/ DrainLedger)
    <2>1. ppc # "ack" => ack = "none"
      BY DEF IInv, TickIsLast
    <2> QED
      BY <2>1 DEF PollHealth, PollHead, DrainLedger
  <1>6. ~(\/ SendTick \/ PassFails \/ RangeGone \/ CommitCursor \/ NotApplied
          \/ HandleTickFails \/ Restart)
    BY DEF SendTick, PassFails, RangeGone, CommitCursor, NotApplied, EndPass, HandleTickFails,
           Restart, Fresh
  <1> QED
    BY <1>2, <1>3, <1>4, <1>5, <1>6 DEF Next, Poller, TrackerLoop

LEMMA DoneStep == IInv /\ [Next]_vars => DoneCovers'
  <1> SUFFICES ASSUME IInv, [Next]_vars, NEW l \in 1..head',
                      l <= cursor' \/ l <= published'
               PROVE  Reflected(l)' \/ Excused'
    BY DEF DoneCovers
  <1>1. /\ head \in Nat /\ head' \in Nat /\ cursor \in 0..head /\ published \in 0..head
        /\ target \in 0..head /\ seedHead \in 0..head /\ l \in Nat
    <2>1. TypeOK /\ TypeOK'
      BY TypeStep DEF IInv
    <2>2. head' \in 1..MaxLedger
      BY <2>1 DEF TypeOK
    <2> QED
      BY <2>1, <2>2, Ledgers
  <1>2. ASSUME l <= cursor \/ l <= published
        PROVE  Reflected(l)' \/ Excused'
    <2>1. l \in 1..head
      BY <1>1, <1>2
    <2>2. Reflected(l) \/ Excused
      BY <1>2, <2>1 DEF IInv, DoneCovers
    <2> QED
      BY <2>1, <2>2, StaysGood
  <1>3. CASE HandleTick
    <2>1. head' = head /\ cursor' = cursor /\ published' \in {published, target}
      BY <1>3, TickHandled DEF HandleTick, chain
    <2>2. CASE ~unapplied /\ l <= target
      BY <1>3, <2>1, <2>2, TickReflects
    <2>3. CASE unapplied
      BY <1>2, <1>3, <2>1, <2>3 DEF HandleTick
    <2>4. CASE ~(l <= target)
      BY <1>2, <2>1, <2>4
    <2> QED
      BY <2>2, <2>3, <2>4
  <1>4. CASE CommitCursor
    <2>1. ack = "acked" /\ cursor' \in {cursor, target} /\ published' = published /\ head' = head
      BY <1>4 DEF CommitCursor, loop, chain
    <2>2. CASE l <= target
      <3>1. Reflected(l) \/ Excused
        BY <2>1, <2>2 DEF IInv, AckedCovers
      <3> QED
        BY <2>1, <3>1, StaysGood
    <2>3. CASE ~(l <= target)
      BY <1>2, <2>1, <2>3
    <2> QED
      BY <2>2, <2>3
  <1>5. CASE StartUpSeed
    <2>1. PICK found \in SUBSET Accounts,
               outcome \in {"complete", "failed_sources", "stopped_early", "error"},
               read \in seedHead..head :
            /\ Seed(found, outcome)
            /\ row' = [a \in Accounts |-> IF a \in found THEN read ELSE row[a]]
            /\ cursor' = IF outcome = "complete" THEN seedHead ELSE cursor
            /\ unlisted' = unlisted \cup Overlooked(found, outcome, seedHead)
      BY <1>5 DEF StartUpSeed
    <2>2. published' = published /\ head' = head
      BY <1>5 DEF StartUpSeed, chain
    <2>3. CASE outcome = "complete" /\ l <= seedHead
      <3>1. /\ l \in 1..head /\ l \in 1..seedHead /\ read >= l
            /\ events'[l] = events[l] /\ events[l] \subseteq Accounts
            /\ \A a \in Accounts : row'[a] >= row[a]
        BY <1>1, <2>2, <2>3, Onward, Ledgers DEF IInv
      <3>2. row \in [Accounts -> 0..head] /\ \A a \in Accounts : row'[a] \in Int
        <4>1. TypeOK /\ TypeOK'
          BY TypeStep DEF IInv
        <4>2. row' \in [Accounts -> 0..head']
          BY <4>1, Zenon DEF TypeOK
        <4> QED
          BY <1>1, <4>1, <4>2, Ledgers
      <3>3. ASSUME NEW a \in events[l] PROVE Covered(a, l)'
        <4>1. CASE a \in found
          BY <2>1, <3>1, <4>1 DEF Covered
        <4>2. CASE a \notin found /\ row[a] < l
          <5>1. <<a, l>> \in Overlooked(found, outcome, seedHead)
            BY <2>3, <3>1, <4>2 DEF Overlooked
          <5> QED
            BY <2>1, <5>1 DEF Covered
        <4>3. CASE ~(row[a] < l)
          BY <1>1, <3>1, <3>2, <4>3 DEF Covered
        <4> QED
          BY <4>1, <4>2, <4>3
      <3> QED
        BY <3>1, <3>3 DEF Reflected
    <2>4. CASE ~(outcome = "complete" /\ l <= seedHead)
      BY <1>1, <1>2, <2>1, <2>2, <2>4
    <2> QED
      BY <2>3, <2>4
  <1>6. CASE Restart
    <2>1. cursor' = cursor /\ published' = 0
      BY <1>6 DEF Restart, Fresh, store
    <2> QED
      BY <1>1, <1>2, <2>1
  <1>7. \/ CloseLedger \/ StartUp \/ PollHealth \/ PollHead \/ DrainLedger \/ SendTick
        \/ RangeGone \/ NotApplied \/ PassFails \/ HandleEvent \/ HandleTickFails \/ HandleGap
        \/ RequestShutdown \/ UNCHANGED vars
        => cursor' = cursor /\ published' = published
    BY DEF CloseLedger, StartUp, PollHealth, PollHead, DrainLedger, SendTick, RangeGone,
           NotApplied, PassFails, HandleEvent, HandleTickFails, HandleGap, RequestShutdown,
           vars, store, loop
  <1> QED
    BY <1>2, <1>3, <1>4, <1>5, <1>6, <1>7 DEF Next, Poller, TrackerLoop

LEMMA NamedStep == IInv /\ [Next]_vars => OneNamed'
  <1> SUFFICES ASSUME IInv, [Next]_vars, NEW l \in 1..head', NEW a \in events'[l],
                      NEW b \in events'[l]
               PROVE  a = b
    BY DEF OneNamed
  <1>1. head \in Nat
    BY DEF IInv, TypeOK
  <1>2. CASE l \in 1..head
    <2>1. events'[l] = events[l]
      BY <1>2, Onward
    <2> QED
      BY <1>2, <2>1 DEF IInv, OneNamed
  <1>3. CASE l \notin 1..head
    <2>1. head' = head + 1 /\ l = head + 1
      BY <1>1, <1>3, Onward
    <2>2. CloseLedger
      BY <1>1, <2>1 DEF Next, Poller, TrackerLoop, StartUp, StartUpSeed, PollHealth, PollHead,
         DrainLedger, SendTick, RangeGone, CommitCursor, NotApplied, PassFails, HandleEvent,
         HandleTick, HandleTickFails, HandleGap, RequestShutdown, Restart, vars, chain
    <2>3. PICK named \in {{x} : x \in Accounts} \cup {{}} : events'[l] = named
      BY <1>1, <2>1, <2>2 DEF CloseLedger
    <2> QED
      BY <2>3
  <1> QED
    BY <1>2, <1>3

----------------------------------------------------------------------------
THEOREM Invariance == Spec => []IInv
  <1>1. IInv /\ [Next]_vars => IInv'
    BY TypeStep, ShapeStep, NamedStep, GapStep, PassStep, AckStep, DoneStep DEF IInv, Shape
  <1> QED
    BY <1>1, InitEstablishes, PTL DEF Spec

\* Every variable of the follower keeps its type, and the channel its bound.
THEOREM TypeCorrect == Spec => []TypeOK
  <1>1. IInv => TypeOK
    BY DEF IInv
  <1> QED
    BY <1>1, Invariance, PTL

\* Whatever is declared done, to the store by the cursor or to the other tasks
\* by the tick, and can be read at all, is in the rows, or belongs to an account
\* that the sources of the seed which stood in for it do not name, or a reseed
\* is owed, or one of the four lapses has happened: over failed passes, poisoned
\* ranges, ticks that failed part way, gaps, reseeds that failed and restarts
\* (ledger.rs, poll_once; service.rs, handle_message).
THEOREM DoneIsApplied == Spec => []AppliedOrOwed
  <1>1. IInv => AppliedOrOwed
    <2> SUFFICES ASSUME IInv, NEW l \in Missed PROVE owed \/ lapses # {}
      BY DEF AppliedOrOwed
    <2>1. l \in 1..head /\ (l <= cursor \/ l <= published) /\ l \notin unreadable
          /\ \E a \in events[l] : ~Covered(a, l)
      BY DEF Missed, Done
    <2>3. ~Reflected(l)
      BY <2>1 DEF Reflected
    <2> QED
      BY <2>1, <2>3 DEF IInv, DoneCovers, Excused
  <1> QED
    BY <1>1, Invariance, PTL
============================================================================
