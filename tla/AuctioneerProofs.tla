-------------------------- MODULE AuctioneerProofs --------------------------
(***************************************************************************)
(* Proofs about Creation: whatever was sent is in the audit first, and the  *)
(* percent walk gives up only on a percent too far off, for every number of *)
(* percents, iterations, creations and moves of the chain.  And about       *)
(* PriceWatch: no move goes by unflagged, for every set of prices, every    *)
(* threshold and every age a reference is kept for.                         *)
(***************************************************************************)
EXTENDS Creation, PriceWatch, TLAPS

Kinds == {"auction", "bad_debt"}
Steps == {"idle", "gave_up", "judge", "record", "submit", "wait", "attach"}
Row == [kind : Kinds, percent : 0..FullPercent, dry_run : BOOLEAN, simulated : BOOLEAN, tx : Nat]
Transaction == [creation : Nat, kind : Kinds, percent : 0..FullPercent]

PlanType ==
    /\ kind \in Kinds
    /\ planned \in 0..FullPercent
    /\ percent \in 0..FullPercent
    /\ tries \in Nat
    /\ asked \in BOOLEAN

ChainType ==
    /\ band \in Bands
    /\ inProgress \in BOOLEAN
    /\ steady \in BOOLEAN

AuditType ==
    /\ keyed \in BOOLEAN /\ dry \in BOOLEAN
    /\ step \in Steps
    /\ creations \in Seq(Row)
    /\ sent \in Seq(Transaction)
    /\ fate \in Seq({"pending", "applied", "dead"})
    /\ Len(fate) = Len(sent)

\* A row names no transaction that was not sent.
NamesSent == \A c \in DOMAIN creations : creations[c].tx # NoTx => creations[c].tx \in DOMAIN sent

\* With a key nothing is recorded that the contract was not asked about.
RecordsAsked == step = "record" /\ keyed => asked

\* From the record to the end of act the last row is the one of the plan.
LastRowIsPlan ==
    step \in {"submit", "wait", "attach"} =>
        /\ creations # << >>
        /\ LET c == creations[Len(creations)]
           IN  /\ ~c.dry_run /\ c.simulated
               /\ c.kind = kind /\ c.percent = percent

\* While its answer is waited for, the last transaction is the last row's.
LastSentIsRow ==
    step \in {"wait", "attach"} =>
        /\ sent # << >>
        /\ sent[Len(sent)].creation = Len(creations)

\* On a chain that stands still every simulation brought the percent one
\* nearer to the band, and none past its edge.
WalksToBand ==
    step = "judge" /\ kind = "auction" /\ steady /\ ~inProgress /\ band.lo <= band.hi =>
        /\ planned < band.lo => percent = planned + tries /\ percent <= band.lo
        /\ planned > band.hi => planned = percent + tries /\ percent >= band.hi
        /\ planned >= band.lo /\ planned <= band.hi => percent = planned /\ tries = 0

IInv ==
    /\ PlanType /\ ChainType /\ AuditType
    /\ AuditedFirst /\ NamesSent /\ RecordsAsked /\ LastRowIsPlan /\ LastSentIsRow
    /\ WalksToBand /\ WalkReachesBand

LEMMA InitIInv == CreationInit => IInv
  <1> SUFFICES ASSUME CreationInit PROVE IInv
    OBVIOUS
  <1>1. PlanType /\ ChainType /\ AuditType
    <2>1. PlanType
      <3>1. 0 \in 0..FullPercent
        BY CreationAssumption
      <3>2. asked \in BOOLEAN
        BY Zenon DEF CreationInit
      <3>3. kind \in Kinds /\ planned = 0 /\ percent = 0 /\ tries = 0
        BY DEF CreationInit, Kinds, NoPercent
      <3> QED
        BY <3>1, <3>2, <3>3 DEF PlanType
    <2>2. ChainType
      BY DEF CreationInit, ChainType
    <2>3. creations \in Seq(Row) /\ sent \in Seq(Transaction) /\ fate \in Seq({"pending", "applied", "dead"})
          /\ Len(fate) = Len(sent)
      BY DEF CreationInit
    <2>4. AuditType
      BY <2>3 DEF CreationInit, AuditType, Steps
    <2> QED
      BY <2>1, <2>2, <2>4
  <1>2. AuditedFirst /\ NamesSent /\ RecordsAsked /\ LastRowIsPlan /\ LastSentIsRow
    BY DEF CreationInit, AuditedFirst, NamesSent, RecordsAsked, LastRowIsPlan, LastSentIsRow
  <1>3. WalksToBand
    BY DEF CreationInit, WalksToBand
  <1>4. WalkReachesBand
    BY DEF CreationInit, WalkReachesBand
  <1> QED
    BY <1>1, <1>2, <1>3, <1>4 DEF IInv

----------------------------------------------------------------------------
(* The plan, the band and the walk.                                        *)

LEMMA StepPlanType == IInv /\ [CreationNext]_creationVars => PlanType' /\ ChainType'
  <1> SUFFICES ASSUME IInv, [CreationNext]_creationVars PROVE PlanType' /\ ChainType'
    OBVIOUS
  <1>0. PlanType /\ ChainType
    BY DEF IInv
  <1>1. ASSUME ChainMoves PROVE PlanType' /\ ChainType'
    BY <1>0, <1>1 DEF ChainMoves, PlanType, ChainType, plan
  <1>2. ASSUME NEW t \in DOMAIN sent, Settles(t) PROVE PlanType' /\ ChainType'
    BY <1>0, <1>2 DEF Settles, PlanType, ChainType, plan
  <1>3. CASE Act
    <2>1. planned' \in 0..FullPercent /\ percent' = planned'
      BY <1>3, CreationAssumption DEF Act, NoPercent, Percents
    <2>2. kind' \in Kinds /\ tries' = 0 /\ asked' = FALSE
      BY <1>3 DEF Act, Kinds
    <2>3. PlanType'
      BY <2>1, <2>2 DEF PlanType
    <2>4. band' = band /\ inProgress' = inProgress /\ steady' = TRUE
      BY <1>3 DEF Act
    <2> QED
      BY <1>0, <2>3, <2>4 DEF ChainType
  <1>4. CASE WalkPercent
    <2>1. percent' \in 0..FullPercent
      BY <1>0, <1>4 DEF WalkPercent, PlanType, Percents
    <2>2. asked' \in BOOLEAN
      BY <1>0, <1>4 DEF WalkPercent, PlanType
    <2>3. tries' \in Nat /\ UNCHANGED <<kind, planned, band, inProgress, steady>>
      BY <1>0, <1>4 DEF WalkPercent, PlanType
    <2>4. PlanType'
      BY <1>0, <2>1, <2>2, <2>3 DEF PlanType
    <2> QED
      BY <1>0, <2>3, <2>4 DEF ChainType
  <1>5. CASE AcceptBadDebt
    BY <1>0, <1>5 DEF AcceptBadDebt, PlanType, ChainType
  <1>6. CASE UNCHANGED <<plan, band, inProgress, steady>>
    BY <1>0, <1>6 DEF PlanType, ChainType, plan
  <1> QED
    BY <1>1, <1>2, <1>3, <1>4, <1>5, <1>6
    DEF CreationNext, AcceptUnsimulated, WalkRefused, WalkExhausted, Record, Enqueue, Answered,
        Attach, CreationRestart, creationVars, plan

LEMMA StepWalk ==
    IInv /\ [CreationNext]_creationVars => WalksToBand' /\ WalkReachesBand'
  <1> SUFFICES ASSUME IInv, [CreationNext]_creationVars PROVE WalksToBand' /\ WalkReachesBand'
    OBVIOUS
  <1>0. PlanType /\ ChainType /\ WalksToBand /\ WalkReachesBand
    BY DEF IInv
  <1>a. /\ band.lo \in Nat /\ band.hi \in Nat
        /\ 1 <= band.lo /\ band.lo <= FullPercent /\ 1 <= band.hi /\ band.hi <= FullPercent
        /\ FullPercent \in Nat /\ PlanIterations \in Nat
    BY <1>0, CreationAssumption DEF ChainType, Bands, Percents
  <1>1. CASE ~steady'
    BY <1>1 DEF WalksToBand, WalkReachesBand
  <1>2. CASE Act
    <2>1. step' = "judge" /\ UNCHANGED band /\ percent' = planned' /\ tries' = 0
      BY <1>2 DEF Act
    <2>2. kind' = "auction" => planned' \in Nat
      BY <1>2, <1>a DEF Act, Percents
    <2> QED
      BY <2>1, <2>2, <1>a DEF WalksToBand, WalkReachesBand
  <1>3. CASE WalkPercent
    <2>1. planned \in Nat /\ percent \in Nat /\ tries \in Nat
      BY <1>0, <1>a DEF PlanType
    <2>2. step = "judge" /\ kind = "auction" /\ tries' = tries + 1 /\ ~inProgress
          /\ UNCHANGED <<band, planned, steady, inProgress, kind>>
      BY <1>3 DEF WalkPercent
    <2>3. CASE step' = "record"
      BY <2>3 DEF WalksToBand, WalkReachesBand
    <2>4. CASE step' # "record"
      <3>1. PICK next \in Adjusted(percent) :
                \/ next \in Percents /\ percent' = next /\ UNCHANGED step
                \/ next \notin Percents /\ step' = "gave_up" /\ UNCHANGED percent
        BY <1>3, <2>4 DEF WalkPercent
      <3>2. \/ percent < band.lo /\ next = percent + 1
            \/ percent > band.hi /\ next = percent - 1
        BY <3>1 DEF Adjusted
      <3>3. next \in Percents
        BY <3>2, <2>1, <1>a, <1>0 DEF Percents, PlanType
      <3>4. percent' = next /\ step' = "judge"
        BY <3>1, <3>3, <2>2
      <3>5. WalksToBand'
        BY <3>2, <3>4, <2>1, <2>2, <1>0, <1>a DEF WalksToBand
      <3> QED
        BY <3>4, <3>5 DEF WalkReachesBand
    <2> QED
      BY <2>3, <2>4
  <1>4. CASE WalkExhausted
    <2>1. planned \in Nat /\ percent \in Nat /\ tries \in Nat
      BY <1>0, <1>a DEF PlanType
    <2>2. /\ step = "judge" /\ kind = "auction" /\ tries = PlanIterations /\ step' = "gave_up"
          /\ UNCHANGED <<band, planned, steady, inProgress>>
      BY <1>4 DEF WalkExhausted, plan
    <2>3. steady /\ ~inProgress /\ band.lo <= band.hi => Misses >= PlanIterations
      BY <2>1, <2>2, <1>0, <1>a DEF WalksToBand, Misses
    <2> QED
      BY <2>2, <2>3 DEF WalksToBand, WalkReachesBand, Misses
  <1>5. CASE /\ UNCHANGED <<band, planned, steady, inProgress, kind, percent, tries>>
             /\ step' = step \/ step' \notin {"judge", "gave_up"}
    BY <1>5, <1>0 DEF WalksToBand, WalkReachesBand, Misses
  <1>6. ASSUME NEW t \in DOMAIN sent, Settles(t) PROVE ~steady'
    BY <1>6 DEF Settles
  <1> QED
    BY <1>1, <1>2, <1>3, <1>4, <1>5, <1>6
    DEF CreationNext, ChainMoves, AcceptUnsimulated, AcceptBadDebt, WalkRefused, Record, Enqueue,
        Answered, Attach, CreationRestart, creationVars, plan, Ended

----------------------------------------------------------------------------
(* The audit.                                                              *)

\* What the steps of act do to the tables.
Recorded ==
    /\ creations' = Append(creations, [kind |-> kind, percent |-> percent, dry_run |-> dry,
                                       simulated |-> asked, tx |-> NoTx])
    /\ step = "record"
    /\ (step' = "submit" /\ keyed /\ ~dry) \/ step' = "idle"
    /\ UNCHANGED <<keyed, dry, kind, percent, asked, sent, fate>>

Enqueued ==
    /\ sent' = Append(sent, [creation |-> Len(creations), kind |-> kind, percent |-> percent])
    /\ fate' = Append(fate, "pending")
    /\ step = "submit" /\ step' = "wait"
    /\ UNCHANGED <<keyed, dry, kind, percent, asked, creations>>

Attached ==
    /\ creations' = [creations EXCEPT ![Len(creations)].tx = IF @ = NoTx THEN Len(sent) ELSE @]
    /\ step = "attach" /\ step' = "idle"
    /\ UNCHANGED <<keyed, dry, sent, fate>>

\* Or they leave the tables alone, and the fates but for one that is settled.
Elsewhere ==
    /\ UNCHANGED <<keyed, dry, creations, sent>>
    /\ \/ UNCHANGED fate
       \/ \E t \in DOMAIN sent, f \in {"applied", "dead"} : fate' = [fate EXCEPT ![t] = f]
    /\ \/ step' = step /\ UNCHANGED <<kind, percent>> /\ (asked => asked')
       \/ step' \in {"idle", "gave_up", "judge"}
       \/ step' = "record" /\ (keyed => asked')
       \/ step = "wait" /\ step' = "attach" /\ UNCHANGED <<kind, percent>>

LEMMA Moves ==
    ASSUME IInv, [CreationNext]_creationVars
    PROVE  Recorded \/ Enqueued \/ Attached \/ Elsewhere
  <1>0. keyed \in BOOLEAN /\ dry \in BOOLEAN /\ asked \in BOOLEAN
    BY DEF IInv, AuditType, PlanType
  <1>1. CASE Record
    BY <1>1 DEF Record, Recorded, record_creation, plan, Ended
  <1>2. CASE Enqueue
    BY <1>2 DEF Enqueue, Enqueued, Elsewhere, plan, Ended
  <1>3. CASE Attach
    BY <1>3 DEF Attach, Attached, Elsewhere, attach_creation_tx, plan, Ended
  <1>4. ASSUME NEW t \in DOMAIN sent, Settles(t) PROVE Elsewhere
    BY <1>4 DEF Settles, Elsewhere, plan
  <1>5. CASE WalkPercent
    BY <1>5, <1>0 DEF WalkPercent, Elsewhere
  <1>6. CASE ChainMoves \/ Act \/ AcceptUnsimulated \/ AcceptBadDebt
    BY <1>6, <1>0 DEF ChainMoves, Act, AcceptUnsimulated, AcceptBadDebt, Elsewhere, plan, Ended
  <1>7. CASE WalkRefused \/ WalkExhausted \/ Answered \/ CreationRestart \/ UNCHANGED creationVars
    BY <1>7, <1>0 DEF WalkRefused, WalkExhausted, Answered, CreationRestart, creationVars, Elsewhere,
                      plan, Ended
  <1> QED
    BY <1>1, <1>2, <1>3, <1>4, <1>5, <1>6, <1>7 DEF CreationNext

LEMMA StepAuditType == IInv /\ [CreationNext]_creationVars => AuditType'
  <1> SUFFICES ASSUME IInv, [CreationNext]_creationVars PROVE AuditType'
    OBVIOUS
  <1>0. AuditType /\ PlanType
    BY DEF IInv
  <1> DEFINE New == [kind |-> kind, percent |-> percent, dry_run |-> dry, simulated |-> asked, tx |-> NoTx]
             Tx == [creation |-> Len(creations), kind |-> kind, percent |-> percent]
  <1>1. CASE Recorded
    <2>1. New \in Row
      BY <1>0 DEF AuditType, PlanType, Row, NoTx
    <2>2. creations' \in Seq(Row)
      BY <1>0, <1>1, <2>1 DEF Recorded, AuditType
    <2> QED
      BY <1>0, <1>1, <2>2 DEF Recorded, AuditType, Steps
  <1>2. CASE Enqueued
    <2>1. Tx \in Transaction
      BY <1>0 DEF AuditType, PlanType, Transaction
    <2>2. sent' \in Seq(Transaction) /\ Len(sent') = Len(sent) + 1
      BY <1>0, <1>2, <2>1 DEF Enqueued, AuditType
    <2>3. fate' \in Seq({"pending", "applied", "dead"}) /\ Len(fate') = Len(fate) + 1
      BY <1>0, <1>2 DEF Enqueued, AuditType
    <2> QED
      BY <1>0, <1>2, <2>2, <2>3 DEF Enqueued, AuditType, Steps
  <1>3. CASE Attached
    <2>1. creations' \in Seq(Row)
      <3> DEFINE n == Len(creations)
                 v == IF creations[n].tx = NoTx THEN Len(sent) ELSE creations[n].tx
      <3>1. creations # << >>
        BY <1>3 DEF IInv, LastRowIsPlan, Attached
      <3>2. n \in 1..Len(creations) /\ creations[n] \in Row
        BY <1>0, <3>1 DEF AuditType
      <3>3. v \in Nat
        BY <1>0, <3>2 DEF AuditType, Row
      <3>4. creations' = [creations EXCEPT ![n] = [creations[n] EXCEPT !.tx = v]]
        BY <1>3, Zenon DEF Attached
      <3> HIDE DEF v
      <3>5. [creations[n] EXCEPT !.tx = v] \in Row
        BY <3>2, <3>3 DEF Row
      <3> QED
        BY <1>0, <3>2, <3>4, <3>5 DEF AuditType
    <2>2. fate \in Seq({"pending", "applied", "dead"}) /\ Len(fate) = Len(sent)
      BY <1>0 DEF AuditType
    <2> QED
      BY <1>0, <1>3, <2>1, <2>2 DEF Attached, AuditType, Steps
  <1>4. CASE Elsewhere
    <2>1. fate' \in Seq({"pending", "applied", "dead"}) /\ Len(fate') = Len(fate)
      <3>1. fate \in Seq({"pending", "applied", "dead"}) /\ DOMAIN sent = DOMAIN fate
        BY <1>0 DEF AuditType
      <3>2. CASE UNCHANGED fate
        BY <3>1, <3>2
      <3>3. ASSUME NEW t \in DOMAIN sent, NEW f \in {"applied", "dead"}, fate' = [fate EXCEPT ![t] = f]
            PROVE  fate' \in Seq({"pending", "applied", "dead"}) /\ Len(fate') = Len(fate)
        BY <3>1, <3>3
      <3> QED
        BY <1>4, <3>2, <3>3 DEF Elsewhere
    <2> QED
      BY <1>0, <1>4, <2>1 DEF Elsewhere, AuditType, Steps
  <1> QED
    BY <1>1, <1>2, <1>3, <1>4, Moves

LEMMA StepAudit ==
    IInv /\ [CreationNext]_creationVars =>
        /\ AuditedFirst' /\ NamesSent' /\ RecordsAsked' /\ LastRowIsPlan' /\ LastSentIsRow'
  <1> SUFFICES ASSUME IInv, [CreationNext]_creationVars
               PROVE  /\ AuditedFirst' /\ NamesSent' /\ RecordsAsked' /\ LastRowIsPlan'
                      /\ LastSentIsRow'
    OBVIOUS
  <1>0. /\ AuditType /\ AuditedFirst /\ NamesSent /\ RecordsAsked /\ LastRowIsPlan /\ LastSentIsRow
        /\ asked \in BOOLEAN
    BY DEF IInv, PlanType
  <1>1. CASE Recorded
    <2>1. /\ DOMAIN creations' = 1..(Len(creations) + 1)
          /\ Len(creations') = Len(creations) + 1
          /\ \A c \in DOMAIN creations : creations'[c] = creations[c]
          /\ creations'[Len(creations) + 1] =
                [kind |-> kind, percent |-> percent, dry_run |-> dry, simulated |-> asked, tx |-> NoTx]
      BY <1>0, <1>1 DEF Recorded, AuditType
    <2>2. DOMAIN creations = 1..Len(creations) /\ Len(creations) \in Nat
      BY <1>0 DEF AuditType
    <2>3. UNCHANGED sent
      BY <1>1 DEF Recorded
    <2>4. AuditedFirst'
      BY <1>0, <2>1, <2>2, <2>3 DEF AuditedFirst, NoTx
    <2>5. NamesSent'
      BY <1>0, <2>1, <2>2, <2>3 DEF NamesSent, NoTx
    <2>6. RecordsAsked' /\ LastSentIsRow'
      BY <1>1 DEF Recorded, RecordsAsked, LastSentIsRow
    <2>7. LastRowIsPlan'
      <3>1. SUFFICES ASSUME step' \in {"submit", "wait", "attach"} PROVE LastRowIsPlan'
        BY DEF LastRowIsPlan
      <3>2. ~dry /\ asked /\ kind' = kind /\ percent' = percent
        BY <1>0, <1>1, <3>1 DEF Recorded, RecordsAsked
      <3>3. creations' # << >>
        BY <2>1, <2>2
      <3> QED
        BY <2>1, <2>2, <3>2, <3>3 DEF LastRowIsPlan
    <2> QED
      BY <2>4, <2>5, <2>6, <2>7
  <1>2. CASE Enqueued
    <2>1. /\ DOMAIN sent' = 1..(Len(sent) + 1)
          /\ Len(sent') = Len(sent) + 1
          /\ \A t \in DOMAIN sent : sent'[t] = sent[t]
          /\ sent'[Len(sent) + 1] =
                [creation |-> Len(creations), kind |-> kind, percent |-> percent]
      BY <1>0, <1>2 DEF Enqueued, AuditType
    <2>2. /\ DOMAIN sent = 1..Len(sent) /\ Len(sent) \in Nat
          /\ DOMAIN creations = 1..Len(creations) /\ Len(creations) \in Nat
      BY <1>0 DEF AuditType
    <2>3. UNCHANGED <<creations, kind, percent>> /\ step = "submit" /\ step' = "wait"
      BY <1>2 DEF Enqueued
    <2>4. Len(creations) \in DOMAIN creations
      <3>1. creations # << >>
        BY <1>0, <2>3 DEF LastRowIsPlan
      <3> QED
        BY <3>1, <1>0 DEF AuditType
    <2>5. /\ ~creations[Len(creations)].dry_run /\ creations[Len(creations)].simulated
          /\ creations[Len(creations)].kind = kind /\ creations[Len(creations)].percent = percent
      BY <1>0, <2>3 DEF LastRowIsPlan
    <2>6. AuditedFirst'
      <3>1. ASSUME NEW t \in DOMAIN sent'
            PROVE  /\ sent'[t].creation \in DOMAIN creations
                   /\ LET c == creations[sent'[t].creation]
                      IN  /\ ~c.dry_run /\ c.simulated
                          /\ c.kind = sent'[t].kind /\ c.percent = sent'[t].percent
        <4>1. CASE t \in DOMAIN sent
          BY <1>0, <4>1, <2>1 DEF AuditedFirst
        <4>2. CASE t = Len(sent) + 1
          BY <4>2, <2>1, <2>4, <2>5
        <4> QED
          BY <4>1, <4>2, <2>1, <2>2
      <3>2. \A c \in DOMAIN creations :
                creations[c].tx # NoTx => sent'[creations[c].tx].creation = c
        BY <1>0, <2>1 DEF AuditedFirst, NamesSent
      <3> QED
        BY <3>1, <3>2, <2>3 DEF AuditedFirst
    <2>7. NamesSent'
      BY <1>0, <2>1, <2>2, <2>3 DEF NamesSent
    <2>8. RecordsAsked' /\ LastRowIsPlan'
      BY <1>0, <2>3 DEF RecordsAsked, LastRowIsPlan
    <2>9. LastSentIsRow'
      <3>1. sent' # << >>
        BY <2>1, <2>2
      <3> QED
        BY <3>1, <2>1, <2>3 DEF LastSentIsRow
    <2> QED
      BY <2>6, <2>7, <2>8, <2>9
  <1>3. CASE Attached
    <2> DEFINE n == Len(creations)
    <2>1. creations # << >> /\ sent # << >> /\ sent[Len(sent)].creation = n
      BY <1>0, <1>3 DEF Attached, LastRowIsPlan, LastSentIsRow
    <2>2. n \in DOMAIN creations /\ Len(sent) \in DOMAIN sent /\ creations[n] \in Row
      BY <1>0, <2>1 DEF AuditType
    <2>3. /\ DOMAIN creations' = DOMAIN creations
          /\ \A c \in DOMAIN creations : c # n => creations'[c] = creations[c]
          /\ creations'[n] = [creations[n] EXCEPT !.tx = IF @ = NoTx THEN Len(sent) ELSE @]
      BY <1>0, <1>3, <2>2 DEF Attached, AuditType
    <2>4. /\ creations'[n].kind = creations[n].kind
          /\ creations'[n].percent = creations[n].percent
          /\ creations'[n].dry_run = creations[n].dry_run
          /\ creations'[n].simulated = creations[n].simulated
          /\ creations'[n].tx = IF creations[n].tx = NoTx THEN Len(sent) ELSE creations[n].tx
      BY <2>2, <2>3 DEF Row
    <2>5. UNCHANGED sent /\ step' = "idle"
      BY <1>3 DEF Attached
    <2>6. AuditedFirst'
      <3>1. ASSUME NEW t \in DOMAIN sent
            PROVE  /\ sent[t].creation \in DOMAIN creations'
                   /\ LET c == creations'[sent[t].creation]
                      IN  /\ ~c.dry_run /\ c.simulated
                          /\ c.kind = sent[t].kind /\ c.percent = sent[t].percent
        <4>1. /\ sent[t].creation \in DOMAIN creations
              /\ ~creations[sent[t].creation].dry_run /\ creations[sent[t].creation].simulated
              /\ creations[sent[t].creation].kind = sent[t].kind
              /\ creations[sent[t].creation].percent = sent[t].percent
          BY <1>0, Zenon DEF AuditedFirst
        <4>2. CASE sent[t].creation = n
          BY <4>1, <4>2, <2>3, <2>4
        <4>3. CASE sent[t].creation # n
          BY <4>1, <4>3, <2>3
        <4> QED
          BY <4>2, <4>3
      <3>2. ASSUME NEW c \in DOMAIN creations, creations'[c].tx # NoTx
            PROVE  sent[creations'[c].tx].creation = c
        <4>1. CASE c # n
          BY <1>0, <3>2, <4>1, <2>3 DEF AuditedFirst
        <4>2. CASE c = n /\ creations[n].tx = NoTx
          <5>1. creations'[c].tx = Len(sent)
            BY <4>2, <2>4
          <5> QED
            BY <5>1, <4>2, <2>1
        <4>3. CASE c = n /\ creations[n].tx # NoTx
          <5>1. creations'[c].tx = creations[c].tx
            BY <4>3, <2>4
          <5> QED
            BY <5>1, <4>3, <1>0 DEF AuditedFirst
        <4> QED
          BY <4>1, <4>2, <4>3
      <3> QED
        BY <3>1, <3>2, <2>3, <2>5 DEF AuditedFirst
    <2>7. NamesSent'
      BY <1>0, <2>2, <2>3, <2>4, <2>5 DEF NamesSent
    <2>8. RecordsAsked' /\ LastRowIsPlan' /\ LastSentIsRow'
      BY <2>5 DEF RecordsAsked, LastRowIsPlan, LastSentIsRow
    <2> QED
      BY <2>6, <2>7, <2>8
  <1>4. CASE Elsewhere
    <2>1. UNCHANGED <<keyed, creations, sent>>
      BY <1>4 DEF Elsewhere
    <2>2. AuditedFirst' /\ NamesSent'
      BY <1>0, <2>1 DEF AuditedFirst, NamesSent
    <2>3. RecordsAsked'
      BY <1>0, <1>4 DEF Elsewhere, RecordsAsked
    <2>4. LastRowIsPlan' /\ LastSentIsRow'
      BY <1>0, <1>4, <2>1 DEF Elsewhere, LastRowIsPlan, LastSentIsRow
    <2> QED
      BY <2>2, <2>3, <2>4
  <1> QED
    BY <1>1, <1>2, <1>3, <1>4, Moves

\* The inductive invariant of act holds in every state.
THEOREM Invariance == CreationSpec => []IInv
  <1>1. IInv /\ [CreationNext]_creationVars => IInv'
    BY StepPlanType, StepWalk, StepAuditType, StepAudit DEF IInv
  <1> QED
    BY InitIInv, <1>1, PTL DEF CreationSpec

\* Whatever reached the chain is in the audit before it, as what it is, and a
\* row names no transaction but its own, wherever the process ends between
\* the row, the send and the hash (auctioneer.rs, act and submit_recorded).
THEOREM AuditComesFirst == CreationSpec => []AuditedFirst
  <1>1. IInv => AuditedFirst
    BY DEF IInv
  <1> QED
    BY Invariance, <1>1, PTL

\* For every number of percents and every PLAN_ITERATIONS the percent walk,
\* on a chain that stands still, gives up only on a plan that many percents
\* off the band (auctioneer.rs, accept_percent).
THEOREM WalkFindsBand == CreationSpec => []WalkReachesBand
  <1>1. IInv => WalkReachesBand
    BY DEF IInv
  <1> QED
    BY Invariance, <1>1, PTL

----------------------------------------------------------------------------
(* PriceWatch: the memory of prices, and what a scan flags by it.          *)

Sighting == [price : Nat, set_at : Nat]

WatchType ==
    /\ price \in [Assets -> Prices]
    /\ clock \in Nat
    /\ references \in [Assets -> Sighting]
    /\ noticed \in [Assets -> Nat]

\* An asset has a reference from the scan on that first noticed it.
SeenIsNoticed ==
    \A a \in Assets : IF noticed[a] = 0 THEN references[a] = Unseen ELSE references[a].price # 0

\* Where neither time nor the store came between, the reference is the price
\* that was noticed.
ReferenceIsNoticed == \A a \in Assets \ excused : references[a].price = noticed[a]

WatchInv == WatchType /\ SeenIsNoticed /\ ReferenceIsNoticed

USE PriceWatchAssumption DEF PriceWatchAssumption

LEMMA WatchStarts == WatchInit => WatchInv
  BY DEF WatchInit, WatchInv, WatchType, SeenIsNoticed, ReferenceIsNoticed, Unseen, Sighting

\* What a scan leaves of an asset's memory.
LEMMA ScanSettles ==
  ASSUME WatchInv, NEW n, scan_oracle(n), NEW a \in Assets
  PROVE  /\ references'[a] \in {references[a], [price |-> price[a], set_at |-> clock]}
         /\ noticed'[a] \in {noticed[a], price[a]}
         /\ IF noticed'[a] = 0 THEN references'[a] = Unseen ELSE references'[a].price # 0
         /\ a \notin excused' => references'[a].price = noticed'[a]
  <1>1. price[a] \in Nat \ {0} /\ clock \in Nat /\ noticed[a] \in Nat
    BY DEF WatchInv, WatchType
  <1>2. IF noticed[a] = 0 THEN references[a] = Unseen ELSE references[a].price # 0
    BY DEF WatchInv, SeenIsNoticed
  <1>3. a \notin excused => references[a].price = noticed[a]
    BY DEF WatchInv, ReferenceIsNoticed
  <1>4. Verdict(a) \in {"seed", "up", "down", "stale", "none"}
    BY DEF Verdict, moved_direction
  <1>5. Verdict(a) = "seed" <=> noticed[a] = 0
    BY <1>2 DEF Verdict, Unseen, moved_direction
  <1> QED
    BY <1>1, <1>2, <1>3, <1>4, <1>5 DEF scan_oracle

LEMMA ScanKeeps ==
  ASSUME WatchInv, NEW n, scan_oracle(n)
  PROVE  WatchInv'
  <1>1. WatchType'
    <2>1. /\ references' = [a \in Assets |-> references'[a]]
          /\ noticed' = [a \in Assets |-> noticed'[a]]
          /\ price' = price /\ clock' = clock
      BY DEF scan_oracle
    <2>2. ASSUME NEW a \in Assets
          PROVE  references'[a] \in Sighting /\ noticed'[a] \in Nat
      <3>1. /\ references[a] \in Sighting /\ noticed[a] \in Nat
            /\ price[a] \in Nat /\ clock \in Nat
        BY DEF WatchInv, WatchType
      <3>2. [price |-> price[a], set_at |-> clock] \in Sighting
        BY <3>1 DEF Sighting
      <3> QED
        BY <3>1, <3>2, ScanSettles
    <2> QED
      BY <2>1, <2>2 DEF WatchInv, WatchType
  <1> QED
    BY <1>1, ScanSettles DEF WatchInv, SeenIsNoticed, ReferenceIsNoticed

LEMMA WatchStays == WatchInv /\ [WatchNext]_watchVars => WatchInv'
  <1> SUFFICES ASSUME WatchInv, [WatchNext]_watchVars PROVE WatchInv'
    OBVIOUS
  <1> USE DEF WatchInv, WatchType, SeenIsNoticed, ReferenceIsNoticed
  <1>1. ASSUME NEW a \in Assets, NEW p \in Prices, OracleMoves(a, p)
        PROVE  WatchInv'
    BY <1>1 DEF OracleMoves
  <1>2. CASE TimePasses
    BY <1>2 DEF TimePasses
  <1>3. CASE ScanStep
    BY <1>3, ScanKeeps DEF ScanStep
  <1>4. CASE UNCHANGED watchVars
    BY <1>4 DEF watchVars
  <1> QED
    BY <1>1, <1>2, <1>3, <1>4 DEF WatchNext

\* A scan flags what is owed.
LEMMA ScanFlags ==
  ASSUME WatchInv, NEW n, scan_oracle(n), NEW a \in Assets,
         Owed(a), a \notin excused \cup excused'
  PROVE  <<a, IF price[a] > noticed[a] THEN "Liability" ELSE "Collateral">> \in exposed'
  <1>1. noticed[a] # 0 /\ references[a].price = noticed[a] /\ references[a] # Unseen
    BY DEF Owed, WatchInv, ReferenceIsNoticed, Unseen
  <1>2. price[a] \in Nat /\ noticed[a] \in Nat
    BY DEF WatchInv, WatchType
  <1>3. div_floor(Apart(price[a], noticed[a]), noticed[a], WatchBps) \in Int
    BY <1>1, <1>2 DEF div_floor, mul_floor, Apart
  <1>4. Verdict(a) = IF price[a] > noticed[a] THEN "up" ELSE "down"
    BY <1>1, <1>3 DEF Owed, Significant, Verdict, moved_direction
  <1>5. a \in Assets \ excused'
    OBVIOUS
  <1> QED
    BY <1>4, <1>5 DEF scan_oracle, SideOf

\* A price that has moved by the threshold since it was last flagged is
\* flagged by the next scan that sees it, on the side it hurts, over however
\* many scans the move added up; unless the reference was refreshed or the
\* store failed meanwhile (auctioneer.rs, moved, moved_direction and
\* scan_oracle).
THEOREM MovesAreFlagged == WatchSpec => MoveIsFlagged
  <1>1. WatchInv /\ [WatchNext]_watchVars =>
          [ScanStep => \A a \in Assets :
              Owed(a) /\ a \notin excused \cup excused' =>
                  <<a, IF price[a] > noticed[a] THEN "Liability" ELSE "Collateral">> \in exposed'
          ]_watchVars
    BY ScanFlags DEF ScanStep
  <1> QED
    BY <1>1, WatchStarts, WatchStays, PTL DEF WatchSpec, MoveIsFlagged
=============================================================================
