----------------------- MODULE SubmissionQueueProofs -----------------------
(***************************************************************************)
(* Theorems about SubmissionQueue, for any set of submissions, any channel *)
(* capacity, retry budget and ledger window, and any number of ledgers and *)
(* transactions of other signers.                                          *)
(*                                                                         *)
(* None of the safety properties is inductive by itself.  The argument     *)
(* that holds them up is OneOpPerSub: the only steps that let an operation *)
(* out lead to the wait for that very operation, and the wait ends only in *)
(* an answer.  So a submission that is still being worked on has nothing   *)
(* out but what is awaited, and one that was answered has at most the one  *)
(* operation its answer speaks of.                                         *)
(***************************************************************************)
EXTENDS SubmissionQueue, TLAPS

OpPcs == {"send", "wait", "resolvePause"}
RestorePcs == {"restore", "restoreWait"}

\* What the worker's locals hold at each of its program points.
WorkerLocals ==
    /\ pc # "recv" => sub \in Subs /\ stage[sub] = "working"
    /\ pc \in OpPcs => /\ tx \in Tx
                       /\ tx.kind = "op" /\ tx.sub = sub
    /\ pc \in RestorePcs => tx \in Tx /\ tx.kind = "restore"

\* Between submissions the worker holds none.
Idle == pc = "recv" => sub = NoSub

\* A call is in the channel exactly while it is queued, once.
ChannelHoldsQueued ==
    /\ \A i \in 1..Len(channel) : stage[channel[i]] = "queued"
    /\ \A i, j \in 1..Len(channel) : channel[i] = channel[j] => i = j

\* At most one submission is being worked on, and it is the worker's.
OneWorking == \A s \in Subs : stage[s] = "working" => pc # "recv" /\ s = sub

AnsweredStage == \A s \in Subs : answer[s] # "none" <=> stage[s] = "answered"

\* What is in a ledger was sent, in its window, and used up its sequence
\* number; it is there once.
LedgerFacts ==
    /\ \A a \in applied : /\ a.tx \in sent
                          /\ a.tx.seq <= acctSeq
                          /\ a.tx.min <= a.ledger
                          /\ a.ledger < a.tx.max
                          /\ a.ledger <= head
    /\ \A a, b \in applied : a.tx = b.tx => a = b

\* The operation of a submission still worked on is the one awaited.
OpOfWorking ==
    \A t \in Ops :
        /\ stage[t.sub] \in {"working", "answered"}
        /\ stage[t.sub] = "working" =>
              t = tx /\ pc \in {"wait", "resolvePause"}

OneOpPerSub == \A t, u \in Ops : t.sub = u.sub => t = u

\* An answered submission that sent its operation was told what became of it.
OpOfAnswered ==
    \A t \in Ops :
        stage[t.sub] = "answered" =>
            \/ /\ answer[t.sub] \in {"Succeeded", "Failed"}
               /\ \E a \in applied : a.tx = t
            \/ /\ answer[t.sub] = "Expired"
               /\ head >= t.max
               /\ \A a \in applied : a.tx # t
            \/ answer[t.sub] = "Unknown"

\* Succeeded and Failed are the ledger's own word.
AnsweredFromLedger ==
    \A s \in Subs :
        answer[s] \in {"Succeeded", "Failed"} =>
            \E a \in applied : /\ a.tx.kind = "op"
                               /\ a.tx.sub = s
                               /\ a.ok = (answer[s] = "Succeeded")

\* Once an Unknown was given back the worker only refuses.
UnknownIsLast ==
    (\E s \in Subs : answer[s] = "Unknown") => shutdown /\ pc = "recv"

IInv ==
    /\ TypeOK
    /\ WorkerLocals
    /\ Idle
    /\ ChannelHoldsQueued
    /\ OneWorking
    /\ AnsweredStage
    /\ LedgerFacts
    /\ OpOfWorking
    /\ OneOpPerSub
    /\ OpOfAnswered
    /\ AnsweredFromLedger
    /\ UnknownIsLast

----------------------------------------------------------------------------
USE QueueAssumption DEF QueueAssumption

LEMMA InitEstablishes == Init => IInv
  <1> SUFFICES ASSUME Init PROVE IInv
    OBVIOUS
  <1>1. TypeOK
    <2>1. /\ stage \in [Subs -> {"new", "offered", "queued", "working", "answered"}]
          /\ answer \in [Subs -> Answers \cup {"none"}]
      BY DEF Init
    <2>2. channel \in Seq(Subs) /\ Len(channel) <= Capacity /\ order \in Seq(Subs)
      BY DEF Init
    <2>3. /\ pc \in Pcs /\ sub \in Subs \cup {NoSub} /\ left \in 0..Retries
          /\ seq \in Nat /\ tx \in Tx \cup {NoTx}
      BY DEF Init, Pcs
    <2>4. /\ head \in Nat /\ acctSeq \in Nat /\ sent \subseteq Tx
          /\ applied \subseteq [tx : Tx, ledger : Nat, ok : BOOLEAN]
          /\ foreign \in 0..MaxForeign
      BY DEF Init
    <2> QED
      BY <2>1, <2>2, <2>3, <2>4 DEF TypeOK, Init
  <1>2. WorkerLocals /\ Idle /\ OneWorking /\ ChannelHoldsQueued
    BY DEF Init, WorkerLocals, Idle, OneWorking, ChannelHoldsQueued, OpPcs, RestorePcs
  <1>3. AnsweredStage /\ AnsweredFromLedger /\ UnknownIsLast
    BY DEF Init, AnsweredStage, AnsweredFromLedger, UnknownIsLast
  <1>4. LedgerFacts /\ OpOfWorking /\ OneOpPerSub /\ OpOfAnswered
    BY DEF Init, LedgerFacts, OpOfWorking, OneOpPerSub, OpOfAnswered, Ops
  <1> QED
    BY <1>1, <1>2, <1>3, <1>4 DEF IInv

\* What every step of the worker leaves to the network.
LEMMA WorkIsLocal ==
  ASSUME Work
  PROVE  /\ UNCHANGED <<network, shutdown, order>>
         /\ sent' = sent \/ (sent' = sent \cup {tx} /\ pc \in {"send", "restore"})
  BY DEF Work, Take, RetryPause, ReadAccount, Simulate, SendRestore,
         WaitRestore, Resimulate, Send, ResolveTerminal, ResolveUnknown,
         ResolvePause, Lost, Accepted, Refused, network

\* The part of TypeOK that answering and failing touch.
WorkerType ==
    /\ stage \in [Subs -> {"new", "offered", "queued", "working", "answered"}]
    /\ answer \in [Subs -> Answers \cup {"none"}]
    /\ pc \in Pcs
    /\ sub \in Subs \cup {NoSub}
    /\ left \in 0..Retries
    /\ seq \in Nat
    /\ tx \in Tx \cup {NoTx}

LEMMA RespondType ==
  ASSUME TypeOK, NEW s, NEW outcome \in Answers, Respond(s, outcome)
  PROVE  WorkerType'
  <1>1. /\ stage' \in [Subs -> {"new", "offered", "queued", "working", "answered"}]
        /\ answer' \in [Subs -> Answers \cup {"none"}]
    BY DEF TypeOK, Respond
  <1> QED
    BY <1>1 DEF WorkerType, Respond, Pcs

LEMMA AttemptFailedType ==
  ASSUME TypeOK, NEW error \in ChainErrors, AttemptFailed(error)
  PROVE  WorkerType'
  <1>1. error \in Answers
    BY DEF Answers
  <1>2. CASE Respond(sub, error)
    BY <1>1, <1>2, RespondType
  <1>3. CASE ~Respond(sub, error)
    BY <1>3 DEF AttemptFailed, TypeOK, WorkerType, Pcs
  <1> QED
    BY <1>2, <1>3

LEMMA BuildType ==
  ASSUME TypeOK, sub \in Subs, NEW kind \in Kinds, NEW n \in Nat
  PROVE  /\ Build(kind, n) \in Tx
         /\ Build(kind, n).kind = kind
         /\ Build(kind, n).sub = sub
  BY DEF TypeOK, Build, Tx

LEMMA classifyType ==
  ASSUME NEW t, NEW oldest
  PROVE  classify(t, oldest) \subseteq Terminal
  BY DEF classify, Terminal

LEMMA WorkType == IInv /\ Work => WorkerType' /\ sent' \subseteq Tx
                                  /\ channel' \in Seq(Subs) /\ Len(channel') <= Capacity
  <1> SUFFICES ASSUME IInv, Work
               PROVE  WorkerType' /\ sent' \subseteq Tx
                      /\ channel' \in Seq(Subs) /\ Len(channel') <= Capacity
    OBVIOUS
  <1> USE DEF IInv
  <1>1. CASE Take
    <2>1. channel' \in Seq(Subs) /\ Len(channel') <= Capacity /\ Head(channel) \in Subs
      BY <1>1 DEF Take, TypeOK
    <2>2. CASE shutdown
      BY <1>1, <2>1, <2>2, RespondType DEF Take, TypeOK, Answers
    <2>3. CASE ~shutdown
      BY <1>1, <2>1, <2>3 DEF Take, TypeOK, WorkerType, Pcs, Preparing
    <2> QED
      BY <2>2, <2>3
  <1>2. CASE RetryPause
    BY <1>2, RespondType DEF RetryPause, TypeOK, WorkerType, Pcs, Preparing, Answers
  <1>3. CASE ReadAccount
    BY <1>3, AttemptFailedType
    DEF ReadAccount, TypeOK, WorkerType, Pcs, Preparing, ChainErrors
  <1>4. CASE Simulate
    BY <1>4, AttemptFailedType, BuildType
    DEF Simulate, TypeOK, WorkerType, WorkerLocals, Pcs, Preparing, ChainErrors, Kinds
  <1>5. CASE Resimulate
    BY <1>5, AttemptFailedType, BuildType
    DEF Resimulate, TypeOK, WorkerType, WorkerLocals, Pcs, ChainErrors, Kinds
  <1>6. CASE Send
    BY <1>6, AttemptFailedType
    DEF Send, Accepted, Lost, Refused, TypeOK, WorkerType, WorkerLocals, OpPcs,
        Pcs, Awaiting, ChainErrors
  <1>7. CASE SendRestore
    BY <1>7, AttemptFailedType
    DEF SendRestore, Accepted, Lost, Refused, TypeOK, WorkerType, WorkerLocals,
        RestorePcs, Pcs, Awaiting, ChainErrors
  <1>8. CASE WaitRestore
    BY <1>8, AttemptFailedType
    DEF WaitRestore, TypeOK, WorkerType, Pcs, Preparing, ChainErrors
  <1>9. CASE ResolveTerminal
    BY <1>9, RespondType, classifyType DEF ResolveTerminal, TypeOK, Answers
  <1>10. CASE ResolveUnknown
    BY <1>10, RespondType
    DEF ResolveUnknown, TypeOK, WorkerType, Pcs, Awaiting, Answers
  <1>11. CASE ResolvePause
    BY <1>11, RespondType
    DEF ResolvePause, TypeOK, WorkerType, Pcs, Awaiting, Answers
  <1> QED
    BY <1>1, <1>2, <1>3, <1>4, <1>5, <1>6, <1>7, <1>8, <1>9, <1>10, <1>11 DEF Work

LEMMA TypeStep == IInv /\ [Next]_vars => TypeOK'
  <1> SUFFICES ASSUME IInv, [Next]_vars PROVE TypeOK'
    OBVIOUS
  <1> USE DEF IInv, TypeOK
  <1>1. ASSUME NEW s \in Subs, Enqueue(s) PROVE TypeOK'
    BY <1>1 DEF Enqueue, worker, network
  <1>2. ASSUME NEW s \in Subs, Accept(s) PROVE TypeOK'
    BY <1>2 DEF Accept, worker, network
  <1>3. CASE RequestShutdown
    BY <1>3 DEF RequestShutdown, callers, worker, network
  <1>4. CASE CloseLedger
    <2>1. /\ head' \in Nat /\ acctSeq' \in Nat /\ foreign' \in 0..MaxForeign
          /\ applied' \subseteq [tx : Tx, ledger : Nat, ok : BOOLEAN]
      <3>1. head \in Nat /\ acctSeq \in Nat /\ head' = head + 1
        BY <1>4 DEF CloseLedger
      <3>2. ASSUME NEW t \in sent, NEW ok \in BOOLEAN, Apply(t, ok)
            PROVE  /\ acctSeq' \in Nat /\ foreign' = foreign
                   /\ applied' \subseteq [tx : Tx, ledger : Nat, ok : BOOLEAN]
        <4>1. t \in Tx /\ head + 1 \in Nat
          BY <3>1
        <4>2. [tx |-> t, ledger |-> head + 1, ok |-> ok] \in [tx : Tx, ledger : Nat, ok : BOOLEAN]
          BY <4>1
        <4>3. acctSeq' = acctSeq + 1 /\ foreign' = foreign
          BY <3>2 DEF Apply, Applicable
        <4>4. applied' = applied \cup {[tx |-> t, ledger |-> head + 1, ok |-> ok]}
          BY <3>2 DEF Apply
        <4> QED
          BY <3>1, <4>2, <4>3, <4>4
      <3>3. ASSUME ForeignApply
            PROVE  acctSeq' \in Nat /\ foreign' \in 0..MaxForeign /\ applied' = applied
        BY <3>1, <3>3 DEF ForeignApply
      <3> QED
        BY <1>4, <3>1, <3>2, <3>3 DEF CloseLedger
    <2>2. UNCHANGED <<stage, channel, order, answer, shutdown, pc, sub, left, seq,
                      tx, sent>>
      BY <1>4 DEF CloseLedger, callers, worker
    <2> QED
      BY <2>1, <2>2
  <1>5. CASE Work
    BY <1>5, WorkType, WorkIsLocal DEF WorkerType, network
  <1>6. CASE UNCHANGED vars
    BY <1>6 DEF vars
  <1> QED
    BY <1>1, <1>2, <1>3, <1>4, <1>5, <1>6 DEF Next

----------------------------------------------------------------------------
(* The calls, the channel and the worker's locals.                         *)

Bookkeeping ==
    /\ WorkerLocals
    /\ ChannelHoldsQueued
    /\ OneWorking
    /\ AnsweredStage

LEMMA NoneIsNoAnswer == "none" \notin Answers
  BY DEF Answers, Terminal, ChainErrors, PrepareErrors

\* Answering the submission the worker holds.
LEMMA RespondBooks ==
  ASSUME IInv, pc # "recv", UNCHANGED channel,
         NEW outcome \in Answers, Respond(sub, outcome)
  PROVE  Bookkeeping'
  <1> USE DEF IInv, TypeOK, Respond
  <1>1. WorkerLocals'
    BY DEF WorkerLocals, OpPcs, RestorePcs
  <1>2. ChannelHoldsQueued'
    BY DEF ChannelHoldsQueued, WorkerLocals
  <1>3. OneWorking'
    BY DEF OneWorking, WorkerLocals
  <1>4. AnsweredStage'
    BY NoneIsNoAnswer DEF AnsweredStage, WorkerLocals
  <1> QED
    BY <1>1, <1>2, <1>3, <1>4 DEF Bookkeeping

LEMMA AttemptFailedBooks ==
  ASSUME IInv, pc # "recv", UNCHANGED channel,
         NEW error \in ChainErrors, AttemptFailed(error)
  PROVE  Bookkeeping'
  <1>1. CASE Respond(sub, error)
    BY <1>1, RespondBooks DEF Answers
  <1>2. CASE ~Respond(sub, error)
    BY <1>2 DEF AttemptFailed, IInv, Bookkeeping, WorkerLocals, OneWorking,
                ChannelHoldsQueued, AnsweredStage, OpPcs, RestorePcs
  <1> QED
    BY <1>1, <1>2

LEMMA TakeBooks ==
  ASSUME IInv, Take
  PROVE  Bookkeeping'
  <1> USE DEF IInv, TypeOK
  <1> DEFINE s == Head(channel)
  <1>1. /\ s \in Subs /\ stage[s] = "queued"
        /\ channel' \in Seq(Subs)
        /\ \A i \in 1..Len(channel') : /\ channel'[i] = channel[i + 1]
                                       /\ i + 1 \in 1..Len(channel)
                                       /\ channel'[i] \in Subs
                                       /\ channel'[i] # s
                                       /\ stage[channel'[i]] = "queued"
    BY DEF Take, ChannelHoldsQueued
  <1> HIDE DEF s
  <1>2. ASSUME NEW i \in 1..Len(channel'), NEW j \in 1..Len(channel'),
               channel'[i] = channel'[j]
        PROVE  i = j
    <2>1. channel[i + 1] = channel[j + 1]
      BY <1>1, <1>2
    <2>2. i + 1 = j + 1
      BY <1>1, <2>1 DEF ChannelHoldsQueued
    <2> QED
      BY <1>1, <2>2
  <1>3. CASE shutdown
    <2>1. Respond(s, "ShuttingDown") /\ pc = "recv"
      BY <1>3 DEF Take, s
    <2>2. ChannelHoldsQueued'
      BY <1>1, <1>2, <2>1 DEF ChannelHoldsQueued, Respond
    <2>3. WorkerLocals' /\ OneWorking'
      BY <1>1, <2>1 DEF WorkerLocals, OneWorking, Respond, OpPcs, RestorePcs
    <2>4. AnsweredStage'
      BY <1>1, <2>1 DEF AnsweredStage, Respond
    <2> QED
      BY <2>2, <2>3, <2>4 DEF Bookkeeping
  <1>4. CASE ~shutdown
    <2>1. /\ stage' = [stage EXCEPT ![s] = "working"]
          /\ pc' = "account" /\ sub' = s /\ pc = "recv"
          /\ UNCHANGED <<answer, tx>>
      BY <1>4 DEF Take, s
    <2>2. ChannelHoldsQueued'
      BY <1>1, <1>2, <2>1 DEF ChannelHoldsQueued
    <2>3. WorkerLocals' /\ OneWorking'
      BY <1>1, <2>1 DEF WorkerLocals, OneWorking, OpPcs, RestorePcs
    <2>4. AnsweredStage'
      BY <1>1, <2>1 DEF AnsweredStage
    <2> QED
      BY <2>2, <2>3, <2>4 DEF Bookkeeping
  <1> QED
    BY <1>3, <1>4

LEMMA AcceptBooks ==
  ASSUME IInv, NEW s \in Subs, Accept(s)
  PROVE  Bookkeeping'
  <1> USE DEF IInv, TypeOK, Accept, worker
  <1>1. /\ Len(channel') = Len(channel) + 1
        /\ \A i \in 1..Len(channel) : channel'[i] = channel[i] /\ channel[i] # s
        /\ channel'[Len(channel) + 1] = s
    BY DEF ChannelHoldsQueued
  <1>2. ChannelHoldsQueued'
    BY <1>1 DEF ChannelHoldsQueued
  <1>3. WorkerLocals' /\ OneWorking' /\ AnsweredStage'
    BY DEF WorkerLocals, OneWorking, AnsweredStage
  <1> QED
    BY <1>2, <1>3 DEF Bookkeeping

LEMMA BooksStep == IInv /\ [Next]_vars => Bookkeeping'
  <1> SUFFICES ASSUME IInv, [Next]_vars PROVE Bookkeeping'
    OBVIOUS
  <1> USE DEF IInv
  <1>1. ASSUME NEW s \in Subs, Enqueue(s) PROVE Bookkeeping'
    BY <1>1 DEF Enqueue, worker, TypeOK, Bookkeeping, WorkerLocals, OneWorking,
                ChannelHoldsQueued, AnsweredStage
  <1>2. ASSUME NEW s \in Subs, Accept(s) PROVE Bookkeeping'
    BY <1>2, AcceptBooks
  <1>3. CASE RequestShutdown \/ CloseLedger \/ UNCHANGED vars
    BY <1>3 DEF RequestShutdown, CloseLedger, vars, callers, worker, Bookkeeping,
                WorkerLocals, OneWorking, ChannelHoldsQueued, AnsweredStage
  <1>4. CASE Take
    BY <1>4, TakeBooks
  <1>5. CASE RetryPause
    BY <1>5, RespondBooks
    DEF RetryPause, Answers, Bookkeeping, WorkerLocals, OneWorking,
        ChannelHoldsQueued, AnsweredStage, OpPcs, RestorePcs
  <1>6. CASE ReadAccount
    BY <1>6, AttemptFailedBooks
    DEF ReadAccount, ChainErrors, Bookkeeping, WorkerLocals, OneWorking,
        ChannelHoldsQueued, AnsweredStage, OpPcs, RestorePcs
  <1>7. CASE Simulate
    BY <1>7, AttemptFailedBooks, BuildType
    DEF Simulate, ChainErrors, Kinds, TypeOK, Bookkeeping, WorkerLocals, OneWorking,
        ChannelHoldsQueued, AnsweredStage, OpPcs, RestorePcs
  <1>8. CASE Resimulate
    BY <1>8, AttemptFailedBooks, BuildType
    DEF Resimulate, ChainErrors, Kinds, TypeOK, Bookkeeping, WorkerLocals, OneWorking,
        ChannelHoldsQueued, AnsweredStage, OpPcs, RestorePcs
  <1>9. CASE Send
    BY <1>9, AttemptFailedBooks
    DEF Send, ChainErrors, Bookkeeping, WorkerLocals, OneWorking,
        ChannelHoldsQueued, AnsweredStage, OpPcs, RestorePcs
  <1>10. CASE SendRestore
    BY <1>10, AttemptFailedBooks
    DEF SendRestore, ChainErrors, Bookkeeping, WorkerLocals, OneWorking,
        ChannelHoldsQueued, AnsweredStage, OpPcs, RestorePcs
  <1>11. CASE WaitRestore
    BY <1>11, AttemptFailedBooks
    DEF WaitRestore, ChainErrors, Bookkeeping, WorkerLocals, OneWorking,
        ChannelHoldsQueued, AnsweredStage, OpPcs, RestorePcs
  <1>12. CASE ResolveTerminal
    BY <1>12, RespondBooks, classifyType DEF ResolveTerminal, Answers
  <1>13. CASE ResolveUnknown \/ ResolvePause
    BY <1>13, RespondBooks
    DEF ResolveUnknown, ResolvePause, Answers, Bookkeeping, WorkerLocals, OneWorking,
        ChannelHoldsQueued, AnsweredStage, OpPcs, RestorePcs
  <1> QED
    BY <1>1, <1>2, <1>3, <1>4, <1>5, <1>6, <1>7, <1>8, <1>9, <1>10, <1>11,
       <1>12, <1>13 DEF Next, Work

\* The worker comes back to receiver.recv() only by answering.
LEMMA IdleStep == IInv /\ [Next]_vars => Idle'
  <1> SUFFICES ASSUME IInv, [Next]_vars PROVE Idle'
    OBVIOUS
  <1>1. CASE Work
    BY <1>1 DEF Work, Take, RetryPause, ReadAccount, Simulate, SendRestore,
                WaitRestore, Resimulate, Send, ResolveTerminal, ResolveUnknown,
                ResolvePause, AttemptFailed, Respond, Idle
  <1>2. CASE ~Work
    BY <1>2 DEF IInv, Idle, Next, Enqueue, Accept, RequestShutdown, CloseLedger,
                worker, vars
  <1> QED
    BY <1>1, <1>2

----------------------------------------------------------------------------
(* The ledger.                                                             *)

LEMMA LedgerStep == IInv /\ [Next]_vars => LedgerFacts'
  <1> SUFFICES ASSUME IInv, [Next]_vars PROVE LedgerFacts'
    OBVIOUS
  <1> USE DEF IInv, TypeOK
  <1>1. CASE CloseLedger
    <2>1. ASSUME NEW t \in sent, NEW ok \in BOOLEAN, Apply(t, ok)
          PROVE  LedgerFacts'
      <3> DEFINE new == [tx |-> t, ledger |-> head + 1, ok |-> ok]
      <3>1. /\ applied' = applied \cup {new} /\ head' = head + 1 /\ sent' = sent
            /\ t.seq = acctSeq + 1 /\ acctSeq' = acctSeq + 1
            /\ t.min <= head + 1 /\ head + 1 < t.max
        BY <1>1, <2>1 DEF CloseLedger, Apply, Applicable
      <3>2. new.tx = t /\ new.ledger = head + 1
        OBVIOUS
      <3> HIDE DEF new
      <3>3. \A a \in applied : a.tx # t /\ a.ledger \in Nat /\ a.tx \in Tx
        BY <3>1 DEF LedgerFacts, Tx
      <3>4. \A a \in applied : a.tx.seq \in Nat
        BY <3>3 DEF Tx
      <3> QED
        BY <3>1, <3>2, <3>3, <3>4 DEF LedgerFacts
    <2>2. CASE UNCHANGED applied /\ acctSeq' \in {acctSeq, acctSeq + 1}
      <3>1. \A a \in applied : a.ledger \in Nat /\ a.tx.seq \in Nat
        BY DEF Tx
      <3>2. sent' = sent /\ head' = head + 1
        BY <1>1 DEF CloseLedger
      <3> QED
        BY <2>2, <3>1, <3>2 DEF LedgerFacts
    <2> QED
      BY <1>1, <2>1, <2>2 DEF CloseLedger, ForeignApply
  <1>2. CASE UNCHANGED <<network>> /\ sent \subseteq sent'
    BY <1>2 DEF LedgerFacts, network
  <1> QED
    BY <1>1, <1>2, WorkIsLocal
    DEF Next, Enqueue, Accept, RequestShutdown, network, vars

----------------------------------------------------------------------------
(* Operations and the answers about them.                                  *)

Truth ==
    /\ OpOfWorking
    /\ OneOpPerSub
    /\ OpOfAnswered
    /\ AnsweredFromLedger
    /\ UnknownIsLast

\* Sending a restore lets no operation out.
LEMMA RestoreIsNoOp ==
  ASSUME sent' = sent \/ (sent' = sent \cup {tx} /\ tx.kind # "op")
  PROVE  Ops' = Ops
  BY DEF Ops

\* The worker moves on within a submission that sent no operation yet.
LEMMA MoveTruth ==
  ASSUME IInv, UNCHANGED <<stage, answer, applied, head, shutdown, sub>>, Ops' = Ops,
         pc \notin {"recv", "wait", "resolvePause"}
  PROVE  Truth'
  BY DEF IInv, Truth, OpOfWorking, OneOpPerSub, OpOfAnswered, AnsweredFromLedger,
         UnknownIsLast

\* An attempt that let no operation out is answered with an error.
LEMMA ErrorTruth ==
  ASSUME IInv, pc \notin {"recv", "wait", "resolvePause"}, Ops' = Ops,
         UNCHANGED <<applied, head, shutdown>>,
         NEW error \in ChainErrors, Respond(sub, error)
  PROVE  Truth'
  <1> USE DEF IInv, TypeOK
  <1>1. sub \in Subs /\ stage[sub] = "working"
    BY DEF WorkerLocals
  <1>2. \A t \in Ops : t.sub \in Subs /\ t.sub # sub
    BY <1>1 DEF OpOfWorking, Ops, Tx
  <1>3. error \notin Terminal \cup {"Unknown"}
    BY DEF ChainErrors, PrepareErrors, Terminal
  <1>4. OpOfWorking'
    BY <1>1, <1>2 DEF OpOfWorking, Respond
  <1>5. OneOpPerSub'
    BY DEF OneOpPerSub
  <1>6. OpOfAnswered'
    BY <1>1, <1>2 DEF OpOfAnswered, Respond
  <1>7. AnsweredFromLedger'
    BY <1>1, <1>3 DEF AnsweredFromLedger, Respond, Terminal
  <1>8. UnknownIsLast'
    BY <1>1, <1>3 DEF UnknownIsLast, Respond
  <1> QED
    BY <1>4, <1>5, <1>6, <1>7, <1>8 DEF Truth

LEMMA AttemptFailedTruth ==
  ASSUME IInv, pc \notin {"recv", "wait", "resolvePause"}, Ops' = Ops,
         UNCHANGED <<applied, head, shutdown>>,
         NEW error \in ChainErrors, AttemptFailed(error)
  PROVE  Truth'
  BY ErrorTruth, MoveTruth DEF AttemptFailed

\* The awaited operation is answered.
LEMMA AnswerTruth ==
  ASSUME IInv, pc \in {"wait", "resolvePause"},
         UNCHANGED <<applied, head, shutdown, sent>>,
         NEW outcome, Respond(sub, outcome),
         \/ outcome = "Unknown" /\ shutdown
         \/ /\ outcome \in {"Succeeded", "Failed"}
            /\ \E a \in applied : a.tx = tx /\ a.ok = (outcome = "Succeeded")
         \/ /\ outcome = "Expired" /\ head >= tx.max
            /\ \A a \in applied : a.tx # tx
  PROVE  Truth'
  <1> USE DEF IInv, TypeOK
  <1>1. /\ sub \in Subs /\ stage[sub] = "working"
        /\ tx \in Tx /\ tx.kind = "op" /\ tx.sub = sub
    BY DEF WorkerLocals, OpPcs
  <1>2. \A t \in Ops : t.sub \in Subs /\ (t.sub = sub => t = tx)
    BY <1>1 DEF OpOfWorking, Ops, Tx
  <1>3. Ops' = Ops
    BY DEF Ops
  <1>4. OpOfWorking'
    BY <1>1, <1>2, <1>3 DEF OpOfWorking, OneWorking, Respond
  <1>5. OneOpPerSub'
    BY <1>3 DEF OneOpPerSub
  <1>6. OpOfAnswered'
    BY <1>1, <1>2, <1>3 DEF OpOfAnswered, Respond
  <1>7. AnsweredFromLedger'
    BY <1>1 DEF AnsweredFromLedger, Respond
  <1>8. UnknownIsLast'
    BY <1>1 DEF UnknownIsLast, Respond
  <1> QED
    BY <1>4, <1>5, <1>6, <1>7, <1>8 DEF Truth

\* classify() answers the truth: what it finds is in the ledger, and a
\* transaction it calls expired is in none, because the RPC it asked holds
\* every ledger of the window.
LEMMA classifyTruth ==
  ASSUME IInv, tx \in Tx, NEW oldest \in Nat, NEW outcome \in classify(tx, oldest)
  PROVE  \/ /\ outcome \in {"Succeeded", "Failed"}
            /\ \E a \in applied : a.tx = tx /\ a.ok = (outcome = "Succeeded")
         \/ /\ outcome = "Expired" /\ head >= tx.max
            /\ \A a \in applied : a.tx # tx
  <1> USE DEF IInv, TypeOK
  <1>1. CASE outcome = "Expired"
    <2>1. Found(tx, oldest) = {} /\ head >= tx.max /\ oldest <= tx.min
      BY <1>1 DEF classify
    <2>2. \A a \in applied : a.tx # tx
      BY <2>1 DEF Found, LedgerFacts, Tx
    <2> QED
      BY <1>1, <2>1, <2>2
  <1>2. CASE outcome # "Expired"
    <2>1. PICK a \in Found(tx, oldest) :
                outcome = IF a.ok THEN "Succeeded" ELSE "Failed"
      BY <1>2 DEF classify
    <2>2. a \in applied /\ a.tx = tx /\ a.ok \in BOOLEAN
      BY DEF Found
    <2> QED
      BY <2>1, <2>2
  <1> QED
    BY <1>1, <1>2

LEMMA SendTruth ==
  ASSUME IInv, Send
  PROVE  Truth'
  <1> USE DEF IInv, TypeOK
  <1>1. pc = "send" /\ UNCHANGED <<applied, head, shutdown>>
    BY DEF Send, network
  <1>2. CASE \E error \in {"BadSequence", "Rejected"} :
                Refused(error) /\ AttemptFailed(error)
    BY <1>1, <1>2, RestoreIsNoOp, AttemptFailedTruth DEF Refused, ChainErrors
  <1>3. CASE /\ Accepted \/ Lost
             /\ pc' = "wait"
             /\ UNCHANGED <<stage, answer, sub, left, seq, tx>>
    <2>1. /\ sub \in Subs /\ stage[sub] = "working"
          /\ tx \in Tx /\ tx.kind = "op" /\ tx.sub = sub
      BY <1>1 DEF WorkerLocals, OpPcs
    <2>2. \A t \in Ops : t.sub \in Subs /\ t.sub # sub
      BY <1>1, <2>1 DEF OpOfWorking, Ops, Tx
    <2>3. Ops' = Ops \/ Ops' = Ops \cup {tx}
      BY <1>3, <2>1 DEF Accepted, Lost, Ops
    <2>4. OpOfWorking'
      BY <1>3, <2>1, <2>2, <2>3 DEF OpOfWorking
    <2>5. OneOpPerSub'
      BY <2>1, <2>2, <2>3 DEF OneOpPerSub
    <2>6. OpOfAnswered'
      BY <1>1, <1>3, <2>1, <2>3 DEF OpOfAnswered
    <2>7. AnsweredFromLedger' /\ UnknownIsLast'
      BY <1>1, <1>3 DEF AnsweredFromLedger, UnknownIsLast
    <2> QED
      BY <2>4, <2>5, <2>6, <2>7 DEF Truth
  <1> QED
    BY <1>2, <1>3 DEF Send

LEMMA TakeTruth ==
  ASSUME IInv, Take
  PROVE  Truth'
  <1> USE DEF IInv, TypeOK
  <1> DEFINE s == Head(channel)
  <1>1. s \in Subs /\ stage[s] = "queued" /\ pc = "recv"
    BY DEF Take, ChannelHoldsQueued
  <1>2. UNCHANGED <<applied, head, shutdown>> /\ Ops' = Ops
    BY DEF Take, network, Ops
  <1>3. \A t \in Ops : t.sub \in Subs /\ t.sub # s
    BY <1>1 DEF OpOfWorking, Ops, Tx
  <1>4. \A u \in Subs : stage[u] # "working"
    BY <1>1 DEF OneWorking
  <1>5. CASE shutdown
    <2>1. Respond(s, "ShuttingDown")
      BY <1>5 DEF Take
    <2> HIDE DEF s
    <2>2. OpOfWorking'
      BY <1>1, <1>2, <1>3, <1>4, <2>1 DEF OpOfWorking, Respond
    <2>3. OneOpPerSub'
      BY <1>2 DEF OneOpPerSub
    <2>4. OpOfAnswered'
      BY <1>1, <1>2, <1>3, <2>1 DEF OpOfAnswered, Respond
    <2>5. AnsweredFromLedger'
      BY <1>1, <1>2, <2>1 DEF AnsweredFromLedger, Respond
    <2>6. UnknownIsLast'
      BY <1>1, <1>2, <1>5, <2>1 DEF UnknownIsLast, Respond
    <2> QED
      BY <2>2, <2>3, <2>4, <2>5, <2>6 DEF Truth
  <1>6. CASE ~shutdown
    <2>1. stage' = [stage EXCEPT ![s] = "working"] /\ UNCHANGED answer
      BY <1>6 DEF Take
    <2> HIDE DEF s
    <2>2. OpOfWorking'
      BY <1>1, <1>2, <1>3, <1>4, <2>1 DEF OpOfWorking
    <2>3. OneOpPerSub'
      BY <1>2 DEF OneOpPerSub
    <2>4. OpOfAnswered'
      BY <1>1, <1>2, <1>3, <2>1 DEF OpOfAnswered
    <2>5. AnsweredFromLedger' /\ UnknownIsLast'
      BY <1>2, <1>6, <2>1 DEF AnsweredFromLedger, UnknownIsLast
    <2> QED
      BY <2>2, <2>3, <2>4, <2>5 DEF Truth
  <1> QED
    BY <1>5, <1>6

LEMMA CloseLedgerTruth ==
  ASSUME IInv, CloseLedger
  PROVE  Truth'
  <1> USE DEF IInv, TypeOK
  <1>1. /\ UNCHANGED <<stage, answer, shutdown, pc, sub, tx>> /\ Ops' = Ops
        /\ head' = head + 1 /\ applied \subseteq applied'
    BY DEF CloseLedger, callers, worker, Ops, Apply, ForeignApply
  <1>2. \A a \in applied' : a \in applied \/ head + 1 < a.tx.max
    BY DEF CloseLedger, Apply, ForeignApply, Applicable
  <1>3. OpOfWorking' /\ OneOpPerSub' /\ UnknownIsLast'
    BY <1>1 DEF OpOfWorking, OneOpPerSub, UnknownIsLast
  <1>4. \A t \in Ops : t.max \in Nat
    BY DEF Ops, Tx
  <1>5. OpOfAnswered'
    BY <1>1, <1>2, <1>4 DEF OpOfAnswered
  <1>6. AnsweredFromLedger'
    BY <1>1 DEF AnsweredFromLedger
  <1> QED
    BY <1>3, <1>5, <1>6 DEF Truth

LEMMA TruthStep == IInv /\ [Next]_vars => Truth'
  <1> SUFFICES ASSUME IInv, [Next]_vars PROVE Truth'
    OBVIOUS
  <1> USE DEF IInv
  <1>1. ASSUME NEW s \in Subs, Enqueue(s) \/ Accept(s) PROVE Truth'
    <2>1. /\ stage[s] \in {"new", "offered"}
          /\ \E x \in {"offered", "queued"} : stage' = [stage EXCEPT ![s] = x]
          /\ UNCHANGED <<answer, shutdown, pc, sub, tx, applied, head>>
          /\ Ops' = Ops
      BY <1>1 DEF Enqueue, Accept, worker, network, Ops
    <2> QED
      BY <2>1 DEF Truth, TypeOK, OpOfWorking, OneOpPerSub, OpOfAnswered,
                  AnsweredFromLedger, UnknownIsLast
  <1>2. CASE RequestShutdown \/ UNCHANGED vars
    BY <1>2 DEF RequestShutdown, vars, callers, worker, network, Truth, OpOfWorking,
                OneOpPerSub, OpOfAnswered, AnsweredFromLedger, UnknownIsLast, Ops
  <1>3. CASE CloseLedger
    BY <1>3, CloseLedgerTruth
  <1>4. CASE Take
    BY <1>4, TakeTruth
  <1>5. CASE RetryPause
    <2>1. UNCHANGED <<applied, head, shutdown, sent>> /\ Ops' = Ops /\ pc = "retryPause"
      BY <1>5 DEF RetryPause, network, Ops
    <2> QED
      BY <1>5, <2>1, ErrorTruth, MoveTruth DEF RetryPause
  <1>6. CASE ReadAccount \/ Simulate \/ Resimulate
    <2>1. UNCHANGED <<applied, head, shutdown, sent>> /\ Ops' = Ops
      BY <1>6 DEF ReadAccount, Simulate, Resimulate, network, Ops
    <2> QED
      BY <1>6, <2>1, AttemptFailedTruth, MoveTruth
      DEF ReadAccount, Simulate, Resimulate, ChainErrors
  <1>7. CASE SendRestore
    <2>1. UNCHANGED <<applied, head, shutdown>> /\ pc = "restore"
      BY <1>7 DEF SendRestore, network
    <2>2. tx.kind # "op"
      BY <2>1 DEF WorkerLocals, RestorePcs
    <2>3. Ops' = Ops
      BY <1>7, <2>2, RestoreIsNoOp DEF SendRestore, Accepted, Lost, Refused
    <2> QED
      BY <1>7, <2>1, <2>3, AttemptFailedTruth, MoveTruth DEF SendRestore, ChainErrors
  <1>8. CASE WaitRestore
    <2>1. UNCHANGED <<applied, head, shutdown, sent>> /\ Ops' = Ops
      BY <1>8 DEF WaitRestore, network, Ops
    <2> QED
      BY <1>8, <2>1, AttemptFailedTruth, MoveTruth DEF WaitRestore, ChainErrors
  <1>9. CASE Send
    BY <1>9, SendTruth
  <1>10. CASE ResolveTerminal
    <2>1. PICK oldest \in OldestLedgers : \E outcome \in classify(tx, oldest) :
                Respond(sub, outcome)
      BY <1>10 DEF ResolveTerminal
    <2>2. oldest \in Nat /\ tx \in Tx
      BY <1>10 DEF OldestLedgers, ResolveTerminal, WorkerLocals, OpPcs
    <2>3. UNCHANGED <<applied, head, shutdown, sent>> /\ pc = "wait"
      BY <1>10 DEF ResolveTerminal, network
    <2> QED
      BY <2>1, <2>2, <2>3, classifyTruth, AnswerTruth
  <1>11. CASE ResolveUnknown \/ ResolvePause
    <2>1. UNCHANGED <<applied, head, shutdown, sent>> /\ Ops' = Ops
          /\ pc \in {"wait", "resolvePause"}
      BY <1>11 DEF ResolveUnknown, ResolvePause, network, Ops
    <2>2. CASE shutdown /\ Respond(sub, "Unknown")
      BY <2>1, <2>2, AnswerTruth
    <2>3. CASE /\ pc' \in {"wait", "resolvePause"}
               /\ UNCHANGED <<stage, answer, sub, left, seq, tx>>
      BY <2>1, <2>3 DEF Truth, OpOfWorking, OneOpPerSub, OpOfAnswered,
                        AnsweredFromLedger, UnknownIsLast
    <2> QED
      BY <1>11, <2>2, <2>3 DEF ResolveUnknown, ResolvePause
  <1> QED
    BY <1>1, <1>2, <1>3, <1>4, <1>5, <1>6, <1>7, <1>8, <1>9, <1>10, <1>11
    DEF Next, Work

----------------------------------------------------------------------------
(* The theorems.                                                           *)

\* The inductive invariant holds in every reachable state of the queue.
THEOREM Invariance == Spec => []IInv
  <1>1. IInv /\ [Next]_vars => IInv'
    BY TypeStep, BooksStep, IdleStep, LedgerStep, TruthStep DEF IInv, Bookkeeping, Truth
  <1> QED
    BY <1>1, InitEstablishes, PTL DEF Spec

\* Type correctness: among others, the channel of queue.rs never holds more
\* than its capacity and the retry budget never goes below zero.
THEOREM TypeCorrect == Spec => []TypeOK
  BY Invariance, PTL DEF IInv

\* For any retry budget, a submission's operation is applied at most once
\* (queue.rs, attempt: a send whose answer was lost is never sent again).
THEOREM AtMostOnce == Spec => []AppliedAtMostOnce
  <1>1. IInv => AppliedAtMostOnce
    BY DEF IInv, AppliedAtMostOnce, AppliedOps, LedgerFacts, OneOpPerSub, Ops
  <1> QED
    BY <1>1, Invariance, PTL

\* No operation of an earlier attempt or submission can still land while the
\* worker prepares the next one (queue.rs, resolve).
THEOREM NeverOverlapping == Spec => []NoOverlap
  <1>1. ASSUME IInv, pc \in Preparing \cup {"send"}, NEW t \in Ops
        PROVE  ~MayLand(t)
    <2> USE DEF IInv, TypeOK
    <2>1. pc \notin {"recv", "wait", "resolvePause"}
      BY <1>1 DEF Preparing
    <2>2. t \in Tx /\ t.sub \in Subs /\ t.seq \in Nat /\ t.max \in Nat
      BY <1>1 DEF Ops, Tx
    <2>3. stage[t.sub] = "answered" /\ answer[t.sub] # "Unknown"
      BY <1>1, <2>1, <2>2 DEF OpOfWorking, UnknownIsLast
    <2>4. CASE \E a \in applied : a.tx = t
      BY <1>1, <2>2, <2>4 DEF LedgerFacts, MayLand
    <2>5. CASE head >= t.max
      BY <1>1, <2>2, <2>5 DEF MayLand
    <2> QED
      BY <1>1, <2>3, <2>4, <2>5 DEF OpOfAnswered
  <1>2. IInv => NoOverlap
    BY <1>1 DEF NoOverlap
  <1> QED
    BY <1>2, Invariance, PTL

\* What a caller is answered is true of the ledger, for ever after
\* (queue.rs, submit_until_settled; tx.rs, classify).
THEOREM TrueAnswers == Spec => []AnswersAreTrue
  <1>1. ASSUME IInv, NEW s \in Subs, answer[s] \in {"Succeeded", "Failed"}
        PROVE  \E a \in AppliedOps :
                   a.tx.sub = s /\ a.ok = (answer[s] = "Succeeded")
    BY <1>1 DEF IInv, AnsweredFromLedger, AppliedOps
  <1>2. ASSUME IInv, NEW s \in Subs, NEW t \in Ops, t.sub = s,
               answer[s] \in ChainErrors \cup {"Expired", "ShuttingDown"}
        PROVE  ~MayLand(t) /\ \A a \in applied : a.tx # t
    <2> USE DEF IInv, TypeOK
    <2>1. stage[s] = "answered" /\ answer[s] \notin {"Succeeded", "Failed", "Unknown"}
      BY <1>2 DEF AnsweredStage, ChainErrors, PrepareErrors
    <2>2. head >= t.max /\ \A a \in applied : a.tx # t
      BY <1>2, <2>1 DEF OpOfAnswered
    <2>3. t.max \in Nat
      BY <1>2 DEF Ops, Tx
    <2> QED
      BY <1>2, <2>2, <2>3 DEF MayLand
  <1>3. IInv => AnswersAreTrue
    BY <1>1, <1>2 DEF AnswersAreTrue
  <1> QED
    BY <1>3, Invariance, PTL

\* Once an Unknown outcome was given back, the key sends nothing any more
\* (queue.rs, run_queue_with and resolve).
THEOREM QuietWhenUnknown == Spec => QuietAfterUnknown
  <1>1. ASSUME IInv, [Next]_vars, \E s \in Subs : answer[s] = "Unknown"
        PROVE  sent' = sent
    <2>1. pc = "recv"
      BY <1>1 DEF IInv, UnknownIsLast
    <2>2. CASE Work
      BY <2>1, <2>2, WorkIsLocal
    <2>3. CASE ~Work
      BY <1>1, <2>3 DEF Next, Enqueue, Accept, RequestShutdown, CloseLedger, vars
    <2> QED
      BY <2>2, <2>3
  <1>2. IInv /\ [Next]_vars
          => [(\E s \in Subs : answer[s] = "Unknown") => sent' = sent]_vars
    BY <1>1
  <1> QED
    BY <1>2, Invariance, PTL DEF Spec, QuietAfterUnknown

----------------------------------------------------------------------------
(* The queue implements SubmissionLog.                                     *)

\* The steps that are none of the abstract queue's.
Unseen == UNCHANGED <<channel, sub, Landed, answer, shutdown>>

\* While no operation of the submission is out, none of it has landed.
LEMMA NothingLanded ==
  ASSUME IInv, pc \notin {"recv", "wait", "resolvePause"}
  PROVE  \A l \in Landed : l.sub # sub
  <1> USE DEF IInv, TypeOK
  <1>1. \A t \in Ops : t.sub # sub
    BY DEF OpOfWorking, WorkerLocals
  <1>2. \A a \in AppliedOps : a.tx \in Ops
    BY DEF AppliedOps, Ops, LedgerFacts
  <1> QED
    BY <1>1, <1>2 DEF Landed

\* An answer the ledger bears out finishes the submission worked on.
LEMMA AnswerFinishes ==
  ASSUME IInv, pc # "recv", UNCHANGED <<channel, applied, shutdown>>,
         NEW outcome \in NeverLands \cup {"Succeeded", "Failed", "Unknown"},
         Respond(sub, outcome), Promise!Truth(outcome)
  PROVE  Promise!Next
  <1>1. sub \in Subs /\ Landed' = Landed
    BY DEF IInv, WorkerLocals, Landed, AppliedOps
  <1>2. Promise!Finish(outcome)
    BY <1>1 DEF Promise!Finish, Respond
  <1> QED
    BY <1>2 DEF Promise!Next

LEMMA AttemptFailedImplements ==
  ASSUME IInv, pc \notin {"recv", "wait", "resolvePause"},
         UNCHANGED <<channel, applied, shutdown>>,
         NEW error \in ChainErrors, AttemptFailed(error)
  PROVE  Promise!Next \/ Unseen
  <1>1. CASE Respond(sub, error)
    <2>1. Promise!Truth(error)
      BY NothingLanded DEF Promise!Truth, NeverLands
    <2> QED
      BY <1>1, <2>1, AnswerFinishes DEF NeverLands
  <1>2. CASE ~Respond(sub, error)
    BY <1>2 DEF AttemptFailed, Unseen, Landed, AppliedOps
  <1> QED
    BY <1>1, <1>2

LEMMA TakeImplements ==
  ASSUME IInv, Take
  PROVE  Promise!Next
  <1>1. sub = NoSub /\ UNCHANGED <<Landed, shutdown>>
    BY DEF IInv, Idle, Take, network, Landed, AppliedOps
  <1>2. CASE shutdown
    BY <1>1, <1>2 DEF Take, Respond, Promise!Next, Promise!Refuse
  <1>3. CASE ~shutdown
    BY <1>1, <1>3 DEF Take, Promise!Next, Promise!Start
  <1> QED
    BY <1>2, <1>3

LEMMA AcceptImplements ==
  ASSUME IInv, NEW s \in Subs, Accept(s)
  PROVE  Promise!Next
  <1>1. answer[s] = "none" /\ s # sub
    BY DEF IInv, Accept, AnsweredStage, WorkerLocals, Idle
  <1>2. \A i \in 1..Len(channel) : channel[i] # s
    BY DEF IInv, Accept, ChannelHoldsQueued
  <1>3. UNCHANGED <<sub, Landed, answer, shutdown>>
    BY DEF Accept, worker, network, Landed, AppliedOps
  <1>4. Promise!Submit(s)
    BY <1>1, <1>2, <1>3 DEF Accept, Promise!Submit
  <1> QED
    BY <1>4 DEF Promise!Next

\* A ledger that applies an operation lands the submission worked on, or one
\* answered Unknown: every other answer says the operation cannot land.
LEMMA CloseLedgerImplements ==
  ASSUME IInv, CloseLedger
  PROVE  Promise!Next \/ Unseen
  <1> USE DEF IInv, TypeOK
  <1>1. UNCHANGED <<channel, sub, answer, shutdown, stage, pc, tx>>
    BY DEF CloseLedger, callers, worker
  <1>2. ASSUME NEW t \in sent, NEW ok \in BOOLEAN, Apply(t, ok)
        PROVE  Promise!Next \/ Unseen
    <2> DEFINE new == [tx |-> t, ledger |-> head + 1, ok |-> ok]
    <2>1. /\ applied' = applied \cup {new}
          /\ t \in Tx /\ t.sub \in Subs
          /\ t.seq = acctSeq + 1 /\ head + 1 < t.max
          /\ t.max \in Nat
      BY <1>2 DEF Apply, Applicable, Tx
    <2>2. new.tx = t /\ new.ok = ok
      OBVIOUS
    <2> HIDE DEF new
    <2>3. CASE t.kind # "op"
      <3>1. AppliedOps' = AppliedOps
        BY <2>1, <2>2, <2>3 DEF AppliedOps
      <3> QED
        BY <1>1, <3>1 DEF Unseen, Landed
    <2>4. CASE t.kind = "op"
      <3>1. AppliedOps' = AppliedOps \cup {new}
        BY <2>1, <2>2, <2>4 DEF AppliedOps
      <3>2. Landed' = Landed \cup {[sub |-> t.sub, ok |-> ok]}
        BY <2>2, <3>1 DEF Landed
      <3>3. t \in Ops /\ \A a \in applied : a.tx # t
        BY <2>1, <2>4 DEF Ops, LedgerFacts
      <3>4. \A l \in Landed : l.sub # t.sub
        BY <3>3 DEF Landed, AppliedOps, OneOpPerSub, Ops, LedgerFacts
      <3>5. t.sub = sub \/ answer[t.sub] = "Unknown"
        BY <2>1, <3>3 DEF OpOfWorking, OpOfAnswered, OneWorking
      <3>6. Promise!Land(t.sub, ok)
        BY <1>1, <3>2, <3>4, <3>5 DEF Promise!Land
      <3> QED
        BY <2>1, <3>6 DEF Promise!Next
    <2> QED
      BY <2>3, <2>4
  <1>3. CASE UNCHANGED applied
    BY <1>1, <1>3 DEF Unseen, Landed, AppliedOps
  <1> QED
    BY <1>2, <1>3 DEF CloseLedger, ForeignApply

LEMMA ResolveImplements ==
  ASSUME IInv, ResolveTerminal
  PROVE  Promise!Next
  <1> USE DEF IInv, TypeOK
  <1>1. PICK oldest \in OldestLedgers : \E outcome \in classify(tx, oldest) :
              Respond(sub, outcome)
    BY DEF ResolveTerminal
  <1>2. PICK outcome \in classify(tx, oldest) : Respond(sub, outcome)
    BY <1>1
  <1>3. /\ oldest \in Nat /\ tx \in Tx /\ tx.kind = "op" /\ tx.sub = sub
        /\ pc = "wait" /\ UNCHANGED <<channel, applied, shutdown>>
        /\ stage[sub] = "working"
    BY DEF OldestLedgers, ResolveTerminal, WorkerLocals, OpPcs, network
  <1>4. CASE /\ outcome \in {"Succeeded", "Failed"}
             /\ \E a \in applied : a.tx = tx /\ a.ok = (outcome = "Succeeded")
    <2>1. PICK a \in applied : a.tx = tx /\ a.ok = (outcome = "Succeeded")
      BY <1>4
    <2>2. [sub |-> sub, ok |-> a.ok] \in Landed
      BY <1>3, <2>1 DEF Landed, AppliedOps
    <2>3. Promise!Truth(outcome)
      BY <1>4, <2>1, <2>2 DEF Promise!Truth
    <2> QED
      BY <1>2, <1>3, <1>4, <2>3, AnswerFinishes
  <1>5. CASE outcome = "Expired" /\ \A a \in applied : a.tx # tx
    <2>1. \A t \in Ops : t.sub = sub => t = tx
      BY <1>3 DEF OpOfWorking
    <2>2. \A a \in AppliedOps : a.tx \in Ops
      BY DEF AppliedOps, Ops, LedgerFacts
    <2>3. \A l \in Landed : l.sub # sub
      BY <1>5, <2>1, <2>2 DEF Landed, AppliedOps
    <2>4. Promise!Truth(outcome)
      BY <1>5, <2>3 DEF Promise!Truth, NeverLands
    <2> QED
      BY <1>2, <1>3, <1>5, <2>4, AnswerFinishes DEF NeverLands
  <1> QED
    BY <1>3, <1>4, <1>5, classifyTruth

\* Every step of the queue is a step of its promise, or is not seen there.
LEMMA StepImplements ==
  ASSUME IInv, [Next]_vars
  PROVE  Promise!Next \/ Unseen
  <1>1. ASSUME NEW s \in Subs, Enqueue(s) PROVE Unseen
    BY <1>1 DEF Enqueue, worker, network, Unseen, Landed, AppliedOps
  <1>2. ASSUME NEW s \in Subs, Accept(s) PROVE Promise!Next
    BY <1>2, AcceptImplements
  <1>3. CASE RequestShutdown
    <2>1. UNCHANGED <<channel, sub, Landed, answer>>
      BY <1>3 DEF RequestShutdown, callers, worker, network, Landed, AppliedOps
    <2> QED
      BY <1>3, <2>1 DEF RequestShutdown, Promise!Next, Promise!Close
  <1>4. CASE CloseLedger
    BY <1>4, CloseLedgerImplements
  <1>5. CASE Take
    BY <1>5, TakeImplements
  <1>6. CASE ReadAccount \/ Simulate \/ Resimulate \/ Send \/ SendRestore \/ WaitRestore
    <2>1. /\ pc \notin {"recv", "wait", "resolvePause"}
          /\ UNCHANGED <<channel, applied, shutdown>>
      BY <1>6 DEF ReadAccount, Simulate, Resimulate, Send, SendRestore, WaitRestore,
                  network
    <2>2. \/ \E error \in ChainErrors : AttemptFailed(error)
          \/ UNCHANGED <<answer, sub>>
      BY <1>6 DEF ReadAccount, Simulate, Resimulate, Send, SendRestore, WaitRestore,
                  ChainErrors
    <2>3. CASE UNCHANGED <<answer, sub>>
      BY <2>1, <2>3 DEF Unseen, Landed, AppliedOps
    <2> QED
      BY <2>1, <2>2, <2>3, AttemptFailedImplements
  <1>7. CASE RetryPause
    <2>1. pc = "retryPause" /\ UNCHANGED <<channel, applied, shutdown>>
      BY <1>7 DEF RetryPause, network
    <2>2. CASE UNCHANGED <<answer, sub>>
      BY <2>1, <2>2 DEF Unseen, Landed, AppliedOps
    <2>3. ASSUME NEW error \in ChainErrors, Respond(sub, error)
          PROVE  Promise!Next
      <3>1. Promise!Truth(error)
        BY <2>1, NothingLanded DEF Promise!Truth, NeverLands
      <3> QED
        BY <2>1, <2>3, <3>1, AnswerFinishes DEF NeverLands
    <2> QED
      BY <1>7, <2>2, <2>3 DEF RetryPause
  <1>8. CASE ResolveTerminal
    BY <1>8, ResolveImplements
  <1>9. CASE ResolveUnknown \/ ResolvePause
    <2>1. pc # "recv" /\ UNCHANGED <<channel, applied, shutdown>>
      BY <1>9 DEF ResolveUnknown, ResolvePause, network
    <2>2. CASE shutdown /\ Respond(sub, "Unknown")
      <3>1. Promise!Truth("Unknown")
        BY <2>2 DEF Promise!Truth
      <3> QED
        BY <2>1, <2>2, <3>1, AnswerFinishes
    <2>3. CASE UNCHANGED <<answer, sub>>
      BY <2>1, <2>3 DEF Unseen, Landed, AppliedOps
    <2> QED
      BY <1>9, <2>2, <2>3 DEF ResolveUnknown, ResolvePause
  <1>10. CASE UNCHANGED vars
    BY <1>10 DEF vars, Unseen, Landed, AppliedOps
  <1> QED
    BY <1>1, <1>2, <1>3, <1>4, <1>5, <1>6, <1>7, <1>8, <1>9, <1>10 DEF Next, Work

\* The worker over the unreliable network implements the queue its callers
\* rely on (queue.rs, module documentation; SubmissionLog).
THEOREM Implements == Spec => KeepsPromise
  <1>1. Init => Promise!Init
    BY DEF Init, Promise!Init, Landed, AppliedOps
  <1>2. IInv /\ [Next]_vars => [Promise!Next]_(Promise!vars)
    BY StepImplements DEF Unseen, Promise!vars
  <1> QED
    BY <1>1, <1>2, Invariance, PTL DEF Spec, KeepsPromise, Promise!Spec

----------------------------------------------------------------------------
(* The order of the ledger.  The channel is the tail of the order it took  *)
(* its submissions in, the worker holds the last one out of it, and behind *)
(* an Unknown nothing more is sent: so what lands was taken later than all *)
(* that has landed.                                                        *)

\* How many submissions have left the channel.
Taken == Len(order) - Len(channel)

\* s was taken no later than u.
NotLater(s, u) ==
    \A i, j \in 1..Len(order) : order[i] = s /\ order[j] = u => i <= j

ChannelIsTail ==
    /\ Len(channel) <= Len(order)
    /\ \A i \in 1..Len(channel) : channel[i] = order[Taken + i]

OrderOnce ==
    /\ \A i, j \in 1..Len(order) : order[i] = order[j] => i = j
    /\ \A i \in 1..Len(order) : stage[order[i]] \notin {"new", "offered"}

HeldIsNewest == pc # "recv" => Taken >= 1 /\ order[Taken] = sub

OpsTaken == \A t \in Ops : \E i \in 1..Taken : order[i] = t.sub

UnknownIsNewest ==
    \A s \in Subs : answer[s] = "Unknown" => \A t \in Ops : NotLater(t.sub, s)

LandedInOrder ==
    \A a, b \in AppliedOps : a.ledger < b.ledger => NotLater(a.tx.sub, b.tx.sub)

OrderInv ==
    /\ ChannelIsTail
    /\ OrderOnce
    /\ HeldIsNewest
    /\ OpsTaken
    /\ UnknownIsNewest
    /\ LandedInOrder

\* A step that neither fills nor empties the channel.
Elsewhere ==
    /\ UNCHANGED <<order, channel>>
    /\ pc' # "recv" => pc # "recv" /\ sub' = sub
    /\ \A s \in Subs : stage[s] \notin {"new", "offered"} =>
                          stage'[s] \notin {"new", "offered"}
    /\ \A s \in Subs : answer'[s] = "Unknown" =>
                          \/ answer[s] = "Unknown"
                          \/ s = sub /\ pc # "recv" /\ sent' = sent

LEMMA OrderSteps ==
  ASSUME IInv, [Next]_vars
  PROVE  Elsewhere \/ Take \/ \E s \in Subs : Accept(s)
  <1> USE DEF IInv, TypeOK
  <1>1. ASSUME NEW s \in Subs, Enqueue(s) PROVE Elsewhere
    BY <1>1 DEF Enqueue, Elsewhere, worker
  <1>2. CASE RequestShutdown \/ CloseLedger \/ UNCHANGED vars
    BY <1>2 DEF RequestShutdown, CloseLedger, vars, callers, worker, Elsewhere
  <1>3. ASSUME pc # "recv", UNCHANGED <<order, channel>>, NEW outcome, Respond(sub, outcome),
               outcome = "Unknown" => sent' = sent
        PROVE  Elsewhere
    BY <1>3 DEF Respond, Elsewhere, WorkerLocals
  <1>4. ASSUME pc # "recv", UNCHANGED <<order, channel>>,
               NEW error \in ChainErrors, AttemptFailed(error)
        PROVE  Elsewhere
    <2>1. error # "Unknown"
      BY DEF ChainErrors, PrepareErrors
    <2> QED
      BY <1>3, <1>4, <2>1 DEF AttemptFailed, Elsewhere
  <1>5. CASE ReadAccount \/ Simulate \/ Resimulate \/ Send \/ SendRestore \/ WaitRestore
    <2>1. pc # "recv" /\ UNCHANGED <<order, channel>>
      BY <1>5 DEF ReadAccount, Simulate, Resimulate, Send, SendRestore, WaitRestore
    <2>2. \/ \E error \in ChainErrors : AttemptFailed(error)
          \/ UNCHANGED <<answer, stage, sub>>
      BY <1>5 DEF ReadAccount, Simulate, Resimulate, Send, SendRestore, WaitRestore,
                  ChainErrors
    <2> QED
      BY <1>4, <2>1, <2>2 DEF Elsewhere
  <1>6. CASE RetryPause \/ ResolveTerminal \/ ResolveUnknown \/ ResolvePause
    <2>1. pc # "recv" /\ UNCHANGED <<order, channel, sent>>
      BY <1>6 DEF RetryPause, ResolveTerminal, ResolveUnknown, ResolvePause
    <2>2. \/ \E outcome : Respond(sub, outcome)
          \/ UNCHANGED <<answer, stage, sub>>
      BY <1>6 DEF RetryPause, ResolveTerminal, ResolveUnknown, ResolvePause
    <2> QED
      BY <1>3, <2>1, <2>2 DEF Elsewhere
  <1> QED
    BY <1>1, <1>2, <1>5, <1>6 DEF Next, Work

\* The operations that are out, before and after any step.
LEMMA OpsSteps ==
  ASSUME IInv, [Next]_vars, NEW t \in Ops'
  PROVE  t \in Ops \/ (t.sub = sub /\ pc = "send" /\ Elsewhere)
  <1>1. sent' = sent \/ (sent' = sent \cup {tx} /\ pc \in {"send", "restore"} /\ Work)
    BY WorkIsLocal DEF Next, Enqueue, Accept, RequestShutdown, CloseLedger, vars
  <1>2. CASE t \notin sent
    <2>1. t = tx /\ pc \in {"send", "restore"} /\ t.kind = "op" /\ Work
      BY <1>1, <1>2 DEF Ops
    <2>2. pc = "send" /\ t.sub = sub
      BY <2>1 DEF IInv, WorkerLocals, OpPcs, RestorePcs
    <2>3. ~Take /\ ~\E s \in Subs : Accept(s)
      BY <1>1, <1>2, <2>1 DEF Take, Accept, Ops
    <2> QED
      BY <2>2, <2>3, OrderSteps
  <1>3. CASE t \in sent
    BY <1>3 DEF Ops
  <1> QED
    BY <1>2, <1>3

LEMMA InitOrder == Init => OrderInv
  BY DEF Init, OrderInv, ChannelIsTail, OrderOnce, HeldIsNewest, OpsTaken,
         UnknownIsNewest, LandedInOrder, Ops, AppliedOps, Taken

LEMMA AcceptOrder ==
  ASSUME IInv, OrderInv, NEW s \in Subs, Accept(s)
  PROVE  (ChannelIsTail /\ OrderOnce /\ HeldIsNewest /\ OpsTaken /\ UnknownIsNewest)'
  <1> USE DEF IInv, TypeOK, OrderInv
  <1>1. /\ order' = Append(order, s) /\ channel' = Append(channel, s)
        /\ stage[s] = "offered" /\ stage' = [stage EXCEPT ![s] = "queued"]
        /\ UNCHANGED <<pc, sub, answer, sent>>
    BY DEF Accept, worker
  <1>2. /\ order' \in Seq(Subs) /\ Len(order') = Len(order) + 1
        /\ order'[Len(order) + 1] = s
        /\ \A i \in 1..Len(order) : order'[i] = order[i] /\ order[i] # s /\ order[i] \in Subs
    BY <1>1 DEF OrderOnce
  <1>3. /\ Len(channel') = Len(channel) + 1 /\ channel'[Len(channel) + 1] = s
        /\ \A i \in 1..Len(channel) : channel'[i] = channel[i]
    BY <1>1
  <1>4. /\ Len(order) \in Nat /\ Len(channel) \in Nat /\ Len(channel) <= Len(order)
        /\ Taken' = Taken /\ Taken \in 0..Len(order)
    BY <1>2, <1>3 DEF Taken, ChannelIsTail
  <1>5. ChannelIsTail'
    <2>1. ASSUME NEW i \in 1..Len(channel') PROVE channel'[i] = order'[Taken' + i]
      <3>1. CASE i = Len(channel) + 1
        BY <1>2, <1>3, <1>4, <3>1 DEF Taken
      <3>2. CASE i \in 1..Len(channel)
        BY <1>2, <1>3, <1>4, <3>2 DEF Taken, ChannelIsTail
      <3> QED
        BY <1>3, <1>4, <3>1, <3>2
    <2> QED
      BY <1>2, <1>3, <1>4, <2>1 DEF ChannelIsTail
  <1>6. OrderOnce'
    <2>1. \A i \in 1..Len(order') : i \in 1..Len(order) \/ i = Len(order) + 1
      BY <1>2, <1>4
    <2>2. ASSUME NEW i \in 1..Len(order'), NEW j \in 1..Len(order'), order'[i] = order'[j]
          PROVE  i = j
      BY <1>2, <2>1, <2>2 DEF OrderOnce
    <2>3. ASSUME NEW i \in 1..Len(order')
          PROVE  stage'[order'[i]] \notin {"new", "offered"}
      <3>1. CASE i \in 1..Len(order)
        BY <1>1, <1>2, <3>1 DEF OrderOnce
      <3>2. CASE i = Len(order) + 1
        BY <1>1, <1>2, <3>2
      <3> QED
        BY <2>1, <3>1, <3>2
    <2> QED
      BY <2>2, <2>3 DEF OrderOnce
  <1>7. HeldIsNewest' /\ OpsTaken'
    BY <1>1, <1>2, <1>4 DEF HeldIsNewest, OpsTaken, Ops
  <1>8. UnknownIsNewest'
    <2>1. Ops' = Ops
      BY <1>1 DEF Ops
    <2>2. ASSUME NEW u \in Subs, answer'[u] = "Unknown", NEW t \in Ops
          PROVE  NotLater(t.sub, u)'
      <3>1. PICK k \in 1..Taken : order[k] = t.sub
        BY DEF OpsTaken
      <3>2. \A i \in 1..Len(order') : order'[i] = t.sub => i = k
        <4>1. ASSUME NEW i \in 1..Len(order'), order'[i] = t.sub PROVE i = k
          <5>1. k \in 1..Len(order)
            BY <1>4
          <5>2. i \in 1..Len(order)
            <6>1. i \in 1..Len(order) \/ i = Len(order) + 1
              BY <1>2, <1>4
            <6>2. order[k] # s
              BY <1>2, <5>1
            <6> QED
              BY <1>2, <3>1, <4>1, <6>1, <6>2
          <5> QED
            BY <1>2, <3>1, <4>1, <5>1, <5>2 DEF OrderOnce
        <4> QED
          BY <4>1
      <3>3. NotLater(t.sub, u)
        BY <1>1, <2>2 DEF UnknownIsNewest
      <3>4. ASSUME NEW j \in 1..Len(order'), order'[j] = u PROVE k <= j
        <4>1. k \in 1..Len(order) /\ k <= Len(order) /\ Len(order) \in Nat
          BY <1>2, <1>4
        <4>2. CASE j \in 1..Len(order)
          <5>1. order[j] = u
            BY <1>2, <3>4, <4>2
          <5> QED
            BY <4>1, <4>2, <5>1, <3>1, <3>3 DEF NotLater
        <4>3. CASE j = Len(order) + 1
          BY <4>1, <4>3
        <4> QED
          BY <1>2, <4>1, <4>2, <4>3
      <3> QED
        BY <3>2, <3>4 DEF NotLater
    <2> QED
      BY <2>1, <2>2 DEF UnknownIsNewest
  <1> QED
    BY <1>5, <1>6, <1>7, <1>8

LEMMA TakeOrder ==
  ASSUME IInv, OrderInv, Take
  PROVE  (ChannelIsTail /\ OrderOnce /\ HeldIsNewest /\ OpsTaken /\ UnknownIsNewest)'
  <1> USE DEF IInv, TypeOK, OrderInv
  <1>1. /\ channel # <<>> /\ channel' = Tail(channel) /\ UNCHANGED <<order, sent>>
        /\ pc' # "recv" => sub' = Head(channel)
        /\ \A s \in Subs : answer'[s] = answer[s] \/ answer'[s] = "ShuttingDown"
    BY DEF Take, Respond
  <1>1a. \A s \in Subs : stage'[s] = stage[s] \/ stage'[s] \in {"working", "answered"}
    BY DEF Take, Respond
  <1>2. /\ Len(channel) \in Nat \ {0} /\ Len(channel') = Len(channel) - 1
        /\ channel[1] = Head(channel)
        /\ \A i \in 1..Len(channel') : i + 1 \in 1..Len(channel) /\ channel'[i] = channel[i + 1]
    BY <1>1
  <1>3. /\ Len(order) \in Nat /\ Len(channel) <= Len(order)
        /\ Taken' = Taken + 1 /\ Taken \in 0..Len(order) /\ Taken + 1 \in 1..Len(order)
    BY <1>1, <1>2 DEF Taken, ChannelIsTail
  <1>4. ChannelIsTail'
    <2>1. ASSUME NEW i \in 1..Len(channel') PROVE channel'[i] = order'[Taken' + i]
      <3>1. channel[i + 1] = order[Taken + (i + 1)]
        BY <1>2 DEF ChannelIsTail
      <3>2. Taken + (i + 1) = Taken' + i
        BY <1>2, <1>3
      <3> QED
        BY <1>1, <1>2, <3>1, <3>2
    <2> QED
      BY <1>1, <1>2, <1>3, <2>1 DEF ChannelIsTail
  <1>5. HeldIsNewest'
    <2>1. channel[1] = order[Taken + 1]
      <3>1. ChannelIsTail
        OBVIOUS
      <3> HIDE DEF IInv, TypeOK, OrderInv
      <3> QED
        BY <1>2, <3>1 DEF ChannelIsTail
    <2> HIDE DEF IInv, TypeOK, OrderInv
    <2>2. Taken' >= 1 /\ order'[Taken'] = channel[1]
      <3>1. Taken' = Taken + 1 /\ order' = order /\ Taken \in Nat
        BY <1>1, <1>3
      <3> QED
        BY <3>1, <2>1
    <2>3. pc' # "recv" => sub' = channel[1]
      BY <1>1, <1>2
    <2> QED
      BY <2>2, <2>3 DEF HeldIsNewest
  <1>6. OrderOnce'
    <2>1. \A i \in 1..Len(order) : order[i] \in Subs
      OBVIOUS
    <2>2. \A i \in 1..Len(order) : stage'[order[i]] \notin {"new", "offered"}
      <3>1. ASSUME NEW i \in 1..Len(order), NEW s \in Subs, s = order[i]
            PROVE  stage'[s] \notin {"new", "offered"}
        <4>1. stage[s] \notin {"new", "offered"}
          BY <3>1 DEF OrderOnce
        <4>2. stage'[s] = stage[s] \/ stage'[s] \in {"working", "answered"}
          BY <1>1a
        <4> QED
          BY <4>1, <4>2
      <3> QED
        BY <2>1, <3>1
    <2> QED
      BY <1>1, <2>2 DEF OrderOnce
  <1>7. OpsTaken'
    BY <1>1, <1>3 DEF OpsTaken, Ops
  <1>8. UnknownIsNewest'
    BY <1>1 DEF UnknownIsNewest, NotLater, Ops
  <1> QED
    BY <1>4, <1>5, <1>6, <1>7, <1>8

LEMMA ElsewhereOrder ==
  ASSUME IInv, OrderInv, [Next]_vars, Elsewhere
  PROVE  (ChannelIsTail /\ OrderOnce /\ HeldIsNewest /\ OpsTaken /\ UnknownIsNewest)'
  <1> USE DEF IInv, TypeOK, OrderInv
  <1>1. Taken' = Taken /\ UNCHANGED <<order, channel>>
    BY DEF Elsewhere, Taken
  <1>2. Len(order) \in Nat /\ Len(channel) \in Nat /\ Taken \in 0..Len(order)
    BY DEF Taken, ChannelIsTail
  <1>3. ChannelIsTail' /\ HeldIsNewest'
    BY <1>1 DEF Elsewhere, ChannelIsTail, HeldIsNewest
  <1>4. OrderOnce'
    <2>1. \A i \in 1..Len(order) : order[i] \in Subs
      OBVIOUS
    <2> QED
      BY <1>1, <2>1 DEF Elsewhere, OrderOnce
  <1>5. OpsTaken'
    <2>1. ASSUME NEW t \in Ops' PROVE \E i \in 1..Taken : order[i] = t.sub
      <3>1. CASE t \in Ops
        BY <3>1 DEF OpsTaken
      <3>2. CASE t.sub = sub /\ pc = "send"
        BY <1>2, <3>2 DEF HeldIsNewest
      <3> QED
        BY <3>1, <3>2, OpsSteps
    <2> QED
      BY <1>1, <2>1 DEF OpsTaken
  <1>6. UnknownIsNewest'
    <2>1. ASSUME NEW s \in Subs, answer'[s] = "Unknown", NEW t \in Ops'
          PROVE  NotLater(t.sub, s)
      <3>1. CASE answer[s] = "Unknown"
        <4>1. t \in Ops
          BY <3>1, OpsSteps DEF UnknownIsLast
        <4> QED
          BY <3>1, <4>1 DEF UnknownIsNewest
      <3>2. CASE s = sub /\ pc # "recv" /\ sent' = sent
        <4>1. t \in Ops /\ order[Taken] = s /\ Taken \in 1..Len(order)
          BY <1>2, <3>2 DEF HeldIsNewest, Ops
        <4>2. PICK k \in 1..Taken : order[k] = t.sub
          BY <4>1 DEF OpsTaken
        <4> QED
          BY <1>2, <4>1, <4>2 DEF NotLater, OrderOnce
      <3> QED
        BY <2>1, <3>1, <3>2 DEF Elsewhere
    <2> QED
      BY <1>1, <2>1 DEF UnknownIsNewest, NotLater
  <1> QED
    BY <1>3, <1>4, <1>5, <1>6

\* Of two steps of the order, only an Accept adds a position, and it is the
\* last: what was no later stays no later, once both have a position.
LEMMA NotLaterStays ==
  ASSUME IInv, [Next]_vars, OrderInv, NEW s, NEW u,
         \E i \in 1..Len(order) : order[i] = s,
         \E i \in 1..Len(order) : order[i] = u,
         NotLater(s, u)
  PROVE  NotLater(s, u)'
  <1> USE DEF IInv, TypeOK, OrderInv
  <1>1. CASE \E r \in Subs : Accept(r)
    <2>1. PICK r \in Subs : Accept(r)
      BY <1>1
    <2>2. /\ order' = Append(order, r) /\ stage[r] = "offered"
          /\ Len(order) \in Nat /\ order \in Seq(Subs)
      BY <2>1 DEF Accept
    <2>3. r # s /\ r # u
      BY <2>2 DEF OrderOnce
    <2>4. ASSUME NEW i \in 1..Len(order'), order'[i] \in {s, u}
          PROVE  i \in 1..Len(order) /\ order'[i] = order[i]
      <3>1. Len(order') = Len(order) + 1 /\ order'[Len(order) + 1] = r
        BY <2>2
      <3>1a. Len(order) \in Nat
        BY <2>2
      <3> HIDE DEF IInv, TypeOK, OrderInv
      <3>2. i \in 1..Len(order) \/ i = Len(order) + 1
        BY <3>1, <3>1a
      <3>3. i \in 1..Len(order)
        <4>1. ASSUME i = Len(order) + 1 PROVE FALSE
          <5>1. order'[i] = r
            BY <4>1, <3>1
          <5> QED
            BY <5>1, <2>3, <2>4
        <4> QED
          BY <4>1, <3>2
      <3> QED
        BY <2>2, <3>3
    <2> QED
      BY <2>4 DEF NotLater
  <1>2. CASE UNCHANGED order
    BY <1>2 DEF NotLater
  <1> QED
    BY <1>1, <1>2, OrderSteps DEF Elsewhere, Take

\* What has landed was taken off the channel.
LEMMA LandedTaken ==
  ASSUME IInv, OrderInv, NEW a \in AppliedOps
  PROVE  a.tx \in Ops /\ \E i \in 1..Len(order) : order[i] = a.tx.sub
  <1>1. a.tx \in Ops
    BY DEF IInv, LedgerFacts, AppliedOps, Ops
  <1>2. PICK i \in 1..Taken : order[i] = a.tx.sub
    BY <1>1 DEF OrderInv, OpsTaken
  <1>3. i \in 1..Len(order)
    BY DEF IInv, TypeOK, OrderInv, ChannelIsTail, Taken
  <1> QED
    BY <1>1, <1>2, <1>3

\* An operation that lands is the one awaited or the one left Unknown, and
\* no other that is out was taken later than those.
LEMMA LandsLast ==
  ASSUME IInv, OrderInv, NEW t \in Ops, t.seq = acctSeq + 1, head + 1 < t.max,
         NEW a \in AppliedOps
  PROVE  NotLater(a.tx.sub, t.sub)
  <1> USE DEF IInv, TypeOK
  <1>1. t \in Tx /\ t.sub \in Subs /\ t.max \in Nat /\ t \in sent
    BY DEF Ops, Tx
  <1>2. \A b \in applied : b.tx # t
    BY <1>1 DEF LedgerFacts
  <1>3. (t.sub = sub /\ pc # "recv") \/ answer[t.sub] = "Unknown"
    BY <1>1, <1>2 DEF OpOfWorking, OpOfAnswered, OneWorking
  <1>4. CASE answer[t.sub] = "Unknown"
    BY <1>1, <1>4, LandedTaken DEF OrderInv, UnknownIsNewest
  <1>5. CASE t.sub = sub /\ pc # "recv"
    <2>1. Len(order) \in Nat /\ Len(channel) \in Nat /\ Taken \in 1..Len(order)
          /\ order[Taken] = t.sub
      BY <1>5 DEF OrderInv, HeldIsNewest, ChannelIsTail, Taken
    <2>2. PICK k \in 1..Taken : order[k] = a.tx.sub
      BY LandedTaken DEF OrderInv, OpsTaken
    <2>3. \A i, j \in 1..Len(order) : order[i] = order[j] => i = j
      BY DEF OrderInv, OrderOnce
    <2>4. ASSUME NEW i \in 1..Len(order), NEW j \in 1..Len(order),
                 order[i] = a.tx.sub, order[j] = t.sub
          PROVE  i <= j
      <3>1. k \in 1..Len(order) /\ k <= Taken
        BY <2>1, <2>2
      <3>2. i = k /\ j = Taken
        BY <2>1, <2>2, <2>3, <2>4, <3>1
      <3> QED
        BY <3>1, <3>2
    <2> QED
      BY <2>4 DEF NotLater
  <1> QED
    BY <1>3, <1>4, <1>5

LEMMA LandedOrderStep ==
  ASSUME IInv, OrderInv, [Next]_vars
  PROVE  LandedInOrder'
  <1>1. CASE UNCHANGED applied
    <2>1. AppliedOps' = AppliedOps
      BY <1>1 DEF AppliedOps
    <2>2. ASSUME NEW a \in AppliedOps, NEW b \in AppliedOps, a.ledger < b.ledger
          PROVE  NotLater(a.tx.sub, b.tx.sub)'
      <3>1. NotLater(a.tx.sub, b.tx.sub)
        BY <2>2 DEF OrderInv, LandedInOrder
      <3> QED
        BY <3>1, LandedTaken, NotLaterStays
    <2> QED
      BY <2>1, <2>2 DEF LandedInOrder
  <1>2. ASSUME CloseLedger, NEW t \in sent, NEW ok \in BOOLEAN, Apply(t, ok)
        PROVE  LandedInOrder'
    <2> DEFINE new == [tx |-> t, ledger |-> head + 1, ok |-> ok]
    <2>1. /\ applied' = applied \cup {new} /\ order' = order
          /\ t.seq = acctSeq + 1 /\ head + 1 < t.max
      BY <1>2 DEF CloseLedger, Apply, Applicable, callers
    <2>2. new.tx = t /\ new.ledger = head + 1
      OBVIOUS
    <2> HIDE DEF new
    <2>3. head \in Nat /\ \A a \in applied : a.ledger \in Nat /\ a.ledger <= head
      BY DEF IInv, TypeOK, LedgerFacts
    <2>4. ASSUME NEW a \in AppliedOps', NEW b \in AppliedOps', a.ledger < b.ledger
          PROVE  NotLater(a.tx.sub, b.tx.sub)
      <3>1. a \in AppliedOps
        <4>1. a # new
          BY <2>1, <2>2, <2>3, <2>4 DEF AppliedOps
        <4> QED
          BY <2>1, <4>1 DEF AppliedOps
      <3>2. CASE b \in AppliedOps
        BY <2>4, <3>1, <3>2 DEF OrderInv, LandedInOrder
      <3>3. CASE b \notin AppliedOps
        <4>1. b = new
          BY <2>1, <3>3 DEF AppliedOps
        <4>2. b.tx = t /\ t \in Ops
          BY <2>2, <4>1 DEF AppliedOps, Ops
        <4> QED
          BY <2>1, <3>1, <4>2, LandsLast
      <3> QED
        BY <3>2, <3>3
    <2> QED
      BY <2>1, <2>4 DEF LandedInOrder, NotLater
  <1>3. CASE CloseLedger
    BY <1>1, <1>2, <1>3 DEF CloseLedger, ForeignApply
  <1>4. CASE ~CloseLedger
    <2>1. UNCHANGED applied
      BY <1>4, WorkIsLocal DEF Next, Enqueue, Accept, RequestShutdown, network, vars
    <2> QED
      BY <1>1, <2>1
  <1> QED
    BY <1>3, <1>4

LEMMA OrderInvariance == Spec => []OrderInv
  <1>1. IInv /\ OrderInv /\ [Next]_vars => OrderInv'
    <2> SUFFICES ASSUME IInv, OrderInv, [Next]_vars PROVE OrderInv'
      OBVIOUS
    <2>1. (ChannelIsTail /\ OrderOnce /\ HeldIsNewest /\ OpsTaken /\ UnknownIsNewest)'
      BY OrderSteps, AcceptOrder, TakeOrder, ElsewhereOrder
    <2> QED
      BY <2>1, LandedOrderStep DEF OrderInv
  <1> QED
    BY <1>1, InitOrder, Invariance, PTL DEF Spec

\* The ledger holds the operations of a key in the order its channel took
\* their submissions, for every number of callers and however long the
\* outcome of each takes to tell (queue.rs, the one worker of a key).
THEOREM LandsInOrder == Spec => []AppliedInOrder
  <1>1. IInv /\ OrderInv => AppliedInOrder
    <2> SUFFICES ASSUME IInv, OrderInv, NEW a \in AppliedOps, NEW b \in AppliedOps,
                        a.ledger < b.ledger
                 PROVE  Position(a.tx.sub) < Position(b.tx.sub)
      BY DEF AppliedInOrder
    <2>1. PICK i \in 1..Len(order) : order[i] = a.tx.sub
      BY LandedTaken
    <2>2. PICK j \in 1..Len(order) : order[j] = b.tx.sub
      BY LandedTaken
    <2>3. DOMAIN order = 1..Len(order) /\ Len(order) \in Nat
      BY DEF IInv, TypeOK
    <2>4. Position(a.tx.sub) = i
      BY <2>1, <2>3 DEF Position, OrderInv, OrderOnce
    <2>5. Position(b.tx.sub) = j
      BY <2>2, <2>3 DEF Position, OrderInv, OrderOnce
    <2>6. i <= j
      BY <2>1, <2>2 DEF OrderInv, LandedInOrder, NotLater
    <2>7. a.tx.sub # b.tx.sub
      <3>1. a # b
        BY DEF IInv, TypeOK, AppliedOps
      <3>2. a.tx # b.tx
        BY <3>1 DEF IInv, LedgerFacts, AppliedOps
      <3> QED
        BY <3>2, LandedTaken DEF IInv, OneOpPerSub
    <2> QED
      BY <2>1, <2>2, <2>3, <2>4, <2>5, <2>6, <2>7
  <1> QED
    BY <1>1, OrderInvariance, Invariance, PTL
============================================================================
