-------------------------- MODULE SubmissionQueue --------------------------
(***************************************************************************)
(* The ordered submission queue of one signing key (src/queue.rs) over the *)
(* write path of the chain client (src/chain/tx.rs), in front of a network *)
(* that may refuse, lose, delay or apply what it is sent.                  *)
(*                                                                         *)
(* Callers enqueue submissions and wait.  One worker takes them in order   *)
(* and, for each, reads the account's sequence number, simulates, restores *)
(* archived entries when the simulation asks for it, sends, and polls the  *)
(* transaction's hash until the outcome is known.  Every `await` of the    *)
(* code is a step here, so ledgers close, other signers of the account get *)
(* in, and shutdown is requested between any two of them.                  *)
(*                                                                         *)
(* Queues of different keys share nothing, so one key is modelled.         *)
(***************************************************************************)
EXTENDS Integers, Sequences, FiniteSets

CONSTANTS
    Subs,         \* the submissions callers may make, one enqueue() each
    NoSub,        \* the worker holds none
    Capacity,     \* SUBMISSION_QUEUE_CAPACITY, the room in the channel
    Retries,      \* Submission::retries
    PollLedgers,  \* TxConfig::poll_ledgers, the width of a ledger window
    Retention,    \* ledgers the RPC is sure to hold behind its head
    IdleLedgers,  \* bound: ledgers that close with no transaction awaited
    MaxForeign    \* bound: transactions of other signers of the account

ASSUME QueueAssumption ==
    /\ NoSub \notin Subs
    /\ Capacity \in Nat \ {0}
    /\ Retries \in Nat
    /\ PollLedgers \in Nat \ {0}
    /\ Retention \in Nat
    /\ IdleLedgers \in Nat
    /\ MaxForeign \in Nat

NoTx == [kind |-> "none"]

(***************************************************************************)
(* Every transaction is told apart by its hash.  Two attempts of one       *)
(* submission never build the same envelope (a retry pauses for at least   *)
(* RetryPolicy::initial, which moves the envelope's time bound), so the    *)
(* submission, the retries left and the kind stand for the hash.           *)
(***************************************************************************)
Kinds == {"op", "restore"}
Tx == [sub : Subs, left : 0..Retries, kind : Kinds,
       seq : Nat, min : Nat, max : Nat]

(***************************************************************************)
(* ChainError, grouped by what the queue does with it: "Transport" stands  *)
(* for Transport, Http, Rpc and LedgerMoved; "Simulation" for every other  *)
(* error met before anything of the submission is sent.                    *)
(***************************************************************************)
PrepareErrors == {"Transport", "Simulation"}
ChainErrors == PrepareErrors
               \cup {"Rejected", "BadSequence", "Restore", "RestoreUnknown"}
Terminal == {"Succeeded", "Failed", "Expired"}
Answers == Terminal \cup {"Unknown", "ShuttingDown"} \cup ChainErrors

VARIABLES
    stage,     \* where each enqueue() call is
    channel,   \* the bounded mpsc channel
    answer,    \* what the oneshot of each call carried back
    shutdown,  \* the watch<bool> flag
    pc,        \* where the worker is
    sub,       \* the submission the worker holds
    left,      \* its retries_left
    seq,       \* the sequence number prepare() is building with
    tx,        \* the transaction built last by this attempt
    head,      \* the last closed ledger
    acctSeq,   \* the account's sequence number at head
    sent,      \* the envelopes that reached the network
    applied,   \* the transactions in closed ledgers, with ledger and result
    foreign,   \* how many transactions other signers of the account landed
    order      \* history: submissions in the order the channel took them

callers == <<stage, channel, order>>
worker == <<pc, sub, left, seq, tx>>
network == <<head, acctSeq, applied, foreign>>
vars == <<stage, channel, answer, shutdown, pc, sub, left, seq, tx,
          head, acctSeq, sent, applied, foreign, order>>

Preparing == {"account", "simulate", "restore", "restoreWait", "resimulate"}
Awaiting == {"wait", "resolvePause", "restoreWait"}
Pcs == {"recv", "send", "retryPause"} \cup Preparing \cup Awaiting

TypeOK ==
    /\ stage \in [Subs -> {"new", "offered", "queued", "working", "answered"}]
    /\ channel \in Seq(Subs)
    /\ Len(channel) <= Capacity
    /\ answer \in [Subs -> Answers \cup {"none"}]
    /\ shutdown \in BOOLEAN
    /\ pc \in Pcs
    /\ sub \in Subs \cup {NoSub}
    /\ left \in 0..Retries
    /\ seq \in Nat
    /\ tx \in Tx \cup {NoTx}
    /\ head \in Nat
    /\ acctSeq \in Nat
    /\ sent \subseteq Tx
    /\ applied \subseteq [tx : Tx, ledger : Nat, ok : BOOLEAN]
    /\ foreign \in 0..MaxForeign
    /\ order \in Seq(Subs)

Init ==
    /\ stage = [s \in Subs |-> "new"]
    /\ channel = <<>>
    /\ answer = [s \in Subs |-> "none"]
    /\ shutdown = FALSE
    /\ pc = "recv"
    /\ sub = NoSub
    /\ left = 0
    /\ seq = 0
    /\ tx = NoTx
    /\ head = 1
    /\ acctSeq = 0
    /\ sent = {}
    /\ applied = {}
    /\ foreign = 0
    /\ order = <<>>

----------------------------------------------------------------------------
(* The callers: enqueue() waits for room, then for its answer.             *)

Enqueue(s) ==
    /\ stage[s] = "new"
    /\ stage' = [stage EXCEPT ![s] = "offered"]
    /\ UNCHANGED <<channel, answer, shutdown, worker, network, sent, order>>

Accept(s) ==
    /\ stage[s] = "offered"
    /\ Len(channel) < Capacity
    /\ stage' = [stage EXCEPT ![s] = "queued"]
    /\ channel' = Append(channel, s)
    /\ order' = Append(order, s)
    /\ UNCHANGED <<answer, shutdown, worker, network, sent>>

RequestShutdown ==
    /\ ~shutdown
    /\ shutdown' = TRUE
    /\ UNCHANGED <<callers, answer, worker, network, sent>>

----------------------------------------------------------------------------
(* The network.  An account has at most one transaction in a ledger.  A    *)
(* transaction is applied in its window, at the next sequence number, and  *)
(* consumes that number whether its operation succeeds or fails.           *)

Applicable(t, ledger) ==
    /\ t.seq = acctSeq + 1
    /\ t.min <= ledger
    /\ ledger < t.max

Apply(t, ok) ==
    /\ Applicable(t, head + 1)
    /\ acctSeq' = t.seq
    /\ applied' = applied \cup {[tx |-> t, ledger |-> head + 1, ok |-> ok]}
    /\ UNCHANGED foreign

ForeignApply ==
    /\ foreign < MaxForeign
    /\ foreign' = foreign + 1
    /\ acctSeq' = acctSeq + 1
    /\ UNCHANGED applied

CloseLedger ==
    /\ head < IdleLedgers \/ (pc \in Awaiting /\ head < tx.max)
    /\ head' = head + 1
    /\ \/ \E t \in sent, ok \in BOOLEAN : Apply(t, ok)
       \/ ForeignApply
       \/ UNCHANGED <<acctSeq, applied, foreign>>
    /\ UNCHANGED <<callers, answer, shutdown, worker, sent>>

\* The RPC holds at least the last Retention ledgers, and further back
\* than that what it happens to: the oldest ledgers it may answer from.
OldestLedgers == 0 .. (IF head > Retention THEN head - Retention ELSE 0)

\* getTransaction: the entry of t in the ledgers from `oldest` on.
Found(t, oldest) == {a \in applied : a.tx = t /\ a.ledger >= oldest}

----------------------------------------------------------------------------
(* The worker: what ends a submission.                                     *)

\* respond.send(outcome), and back to receiver.recv().
Respond(s, outcome) ==
    /\ answer' = [answer EXCEPT ![s] = outcome]
    /\ stage' = [stage EXCEPT ![s] = "answered"]
    /\ pc' = "recv"
    /\ sub' = NoSub
    /\ left' = 0
    /\ seq' = 0
    /\ tx' = NoTx

\* Whether an error proves that nothing of the submission was sent.
sent_nothing(error) == error \in {"Rejected", "Transport"}

\* Faulty variant: a retry is counted down without being asked for.
AttemptFailed_Underflow(error) ==
    \/ /\ sent_nothing(error)
       /\ left' = left - 1
       /\ pc' = "retryPause"
       /\ seq' = 0
       /\ tx' = NoTx
       /\ UNCHANGED <<stage, answer, sub>>
    \/ /\ ~sent_nothing(error)
       /\ Respond(sub, error)

\* Faulty variant: retries that are never counted down.
AttemptFailed_NoBudget(error) ==
    \/ /\ sent_nothing(error)
       /\ pc' = "retryPause"
       /\ seq' = 0
       /\ tx' = NoTx
       /\ UNCHANGED <<stage, answer, sub, left>>
    \/ /\ ~sent_nothing(error)
       /\ Respond(sub, error)

\* submit_until_settled: an attempt ended in `error`.
AttemptFailed(error) ==
    \/ /\ sent_nothing(error) /\ left > 0
       /\ left' = left - 1
       /\ pc' = "retryPause"
       /\ seq' = 0
       /\ tx' = NoTx
       /\ UNCHANGED <<stage, answer, sub>>
    \/ /\ ~(sent_nothing(error) /\ left > 0)
       /\ Respond(sub, error)

\* pause_unless_shutdown, then the next attempt.  The error given back when
\* the pause is cut short is the one that was to be retried.
RetryPause ==
    /\ pc = "retryPause"
    /\ \/ /\ ~shutdown
          /\ pc' = "account"
          /\ UNCHANGED <<stage, answer, sub, left, seq, tx>>
       \/ /\ shutdown
          /\ \E error \in ChainErrors : sent_nothing(error) /\ Respond(sub, error)
    /\ UNCHANGED <<channel, order, shutdown, network, sent>>

\* Faulty variant: the newest submission is taken first.
Take_Newest ==
    /\ pc = "recv"
    /\ channel # <<>>
    /\ channel' = SubSeq(channel, 1, Len(channel) - 1)
    /\ \/ /\ shutdown
          /\ Respond(channel[Len(channel)], "ShuttingDown")
       \/ /\ ~shutdown
          /\ stage' = [stage EXCEPT ![channel[Len(channel)]] = "working"]
          /\ pc' = "account"
          /\ sub' = channel[Len(channel)]
          /\ left' = Retries
          /\ UNCHANGED <<answer, seq, tx>>
    /\ UNCHANGED <<shutdown, network, sent, order>>

\* Faulty variant: the shutdown flag is not read between submissions.
Take_Deaf ==
    /\ pc = "recv"
    /\ channel # <<>>
    /\ channel' = Tail(channel)
    /\ stage' = [stage EXCEPT ![Head(channel)] = "working"]
    /\ pc' = "account"
    /\ sub' = Head(channel)
    /\ left' = Retries
    /\ UNCHANGED <<answer, seq, tx, shutdown, network, sent, order>>

\* Faulty variant: the worker stops receiving at shutdown.
Take_Stops ==
    /\ pc = "recv"
    /\ channel # <<>>
    /\ ~shutdown
    /\ channel' = Tail(channel)
    /\ stage' = [stage EXCEPT ![Head(channel)] = "working"]
    /\ pc' = "account"
    /\ sub' = Head(channel)
    /\ left' = Retries
    /\ UNCHANGED <<answer, seq, tx, shutdown, network, sent, order>>

Take ==
    /\ pc = "recv"
    /\ channel # <<>>
    /\ channel' = Tail(channel)
    /\ \/ /\ shutdown
          /\ Respond(Head(channel), "ShuttingDown")
       \/ /\ ~shutdown
          /\ stage' = [stage EXCEPT ![Head(channel)] = "working"]
          /\ pc' = "account"
          /\ sub' = Head(channel)
          /\ left' = Retries
          /\ UNCHANGED <<answer, seq, tx>>
    /\ UNCHANGED <<shutdown, network, sent, order>>

----------------------------------------------------------------------------
(* prepare(): account, simulation, and the restore of archived entries.    *)

\* The transaction unsigned() builds from the ledger a simulation answered at.
Build(kind, sequence) ==
    [sub |-> sub, left |-> left, kind |-> kind, seq |-> sequence,
     min |-> head, max |-> head + PollLedgers + 1]

ReadAccount ==
    /\ pc = "account"
    /\ \/ /\ seq' = acctSeq + 1
          /\ pc' = "simulate"
          /\ UNCHANGED <<stage, answer, sub, left, tx>>
       \/ \E error \in PrepareErrors : AttemptFailed(error)
    /\ UNCHANGED <<channel, order, shutdown, network, sent>>

Simulate ==
    /\ pc = "simulate"
    /\ \/ /\ tx' = Build("op", seq)
          /\ pc' = "send"
          /\ UNCHANGED <<stage, answer, sub, left, seq>>
       \/ /\ tx' = Build("restore", seq)
          /\ pc' = "restore"
          /\ UNCHANGED <<stage, answer, sub, left, seq>>
       \/ \E error \in PrepareErrors : AttemptFailed(error)
    /\ UNCHANGED <<channel, order, shutdown, network, sent>>

\* The second simulation, one sequence number on.
Resimulate ==
    /\ pc = "resimulate"
    /\ \/ /\ tx' = Build("op", seq)
          /\ pc' = "send"
          /\ UNCHANGED <<stage, answer, sub, left, seq>>
       \/ \E error \in PrepareErrors \cup {"Restore"} : AttemptFailed(error)
    /\ UNCHANGED <<channel, order, shutdown, network, sent>>

----------------------------------------------------------------------------
(* sendTransaction.  A first TRY_AGAIN_LATER leaves everything as it was.  *)

Accepted ==
    /\ tx.seq > acctSeq
    /\ sent' = sent \cup {tx}

\* The answer is lost (or unreadable): the envelope was forwarded, or not.
Lost == sent' = sent \cup {tx} \/ UNCHANGED sent

\* The send is refused before the network's queue.
Refused(error) ==
    /\ error = "Rejected" \/ (error = "BadSequence" /\ tx.seq # acctSeq + 1)
    /\ UNCHANGED sent

\* Faulty variant: a send whose answer is lost is prepared and sent again.
Send_Resends ==
    /\ pc = "send"
    /\ \/ /\ Accepted
          /\ pc' = "wait"
          /\ UNCHANGED <<stage, answer, sub, left, seq, tx>>
       \/ Lost /\ AttemptFailed("Transport")
       \/ \E error \in {"BadSequence", "Rejected"} :
             Refused(error) /\ AttemptFailed(error)
    /\ UNCHANGED <<channel, order, shutdown, network>>

Send ==
    /\ pc = "send"
    /\ \/ /\ Accepted \/ Lost
          /\ pc' = "wait"
          /\ UNCHANGED <<stage, answer, sub, left, seq, tx>>
       \/ \E error \in {"BadSequence", "Rejected"} :
             Refused(error) /\ AttemptFailed(error)
    /\ UNCHANGED <<channel, order, shutdown, network>>

SendRestore ==
    /\ pc = "restore"
    /\ \/ /\ Accepted
          /\ pc' = "restoreWait"
          /\ UNCHANGED <<stage, answer, sub, left, seq, tx>>
       \/ Lost /\ AttemptFailed("RestoreUnknown")
       \/ \E error \in {"BadSequence", "Rejected"} :
             Refused(error) /\ AttemptFailed(error)
    /\ UNCHANGED <<channel, order, shutdown, network>>

----------------------------------------------------------------------------
(* wait_for(): polls until an outcome can be told.                         *)

\* Faulty variant: NOT_FOUND past the window is taken for proof of expiry
\* even when the RPC no longer holds the window.
classify_NoRetention(t, oldest) ==
    {IF a.ok THEN "Succeeded" ELSE "Failed" : a \in Found(t, oldest)}
    \cup {e \in {"Expired"} : Found(t, oldest) = {} /\ head >= t.max}

\* What a getTransaction answer proves about t, from an RPC whose oldest
\* ledger is `oldest`; {} while t may still land.
classify(t, oldest) ==
    {IF a.ok THEN "Succeeded" ELSE "Failed" : a \in Found(t, oldest)}
    \cup {e \in {"Expired"} : /\ Found(t, oldest) = {}
                              /\ head >= t.max
                              /\ oldest <= t.min}

\* resolve(): a terminal outcome is the answer.
ResolveTerminal ==
    /\ pc = "wait"
    /\ \E oldest \in OldestLedgers :
          \E outcome \in classify(tx, oldest) : Respond(sub, outcome)
    /\ UNCHANGED <<channel, order, shutdown, network, sent>>

\* Faulty variant: an unknown outcome is given back at once.
ResolveUnknown_GivesUp ==
    /\ pc = "wait"
    /\ Respond(sub, "Unknown")
    /\ UNCHANGED <<channel, order, shutdown, network, sent>>

\* resolve(): wait_for met a permanent error or its deadline.
ResolveUnknown ==
    /\ pc = "wait"
    /\ \/ shutdown /\ Respond(sub, "Unknown")
       \/ /\ ~shutdown
          /\ pc' = "resolvePause"
          /\ UNCHANGED <<stage, answer, sub, left, seq, tx>>
    /\ UNCHANGED <<channel, order, shutdown, network, sent>>

ResolvePause ==
    /\ pc = "resolvePause"
    /\ \/ shutdown /\ Respond(sub, "Unknown")
       \/ /\ ~shutdown
          /\ pc' = "wait"
          /\ UNCHANGED <<stage, answer, sub, left, seq, tx>>
    /\ UNCHANGED <<channel, order, shutdown, network, sent>>

\* restore(): one wait_for of the restore, whose failure fails the attempt.
WaitRestore ==
    /\ pc = "restoreWait"
    /\ \E oldest \in OldestLedgers :
       \E outcome \in classify(tx, oldest) \cup {"Unknown"} :
          \/ /\ outcome = "Succeeded"
             /\ pc' = "resimulate"
             /\ seq' = seq + 1
             /\ tx' = NoTx
             /\ UNCHANGED <<stage, answer, sub, left>>
          \/ outcome = "Unknown" /\ AttemptFailed("RestoreUnknown")
          \/ outcome \in {"Failed", "Expired"} /\ AttemptFailed("Restore")
    /\ UNCHANGED <<channel, order, shutdown, network, sent>>

----------------------------------------------------------------------------
Work ==
    \/ Take \/ RetryPause
    \/ ReadAccount \/ Simulate \/ SendRestore \/ WaitRestore \/ Resimulate
    \/ Send \/ ResolveTerminal \/ ResolveUnknown \/ ResolvePause

Next ==
    \/ \E s \in Subs : Enqueue(s) \/ Accept(s)
    \/ RequestShutdown
    \/ CloseLedger
    \/ Work

Spec == Init /\ [][Next]_vars

(***************************************************************************)
(* The worker is one task that always runs on, and a caller waiting for    *)
(* room gets it once there is room.  That is all the runtime promises.     *)
(***************************************************************************)
WorkerFairness ==
    /\ WF_vars(Work)
    /\ \A s \in Subs : WF_vars(Accept(s))

(***************************************************************************)
(* Beyond the runtime: ledgers keep closing, and an RPC polled again and   *)
(* again does not fail every time it has something to tell.                *)
(***************************************************************************)
NetworkFairness ==
    /\ WF_vars(CloseLedger)
    /\ SF_vars(ResolveTerminal)

----------------------------------------------------------------------------
(* Properties.                                                             *)

Ops == {t \in sent : t.kind = "op"}
AppliedOps == {a \in applied : a.tx.kind = "op"}

\* A transaction that is in the network's hands and can still consume a
\* sequence number.
MayLand(t) == t \in sent /\ t.seq > acctSeq /\ head + 1 < t.max

\* While the worker prepares or is about to send, no operation it sent
\* before can still be applied: resolve() gave the key back only once the
\* earlier outcome was terminal (queue.rs, attempt and resolve).
NoOverlap ==
    pc \in Preparing \cup {"send"} =>
        \A t \in Ops : ~MayLand(t)

\* The same of every transaction of the key, restores included: "nothing is
\* prepared for a key while an earlier transaction's outcome is still
\* unknown" (queue.rs module documentation).
NothingUnknownBehindPrepare ==
    pc = "account" => \A t \in sent : ~MayLand(t)

\* However often a submission is retried, and whatever answers are lost, its
\* operation is in at most one ledger.
AppliedAtMostOnce ==
    \A a, b \in AppliedOps : a.tx.sub = b.tx.sub => a = b

\* The answer a caller acts on is true, at once and for ever: Succeeded and
\* Failed are what the ledger says, and after Expired or any error the
\* operation is in no ledger, now or later (the executor releases the
\* wallet's reservation on the strength of it).
AnswersAreTrue ==
    \A s \in Subs :
        /\ answer[s] \in {"Succeeded", "Failed"} =>
              \E a \in AppliedOps :
                  a.tx.sub = s /\ a.ok = (answer[s] = "Succeeded")
        /\ answer[s] \in ChainErrors \cup {"Expired", "ShuttingDown"} =>
              \A t \in Ops : t.sub = s => ~MayLand(t) /\ \A a \in applied : a.tx # t

Position(s) == CHOOSE i \in DOMAIN order : order[i] = s

\* Operations reach the ledger in the order the channel took them.
AppliedInOrder ==
    \A a, b \in AppliedOps :
        a.ledger < b.ledger => Position(a.tx.sub) < Position(b.tx.sub)

\* An Unknown answer goes back only while shutting down, and from then on
\* the key sends nothing, so nothing races the transaction still in flight.
QuietAfterUnknown ==
    [][(\E s \in Subs : answer[s] = "Unknown") => sent' = sent]_vars

(***************************************************************************)
(* SubmissionLog is what the queue promises.  What has landed is what the  *)
(* ledgers hold of the operations: restores and retries do not show.       *)
(***************************************************************************)
Landed == {[sub |-> a.tx.sub, ok |-> a.ok] : a \in AppliedOps}
NeverLands == ChainErrors \cup {"Expired"}

Promise == INSTANCE SubmissionLog
           WITH Failures <- NeverLands, queue <- channel, active <- sub,
                landed <- Landed, closing <- shutdown

\* Through every retry, restore, lost answer and foreign transaction, the
\* worker over the network does what the queue promises: in order, one at a
\* time, each operation lands at most once, only while it is worked on or
\* behind an Unknown on the way out, and the answer agrees with the ledger.
KeepsPromise == Promise!Spec

\* Every call is answered, even with the channel full or the chain failing,
\* as long as ledgers close and the RPC sometimes answers.
EveryCallAnswered ==
    NetworkFairness =>
        \A s \in Subs : stage[s] = "offered" ~> stage[s] = "answered"

\* Once shutdown is requested every call is released, whether or not the
\* chain moves and whatever the RPC answers.
ShutdownReleases ==
    \A s \in Subs :
        (shutdown /\ stage[s] # "new") ~> stage[s] = "answered"
============================================================================
