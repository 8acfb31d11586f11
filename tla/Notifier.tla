------------------------------ MODULE Notifier ------------------------------
(***************************************************************************)
(* The notifier (src/notifier.rs) and its Telegram channel                  *)
(* (src/notifier/telegram.rs): at most one delivery per key and cooldown,   *)
(* and a bounded number of deliveries at once.  A call of notify_at takes   *)
(* two steps, the dedup entry under the lock and the permit after it, and   *)
(* other tasks run in between.                                              *)
(***************************************************************************)
EXTENDS Integers, Sequences, FiniteSets

CONSTANTS
    Keys,             \* (pool, account, kind)
    None,
    NOTIFY_IN_FLIGHT,
    Cooldown,
    MaxTime,          \* bound: the clock
    MaxSends          \* bound: notifications that were not deduplicated

ASSUME NotifierAssumption ==
    /\ NOTIFY_IN_FLIGHT \in Nat \ {0}
    /\ Cooldown \in Nat \ {0}
    /\ None \notin Nat

VARIABLES
    now,      \* the monotonic clock
    recent,   \* Inner::recent: when each key was last sent
    sends,    \* the notifications that passed the dedup, oldest first
    log,      \* the sends LogChannel wrote, as a set of their numbers
    drain     \* "none", "waiting", "drained" or "timed out"

notifierVars == <<now, recent, sends, log, drain>>

NotifierInit ==
    /\ now = 0
    /\ recent = [k \in Keys |-> None]
    /\ sends = <<>>
    /\ log = {}
    /\ drain = "none"

Sends == DOMAIN sends
InState(states) == {i \in Sends : sends[i].state \in states}
in_flight == Cardinality(InState({"flying"}))

\* A drain takes every free permit at once and each other one as it is freed.
NoPermit == drain = "waiting" \/ in_flight = NOTIFY_IN_FLIGHT

Deduplicated(k) == recent[k] # None /\ now - recent[k] < Cooldown

\* notify_at under the lock: the entry goes in before anything is sent.
Claim(k) ==
    /\ Len(sends) < MaxSends
    /\ ~Deduplicated(k)
    /\ recent' = [recent EXCEPT ![k] = now]
    /\ sends' = Append(sends, [key |-> k, at |-> now, state |-> "claimed"])
    /\ UNCHANGED <<now, log, drain>>

\* Faulty variant: whatever entry the key has by now is removed.
roll_back_Any(i) == [recent EXCEPT ![sends[i].key] = None]

\* Only the entry this send put there is taken out again.
roll_back(i) ==
    IF recent[sends[i].key] = sends[i].at
      THEN [recent EXCEPT ![sends[i].key] = None] ELSE recent

\* Faulty variant: a dropped notification keeps its entry.
Dropped_Keeps(i) ==
    /\ sends' = [sends EXCEPT ![i].state = "dropped"]
    /\ log' = log \cup {i}
    /\ UNCHANGED recent

Dropped(i) ==
    /\ sends' = [sends EXCEPT ![i].state = "dropped"]
    /\ recent' = roll_back(i)
    /\ log' = log \cup {i}

\* notify_at after the lock: a permit and a delivery task, or the log.
Dispatch(i) ==
    /\ sends[i].state = "claimed"
    /\ \/ NoPermit /\ Dropped(i)
       \/ /\ ~NoPermit
          /\ sends' = [sends EXCEPT ![i].state = "flying"]
          /\ UNCHANGED <<recent, log>>
    /\ UNCHANGED <<now, drain>>

\* How a Bot API call ends: a success says ok in a readable body; a refusal,
\* an unreadable body, a transport error and the timeout are errors.
Answers == {"ok", "refused", "unreadable", "transport"}
post_send_message(answer) == answer = "ok"

\* The delivery task: the permit is held until the entry is rolled back and
\* the line logged.
DeliveryEnds(i, answer) ==
    /\ sends[i].state = "flying"
    /\ \/ /\ post_send_message(answer)
          /\ sends' = [sends EXCEPT ![i].state = "delivered"]
          /\ UNCHANGED <<recent, log>>
       \/ /\ ~post_send_message(answer)
          /\ sends' = [sends EXCEPT ![i].state = "failed"]
          /\ recent' = roll_back(i)
          /\ log' = log \cup {i}
    /\ UNCHANGED <<now, drain>>

DrainStarts ==
    /\ drain = "none"
    /\ drain' = "waiting"
    /\ UNCHANGED <<now, recent, sends, log>>

\* Every permit is back, or the budget is spent.
DrainEnds ==
    /\ drain = "waiting"
    /\ \/ in_flight = 0 /\ drain' = "drained"
       \/ in_flight > 0 /\ drain' = "timed out"
    /\ UNCHANGED <<now, recent, sends, log>>

Elapse ==
    /\ now < MaxTime
    /\ now' = now + 1
    /\ UNCHANGED <<recent, sends, log, drain>>

NotifierNext ==
    \/ \E k \in Keys : Claim(k)
    \/ \E i \in Sends : Dispatch(i)
    \/ \E i \in Sends, answer \in Answers : DeliveryEnds(i, answer)
    \/ DrainStarts
    \/ DrainEnds
    \/ Elapse

NotifierSpec == NotifierInit /\ [][NotifierNext]_notifierVars

----------------------------------------------------------------------------

\* Two notifications of one key that both reach the channel were decided a
\* cooldown apart, whatever failed, was dropped or was rolled back between
\* them (notifier.rs, notify_at and roll_back).
NotSentTwice ==
    \A i, j \in InState({"flying", "delivered"}) :
        i < j /\ sends[i].key = sends[j].key => sends[j].at - sends[i].at >= Cooldown

\* A key is only ever suppressed by a notification that is on its way or has
\* arrived, never by one that failed or was dropped (notifier.rs, roll_back).
SuppressedByLive ==
    \A k \in Keys : Deduplicated(k) =>
        \E i \in InState({"claimed", "flying", "delivered"}) :
            sends[i].key = k /\ sends[i].at = recent[k]

\* A cooldown suppresses a repeat of what was said, and only of that: it never
\* lets one key's notification out twice, and never holds one back for a
\* delivery that did not happen (notifier.rs, notify_at and roll_back).
CooldownIsEarned == NotSentTwice /\ SuppressedByLive
=============================================================================
