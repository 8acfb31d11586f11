---------------------------- MODULE RuntimeProofs ----------------------------
(***************************************************************************)
(* Proofs about Notifier and Runtime: a cooldown is earned, and a run ends  *)
(* well, for every set of keys, pools and workers and every bound; about    *)
(* Health and Metrics: what the run says of itself is so; and about         *)
(* Configuration: what a start lets through is what the bot assumes, for    *)
(* every environment it is given.                                           *)
(***************************************************************************)
EXTENDS Runtime, Health, Configuration, FiniteSetTheorems, SequenceTheorems,
        WellFoundedInduction, TLAPS

----------------------------------------------------------------------------
(* The notifier.                                                           *)

LiveStates == {"claimed", "flying", "delivered"}
GoneStates == {"dropped", "failed"}
Notification == [key : Keys, at : Nat, state : LiveStates \cup GoneStates]

NotifierType ==
    /\ now \in Nat
    /\ recent \in [Keys -> Nat \cup {None}]
    /\ sends \in Seq(Notification)

\* Two of one key that may still reach the channel are a cooldown apart.
Spaced ==
    \A i, j \in InState(LiveStates) :
        i < j /\ sends[i].key = sends[j].key => sends[j].at - sends[i].at >= Cooldown

\* Whatever may still reach the channel holds its key back for a cooldown.
LiveHolds ==
    \A i \in InState(LiveStates) :
        recent[sends[i].key] = sends[i].at \/ now - sends[i].at >= Cooldown

\* An entry is that of a notification that may still reach the channel.
RecentIsLive ==
    \A k \in Keys : recent[k] # None =>
        \E i \in InState(LiveStates) : sends[i].key = k /\ sends[i].at = recent[k]

NotifierInv == NotifierType /\ Spaced /\ LiveHolds /\ RecentIsLive

\* What a step does to entries and notifications: a claim, a change of state
\* that keeps a notification live or takes it and its entry back, or nothing.
ClaimsFor(k) ==
    /\ k \in Keys /\ ~Deduplicated(k)
    /\ recent' = [recent EXCEPT ![k] = now]
    /\ sends' = Append(sends, [key |-> k, at |-> now, state |-> "claimed"])
    /\ UNCHANGED now

StaysLive(i) ==
    /\ i \in InState(LiveStates)
    /\ \E s \in LiveStates : sends' = [sends EXCEPT ![i].state = s]
    /\ UNCHANGED <<now, recent>>

TakenBack(i) ==
    /\ i \in InState(LiveStates)
    /\ \E s \in GoneStates : sends' = [sends EXCEPT ![i].state = s]
    /\ recent' = roll_back(i)
    /\ UNCHANGED now

StandsStill == UNCHANGED <<recent, sends>> /\ now' \in {now, now + 1}

LEMMA NotifierMoves ==
    ASSUME NotifierInv, [NotifierNext]_notifierVars
    PROVE  \/ \E k \in Keys : ClaimsFor(k)
           \/ \E i \in Sends : StaysLive(i) \/ TakenBack(i)
           \/ StandsStill
  <1>1. ASSUME NEW k \in Keys, Claim(k) PROVE ClaimsFor(k)
    BY <1>1 DEF Claim, ClaimsFor
  <1>2. ASSUME NEW i \in Sends, Dispatch(i) PROVE StaysLive(i) \/ TakenBack(i)
    BY <1>2 DEF Dispatch, Dropped, StaysLive, TakenBack, InState, LiveStates, GoneStates
  <1>3. ASSUME NEW i \in Sends, NEW answer \in Answers, DeliveryEnds(i, answer)
        PROVE  StaysLive(i) \/ TakenBack(i)
    BY <1>3 DEF DeliveryEnds, StaysLive, TakenBack, InState, LiveStates, GoneStates
  <1>4. CASE DrainStarts \/ DrainEnds \/ Elapse \/ UNCHANGED notifierVars
    BY <1>4 DEF DrainStarts, DrainEnds, Elapse, notifierVars, StandsStill
  <1> QED
    BY <1>1, <1>2, <1>3, <1>4 DEF NotifierNext

\* A change of one notification's state, read off the sequence.
LEMMA StateChange ==
    ASSUME NotifierType, NEW i \in Sends, NEW s \in LiveStates \cup GoneStates,
           sends' = [sends EXCEPT ![i].state = s]
    PROVE  /\ sends' \in Seq(Notification)
           /\ Len(sends') = Len(sends)
           /\ Sends' = Sends
           /\ \A j \in Sends : /\ sends'[j].key = sends[j].key
                               /\ sends'[j].at = sends[j].at
                               /\ sends'[j].state = IF j = i THEN s ELSE sends[j].state
  <1>1. sends \in Seq(Notification) /\ i \in 1..Len(sends) /\ sends[i] \in Notification
    BY DEF NotifierType, Sends
  <1>2. [sends[i] EXCEPT !.state = s] \in Notification
    BY <1>1 DEF Notification
  <1>3. sends' = [sends EXCEPT ![i] = [sends[i] EXCEPT !.state = s]]
    OBVIOUS
  <1>4. /\ sends' \in Seq(Notification) /\ Len(sends') = Len(sends)
        /\ \A j \in 1..Len(sends) : sends'[j] = IF j = i THEN [sends[i] EXCEPT !.state = s] ELSE sends[j]
    BY <1>1, <1>2, <1>3
  <1>5. /\ [sends[i] EXCEPT !.state = s].key = sends[i].key
        /\ [sends[i] EXCEPT !.state = s].at = sends[i].at
        /\ [sends[i] EXCEPT !.state = s].state = s
    BY <1>1 DEF Notification
  <1>6. Sends' = Sends /\ Sends = 1..Len(sends)
    BY <1>1, <1>4 DEF Sends
  <1> QED
    BY <1>4, <1>5, <1>6

LEMMA NotifierStepInv == NotifierInv /\ [NotifierNext]_notifierVars => NotifierInv'
  <1> SUFFICES ASSUME NotifierInv, [NotifierNext]_notifierVars PROVE NotifierInv'
    OBVIOUS
  <1>0. NotifierType /\ Spaced /\ LiveHolds /\ RecentIsLive
    BY DEF NotifierInv
  <1>a. /\ now \in Nat /\ recent \in [Keys -> Nat \cup {None}] /\ sends \in Seq(Notification)
        /\ Sends = 1..Len(sends) /\ Len(sends) \in Nat
        /\ \A i \in Sends : sends[i].key \in Keys /\ sends[i].at \in Nat
        /\ Cooldown \in Nat \ {0} /\ None \notin Nat
    <2>1. now \in Nat /\ recent \in [Keys -> Nat \cup {None}] /\ sends \in Seq(Notification)
      BY <1>0 DEF NotifierType
    <2>2. Sends = 1..Len(sends) /\ Len(sends) \in Nat
      BY <2>1 DEF Sends
    <2>3. \A i \in Sends : sends[i].key \in Keys /\ sends[i].at \in Nat
      <3>1. \A i \in Sends : sends[i] \in Notification
        BY <2>1, <2>2
      <3> QED
        BY <3>1 DEF Notification
    <2> QED
      BY <2>1, <2>2, <2>3, NotifierAssumption
  <1>b. \A i \in InState(LiveStates) : i \in Sends /\ sends[i].state \in LiveStates
    BY DEF InState
  <1>1. ASSUME NEW k \in Keys, ClaimsFor(k) PROVE NotifierInv'
    <2> DEFINE n == Len(sends) + 1
    <2>1. [key |-> k, at |-> now, state |-> "claimed"] \in Notification
      BY <1>a DEF Notification, LiveStates
    <2>2. /\ sends' \in Seq(Notification) /\ Len(sends') = n
          /\ \A i \in Sends : sends'[i] = sends[i]
          /\ sends'[n] = [key |-> k, at |-> now, state |-> "claimed"]
      BY <1>1, <1>a, <2>1 DEF ClaimsFor
    <2>3. Sends' = Sends \cup {n} /\ n \notin Sends /\ \A i \in Sends : i < n
      BY <1>a, <2>2 DEF Sends
    <2>4. InState(LiveStates)' = InState(LiveStates) \cup {n}
      BY <2>2, <2>3 DEF InState, LiveStates
    <2>5. sends'[n].key = k /\ sends'[n].at = now
      BY <2>2
    <2>6. recent' \in [Keys -> Nat \cup {None}] /\ recent'[k] = now
          /\ \A m \in Keys : m # k => recent'[m] = recent[m]
      BY <1>1, <1>a DEF ClaimsFor
    <2>7. UNCHANGED now /\ (recent[k] = None \/ ~(now - recent[k] < Cooldown))
      BY <1>1 DEF ClaimsFor, Deduplicated
    <2>8. \A i \in InState(LiveStates) : sends[i].key = k => now - sends[i].at >= Cooldown
      BY <1>0, <1>a, <1>b, <2>7 DEF LiveHolds
    <2>9. NotifierType'
      BY <1>a, <2>2, <2>6, <2>7 DEF NotifierType
    <2>10. Spaced'
      <3>1. SUFFICES ASSUME NEW i \in InState(LiveStates)', NEW j \in InState(LiveStates)',
                            i < j, sends'[i].key = sends'[j].key
                     PROVE  sends'[j].at - sends'[i].at >= Cooldown
        BY DEF Spaced
      <3>2. i \in InState(LiveStates)
        BY <2>3, <2>4, <3>1, <1>a, <1>b
      <3>3. CASE j = n
        BY <3>1, <3>2, <3>3, <2>2, <2>5, <2>8, <1>b
      <3>4. CASE j \in InState(LiveStates)
        BY <3>1, <3>2, <3>4, <2>2, <1>0, <1>b DEF Spaced
      <3> QED
        BY <3>3, <3>4, <2>4
    <2>11. LiveHolds'
      <3>1. SUFFICES ASSUME NEW i \in InState(LiveStates)'
                     PROVE  recent'[sends'[i].key] = sends'[i].at \/ now' - sends'[i].at >= Cooldown
        BY DEF LiveHolds
      <3>2. CASE i = n
        BY <3>2, <2>5, <2>6
      <3>3. CASE i \in InState(LiveStates)
        <4>1. CASE sends[i].key = k
          BY <4>1, <3>3, <2>2, <2>7, <2>8, <1>b
        <4>2. CASE sends[i].key # k
          BY <4>2, <3>3, <2>2, <2>6, <2>7, <1>0, <1>a, <1>b DEF LiveHolds
        <4> QED
          BY <4>1, <4>2
      <3> QED
        BY <3>2, <3>3, <2>4
    <2>12. RecentIsLive'
      <3>1. SUFFICES ASSUME NEW m \in Keys, recent'[m] # None
                     PROVE  \E i \in InState(LiveStates)' : sends'[i].key = m /\ sends'[i].at = recent'[m]
        BY DEF RecentIsLive
      <3>2. CASE m = k
        BY <3>2, <2>4, <2>5, <2>6
      <3>3. CASE m # k
        <4>1. PICK i \in InState(LiveStates) : sends[i].key = m /\ sends[i].at = recent[m]
          BY <3>1, <3>3, <2>6, <1>0 DEF RecentIsLive
        <4> QED
          BY <4>1, <3>3, <2>2, <2>4, <2>6, <1>b
      <3> QED
        BY <3>2, <3>3
    <2> QED
      BY <2>9, <2>10, <2>11, <2>12 DEF NotifierInv
  <1>2. ASSUME NEW i \in Sends, StaysLive(i) PROVE NotifierInv'
    <2>1. PICK s \in LiveStates : sends' = [sends EXCEPT ![i].state = s]
      BY <1>2 DEF StaysLive
    <2>2. /\ sends' \in Seq(Notification) /\ Sends' = Sends
          /\ \A j \in Sends : /\ sends'[j].key = sends[j].key
                              /\ sends'[j].at = sends[j].at
                              /\ sends'[j].state = IF j = i THEN s ELSE sends[j].state
      <3>1. s \in LiveStates \cup GoneStates
        OBVIOUS
      <3> QED
        BY <2>1, <3>1, <1>0, StateChange, Zenon
    <2>3. InState(LiveStates)' = InState(LiveStates)
      BY <1>2, <2>2 DEF InState, StaysLive
    <2>4. UNCHANGED <<now, recent>>
      BY <1>2 DEF StaysLive
    <2>5. NotifierType'
      BY <1>a, <2>2, <2>4 DEF NotifierType
    <2>6. Spaced'
      BY <1>0, <1>b, <2>2, <2>3 DEF Spaced
    <2>7. LiveHolds'
      BY <1>0, <1>b, <2>2, <2>3, <2>4 DEF LiveHolds
    <2>8. RecentIsLive'
      BY <1>0, <1>b, <2>2, <2>3, <2>4 DEF RecentIsLive
    <2> QED
      BY <2>5, <2>6, <2>7, <2>8 DEF NotifierInv
  <1>3. ASSUME NEW i \in Sends, TakenBack(i) PROVE NotifierInv'
    <2>1. PICK s \in GoneStates : sends' = [sends EXCEPT ![i].state = s]
      BY <1>3 DEF TakenBack
    <2>2. /\ sends' \in Seq(Notification) /\ Sends' = Sends
          /\ \A j \in Sends : /\ sends'[j].key = sends[j].key
                              /\ sends'[j].at = sends[j].at
                              /\ sends'[j].state = IF j = i THEN s ELSE sends[j].state
      <3>1. s \in LiveStates \cup GoneStates
        OBVIOUS
      <3> QED
        BY <2>1, <3>1, <1>0, StateChange, Zenon
    <2>3. InState(LiveStates)' = InState(LiveStates) \ {i}
      BY <2>2 DEF InState, LiveStates, GoneStates
    <2>4. i \in InState(LiveStates) /\ UNCHANGED now
      BY <1>3 DEF TakenBack
    <2> DEFINE k == sends[i].key
    <2>5. /\ recent' \in [Keys -> Nat \cup {None}]
          /\ \A m \in Keys : m # k => recent'[m] = recent[m]
          /\ recent[k] = sends[i].at => recent'[k] = None
          /\ recent[k] # sends[i].at => recent'[k] = recent[k]
      BY <1>3, <1>a DEF TakenBack, roll_back
    <2>6. \A j \in InState(LiveStates)' : sends[j].key = k => sends[j].at # sends[i].at
      <3>1. SUFFICES ASSUME NEW j \in InState(LiveStates), j # i, sends[j].key = k
                     PROVE  sends[j].at # sends[i].at
        BY <2>3
      <3>2. i < j \/ j < i
        BY <3>1, <1>a, <1>b
      <3>3. sends[j].at - sends[i].at >= Cooldown \/ sends[i].at - sends[j].at >= Cooldown
        BY <3>1, <3>2, <2>4, <1>0 DEF Spaced
      <3> QED
        BY <3>3, <1>a, <1>b, <2>4
    <2>7. NotifierType'
      BY <1>a, <2>2, <2>4, <2>5 DEF NotifierType
    <2>8. Spaced'
      BY <1>0, <1>b, <2>2, <2>3 DEF Spaced
    <2>9. LiveHolds'
      <3>1. SUFFICES ASSUME NEW j \in InState(LiveStates), j # i
                     PROVE  recent'[sends[j].key] = sends[j].at \/ now - sends[j].at >= Cooldown
        BY <2>2, <2>3, <2>4, <1>b DEF LiveHolds
      <3>2. recent[sends[j].key] = sends[j].at \/ now - sends[j].at >= Cooldown
        BY <1>0 DEF LiveHolds
      <3>3. recent[sends[j].key] = sends[j].at => recent'[sends[j].key] = sends[j].at
        <4>1. CASE sends[j].key = k
          <5>1. sends[j].at # sends[i].at
            BY <4>1, <3>1, <2>3, <2>6
          <5> QED
            BY <5>1, <4>1, <2>5
        <4>2. CASE sends[j].key # k
          BY <4>2, <2>5, <1>a, <1>b
        <4> QED
          BY <4>1, <4>2
      <3> QED
        BY <3>2, <3>3
    <2>10. RecentIsLive'
      <3>1. SUFFICES ASSUME NEW m \in Keys, recent'[m] # None
                     PROVE  \E j \in InState(LiveStates)' : sends'[j].key = m /\ sends'[j].at = recent'[m]
        BY DEF RecentIsLive
      <3>2. recent'[m] = recent[m] /\ (m = k => recent[m] # sends[i].at)
        BY <3>1, <2>5
      <3>3. PICK j \in InState(LiveStates) : sends[j].key = m /\ sends[j].at = recent[m]
        BY <3>1, <3>2, <1>0 DEF RecentIsLive
      <3>4. j # i
        BY <3>2, <3>3
      <3> QED
        BY <3>2, <3>3, <3>4, <2>2, <2>3, <1>b
    <2> QED
      BY <2>7, <2>8, <2>9, <2>10 DEF NotifierInv
  <1>4. CASE StandsStill
    <2>1. UNCHANGED <<recent, sends>> /\ now' \in Nat /\ now' >= now
      BY <1>4, <1>a DEF StandsStill
    <2>2. InState(LiveStates)' = InState(LiveStates)
      BY <2>1 DEF InState, Sends
    <2>3. NotifierType' /\ Spaced' /\ RecentIsLive'
      BY <1>0, <2>1, <2>2 DEF NotifierType, Spaced, RecentIsLive
    <2>4. LiveHolds'
      BY <1>0, <1>a, <1>b, <2>1, <2>2 DEF LiveHolds
    <2> QED
      BY <2>3, <2>4 DEF NotifierInv
  <1> QED
    BY <1>1, <1>2, <1>3, <1>4, NotifierMoves

LEMMA NotifierInitInv == NotifierInit => NotifierInv
  <1> SUFFICES ASSUME NotifierInit PROVE NotifierInv
    OBVIOUS
  <1>1. sends = << >> /\ InState(LiveStates) = {}
    BY DEF NotifierInit, InState, Sends
  <1>2. NotifierType
    BY DEF NotifierInit, NotifierType
  <1>3. Spaced /\ LiveHolds
    BY <1>1 DEF Spaced, LiveHolds
  <1>4. RecentIsLive
    BY DEF RecentIsLive, NotifierInit
  <1> QED
    BY <1>2, <1>3, <1>4 DEF NotifierInv

\* A cooldown suppresses a repeat of what was said, and only of that: one
\* key's notifications that reach the channel are a cooldown apart, and none
\* is held back for one that failed or was dropped (notifier.rs, notify_at
\* and roll_back).
THEOREM CooldownEarned == NotifierSpec => []CooldownIsEarned
  <1>1. NotifierInv => CooldownIsEarned
    <2> SUFFICES ASSUME NotifierInv PROVE CooldownIsEarned
      OBVIOUS
    <2>1. InState({"flying", "delivered"}) \subseteq InState(LiveStates)
      BY DEF InState, LiveStates
    <2>2. NotSentTwice
      BY <2>1 DEF NotifierInv, Spaced, NotSentTwice
    <2>3. SuppressedByLive
      BY DEF NotifierInv, RecentIsLive, SuppressedByLive, Deduplicated, LiveStates
    <2> QED
      BY <2>2, <2>3 DEF CooldownIsEarned
  <1> QED
    BY NotifierInitInv, NotifierStepInv, <1>1, PTL DEF NotifierSpec

----------------------------------------------------------------------------
(* The run.                                                                *)

TaskStates == {"unborn", "running", "returned", "failed", "panicked", "gone"}

RunType ==
    /\ task \in [Tasks -> TaskStates]
    /\ joined \subseteq Tasks
    /\ signals \in 0..2
    /\ panicked \in BOOLEAN
    /\ phase \in {"seeding", "joining", "finishing", "exited"}

\* Until the seed is done only the port is served, and nothing was said.
SeedsAlone ==
    phase = "seeding" =>
        /\ joined = {} /\ failure = None /\ panicked = FALSE
        /\ \A t \in Tasks \ {"http"} : task[t] = "unborn"
        /\ sends = << >> /\ left = {}

\* What join_next has answered for is over, and all is when the loop ends.
JoinedAreOver ==
    /\ \A t \in joined : Over(t)
    /\ phase = "finishing" => joined = Tasks
    /\ phase = "exited" => \A t \in Tasks : ~Running(t)

\* What drain_tasks keeps is what it has seen.
KeepsWhatItSaw ==
    /\ panicked <=> \E t \in joined : task[t] = "panicked"
    /\ failure = None <=> \A t \in joined : task[t] # "failed"

Broken == \E t \in Tasks : task[t] \in {"failed", "panicked"}
Asked == signals > 0 \/ Broken

\* The flag was raised by a signal or by a task that broke, and neither a
\* poller nor the tracker is over for any other reason.
EndsForCause ==
    /\ shutdown => Asked
    /\ \A t \in Pollers \cup {"tracker"} : Over(t) => Asked

\* Until the process ends, an outcome nobody learned was given up for the flag
\* or lost with a worker that panicked.
LeftForCause ==
    phase # "exited" =>
        \A l \in left : \/ l.how = "Unknown" /\ shutdown
                        \/ l.how = "panicked" /\ \E t \in Tasks : task[t] = "panicked"

\* The drain starts after the last task, when every notify has come back; a
\* drained notifier delivers nothing any more.
DrainIsLast ==
    /\ drain # "none" => phase \in {"finishing", "exited"} /\ InState({"claimed"}) = {}
    /\ drain = "drained" => InState({"flying"}) = {}

\* What is not delivered any more is in the log.
GoneIsLogged == InState(GoneStates) \subseteq log

RunInv ==
    /\ NotifierType /\ RunType
    /\ SeedsAlone /\ JoinedAreOver /\ KeepsWhatItSaw /\ EndsForCause
    /\ LeftForCause /\ DrainIsLast /\ GoneIsLogged
    /\ EndsWell

\* What the steps of a run do to the state these are about.
EndsAs(t, how) ==
    /\ Running(t) /\ how \in {"returned", "failed", "panicked"}
    /\ task' = [task EXCEPT ![t] = how]
    /\ t \in Pollers /\ how = "returned" => shutdown \/ Over("tracker")
    /\ t = "tracker" /\ how = "returned" => \A p \in Pollers : Over(p)
    /\ UNCHANGED <<shutdown, signals, joined, failure, panicked, phase, code>>
    /\ \/ left' = left
       \/ how = "panicked" /\ t \in Workers /\ left' = left \cup {Without(t, how)}

IsAsked ==
    /\ phase # "exited" /\ signals = 0 /\ signals' = 1 /\ shutdown' = TRUE
    /\ UNCHANGED <<task, joined, failure, panicked, phase, code, left>>

IsKilled ==
    /\ phase # "exited" /\ signals = 1 /\ signals' = 2
    /\ ExitsWith(130)
    /\ UNCHANGED <<shutdown, joined, failure, panicked>>

NeverStarts ==
    /\ phase = "seeding"
    /\ \E c \in {1, 2} : ExitsWith(c)
    /\ UNCHANGED <<shutdown, signals, joined, failure, panicked>>

Finishes ==
    /\ phase = "finishing" /\ drain \in {"drained", "timed out"}
    /\ ExitsWith(ExitCode)
    /\ UNCHANGED <<shutdown, signals, joined, failure, panicked>>

GoesOn ==
    /\ UNCHANGED <<task, shutdown, signals, joined, failure, panicked, phase, code>>
    /\ \/ left' = left
       \/ \E w \in Workers : /\ Running(w) /\ shutdown
                             /\ left' = left \cup {Without(w, "Unknown")}

LEMMA RunMoves ==
    ASSUME RunStep
    PROVE  \/ \E t \in Tasks, how \in {"returned", "failed", "panicked"} : EndsAs(t, how)
           \/ IsAsked \/ IsKilled \/ NeverStarts \/ Spawn \/ Finishes
           \/ \E t \in Tasks : drain_tasks(t)
           \/ GoesOn
  <1>0. /\ Pollers \subseteq Tasks /\ "tracker" \in Tasks /\ Deciders \subseteq Tasks
        /\ Workers \subseteq Tasks /\ Bystanders \subseteq Tasks
        /\ "tracker" \notin Pollers /\ Deciders \cap (Pollers \cup {"tracker"}) = {}
        /\ Bystanders \cap (Pollers \cup {"tracker"}) = {}
        /\ Workers \cap (Pollers \cup {"tracker"}) = {}
    BY RuntimeAssumption DEF Tasks, Deciders
  <1>1. CASE Signal
    BY <1>1 DEF Signal, IsAsked, IsKilled
  <1>2. ASSUME NEW c \in {1, 2}, StartFails(c) PROVE NeverStarts
    BY <1>2 DEF StartFails, NeverStarts
  <1>3. ASSUME NEW t \in Tasks, TaskFails(t) \/ TaskPanics(t)
        PROVE  EndsAs(t, "failed") \/ EndsAs(t, "panicked")
    BY <1>3, <1>0 DEF TaskFails, TaskPanics, Ends, EndsAs, InFlight
  <1>4. ASSUME NEW t \in Bystanders, BystanderReturns(t) PROVE EndsAs(t, "returned")
    BY <1>4, <1>0 DEF BystanderReturns, Leaves, Ends, EndsAs
  <1>5. ASSUME NEW p \in Pollers, PollerReturns(p) PROVE EndsAs(p, "returned")
    BY <1>5, <1>0 DEF PollerReturns, Leaves, Ends, EndsAs
  <1>6. CASE TrackerReturns
    BY <1>6, <1>0 DEF TrackerReturns, Leaves, Ends, EndsAs
  <1>7. ASSUME NEW d \in Deciders, DeciderReturns(d) PROVE EndsAs(d, "returned")
    BY <1>7, <1>0 DEF DeciderReturns, Leaves, Ends, EndsAs
  <1>8. ASSUME NEW w \in Workers, WorkerReturns(w) PROVE EndsAs(w, "returned")
    BY <1>8, <1>0 DEF WorkerReturns, Leaves, Ends, EndsAs
  <1>9. ASSUME NEW p \in Pollers, TrackerAnswers(p) \/ PollerSends(p) PROVE GoesOn
    BY <1>9 DEF TrackerAnswers, PollerSends, Goes, GoesOn
  <1>10. ASSUME NEW d \in Deciders, DeciderSubmits(d) \/ DeciderAnswered(d) \/ DeciderWorks(d)
         PROVE  GoesOn
    BY <1>10 DEF DeciderSubmits, DeciderAnswered, DeciderWorks, Goes, GoesOn
  <1>11. ASSUME NEW w \in Workers, NEW d \in Deciders, WorkerTakes(w, d) \/ WorkerRefuses(w, d)
         PROVE  GoesOn
    BY <1>11 DEF WorkerTakes, WorkerRefuses, Goes, GoesOn
  <1>13. ASSUME NEW w \in Workers, WorkerSettles(w) PROVE GoesOn
    BY <1>13 DEF WorkerSettles, GoesOn
  <1>14. ASSUME "http" \in Bystanders, HttpBinds PROVE GoesOn \/ EndsAs("http", "returned")
    BY <1>14, <1>0 DEF HttpBinds, Goes, GoesOn, Leaves, Ends, EndsAs
  <1>15. ASSUME ClientConnects \/ ClientLeaves PROVE GoesOn
    BY <1>15 DEF ClientConnects, ClientLeaves, Goes, GoesOn
  <1>12. CASE finish_run
    BY <1>12 DEF finish_run, Finishes
  <1>16. CASE TaskStep
    BY <1>16, <1>0, <1>4, <1>5, <1>6, <1>7, <1>8, <1>10, <1>11, <1>13, <1>14 DEF TaskStep
  <1>17. CASE OpenStep
    BY <1>17, <1>9, <1>10, <1>11, <1>13, <1>15 DEF OpenStep
  <1> QED
    BY <1>1, <1>2, <1>3, <1>12, <1>16, <1>17 DEF RunStep

\* The parts of RunInv about tasks and the join loop.
TaskInv == RunType /\ JoinedAreOver /\ KeepsWhatItSaw /\ EndsForCause

LEMMA TaskNames ==
    /\ Pollers \cup {"tracker"} \subseteq Tasks \ {"http"}
    /\ Workers \subseteq Tasks \ {"http"}
    /\ Pollers # {} /\ None \notin Tasks
  BY RuntimeAssumption DEF Tasks, Deciders

\* A process that ends.
LEMMA ExitTasks ==
    ASSUME TaskInv, NEW c, ExitsWith(c), UNCHANGED <<shutdown, joined, failure, panicked>>,
           signals' \in signals..2
    PROVE  TaskInv'
  <1>0. RunType /\ JoinedAreOver /\ KeepsWhatItSaw /\ EndsForCause
    BY DEF TaskInv
  <1>1. /\ task' \in [Tasks -> TaskStates] /\ phase' = "exited"
        /\ \A t \in Tasks : task'[t] = IF task[t] = "running" THEN "gone" ELSE task[t]
    BY <1>0 DEF ExitsWith, RunType, TaskStates, Running
  <1>2. RunType'
    BY <1>0, <1>1 DEF RunType
  <1>3. \A t \in Tasks : Over(t)' <=> Over(t)
    BY <1>1 DEF Over
  <1>4. joined \subseteq Tasks
    BY <1>0 DEF RunType
  <1>5. JoinedAreOver'
    BY <1>0, <1>1, <1>3, <1>4 DEF JoinedAreOver, Running
  <1>6. KeepsWhatItSaw'
    BY <1>0, <1>1, <1>4 DEF KeepsWhatItSaw
  <1>7. Asked => Asked'
    BY <1>0, <1>1 DEF Asked, Broken, RunType
  <1>8. EndsForCause'
    BY <1>0, <1>3, <1>7, TaskNames DEF EndsForCause
  <1> QED
    BY <1>2, <1>5, <1>6, <1>8 DEF TaskInv

\* A task that ends.
LEMMA EndTasks ==
    ASSUME TaskInv, NEW t \in Tasks, NEW how, EndsAs(t, how)
    PROVE  TaskInv'
  <1>0. RunType /\ JoinedAreOver /\ KeepsWhatItSaw /\ EndsForCause
    BY DEF TaskInv
  <1>1. /\ task' \in [Tasks -> TaskStates]
        /\ \A u \in Tasks : task'[u] = IF u = t THEN how ELSE task[u]
        /\ how \in {"returned", "failed", "panicked"} /\ task[t] = "running"
    BY <1>0 DEF EndsAs, RunType, TaskStates, Running
  <1>2. UNCHANGED <<shutdown, signals, joined, failure, panicked, phase>>
    BY DEF EndsAs
  <1>3. RunType'
    BY <1>0, <1>1, <1>2 DEF RunType
  <1>4. joined \subseteq Tasks /\ t \notin joined
    BY <1>0, <1>1 DEF RunType, JoinedAreOver, Over
  <1>5. JoinedAreOver'
    BY <1>0, <1>1, <1>2, <1>4 DEF JoinedAreOver, Over, Running
  <1>6. KeepsWhatItSaw'
    BY <1>0, <1>1, <1>2, <1>4 DEF KeepsWhatItSaw
  <1>7. Asked => Asked'
    BY <1>1, <1>2 DEF Asked, Broken
  <1>8. ASSUME NEW u \in Pollers \cup {"tracker"}, Over(u)' PROVE Asked'
    <2>1. u \in Tasks
      BY TaskNames
    <2>2. CASE u # t
      BY <2>1, <2>2, <1>8, <1>1, <1>0, <1>7 DEF EndsForCause, Over
    <2>3. CASE u = t /\ how # "returned"
      BY <2>3, <2>1, <1>1 DEF Asked, Broken
    <2>4. CASE u = t /\ how = "returned"
      <3>1. CASE u \in Pollers
        BY <3>1, <2>4, <1>0, <1>7 DEF EndsAs, EndsForCause
      <3>2. CASE u = "tracker"
        <4>1. \A p \in Pollers : Over(p)
          BY <3>2, <2>4 DEF EndsAs
        <4>2. PICK p \in Pollers : TRUE
          BY TaskNames
        <4> QED
          BY <4>1, <4>2, <1>0, <1>7 DEF EndsForCause
      <3> QED
        BY <3>1, <3>2
    <2> QED
      BY <2>2, <2>3, <2>4, <1>1
  <1>9. EndsForCause'
    BY <1>0, <1>2, <1>7, <1>8 DEF EndsForCause
  <1> QED
    BY <1>3, <1>5, <1>6, <1>9 DEF TaskInv

\* A task that is joined.
LEMMA JoinTasks ==
    ASSUME TaskInv, NEW t \in Tasks, drain_tasks(t)
    PROVE  TaskInv'
  <1>0. RunType /\ JoinedAreOver /\ KeepsWhatItSaw /\ EndsForCause
    BY DEF TaskInv
  <1>1. /\ phase = "joining" /\ Over(t) /\ joined' = joined \cup {t}
        /\ phase' = IF joined' = Tasks THEN "finishing" ELSE phase
        /\ UNCHANGED <<task, signals>>
    BY DEF drain_tasks
  <1>2. panicked' = (panicked \/ task[t] = "panicked")
    BY DEF drain_tasks
  <1>3. failure' = IF failure = None /\ task[t] = "failed" THEN t ELSE failure
    BY DEF drain_tasks
  <1>4. shutdown' => shutdown \/ Broken
    BY DEF drain_tasks, Broken
  <1>5. RunType'
    BY <1>0, <1>1, <1>2 DEF RunType
  <1>6. JoinedAreOver'
    BY <1>0, <1>1 DEF JoinedAreOver, Over
  <1>7. (panicked' <=> \E u \in joined' : task'[u] = "panicked")
    BY <1>0, <1>1, <1>2 DEF KeepsWhatItSaw
  <1>8. (failure' = None <=> \A u \in joined' : task'[u] # "failed")
    BY <1>0, <1>1, <1>3, TaskNames DEF KeepsWhatItSaw
  <1>9. EndsForCause'
    BY <1>0, <1>1, <1>4 DEF EndsForCause, Asked, Broken, Over
  <1> QED
    BY <1>5, <1>6, <1>7, <1>8, <1>9 DEF TaskInv, KeepsWhatItSaw

LEMMA SpawnTasks ==
    ASSUME TaskInv, SeedsAlone, Spawn
    PROVE  TaskInv'
  <1>0. RunType /\ EndsForCause
    BY DEF TaskInv
  <1>1. /\ joined = {} /\ failure = None /\ panicked = FALSE
        /\ \A t \in Tasks \ {"http"} : task[t] = "unborn"
    BY DEF Spawn, SeedsAlone
  <1>2. /\ task' \in [Tasks -> TaskStates] /\ phase' = "joining"
        /\ \A t \in Tasks : task'[t] = IF t = "http" THEN task[t] ELSE "running"
        /\ UNCHANGED <<shutdown, signals, joined, failure, panicked>>
    BY <1>0 DEF Spawn, RunType, TaskStates
  <1>3. RunType'
    BY <1>0, <1>2 DEF RunType
  <1>4. JoinedAreOver'
    BY <1>1, <1>2 DEF JoinedAreOver
  <1>5. KeepsWhatItSaw'
    <2>1. panicked' = FALSE /\ joined' = {} /\ failure' = None
      BY <1>1, <1>2
    <2> QED
      BY <2>1 DEF KeepsWhatItSaw
  <1>6. Asked => Asked'
    BY <1>1, <1>2 DEF Asked, Broken
  <1>7. \A t \in Pollers \cup {"tracker"} : ~Over(t)'
    BY <1>2, TaskNames DEF Over
  <1>8. EndsForCause'
    BY <1>0, <1>2, <1>6, <1>7 DEF EndsForCause
  <1> QED
    BY <1>3, <1>4, <1>5, <1>8 DEF TaskInv

\* The last step of a run that joined every task.
LEMMA FinishesWell ==
    ASSUME RunInv, Finishes, UNCHANGED notifierVars
    PROVE  EndsWell'
  <1>0. /\ RunType /\ JoinedAreOver /\ KeepsWhatItSaw /\ EndsForCause /\ DrainIsLast /\ GoneIsLogged
        /\ NotifierType /\ LeftForCause
    BY DEF RunInv
  <1>1. joined = Tasks /\ \A t \in Tasks : task[t] \in {"returned", "failed", "panicked"}
    BY <1>0 DEF Finishes, JoinedAreOver, Over
  <1>2. /\ phase = "finishing" /\ phase' = "exited" /\ code' = ExitCode
        /\ \A t \in Tasks : task'[t] = task[t]
        /\ UNCHANGED <<signals, joined, shutdown>>
    BY <1>1 DEF Finishes, ExitsWith, Running
  <1>3. NothingAbandoned'
    <2>1. InFlight = {}
      BY <1>1, TaskNames DEF InFlight, Running
    <2>2. left' = left
      BY <2>1 DEF Finishes, ExitsWith
    <2>3. (\E t \in Tasks : task[t] = "panicked") => code' = 101
      BY <1>0, <1>1, <1>2 DEF KeepsWhatItSaw, ExitCode
    <2> QED
      BY <2>2, <2>3, <1>0, <1>2 DEF NothingAbandoned, LeftForCause
  <1>4. ExitSaysWhy'
    <2>1. panicked <=> \E t \in Tasks : task[t] = "panicked"
      BY <1>0, <1>1 DEF KeepsWhatItSaw
    <2>2. failure # None <=> \E t \in Tasks : task[t] = "failed"
      BY <1>0, <1>1 DEF KeepsWhatItSaw
    <2>3. code' = 101 <=> \E t \in Tasks : task'[t] = "panicked"
      BY <1>2, <2>1 DEF ExitCode
    <2>4. code' = 1 => \E t \in Tasks : task'[t] = "failed"
      BY <1>2, <2>2 DEF ExitCode
    <2>5. code' = 0 => \A t \in Tasks : task[t] = "returned"
      BY <1>1, <1>2, <2>1, <2>2 DEF ExitCode
    <2>6. code' = 0 => signals > 0
      <3>1. SUFFICES ASSUME code' = 0 PROVE signals > 0
        OBVIOUS
      <3>2. ~Broken
        BY <3>1, <2>5 DEF Broken
      <3>3. Asked
        <4>1. Over("tracker")
          BY <1>1, TaskNames DEF Over
        <4> QED
          BY <4>1, <1>0 DEF EndsForCause
      <3> QED
        BY <3>2, <3>3 DEF Asked
    <2> QED
      BY <1>2, <2>3, <2>4, <2>5, <2>6 DEF ExitSaysWhy
  <1>5. LastWordsLeave'
    <2>1. UNCHANGED <<sends, log, drain>> /\ drain \in {"drained", "timed out"}
      BY DEF notifierVars, Finishes
    <2>2. ASSUME drain # "timed out", NEW i \in Sends
          PROVE  sends[i].state = "delivered" \/ i \in log
      <3>1. drain = "drained"
        BY <2>1, <2>2
      <3>2. InState({"claimed"}) = {} /\ InState({"flying"}) = {}
        BY <3>1, <1>0 DEF DrainIsLast
      <3>3. sends[i].state # "claimed" /\ sends[i].state # "flying"
        BY <3>2 DEF InState
      <3>4. sends[i] \in Notification
        BY <1>0 DEF NotifierType, Sends
      <3>5. sends[i].state \in LiveStates \cup GoneStates
        BY <3>4 DEF Notification
      <3>6. sends[i].state \in GoneStates => i \in log
        BY <1>0 DEF GoneIsLogged, InState
      <3> QED
        BY <3>3, <3>5, <3>6 DEF LiveStates
    <2>3. Sends' = Sends
      BY <2>1 DEF Sends
    <2> QED
      BY <2>1, <2>2, <2>3 DEF LastWordsLeave
  <1> QED
    BY <1>3, <1>4, <1>5 DEF EndsWell

LEMMA SaysTheSame ==
    ASSUME EndsWell, Sends' = Sends,
           UNCHANGED <<task, shutdown, signals, joined, phase, code, left, sends, log, drain>>
    PROVE  EndsWell'
  <1>1. NothingAbandoned'
    BY DEF EndsWell, NothingAbandoned
  <1>2. ExitSaysWhy'
    BY DEF EndsWell, ExitSaysWhy
  <1>3. LastWordsLeave'
    BY DEF EndsWell, LastWordsLeave
  <1> QED
    BY <1>1, <1>2, <1>3 DEF EndsWell

LEMMA StepOfRun == RunInv /\ RunStep /\ UNCHANGED notifierVars => RunInv'
  <1> SUFFICES ASSUME RunInv, RunStep, UNCHANGED notifierVars PROVE RunInv'
    OBVIOUS
  <1>0. /\ TaskInv /\ SeedsAlone /\ DrainIsLast /\ GoneIsLogged /\ NotifierType /\ EndsWell
        /\ RunType /\ JoinedAreOver /\ LeftForCause
    BY DEF RunInv, TaskInv
  <1>a. UNCHANGED <<now, recent, sends, log, drain>> /\ Sends' = Sends
    BY DEF notifierVars, Sends
  <1>b. NotifierType' /\ GoneIsLogged'
    BY <1>0, <1>a DEF NotifierType, GoneIsLogged, InState
  <1>c. (phase \in {"finishing", "exited"} => phase' \in {"finishing", "exited"}) => DrainIsLast'
    BY <1>0, <1>a DEF DrainIsLast, InState
  <1>d. ASSUME TaskInv', SeedsAlone', LeftForCause', EndsWell',
               phase \in {"finishing", "exited"} => phase' \in {"finishing", "exited"}
        PROVE  RunInv'
    BY <1>b, <1>c, <1>d DEF RunInv, TaskInv
  <1>e. phase' # "seeding" => SeedsAlone'
    BY DEF SeedsAlone
  <1>g. phase' = "exited" => LeftForCause'
    BY DEF LeftForCause
  <1>h. ASSUME phase # "exited", left' = left, shutdown => shutdown',
               \A u \in Tasks : task[u] = "panicked" => task'[u] = "panicked"
        PROVE  LeftForCause'
    BY <1>0, <1>h DEF LeftForCause
  <1>f. phase' # "exited" => EndsWell'
    BY DEF EndsWell, NothingAbandoned, ExitSaysWhy, LastWordsLeave
  <1>1. ASSUME NEW t \in Tasks, NEW how \in {"returned", "failed", "panicked"}, EndsAs(t, how)
        PROVE  RunInv'
    <2>1. TaskInv'
      BY <1>0, <1>1, EndTasks
    <2>2. phase' = phase /\ phase # "exited"
      BY <1>0, <1>1 DEF EndsAs, JoinedAreOver
    <2>3. SeedsAlone'
      <3>1. SUFFICES ASSUME phase = "seeding" PROVE SeedsAlone'
        BY <2>2, <1>e
      <3>2. t = "http"
        BY <3>1, <1>0, <1>1 DEF SeedsAlone, EndsAs, Running
      <3>3. \A u \in Tasks \ {"http"} : task'[u] = task[u]
        BY <3>2, <1>1, <1>0 DEF EndsAs, RunType
      <3>4. UNCHANGED <<joined, failure, panicked, sends, left>>
        BY <1>1, <1>a, <3>2, TaskNames DEF EndsAs
      <3> QED
        BY <3>1, <3>3, <3>4, <1>0 DEF SeedsAlone
    <2>4. LeftForCause'
      <3>1. /\ UNCHANGED shutdown
            /\ \A u \in Tasks : task'[u] = IF u = t THEN how ELSE task[u]
            /\ task[t] = "running"
        BY <1>1, <1>0 DEF EndsAs, RunType, Running
      <3>2. CASE left' = left
        BY <3>1, <3>2, <2>2, <1>h
      <3>3. CASE how = "panicked" /\ left' = left \cup {Without(t, how)}
        <4>1. task'[t] = "panicked"
          BY <3>1, <3>3
        <4>2. Without(t, how).how = "panicked"
          BY <3>3 DEF Without
        <4> QED
          BY <4>1, <4>2, <3>1, <3>3, <2>2, <1>0 DEF LeftForCause
      <3> QED
        BY <1>1, <3>2, <3>3 DEF EndsAs
    <2> QED
      BY <2>1, <2>2, <2>3, <2>4, <1>d, <1>f
  <1>2. CASE IsAsked
    <2>1. UNCHANGED <<task, joined, failure, panicked, phase, left>> /\ signals' = 1 /\ phase # "exited"
          /\ shutdown' = TRUE
      BY <1>2 DEF IsAsked
    <2>2. TaskInv'
      BY <1>0, <2>1 DEF TaskInv, RunType, JoinedAreOver, KeepsWhatItSaw, EndsForCause, Asked, Broken,
                        Over, Running
    <2>3. SeedsAlone' /\ LeftForCause'
      BY <1>0, <1>a, <2>1, <1>h DEF SeedsAlone
    <2> QED
      BY <2>1, <2>2, <2>3, <1>d, <1>f
  <1>3. CASE IsKilled
    <2>1. phase' = "exited" /\ code' = 130
      BY <1>3 DEF IsKilled, ExitsWith
    <2>2. TaskInv'
      <3>1. /\ ExitsWith(130) /\ UNCHANGED <<shutdown, joined, failure, panicked>>
            /\ signals' \in signals..2
        BY <1>3 DEF IsKilled
      <3> QED
        BY <1>0, <3>1, ExitTasks
    <2>3. EndsWell'
      BY <2>1 DEF EndsWell, NothingAbandoned, ExitSaysWhy, LastWordsLeave
    <2> QED
      BY <2>1, <2>2, <2>3, <1>d, <1>e, <1>g
  <1>4. CASE NeverStarts
    <2>1. PICK c \in {1, 2} : ExitsWith(c)
      BY <1>4 DEF NeverStarts
    <2>2. phase = "seeding" /\ UNCHANGED <<shutdown, signals, joined, failure, panicked>>
      BY <1>4 DEF NeverStarts
    <2>3. TaskInv'
      <3>1. signals' \in signals..2
        BY <1>0, <2>2 DEF RunType
      <3> QED
        BY <1>0, <2>1, <2>2, <3>1, ExitTasks
    <2>4. phase' = "exited" /\ joined' = {} /\ sends' = << >>
      BY <1>0, <1>a, <2>1, <2>2 DEF ExitsWith, SeedsAlone
    <2>5. InFlight = {}
      BY <1>0, <2>2, TaskNames DEF SeedsAlone, InFlight, Running
    <2>8. left' = {}
      BY <1>0, <2>1, <2>2, <2>5 DEF ExitsWith, SeedsAlone
    <2>6. NothingAbandoned' /\ ExitSaysWhy'
      BY <2>4, <2>8 DEF NothingAbandoned, ExitSaysWhy
    <2>7. LastWordsLeave'
      <3>1. Sends' = {}
        BY <2>4 DEF Sends
      <3> QED
        BY <3>1 DEF LastWordsLeave
    <2> QED
      BY <2>3, <2>4, <2>6, <2>7, <1>d, <1>e, <1>g DEF EndsWell
  <1>5. CASE Spawn
    <2>1. phase = "seeding" /\ phase' = "joining"
      BY <1>5 DEF Spawn
    <2>2. TaskInv'
      BY <1>0, <1>5, SpawnTasks
    <2>3. LeftForCause'
      BY <1>0, <1>5, <2>1 DEF Spawn, SeedsAlone, LeftForCause
    <2> QED
      BY <2>1, <2>2, <2>3, <1>d, <1>e, <1>f
  <1>6. CASE Finishes
    <2>1. ExitsWith(ExitCode) /\ UNCHANGED <<shutdown, signals, joined, failure, panicked>>
      BY <1>6 DEF Finishes
    <2>2. signals' \in signals..2
      BY <1>0, <2>1 DEF RunType
    <2>3. TaskInv'
      BY <1>0, <2>1, <2>2, ExitTasks
    <2>4. EndsWell'
      BY <1>6, FinishesWell
    <2>5. phase' = "exited"
      BY <2>1 DEF ExitsWith
    <2> QED
      BY <2>3, <2>4, <2>5, <1>d, <1>e, <1>g
  <1>7. ASSUME NEW t \in Tasks, drain_tasks(t) PROVE RunInv'
    <2>1. TaskInv'
      BY <1>0, <1>7, JoinTasks
    <2>2. phase = "joining" /\ phase' \in {"joining", "finishing"}
      BY <1>7 DEF drain_tasks
    <2>3. UNCHANGED <<task, left>> /\ (shutdown => shutdown')
      BY <1>7 DEF drain_tasks
    <2>4. LeftForCause'
      BY <2>2, <2>3, <1>h
    <2> QED
      BY <2>1, <2>2, <2>4, <1>d, <1>e, <1>f
  <1>8. CASE GoesOn
    <2>1. UNCHANGED <<task, shutdown, signals, joined, failure, panicked, phase, code>>
      BY <1>8 DEF GoesOn
    <2>2. TaskInv'
      BY <1>0, <2>1 DEF TaskInv, RunType, JoinedAreOver, KeepsWhatItSaw, EndsForCause, Asked, Broken,
                        Over, Running
    <2>3. CASE left' = left
      <3>1. SeedsAlone' /\ EndsWell'
        BY <1>0, <1>a, <2>1, <2>3, SaysTheSame DEF SeedsAlone
      <3>2. LeftForCause'
        BY <1>0, <2>1, <2>3 DEF LeftForCause
      <3> QED
        BY <2>1, <2>2, <3>1, <3>2, <1>d
    <2>4. ASSUME NEW w \in Workers, Running(w), shutdown, left' = left \cup {Without(w, "Unknown")}
          PROVE  RunInv'
      <3>1. phase # "exited" /\ phase # "seeding"
        BY <1>0, <2>4, TaskNames DEF JoinedAreOver, SeedsAlone, Running
      <3>2. Without(w, "Unknown").how = "Unknown"
        BY DEF Without
      <3>3. LeftForCause'
        BY <1>0, <2>1, <2>4, <3>1, <3>2 DEF LeftForCause
      <3> QED
        BY <2>1, <2>2, <3>1, <3>3, <1>d, <1>e, <1>f
    <2> QED
      BY <1>8, <2>3, <2>4 DEF GoesOn
  <1> QED
    BY <1>1, <1>2, <1>3, <1>4, <1>5, <1>6, <1>7, <1>8, RunMoves

LEMMA StepOfNotifier ==
    RunInv /\ (NotifierStep \/ NotifierSettles) /\ UNCHANGED runVars => RunInv'
  <1> SUFFICES ASSUME RunInv, NotifierStep \/ NotifierSettles, UNCHANGED runVars PROVE RunInv'
    OBVIOUS
  <1>0. /\ TaskInv /\ SeedsAlone /\ DrainIsLast /\ GoneIsLogged /\ NotifierType
        /\ RunType /\ JoinedAreOver /\ LeftForCause
    BY DEF RunInv, TaskInv
  <1>a. /\ UNCHANGED <<task, shutdown, signals, joined, failure, panicked, phase, code, left>>
        /\ phase # "exited"
    BY DEF runVars, NotifierStep, NotifierSettles
  <1>b. TaskInv'
    BY <1>0, <1>a DEF TaskInv, RunType, JoinedAreOver, KeepsWhatItSaw, EndsForCause, Asked, Broken,
                      Over, Running
  <1>c. EndsWell' /\ LeftForCause'
    BY <1>0, <1>a DEF EndsWell, NothingAbandoned, ExitSaysWhy, LastWordsLeave, LeftForCause
  <1>d. NotifierType' /\ SeedsAlone' /\ DrainIsLast' /\ GoneIsLogged' => RunInv'
    BY <1>b, <1>c DEF RunInv, TaskInv
  <1>e. sends \in Seq(Notification) /\ Sends = 1..Len(sends) /\ now \in Nat
        /\ recent \in [Keys -> Nat \cup {None}]
    BY <1>0 DEF NotifierType, Sends
  <1>1. ASSUME NEW k \in Keys, CallsNotify, Claim(k) PROVE RunInv'
    <2> DEFINE new == [key |-> k, at |-> now, state |-> "claimed"]
    <2>1. new \in Notification
      BY <1>e DEF Notification, LiveStates
    <2>2. sends' = Append(sends, new) /\ recent' = [recent EXCEPT ![k] = now]
          /\ UNCHANGED <<now, log, drain>>
      BY <1>1 DEF Claim
    <2>3. NotifierType'
      BY <1>e, <2>1, <2>2 DEF NotifierType
    <2>4. PICK t \in Tasks \ {"http"} : Running(t)
      BY <1>1 DEF CallsNotify, Talkers
    <2>5. phase \notin {"seeding", "finishing", "exited"}
      BY <1>0, <2>4 DEF SeedsAlone, JoinedAreOver, Running, Over
    <2>6. SeedsAlone' /\ DrainIsLast'
      BY <1>0, <1>a, <2>2, <2>5 DEF SeedsAlone, DrainIsLast
    <2>7. GoneIsLogged'
      <3>1. /\ Sends' = Sends \cup {Len(sends) + 1}
            /\ \A i \in Sends : sends'[i] = sends[i]
            /\ sends'[Len(sends) + 1] = new
        BY <1>e, <2>1, <2>2 DEF Sends
      <3>2. new.state = "claimed"
        OBVIOUS
      <3> HIDE DEF new
      <3>3. ASSUME NEW i \in Sends', sends'[i].state \in GoneStates PROVE i \in log
        <4>1. i \in Sends
          BY <3>1, <3>2, <3>3 DEF GoneStates
        <4>2. sends[i].state \in GoneStates
          BY <3>1, <3>3, <4>1
        <4> QED
          BY <4>1, <4>2, <1>0 DEF GoneIsLogged, InState
      <3> QED
        BY <3>3, <2>2 DEF GoneIsLogged, InState
    <2> QED
      BY <2>3, <2>6, <2>7, <1>d
  <1>2. ASSUME NEW i \in Sends, NEW s \in LiveStates \cup GoneStates,
               sends' = [sends EXCEPT ![i].state = s], recent' \in {recent, roll_back(i)},
               UNCHANGED <<now, drain>>,
               (s \in LiveStates /\ log' = log) \/ log' = log \cup {i},
               s # "claimed", s = "flying" => drain = "none" \/ sends[i].state = "flying" \/ sends[i].state = "claimed"
        PROVE  RunInv'
    <2>1. /\ sends' \in Seq(Notification) /\ Sends' = Sends
          /\ \A j \in Sends : /\ sends'[j].key = sends[j].key
                              /\ sends'[j].at = sends[j].at
                              /\ sends'[j].state = IF j = i THEN s ELSE sends[j].state
      BY <1>2, <1>0, StateChange, Zenon
    <2>2. sends[i] \in Notification
      BY <1>e
    <2>3. recent' \in [Keys -> Nat \cup {None}]
      BY <1>2, <1>e, <2>2 DEF roll_back, Notification
    <2>4. NotifierType'
      BY <2>1, <2>3, <1>2, <1>e DEF NotifierType
    <2>5. phase # "seeding"
      BY <1>0, <1>2, <1>e DEF SeedsAlone
    <2>6. SeedsAlone'
      BY <2>5, <1>a DEF SeedsAlone
    <2>7. GoneIsLogged'
      BY <1>0, <1>2, <2>1 DEF GoneIsLogged, InState, LiveStates, GoneStates
    <2>8. InState({"claimed"})' \subseteq InState({"claimed"})
      BY <1>2, <2>1 DEF InState
    <2>9. drain # "none" => InState({"flying"})' \subseteq InState({"flying"})
      BY <1>0, <1>2, <2>1 DEF InState, DrainIsLast
    <2>10. DrainIsLast'
      BY <1>0, <1>2, <1>a, <2>8, <2>9 DEF DrainIsLast
    <2> QED
      BY <2>4, <2>6, <2>7, <2>10, <1>d
  <1>3. ASSUME NEW i \in Sends, Dispatch(i) PROVE RunInv'
    BY <1>3, <1>2 DEF Dispatch, Dropped, LiveStates, GoneStates
  <1>4. ASSUME NEW i \in Sends, NEW answer \in Answers, DeliveryEnds(i, answer) PROVE RunInv'
    BY <1>4, <1>2 DEF DeliveryEnds, LiveStates, GoneStates
  <1>5. CASE phase = "finishing" /\ InState({"claimed"}) = {} /\ DrainStarts
    <2>1. UNCHANGED <<now, recent, sends, log>> /\ drain' = "waiting" /\ Sends' = Sends
      BY <1>5 DEF DrainStarts, Sends
    <2>2. NotifierType' /\ SeedsAlone' /\ GoneIsLogged'
      BY <1>0, <1>a, <2>1 DEF NotifierType, SeedsAlone, GoneIsLogged, InState
    <2>3. DrainIsLast'
      BY <1>5, <1>a, <2>1 DEF DrainIsLast, InState
    <2> QED
      BY <2>2, <2>3, <1>d
  <1>6. CASE DrainEnds
    <2>1. UNCHANGED <<now, recent, sends, log>> /\ drain = "waiting" /\ Sends' = Sends
          /\ (drain' = "drained" => in_flight = 0)
      BY <1>6 DEF DrainEnds, Sends
    <2>2. NotifierType' /\ SeedsAlone' /\ GoneIsLogged'
      BY <1>0, <1>a, <2>1 DEF NotifierType, SeedsAlone, GoneIsLogged, InState
    <2>3. in_flight = 0 => InState({"flying"}) = {}
      <3>1. IsFiniteSet(1..Len(sends))
        BY <1>e, FS_Interval
      <3>2. IsFiniteSet(InState({"flying"}))
        BY <3>1, <1>e, FS_Subset DEF InState
      <3> QED
        BY <3>2, FS_EmptySet DEF in_flight
    <2>4. DrainIsLast'
      BY <1>0, <1>a, <2>1, <2>3 DEF DrainIsLast, InState
    <2> QED
      BY <2>2, <2>4, <1>d
  <1>7. CASE Elapse
    <2>1. UNCHANGED <<recent, sends, log, drain>> /\ now' \in Nat /\ Sends' = Sends
      BY <1>7, <1>e DEF Elapse, Sends
    <2>2. NotifierType' /\ SeedsAlone' /\ GoneIsLogged' /\ DrainIsLast'
      BY <1>0, <1>a, <2>1 DEF NotifierType, SeedsAlone, GoneIsLogged, DrainIsLast, InState
    <2> QED
      BY <2>2, <1>d
  <1> QED
    BY <1>1, <1>3, <1>4, <1>5, <1>6, <1>7 DEF NotifierStep, NotifierSettles

LEMMA RunInitInv == Started => RunInv
  <1> SUFFICES ASSUME RunInit, NotifierInit PROVE RunInv
    BY DEF Started
  <1>1. NotifierType /\ sends = << >> /\ Sends = {} /\ drain = "none"
    BY DEF NotifierInit, NotifierType, Sends
  <1>2. RunType
    <2>1. task \in [Tasks -> TaskStates]
      BY DEF RunInit, TaskStates
    <2>2. panicked \in BOOLEAN
      BY Zenon DEF RunInit
    <2>3. joined = {} /\ signals = 0 /\ phase = "seeding"
      BY DEF RunInit
    <2> QED
      BY <2>1, <2>2, <2>3 DEF RunType
  <1>3. \A t \in Tasks : task[t] = IF t = "http" THEN "running" ELSE "unborn"
    BY DEF RunInit
  <1>4. /\ joined = {} /\ failure = None /\ panicked = FALSE /\ phase = "seeding" /\ shutdown = FALSE
        /\ left = {}
    BY DEF RunInit
  <1>5. SeedsAlone /\ JoinedAreOver /\ KeepsWhatItSaw
    BY <1>1, <1>3, <1>4 DEF SeedsAlone, JoinedAreOver, KeepsWhatItSaw
  <1>6. EndsForCause
    BY <1>3, <1>4, TaskNames DEF EndsForCause, Over
  <1>7. DrainIsLast /\ GoneIsLogged
    BY <1>1 DEF DrainIsLast, GoneIsLogged, InState
  <1>8. EndsWell /\ LeftForCause
    BY <1>4 DEF EndsWell, NothingAbandoned, ExitSaysWhy, LastWordsLeave, LeftForCause
  <1> QED
    BY <1>1, <1>2, <1>5, <1>6, <1>7, <1>8 DEF RunInv

\* However a run ends but by a second signal, whichever task failed or
\* panicked first: no submission is cut off between its send and its outcome,
\* and one whose outcome is not learned was answered Unknown for a raised flag
\* or lost with a worker whose panic the process ends as; nothing is left
\* unsaid that the drain had time for, and the exit code says why (service.rs,
\* drain_tasks and finish_run; queue.rs, resolve).
THEOREM RunEndsWell == RunSpec => []EndsWell
  <1>1. RunInv /\ [RunNext]_allRunVars => RunInv'
    <2> SUFFICES ASSUME RunInv, [RunNext]_allRunVars PROVE RunInv'
      OBVIOUS
    <2>1. CASE UNCHANGED allRunVars
      <3>1. UNCHANGED <<task, shutdown, signals, joined, failure, panicked, phase, code, left>>
            /\ UNCHANGED <<now, recent, sends, log, drain>>
        BY <2>1 DEF allRunVars, runVars, notifierVars
      <3>2. Sends' = Sends
        BY <3>1 DEF Sends
      <3>3. NotifierType' /\ SeedsAlone' /\ DrainIsLast' /\ GoneIsLogged'
        BY <3>1, <3>2 DEF RunInv, NotifierType, SeedsAlone, DrainIsLast, GoneIsLogged, InState
      <3>4. RunType' /\ JoinedAreOver' /\ KeepsWhatItSaw' /\ EndsForCause'
        BY <3>1 DEF RunInv, RunType, JoinedAreOver, KeepsWhatItSaw, EndsForCause, Asked, Broken, Over,
                    Running
      <3>6. LeftForCause'
        BY <3>1 DEF RunInv, LeftForCause
      <3>5. EndsWell'
        BY <3>1, <3>2, SaysTheSame DEF RunInv
      <3> QED
        BY <3>3, <3>4, <3>5, <3>6 DEF RunInv
    <2> QED
      BY <2>1, StepOfRun, StepOfNotifier DEF RunNext
  <1>2. RunInv => EndsWell
    BY DEF RunInv
  <1> QED
    BY RunInitInv, <1>1, <1>2, PTL DEF RunSpec

----------------------------------------------------------------------------
(* The probes and the recorder.                                            *)

Gauge == Nat \cup {Missing}
PoolGauges == [head : Gauge, head_at : Gauge, processed : Gauge, heartbeat : Gauge,
               users_tracked : Gauge, auctions_open : Gauge, seed_accounts_loaded : Gauge,
               last_successful_scan : Gauge]
Recorder == [pools : [Pools -> PoolGauges], counts : [Counters -> Nat], reserved : Gauge]

\* What the probes read of the pool.
Gauges(m) == m.pools[ThisPool]
Beat(m) == IF Gauges(m).heartbeat = Missing THEN 0 ELSE Gauges(m).heartbeat

----------------------------------------------------------------------------
(* What a call on the recorder leaves alone.                               *)

LEMMA CountersAre ==
  /\ \A k \in {"creations", "fills"}, w \in Attempts : <<k, w>> \in Counters
  /\ \A r \in Skips : <<"skips", r>> \in Counters
  /\ \A d \in Deliveries : <<"notifications", d>> \in Counters
  /\ <<"events", "total">> \in Counters /\ <<"unwind_passes", "total">> \in Counters
  /\ <<"estimated", "profit">> \in Counters /\ <<"estimated", "loss">> \in Counters
  BY DEF Counters

LEMMA CountedIs ==
  ASSUME NEW m \in Recorder, NEW c \in Counters, NEW by \in Nat, NEW limit \in Nat
  PROVE  /\ Counted(m, c, by, limit) \in Recorder
         /\ Counted(m, c, by, limit).pools = m.pools
         /\ Counted(m, c, by, limit).counts
               = [m.counts EXCEPT ![c] = saturating_add(m.counts[c], by, limit)]
  BY DEF Counted, saturating_add, Recorder

LEMMA NewIsRecorder ==
  New \in Recorder /\ Gauges(New).heartbeat = Missing /\ Gauges(New).head = Missing
  /\ \A c \in Counters : New.counts[c] = 0
  <1>1. PoolRecord \in PoolGauges
    BY DEF PoolRecord, PoolGauges, Gauge
  <1>2. [p \in Pools |-> PoolRecord] \in [Pools -> PoolGauges]
    BY <1>1
  <1> QED
    BY <1>2, HealthAssumption DEF HealthAssumption, New, Recorder, Gauge, Gauges, PoolRecord

LEMMA SettersKeep ==
  ASSUME NEW m \in Recorder, NEW p \in Pools, NEW n \in Gauge
  PROVE  LET r == reserved_inventory(m, n)
             fields == {users_tracked(m, p, n), auctions_open(m, p, n),
                        seed_accounts_loaded(m, p, n), scan_succeeded(m, p, n)}
         IN  /\ r \in Recorder /\ r.pools = m.pools /\ r.counts = m.counts
             /\ \A x \in fields :
                   /\ x \in Recorder /\ x.counts = m.counts
                   /\ Gauges(x).heartbeat = Gauges(m).heartbeat
                   /\ Gauges(x).head = Gauges(m).head
                   /\ Gauges(x).head_at = Gauges(m).head_at
                   /\ Gauges(x).processed = Gauges(m).processed
  <1>0. ThisPool \in Pools
    BY HealthAssumption DEF HealthAssumption
  <1>1. reserved_inventory(m, n) \in Recorder /\ reserved_inventory(m, n).pools = m.pools
        /\ reserved_inventory(m, n).counts = m.counts
    BY DEF reserved_inventory, Recorder
  <1>2. ASSUME NEW x \in {users_tracked(m, p, n), auctions_open(m, p, n),
                          seed_accounts_loaded(m, p, n), scan_succeeded(m, p, n)}
        PROVE  /\ x \in Recorder /\ x.counts = m.counts
               /\ Gauges(x).heartbeat = Gauges(m).heartbeat
               /\ Gauges(x).head = Gauges(m).head
               /\ Gauges(x).head_at = Gauges(m).head_at
               /\ Gauges(x).processed = Gauges(m).processed
    <2>1. PICK g \in PoolGauges :
             /\ x = [m EXCEPT !.pools[p] = g]
             /\ g.heartbeat = m.pools[p].heartbeat /\ g.head = m.pools[p].head
             /\ g.head_at = m.pools[p].head_at /\ g.processed = m.pools[p].processed
      <3> DEFINE q == m.pools[p]
      <3>0. q \in PoolGauges
        BY DEF Recorder
      <3>1. CASE x = users_tracked(m, p, n)
        <4> [q EXCEPT !.users_tracked = n] \in PoolGauges
          BY <3>0 DEF PoolGauges
        <4> WITNESS [q EXCEPT !.users_tracked = n] \in PoolGauges
        <4> QED
          BY <3>0, <3>1 DEF users_tracked, PoolGauges
      <3>2. CASE x = auctions_open(m, p, n)
        <4> [q EXCEPT !.auctions_open = n] \in PoolGauges
          BY <3>0 DEF PoolGauges
        <4> WITNESS [q EXCEPT !.auctions_open = n] \in PoolGauges
        <4> QED
          BY <3>0, <3>2 DEF auctions_open, PoolGauges
      <3>3. CASE x = seed_accounts_loaded(m, p, n)
        <4> [q EXCEPT !.seed_accounts_loaded = n] \in PoolGauges
          BY <3>0 DEF PoolGauges
        <4> WITNESS [q EXCEPT !.seed_accounts_loaded = n] \in PoolGauges
        <4> QED
          BY <3>0, <3>3 DEF seed_accounts_loaded, PoolGauges
      <3>4. CASE x = scan_succeeded(m, p, n)
        <4> [q EXCEPT !.last_successful_scan = n] \in PoolGauges
          BY <3>0 DEF PoolGauges
        <4> WITNESS [q EXCEPT !.last_successful_scan = n] \in PoolGauges
        <4> QED
          BY <3>0, <3>4 DEF scan_succeeded, PoolGauges
      <3> QED
        BY <3>1, <3>2, <3>3, <3>4
    <2> QED
      BY <1>0, <2>1 DEF Recorder, Gauges
  <1> QED
    BY <1>1, <1>2

LEMMA BeatIs ==
  ASSUME NEW m \in Recorder, NEW t \in Nat
  PROVE  LET x == heartbeat_at(m, ThisPool, t)
         IN  /\ x \in Recorder /\ x.counts = m.counts
             /\ Gauges(x) = [Gauges(m) EXCEPT !.heartbeat = t]
             /\ Gauges(m) \in PoolGauges
  <1>1. m.pools \in [Pools -> PoolGauges] /\ ThisPool \in Pools
    BY HealthAssumption DEF HealthAssumption, Recorder
  <1>2. [m.pools[ThisPool] EXCEPT !.heartbeat = t] \in PoolGauges
    BY <1>1 DEF PoolGauges, Gauge
  <1> QED
    BY <1>1, <1>2 DEF heartbeat_at, Recorder, Gauges

LEMMA HeadIs ==
  ASSUME NEW m \in Recorder, NEW s \in Nat, NEW t \in Nat
  PROVE  LET x == ledger_head_at(m, ThisPool, s, t)
         IN  /\ x \in Recorder /\ x.counts = m.counts
             /\ Gauges(x).heartbeat = Gauges(m).heartbeat
             /\ Gauges(x).head = s /\ Gauges(x).head_at = t
  <1>1. m.pools \in [Pools -> PoolGauges] /\ ThisPool \in Pools
    BY HealthAssumption DEF HealthAssumption, Recorder
  <1>2. [m.pools[ThisPool] EXCEPT !.head = s, !.head_at = t] \in PoolGauges
    BY <1>1 DEF PoolGauges, Gauge
  <1> QED
    BY <1>1, <1>2 DEF ledger_head_at, Recorder, Gauges, PoolGauges

LEMMA ProcessedIs ==
  ASSUME NEW m \in Recorder, NEW s \in Gauge
  PROVE  LET x == ledger_processed(m, ThisPool, s)
         IN  /\ x \in Recorder /\ x.counts = m.counts
             /\ Gauges(x) = [Gauges(m) EXCEPT !.processed = s]
             /\ Gauges(m) \in PoolGauges
  <1>1. m.pools \in [Pools -> PoolGauges] /\ ThisPool \in Pools
    BY HealthAssumption DEF HealthAssumption, Recorder
  <1>2. [m.pools[ThisPool] EXCEPT !.processed = s] \in PoolGauges
    BY <1>1 DEF PoolGauges, Gauge
  <1> QED
    BY <1>1, <1>2 DEF ledger_processed, Recorder, Gauges

----------------------------------------------------------------------------
(* The calls a task still has to make.                                     *)

AnyCall == [of : {"creations", "fills", "estimated"}, what : Attempts \cup Int]
KindOf(r) == IF r = "auctioneer" THEN "creations" ELSE "fills"
Kinds == {"creations", "fills"}
IsAttempt(c, k) == c.of = k /\ c.what = "attempted"
IsSettle(c, k) == c.of = k /\ c.what \in {"succeeded", "failed"}
IsEstimate(c) == c.of = "estimated" /\ c.what \in Int

\* The calls of one answer: a settling call comes right after its attempt.
Orderly(s, k) ==
    /\ \A i \in 1..Len(s) : IsAttempt(s[i], k) \/ IsSettle(s[i], k) \/ IsEstimate(s[i])
    /\ \A i \in 2..Len(s) : IsSettle(s[i], k) => IsAttempt(s[i - 1], k)

\* Full: the counter of attempts is at its limit, and says nothing any more.
Full(k) == inner.counts[<<k, "attempted">>] = MaxCount
SettledBy(k) == inner.counts[<<k, "succeeded">>] + inner.counts[<<k, "failed">>]

\* A settling call that is next has its attempt counted already.
NextIsCovered(r) ==
    LET k == KindOf(r)
    IN  \/ Full(k)
        \/ /\ SettledBy(k) <= inner.counts[<<k, "attempted">>]
           /\ calls[r] # << >> /\ IsSettle(calls[r][1], k) =>
                 SettledBy(k) + 1 <= inner.counts[<<k, "attempted">>]

CallsInv ==
    /\ inner \in Recorder
    /\ calls \in [Recorders -> Seq(AnyCall)]
    /\ \A r \in Recorders : Orderly(calls[r], KindOf(r)) /\ NextIsCovered(r)

----------------------------------------------------------------------------
(* The poller.                                                             *)

PollerType ==
    /\ tick \in Nat /\ chain \in Nat /\ chain > ReplicaLag
    /\ poller \in [at : {"seeding", "top", "reading", "applying", "sleeping", "dead"}, due : Nat]
    /\ backoff \in 1..MaxBackoff
    /\ failures \in Nat /\ told \in Nat /\ reported \in BOOLEAN

\* A live task's timer is never further off than its next heartbeat must be.
BeatsInTime ==
    Live =>
        /\ tick <= poller.due + Slack
        /\ poller.at \in {"seeding", "reading", "applying"} => poller.due <= Beat(inner) + 1
        /\ poller.at = "top" => poller.due <= Beat(inner) + 1 + Slack
        /\ poller.at = "sleeping" => poller.due <= Beat(inner) + 1 + Slack + MaxBackoff
        /\ ~reported

\* The head is as old as its age says.
HeadAges ==
    LET g == Gauges(inner)
    IN  g.head # Missing =>
            g.head \in Nat /\ g.head_at \in Nat
            /\ chain - g.head <= (tick - g.head_at) + ReplicaLag

PollerInv == PollerType /\ BeatsInTime /\ HeadAges /\ OneTellPerStreak
HealthInv == CallsInv /\ PollerInv
----------------------------------------------------------------------------
(* Recording.                                                              *)

LEMMA OneThen ==
  ASSUME NEW S, NEW a \in Seq(S), Len(a) = 1, NEW t \in Seq(S)
  PROVE  /\ a \o t \in Seq(S) /\ Len(a \o t) = 1 + Len(t) /\ (a \o t)[1] = a[1]
         /\ Len(t) >= 1 => (a \o t)[2] = t[1]
  <1> DEFINE w == a \o t
  <1>1. /\ w \in Seq(S) /\ Len(w) = Len(a) + Len(t)
        /\ \A i \in 1..Len(a) + Len(t) : w[i] = IF i <= Len(a) THEN a[i] ELSE t[i - Len(a)]
    BY ConcatProperties
  <1> HIDE DEF w
  <1>2. w[1] = a[1] /\ (Len(t) >= 1 => w[2] = t[1])
    BY <1>1
  <1> QED
    BY <1>1, <1>2 DEF w

LEMMA TwoInOrder ==
  ASSUME NEW x, NEW y
  PROVE  <<x>> \o <<y>> = <<x, y>>
  <1> DEFINE S == {x, y}
             a == <<x>>
             b == <<y>>
             c == <<x, y>>
  <1>1. a \in Seq(S) /\ Len(a) = 1 /\ a[1] = x
    OBVIOUS
  <1>2. b \in Seq(S) /\ Len(b) = 1 /\ b[1] = y
    OBVIOUS
  <1>3. c \in Seq(S) /\ Len(c) = 2 /\ c[1] = x /\ c[2] = y
    OBVIOUS
  <1> HIDE DEF a, b, c, S
  <1> DEFINE w == a \o b
  <1>4. w \in Seq(S) /\ Len(w) = 2 /\ w[1] = x /\ w[2] = y
    BY <1>1, <1>2, OneThen
  <1> HIDE DEF w
  <1>5. \A i \in 1..Len(w) : w[i] = c[i]
    BY <1>3, <1>4
  <1>6. w = c
    BY <1>3, <1>4, <1>5, SeqEqual
  <1> QED
    BY <1>6 DEF a, b, c, w

LEMMA EmptyIsOrderly ==
  ASSUME NEW k
  PROVE  << >> \in Seq(AnyCall) /\ Orderly(<< >>, k)
  BY DEF Orderly

\* An attempt, with what settles it or with nothing yet.
LEMMA AttemptIsOrderly ==
  ASSUME NEW k \in Kinds, NEW t \in {<< >>, <<"succeeded">>, <<"failed">>}
  PROVE  LET s == CallsOf(k, <<"attempted">> \o t)
         IN  /\ s \in Seq(AnyCall) /\ Orderly(s, k) /\ s # << >> /\ ~IsSettle(s[1], k)
             /\ \A i \in 1..Len(s) : ~IsEstimate(s[i])
  <1> DEFINE w == <<"attempted">> \o t
             s == CallsOf(k, w)
  <1>1. w \in Seq(Attempts) /\ Len(w) \in {1, 2} /\ w[1] = "attempted"
        /\ (Len(w) = 2 => w[2] \in {"succeeded", "failed"})
    <2> DEFINE a == <<"attempted">>
    <2>1. a \in Seq(Attempts) /\ Len(a) = 1 /\ a[1] = "attempted"
      BY DEF Attempts
    <2>2. t \in Seq(Attempts) /\ Len(t) \in {0, 1} /\ (Len(t) = 1 => t[1] \in {"succeeded", "failed"})
      <3>1. CASE t = << >>
        BY <3>1
      <3>2. CASE t = <<"succeeded">>
        BY <3>2 DEF Attempts
      <3>3. CASE t = <<"failed">>
        BY <3>3 DEF Attempts
      <3> QED
        BY <3>1, <3>2, <3>3
    <2> HIDE DEF a
    <2>3. a \o t \in Seq(Attempts) /\ Len(a \o t) = 1 + Len(t) /\ (a \o t)[1] = a[1]
          /\ (Len(t) = 1 => (a \o t)[2] = t[1])
      BY <2>1, <2>2, OneThen
    <2> QED
      BY <2>1, <2>2, <2>3 DEF a
  <1> HIDE DEF w
  <1>2. s = [i \in 1..Len(w) |-> [of |-> k, what |-> w[i]]]
    BY DEF CallsOf, Call
  <1>3. \A i \in 1..Len(w) : [of |-> k, what |-> w[i]] \in AnyCall
    BY <1>1 DEF AnyCall, Kinds
  <1>4. s \in Seq(AnyCall) /\ Len(s) = Len(w)
    BY <1>1, <1>2, <1>3
  <1>5. \A i \in 1..Len(w) : s[i].of = k /\ s[i].what = w[i]
    BY <1>2
  <1> HIDE DEF s
  <1>6. \A i \in 1..Len(s) : i = 1 \/ i = 2
    BY <1>1, <1>4
  <1>7. 1 \in 1..Len(s) /\ s # << >>
    BY <1>1, <1>4
  <1>8. Orderly(s, k)
    BY <1>1, <1>4, <1>5, <1>6, <1>7 DEF Orderly, IsAttempt, IsSettle
  <1>9. ~IsSettle(s[1], k) /\ \A i \in 1..Len(s) : ~IsEstimate(s[i])
    BY <1>1, <1>4, <1>5, <1>7 DEF IsSettle, IsEstimate, Kinds
  <1> QED
    BY <1>4, <1>7, <1>8, <1>9 DEF s, w
LEMMA ActIsOrderly ==
  ASSUME NEW answer \in ActAnswers
  PROVE  LET s == note_act(answer)
         IN  s \in Seq(AnyCall) /\ Orderly(s, "creations")
             /\ (s # << >> => ~IsSettle(s[1], "creations"))
  <1>0. "creations" \in Kinds
    BY DEF Kinds
  <1>1. CASE answer = "Succeeded"
    BY <1>0, <1>1, AttemptIsOrderly DEF note_act, SettledAs
  <1>2. CASE answer \in {"Failed", "Expired"}
    BY <1>0, <1>2, AttemptIsOrderly DEF note_act, SettledAs
  <1>3. CASE answer \in {"Unknown", "none"}
    BY <1>0, <1>3, AttemptIsOrderly DEF note_act, SettledAs
  <1>4. CASE answer = "chain"
    <2>1. <<"attempted">> \o <<"failed">> = <<"attempted", "failed">>
      BY TwoInOrder
    <2>2. note_act(answer) = CallsOf("creations", <<"attempted">> \o <<"failed">>)
      BY <1>4, <2>1 DEF note_act
    <2> QED
      BY <1>0, <2>2, AttemptIsOrderly
  <1>5. CASE answer \in {"skipped", "refused"}
    BY <1>5, EmptyIsOrderly DEF note_act
  <1> QED
    BY <1>1, <1>2, <1>3, <1>4, <1>5 DEF ActAnswers

\* A fill that succeeded is recorded with its estimate behind it.
LEMMA EstimateIsOrderly ==
  ASSUME NEW s \in Seq(AnyCall), Orderly(s, "fills"), s # << >>, ~IsSettle(s[1], "fills"),
         NEW units \in Int
  PROVE  LET w == s \o <<Call("estimated", units)>>
         IN  w \in Seq(AnyCall) /\ Orderly(w, "fills") /\ w # << >> /\ ~IsSettle(w[1], "fills")
  <1> DEFINE e == Call("estimated", units)
             w == s \o <<e>>
  <1>1. e \in AnyCall /\ IsEstimate(e) /\ ~IsSettle(e, "fills")
    BY DEF Call, AnyCall, IsEstimate, IsSettle
  <1> HIDE DEF e
  <1>2. /\ w \in Seq(AnyCall) /\ Len(w) = Len(s) + 1 /\ Len(s) \in Nat /\ Len(s) # 0
        /\ \A i \in 1..Len(s) : w[i] = s[i]
        /\ w[Len(s) + 1] = e
    BY <1>1
  <1> HIDE DEF w
  <1>3. Orderly(w, "fills")
    BY <1>1, <1>2 DEF Orderly
  <1>4. w # << >> /\ w[1] = s[1]
    BY <1>2
  <1> QED
    BY <1>2, <1>3, <1>4 DEF w, e

LEMMA RecordIsOrderly ==
  ASSUME NEW answer \in ActAnswers, NEW units \in Int
  PROVE  LET s == note_recorded(answer, units)
         IN  s \in Seq(AnyCall) /\ Orderly(s, "fills")
             /\ (s # << >> => ~IsSettle(s[1], "fills"))
  <1>0. "fills" \in Kinds
    BY DEF Kinds
  <1>1. CASE answer = "Succeeded"
    <2>1. <<"attempted">> \o <<"succeeded">> = <<"attempted", "succeeded">>
      BY TwoInOrder
    <2> DEFINE s == CallsOf("fills", <<"attempted">> \o <<"succeeded">>)
    <2>2. s \in Seq(AnyCall) /\ Orderly(s, "fills") /\ s # << >> /\ ~IsSettle(s[1], "fills")
      BY <1>0, AttemptIsOrderly
    <2>3. note_recorded(answer, units) = s \o <<Call("estimated", units)>>
      BY <1>1, <2>1 DEF note_recorded
    <2> HIDE DEF s
    <2> QED
      BY <2>2, <2>3, EstimateIsOrderly
  <1>2. CASE answer \in {"Failed", "Expired"}
    BY <1>0, <1>2, AttemptIsOrderly DEF note_recorded, SettledAs
  <1>3. CASE answer \in {"Unknown", "none"}
    BY <1>0, <1>3, AttemptIsOrderly DEF note_recorded, SettledAs
  <1>4. CASE answer = "chain"
    <2>1. <<"attempted">> \o <<"failed">> = <<"attempted", "failed">>
      BY TwoInOrder
    <2>2. note_recorded(answer, units) = CallsOf("fills", <<"attempted">> \o <<"failed">>)
      BY <1>4, <2>1 DEF note_recorded
    <2> QED
      BY <1>0, <2>2, AttemptIsOrderly
  <1>5. CASE answer \in {"skipped", "refused"}
    BY <1>5, EmptyIsOrderly DEF note_recorded
  <1> QED
    BY <1>1, <1>2, <1>3, <1>4, <1>5 DEF ActAnswers

LEMMA TailIsOrderly ==
  ASSUME NEW s \in Seq(AnyCall), NEW k, Orderly(s, k), s # << >>
  PROVE  /\ Tail(s) \in Seq(AnyCall) /\ Orderly(Tail(s), k)
         /\ Tail(s) # << >> /\ IsSettle(Tail(s)[1], k) => IsAttempt(s[1], k)
         /\ Head(s) = s[1] /\ s[1] \in AnyCall
         /\ IsAttempt(s[1], k) \/ IsSettle(s[1], k) \/ IsEstimate(s[1])
  <1> DEFINE t == Tail(s)
  <1>1. /\ t \in Seq(AnyCall) /\ Len(t) = Len(s) - 1 /\ Len(s) \in Nat /\ Len(s) # 0
        /\ \A i \in 1..Len(t) : t[i] = s[i + 1]
        /\ Head(s) = s[1] /\ s[1] \in AnyCall
    OBVIOUS
  <1> HIDE DEF t
  <1>2. Orderly(t, k)
    <2>1. ASSUME NEW i \in 1..Len(t)
          PROVE  IsAttempt(t[i], k) \/ IsSettle(t[i], k) \/ IsEstimate(t[i])
      <3>1. i + 1 \in 1..Len(s)
        BY <1>1
      <3> QED
        BY <1>1, <3>1 DEF Orderly
    <2>2. ASSUME NEW i \in 2..Len(t), IsSettle(t[i], k)
          PROVE  IsAttempt(t[i - 1], k)
      <3>1. i + 1 \in 2..Len(s) /\ i - 1 \in 1..Len(t) /\ i \in 1..Len(t)
            /\ (i + 1) - 1 = i /\ (i - 1) + 1 = i
        BY <1>1
      <3>2. t[i] = s[i + 1] /\ t[i - 1] = s[i]
        BY <3>1, <1>1
      <3> QED
        BY <2>2, <3>1, <3>2 DEF Orderly
    <2> QED
      BY <2>1, <2>2 DEF Orderly
  <1>3. t # << >> /\ IsSettle(t[1], k) => IsAttempt(s[1], k)
    <2> SUFFICES ASSUME t # << >>, IsSettle(t[1], k) PROVE IsAttempt(s[1], k)
      OBVIOUS
    <2>1. 2 \in 2..Len(s) /\ 1 \in 1..Len(t) /\ 1 + 1 = 2 /\ 2 - 1 = 1
      BY <1>1
    <2>2. t[1] = s[2]
      BY <2>1, <1>1
    <2> QED
      BY <2>1, <2>2 DEF Orderly
  <1>4. 1 \in 1..Len(s)
    BY <1>1
  <1> QED
    BY <1>1, <1>2, <1>3, <1>4 DEF Orderly, t
\* Two recorders of two kinds.
LEMMA RecorderKinds ==
  /\ \A r \in Recorders : KindOf(r) \in Kinds
  /\ \A r, s \in Recorders : KindOf(r) = KindOf(s) => r = s
  /\ Recorders = {"auctioneer", "filler"}
  /\ KindOf("auctioneer") = "creations" /\ KindOf("filler") = "fills"
  BY DEF Recorders, KindOf, Kinds

\* A step that leaves the counters of the kinds alone and empties nothing.
LEMMA CountsStand ==
  ASSUME NEW r \in Recorders, NextIsCovered(r), calls'[r] = calls[r],
         \A w \in Attempts : inner'.counts[<<KindOf(r), w>>] = inner.counts[<<KindOf(r), w>>]
  PROVE  NextIsCovered(r)'
  <1>1. "attempted" \in Attempts /\ "succeeded" \in Attempts /\ "failed" \in Attempts
    BY DEF Attempts
  <1> QED
    BY <1>1 DEF NextIsCovered, Full, SettledBy, KindOf, IsSettle

LEMMA CallsTogether ==
  ASSUME inner' \in Recorder, calls' \in [Recorders -> Seq(AnyCall)],
         \A r \in Recorders : Orderly(calls'[r], KindOf(r)),
         \A r \in Recorders : NextIsCovered(r)'
  PROVE  CallsInv'
  BY DEF CallsInv, Orderly, IsSettle, IsAttempt, IsEstimate, KindOf

\* A task begins to record an answer.
LEMMA AnswerNoted ==
  ASSUME CallsInv, NEW r \in Recorders, NEW s \in Seq(AnyCall),
         Orderly(s, KindOf(r)), s # << >> => ~IsSettle(s[1], KindOf(r)),
         calls' = [calls EXCEPT ![r] = s], UNCHANGED inner
  PROVE  CallsInv'
  <1>1. calls' \in [Recorders -> Seq(AnyCall)] /\ inner' \in Recorder
    BY DEF CallsInv
  <1>2. ASSUME NEW q \in Recorders
        PROVE  Orderly(calls'[q], KindOf(q)) /\ NextIsCovered(q)'
    <2>1. CASE q = r
      <3>1. calls'[r] = s
        BY DEF CallsInv
      <3>2. NextIsCovered(r)
        BY DEF CallsInv
      <3> QED
        BY <2>1, <3>1, <3>2 DEF NextIsCovered, Full, SettledBy, KindOf, IsSettle
    <2>2. CASE q # r
      <3>1. calls'[q] = calls[q]
        BY <2>2 DEF CallsInv
      <3> QED
        BY <3>1, CountsStand DEF CallsInv
    <2> QED
      BY <2>1, <2>2
  <1> QED
    BY <1>1, <1>2, CallsTogether

\* A counter of neither kind leaves both alone.
LEMMA OtherCounter ==
  ASSUME CallsInv, NEW c \in Counters, NEW by \in Nat, NEW limit \in Nat,
         c[1] \notin Kinds, inner' = Counted(inner, c, by, limit)
  PROVE  /\ inner' \in Recorder /\ inner'.pools = inner.pools
         /\ \A k \in Kinds, w \in Attempts : inner'.counts[<<k, w>>] = inner.counts[<<k, w>>]
  <1>1. /\ inner' \in Recorder /\ inner'.pools = inner.pools
        /\ inner'.counts = [inner.counts EXCEPT ![c] = saturating_add(inner.counts[c], by, limit)]
    <2>1. inner \in Recorder
      BY DEF CallsInv
    <2> QED
      BY <2>1, CountedIs
  <1>2. inner.counts \in [Counters -> Nat]
    BY DEF CallsInv, Recorder
  <1>3. ASSUME NEW k \in Kinds, NEW w \in Attempts
        PROVE  inner'.counts[<<k, w>>] = inner.counts[<<k, w>>]
    <2>1. <<k, w>> \in Counters /\ <<k, w>> # c
      BY CountersAre DEF Kinds
    <2> QED
      BY <1>1, <1>2, <2>1
  <1> QED
    BY <1>1, <1>3

\* The call that is next is made.
LEMMA CallMade ==
  ASSUME CallsInv, NEW r \in Recorders, RecordCall(r)
  PROVE  CallsInv' /\ inner'.pools = inner.pools
  <1> DEFINE s == calls[r]
             k == KindOf(r)
             c == s[1]
  <1>1. s \in Seq(AnyCall) /\ s # << >> /\ Orderly(s, k) /\ NextIsCovered(r)
    BY DEF CallsInv, RecordCall
  <1>2. /\ Tail(s) \in Seq(AnyCall) /\ Orderly(Tail(s), k)
        /\ Tail(s) # << >> /\ IsSettle(Tail(s)[1], k) => IsAttempt(c, k)
        /\ Head(s) = c /\ c \in AnyCall
        /\ IsAttempt(c, k) \/ IsSettle(c, k) \/ IsEstimate(c)
    <2> HIDE DEF s, k
    <2> QED
      BY <1>1, TailIsOrderly
  <1>3. calls' = [calls EXCEPT ![r] = Tail(s)] /\ inner' = Applied(inner, c)
    BY <1>2 DEF RecordCall
  <1>4. /\ calls' \in [Recorders -> Seq(AnyCall)] /\ calls'[r] = Tail(s)
        /\ \A q \in Recorders \ {r} : calls'[q] = calls[q]
    BY <1>2, <1>3 DEF CallsInv
  <1>0. \A q \in Recorders : Orderly(calls'[q], KindOf(q))
    BY <1>2, <1>4 DEF CallsInv
  <1>5. k \in Kinds /\ MaxCount \in Nat /\ MaxUnits \in Nat
    BY RecorderKinds, MetricsAssumption DEF MetricsAssumption
  <1>6. CASE IsEstimate(c)
    <2>1. inner' = profit(inner, c.what) /\ c.what \in Int
      BY <1>3, <1>6 DEF Applied, IsEstimate
    <2>2. PICK w \in {"profit", "loss"}, by \in Nat :
             inner' = Counted(inner, <<"estimated", w>>, by, MaxUnits)
      <3>1. CASE c.what < 0
        <4>1. Magnitude(c.what) \in Nat
          BY <3>1, <2>1, <1>5 DEF Magnitude
        <4> QED
          BY <3>1, <4>1, <2>1 DEF profit
      <3>2. CASE ~(c.what < 0)
        <4>1. c.what \in Nat
          BY <3>2, <2>1
        <4> QED
          BY <3>2, <4>1, <2>1 DEF profit
      <3> QED
        BY <3>1, <3>2
    <2>3. <<"estimated", w>> \in Counters /\ <<"estimated", w>>[1] \notin Kinds
      BY CountersAre DEF Kinds
    <2>4. /\ inner' \in Recorder /\ inner'.pools = inner.pools
          /\ \A j \in Kinds, v \in Attempts : inner'.counts[<<j, v>>] = inner.counts[<<j, v>>]
      BY <1>5, <2>2, <2>3, OtherCounter
    <2>5. NextIsCovered(r)'
      <3>1. ~IsAttempt(c, k)
        BY <1>5, <1>6 DEF IsEstimate, IsAttempt, Kinds
      <3>2. ~(Tail(s) # << >> /\ IsSettle(Tail(s)[1], k))
        BY <1>2, <3>1
      <3>3. \A v \in Attempts : inner'.counts[<<k, v>>] = inner.counts[<<k, v>>]
        BY <1>5, <2>4
      <3> QED
        BY <1>1, <1>4, <3>2, <3>3 DEF NextIsCovered, Full, SettledBy, KindOf, IsSettle, Attempts
    <2>6. \A q \in Recorders \ {r} : NextIsCovered(q)'
      BY <1>4, <2>4, CountsStand, RecorderKinds DEF CallsInv
    <2> QED
      BY <1>0, <1>4, <2>4, <2>5, <2>6, CallsTogether
  <1>7. CASE ~IsEstimate(c)
    <2> DEFINE w == c.what
               d == <<k, w>>
    <2>1. c.of = k /\ w \in Attempts
      BY <1>2, <1>7 DEF IsAttempt, IsSettle, Attempts
    <2>2. d \in Counters
      BY <1>5, <2>1, CountersAre DEF Kinds
    <2>3. inner' = Counted(inner, d, 1, MaxCount)
      <3>1. CASE k = "creations"
        BY <3>1, <2>1, <1>3 DEF Applied, creation
      <3>2. CASE k = "fills"
        BY <3>2, <2>1, <1>3 DEF Applied, fill
      <3> QED
        BY <3>1, <3>2, <1>5 DEF Kinds
    <2>4. /\ inner' \in Recorder /\ inner'.pools = inner.pools
          /\ inner'.counts = [inner.counts EXCEPT ![d] = saturating_add(inner.counts[d], 1, MaxCount)]
      <3>1. inner \in Recorder /\ 1 \in Nat
        BY DEF CallsInv
      <3> HIDE DEF d
      <3> QED
        BY <1>5, <2>2, <2>3, <3>1, CountedIs
    <2>5. inner.counts \in [Counters -> Nat] /\ \A v \in Attempts : <<k, v>> \in Counters
      BY <1>5, CountersAre DEF CallsInv, Recorder, Kinds
    <2>6. \A v \in Attempts : inner'.counts[<<k, v>>]
              = IF v = w THEN saturating_add(inner.counts[<<k, v>>], 1, MaxCount)
                ELSE inner.counts[<<k, v>>]
      BY <2>1, <2>2, <2>4, <2>5
    <2>7. NextIsCovered(r)'
      <3> DEFINE A == inner.counts[<<k, "attempted">>]
                 S == inner.counts[<<k, "succeeded">>]
                 F == inner.counts[<<k, "failed">>]
      <3>0. /\ A \in Nat /\ S \in Nat /\ F \in Nat
            /\ "attempted" \in Attempts /\ "succeeded" \in Attempts /\ "failed" \in Attempts
        BY <2>5 DEF Attempts
      <3>1. A = MaxCount \/ (S + F <= A /\ (IsSettle(c, k) => S + F + 1 <= A))
        BY <1>1 DEF NextIsCovered, Full, SettledBy
      <3> DEFINE A1 == inner'.counts[<<k, "attempted">>]
                 S1 == inner'.counts[<<k, "succeeded">>]
                 F1 == inner'.counts[<<k, "failed">>]
                 last == Tail(s) # << >> /\ IsSettle(Tail(s)[1], k)
      <3>2. /\ A1 = IF w = "attempted" THEN saturating_add(A, 1, MaxCount) ELSE A
            /\ S1 = IF w = "succeeded" THEN saturating_add(S, 1, MaxCount) ELSE S
            /\ F1 = IF w = "failed" THEN saturating_add(F, 1, MaxCount) ELSE F
        BY <2>6, <3>0
      <3>3. last => w = "attempted"
        BY <1>2 DEF IsAttempt
      <3>4. w \in {"succeeded", "failed"} => IsSettle(c, k)
        BY <2>1 DEF IsSettle
      <3>5. A1 = MaxCount \/ (S1 + F1 <= A1 /\ (last => S1 + F1 + 1 <= A1))
        <4> HIDE DEF A, S, F, A1, S1, F1, last, w
        <4>1. CASE w = "attempted"
          BY <4>1, <3>0, <3>1, <3>2, <1>5 DEF saturating_add
        <4>2. CASE w = "succeeded"
          BY <4>2, <3>0, <3>1, <3>2, <3>3, <3>4, <1>5 DEF saturating_add
        <4>3. CASE w = "failed"
          BY <4>3, <3>0, <3>1, <3>2, <3>3, <3>4, <1>5 DEF saturating_add
        <4> QED
          BY <4>1, <4>2, <4>3, <2>1 DEF Attempts, w
      <3> QED
        BY <1>4, <3>5 DEF NextIsCovered, Full, SettledBy, KindOf, IsSettle
    <2>8. ASSUME NEW q \in Recorders \ {r}
          PROVE  NextIsCovered(q)'
      <3>1. KindOf(q) # k /\ KindOf(q) \in Kinds
        BY RecorderKinds
      <3>2. \A v \in Attempts : <<KindOf(q), v>> \in Counters /\ <<KindOf(q), v>> # d
        BY <3>1, CountersAre DEF Kinds
      <3>3. \A v \in Attempts : inner'.counts[<<KindOf(q), v>>] = inner.counts[<<KindOf(q), v>>]
        BY <2>4, <2>5, <3>2
      <3> QED
        BY <1>4, <3>3, CountsStand DEF CallsInv
    <2> QED
      BY <1>0, <1>4, <2>4, <2>7, <2>8, CallsTogether
  <1> QED
    BY <1>6, <1>7

\* What the probes read of the pool stays.
ProbesStand ==
    /\ Gauges(inner').heartbeat = Gauges(inner).heartbeat
    /\ Gauges(inner').head = Gauges(inner).head
    /\ Gauges(inner').head_at = Gauges(inner).head_at
    /\ Gauges(inner').processed = Gauges(inner).processed

\* The calls that stand alone count nothing of either kind.
LEMMA OtherRecorded ==
  ASSUME CallsInv, RecordOther
  PROVE  CallsInv' /\ ProbesStand
  <1>0. MaxCount \in Nat /\ UNCHANGED calls /\ inner \in Recorder
    BY MetricsAssumption DEF MetricsAssumption, RecordOther, CallsInv
  <1>1. /\ inner' \in Recorder /\ ProbesStand
        /\ \A k \in Kinds, w \in Attempts : inner'.counts[<<k, w>>] = inner.counts[<<k, w>>]
    <2>1. CASE \E c \in Counters, by \in Nat :
                  c[1] \notin Kinds /\ inner' = Counted(inner, c, by, MaxCount)
      BY <1>0, <2>1, OtherCounter DEF ProbesStand, Gauges
    <2>2. CASE \E p \in Pools, n \in 0..1 :
                  inner' \in {users_tracked(inner, p, n), auctions_open(inner, p, n),
                              seed_accounts_loaded(inner, p, n), scan_succeeded(inner, p, n),
                              reserved_inventory(inner, n)}
      <3>1. PICK p \in Pools, n \in 0..1 :
                  inner' \in {users_tracked(inner, p, n), auctions_open(inner, p, n),
                              seed_accounts_loaded(inner, p, n), scan_succeeded(inner, p, n),
                              reserved_inventory(inner, n)}
        BY <2>2
      <3>2. n \in Gauge
        BY DEF Gauge
      <3>3. CASE inner' = reserved_inventory(inner, n)
        <4>1. inner' \in Recorder /\ inner'.pools = inner.pools /\ inner'.counts = inner.counts
          BY <1>0, <3>2, <3>3, SettersKeep
        <4> QED
          BY <4>1 DEF ProbesStand, Gauges
      <3>4. CASE inner' # reserved_inventory(inner, n)
        <4>1. inner' \in {users_tracked(inner, p, n), auctions_open(inner, p, n),
                          seed_accounts_loaded(inner, p, n), scan_succeeded(inner, p, n)}
          BY <3>1, <3>4
        <4>2. inner' \in Recorder /\ inner'.counts = inner.counts /\ ProbesStand
          BY <1>0, <3>2, <4>1, SettersKeep DEF ProbesStand
        <4> QED
          BY <4>2
      <3> QED
        BY <3>3, <3>4
    <2>3. CASE \E reason \in Skips : inner' = skip(inner, reason)
      <3>1. \A x \in Skips : <<"skips", x>>[1] \notin Kinds
        BY DEF Kinds
      <3> QED
        BY <2>1, <2>3, <3>1, CountersAre DEF skip
    <2>4. CASE \E delivery \in Deliveries : inner' = notification(inner, delivery)
      <3>1. \A x \in Deliveries : <<"notifications", x>>[1] \notin Kinds
        BY DEF Kinds
      <3> QED
        BY <2>1, <2>4, <3>1, CountersAre DEF notification
    <2>5. CASE inner' = unwind_pass(inner)
      <3>1. <<"unwind_passes", "total">>[1] \notin Kinds
        BY DEF Kinds
      <3> QED
        BY <2>1, <2>5, <3>1, CountersAre DEF unwind_pass
    <2>6. CASE \E n \in 1..2 : inner' = events_processed(inner, n)
      <3>1. <<"events", "total">>[1] \notin Kinds
        BY DEF Kinds
      <3> QED
        BY <2>1, <2>6, <3>1, CountersAre DEF events_processed
    <2> QED
      BY <2>2, <2>3, <2>4, <2>5, <2>6 DEF RecordOther
  <1>2. \A r \in Recorders : NextIsCovered(r)'
    BY <1>0, <1>1, CountsStand, RecorderKinds DEF CallsInv
  <1> QED
    BY <1>0, <1>1, <1>2 DEF CallsInv, Orderly, IsSettle, IsAttempt, IsEstimate, KindOf
LEMMA RecordingKeeps ==
  ASSUME HealthInv, MetricsNext, UNCHANGED clocks
  PROVE  HealthInv'
  <1>1. CallsInv' /\ ProbesStand
    <2>0. CallsInv
      BY DEF HealthInv
    <2>1. CASE \E answer \in ActAnswers : NoteAct(answer)
      <3>1. PICK answer \in ActAnswers : NoteAct(answer)
        BY <2>1
      <3> DEFINE s == note_act(answer)
      <3>2. s \in Seq(AnyCall) /\ Orderly(s, "creations") /\ (s # << >> => ~IsSettle(s[1], "creations"))
        BY ActIsOrderly
      <3>3. calls' = [calls EXCEPT !["auctioneer"] = s] /\ UNCHANGED inner
        BY <3>1 DEF NoteAct
      <3> HIDE DEF s
      <3> QED
        BY <2>0, <3>2, <3>3, AnswerNoted, RecorderKinds DEF ProbesStand
    <2>2. CASE \E answer \in ActAnswers, units \in {-MaxUnits - 1, -1, 1, MaxUnits} :
                  NoteRecorded(answer, units)
      <3>1. PICK answer \in ActAnswers, units \in {-MaxUnits - 1, -1, 1, MaxUnits} :
                  NoteRecorded(answer, units)
        BY <2>2
      <3> DEFINE s == note_recorded(answer, units)
      <3>0. units \in Int
        BY MetricsAssumption DEF MetricsAssumption
      <3>2. s \in Seq(AnyCall) /\ Orderly(s, "fills") /\ (s # << >> => ~IsSettle(s[1], "fills"))
        BY <3>0, RecordIsOrderly
      <3>3. calls' = [calls EXCEPT !["filler"] = s] /\ UNCHANGED inner
        BY <3>1 DEF NoteRecorded
      <3> HIDE DEF s
      <3> QED
        BY <2>0, <3>2, <3>3, AnswerNoted, RecorderKinds DEF ProbesStand
    <2>3. CASE \E r \in Recorders : RecordCall(r)
      BY <2>0, <2>3, CallMade DEF ProbesStand, Gauges
    <2>4. CASE RecordOther
      BY <2>0, <2>4, OtherRecorded
    <2> QED
      BY <2>1, <2>2, <2>3, <2>4 DEF MetricsNext
  <1>2. Beat(inner') = Beat(inner)
    BY <1>1 DEF Beat, ProbesStand
  <1>3. PollerInv'
    BY <1>1, <1>2 DEF HealthInv, PollerInv, PollerType, BeatsInTime, HeadAges, OneTellPerStreak,
                      ProbesStand, Live, clocks, Beat, Gauges
  <1> QED
    BY <1>1, <1>3 DEF HealthInv

----------------------------------------------------------------------------
(* The poller's steps.                                                     *)

\* A step of the poller records nothing of a creation or a fill.
LEMMA PollerCounts ==
  ASSUME CallsInv, UNCHANGED calls, inner' \in Recorder, inner'.counts = inner.counts
  PROVE  CallsInv'
  <1>1. \A r \in Recorders : NextIsCovered(r)'
    BY CountsStand DEF CallsInv
  <1> QED
    BY <1>1, CallsTogether DEF CallsInv

LEMMA BeatTaken ==
  ASSUME HealthInv, inner' = Stamped(inner)
  PROVE  /\ inner' \in Recorder /\ inner'.counts = inner.counts
         /\ Beat(inner)' = tick
         /\ Gauges(inner)'.head = Gauges(inner).head
         /\ Gauges(inner)'.head_at = Gauges(inner).head_at
  <1>1. inner \in Recorder /\ tick \in Nat
    BY DEF HealthInv, CallsInv, PollerInv, PollerType
  <1>2. /\ inner' \in Recorder /\ inner'.counts = inner.counts
        /\ Gauges(inner') = [Gauges(inner) EXCEPT !.heartbeat = tick]
        /\ Gauges(inner) \in PoolGauges
    BY <1>1, BeatIs DEF Stamped
  <1>3. /\ Gauges(inner').heartbeat = tick /\ Gauges(inner').head = Gauges(inner).head
        /\ Gauges(inner').head_at = Gauges(inner).head_at
    BY <1>2 DEF PoolGauges
  <1>4. Beat(inner') = tick
    BY <1>1, <1>3, MetricsAssumption DEF MetricsAssumption, Beat
  <1> QED
    BY <1>2, <1>3, <1>4 DEF Beat, Gauges

LEMMA BeatIsTime ==
  ASSUME HealthInv
  PROVE  Beat(inner) \in Nat /\ Gauges(inner) \in PoolGauges /\ ThisPool \in Pools
  BY HealthAssumption DEF HealthAssumption, HealthInv, CallsInv, Recorder, PoolGauges, Gauge,
     Beat, Gauges

LEMMA PassFailed ==
  ASSUME HealthInv, poller.at \in {"reading", "applying"}, PassFails, report_rpc_failing,
         UNCHANGED <<tick, chain, reported>>, CallsInv', Beat(inner)' = Beat(inner), HeadAges'
  PROVE  HealthInv'
  <1>2. PollerType'
    BY HealthAssumption
       DEF HealthAssumption, HealthInv, PollerInv, PollerType, PassFails, report_rpc_failing
  <1>3. BeatsInTime'
    <2>1. poller' = [at |-> "sleeping", due |-> tick + backoff]
      BY DEF PassFails
    <2>2. Live /\ Live'
      BY <2>1 DEF Live
    <2>3. tick <= poller.due + Slack /\ poller.due <= Beat(inner) + 1 /\ ~reported
      BY <2>2 DEF HealthInv, PollerInv, BeatsInTime
    <2> QED
      BY <2>1, <2>2, <2>3, BeatIsTime, HealthAssumption
         DEF HealthAssumption, BeatsInTime, HealthInv, PollerInv, PollerType
  <1>4. OneTellPerStreak'
    BY HealthAssumption DEF HealthAssumption, HealthInv, PollerInv, PollerType, OneTellPerStreak,
       PassFails, report_rpc_failing
  <1> QED
    BY <1>2, <1>3, <1>4 DEF HealthInv, PollerInv

\* A pass that is over, with what it did to the recorder.
LEMMA PassSucceeded ==
  ASSUME HealthInv, poller.at \in {"reading", "applying"}, PassSucceeds,
         UNCHANGED <<tick, chain, reported>>, CallsInv', Beat(inner)' = Beat(inner), HeadAges'
  PROVE  HealthInv'
  <1>2. PollerType'
    BY HealthAssumption
       DEF HealthAssumption, HealthInv, PollerInv, PollerType, PassSucceeds, Interval
  <1>3. BeatsInTime'
    <2>1. poller' = [at |-> "sleeping", due |-> tick + 1]
      BY DEF PassSucceeds, Interval
    <2>2. Live /\ Live'
      BY <2>1 DEF Live
    <2>3. tick <= poller.due + Slack /\ poller.due <= Beat(inner) + 1 /\ ~reported
      BY <2>2 DEF HealthInv, PollerInv, BeatsInTime
    <2> QED
      BY <2>1, <2>2, <2>3, BeatIsTime, HealthAssumption
         DEF HealthAssumption, BeatsInTime, HealthInv, PollerInv, PollerType
  <1>4. OneTellPerStreak'
    BY HealthAssumption DEF HealthAssumption, OneTellPerStreak, PassSucceeds
  <1> QED
    BY <1>2, <1>3, <1>4 DEF HealthInv, PollerInv

LEMMA HeadWasRead ==
  ASSUME HealthInv, NEW s \in (chain - ReplicaLag)..chain, ReadHead(s), UNCHANGED calls
  PROVE  HealthInv'
  <1>0. /\ s \in Nat /\ chain - s <= ReplicaLag /\ tick \in Nat /\ chain \in Nat
        /\ inner \in Recorder /\ poller.at = "reading" /\ UNCHANGED <<tick, chain, reported>>
        /\ ReplicaLag \in Nat
    <2>1. ReplicaLag \in Nat
      BY HealthAssumption DEF HealthAssumption
    <2>2. tick \in Nat /\ chain \in Nat /\ chain > ReplicaLag
      BY DEF HealthInv, PollerInv, PollerType
    <2>3. s \in Nat /\ chain - s <= ReplicaLag
      BY <2>1, <2>2
    <2>4. inner \in Recorder
      BY DEF HealthInv, CallsInv
    <2>5. poller.at = "reading" /\ UNCHANGED <<tick, chain, reported>>
      BY DEF ReadHead
    <2> QED
      BY <2>1, <2>2, <2>3, <2>4, <2>5
  <1>1. /\ inner' \in Recorder /\ inner'.counts = inner.counts
        /\ Gauges(inner').heartbeat = Gauges(inner).heartbeat
        /\ Gauges(inner').head = s /\ Gauges(inner').head_at = tick
    <2>1. inner' = ledger_head_at(inner, ThisPool, s, tick)
      BY DEF ReadHead
    <2>2. s \in Nat /\ tick \in Nat /\ inner \in Recorder
      BY <1>0
    <2> DEFINE x == ledger_head_at(inner, ThisPool, s, tick)
    <2>3. /\ x \in Recorder /\ x.counts = inner.counts
          /\ Gauges(x).heartbeat = Gauges(inner).heartbeat
          /\ Gauges(x).head = s /\ Gauges(x).head_at = tick
      BY <2>2, HeadIs
    <2> HIDE DEF x
    <2> QED
      BY <2>1, <2>3 DEF x
  <1>3. Beat(inner)' = Beat(inner)
    BY <1>1 DEF Beat, Gauges
  <1>4. HeadAges'
    BY <1>0, <1>1 DEF HeadAges, Gauges
  <1>5. CallsInv'
    BY <1>1, PollerCounts DEF HealthInv
  <1>6. CASE PassSucceeds
    BY <1>0, <1>3, <1>4, <1>5, <1>6, PassSucceeded
  <1>7. CASE poller' = [poller EXCEPT !.at = "applying"] /\ UNCHANGED <<backoff, failures, told>>
    <2>1. poller'.at = "applying" /\ poller'.due = poller.due /\ PollerType'
      BY <1>0, <1>7 DEF HealthInv, PollerInv, PollerType
    <2>2. BeatsInTime' /\ OneTellPerStreak'
      BY <2>1, <1>0, <1>3, <1>7
         DEF HealthInv, PollerInv, BeatsInTime, OneTellPerStreak, Live
    <2> QED
      BY <2>1, <2>2, <1>4, <1>5 DEF HealthInv, PollerInv
  <1> QED
    BY <1>6, <1>7 DEF ReadHead

LEMMA PassApplied ==
  ASSUME HealthInv, NEW how, ApplyEnds(how), UNCHANGED calls
  PROVE  HealthInv'
  <1>0. poller.at = "applying" /\ inner \in Recorder /\ UNCHANGED <<tick, chain, reported>>
    BY DEF HealthInv, CallsInv, ApplyEnds
  <1>4. PassSucceeds \/ (PassFails /\ report_rpc_failing)
    BY DEF ApplyEnds
  <1>1. CASE inner' = ledger_processed(inner, ThisPool, inner.pools[ThisPool].head)
    <2>0. Gauges(inner).head \in Gauge
      BY BeatIsTime DEF PoolGauges
    <2>1. /\ inner' \in Recorder /\ inner'.counts = inner.counts
          /\ Gauges(inner') = [Gauges(inner) EXCEPT !.processed = Gauges(inner).head]
          /\ Gauges(inner) \in PoolGauges
      BY <1>0, <1>1, <2>0, ProcessedIs DEF Gauges
    <2>2. /\ Gauges(inner').heartbeat = Gauges(inner).heartbeat
          /\ Gauges(inner').head = Gauges(inner).head
          /\ Gauges(inner').head_at = Gauges(inner).head_at
      BY <2>1 DEF PoolGauges
    <2>3. Beat(inner)' = Beat(inner)
      BY <2>2 DEF Beat, Gauges
    <2>4. HeadAges'
      BY <1>0, <2>2 DEF HealthInv, PollerInv, HeadAges, Gauges
    <2>5. CallsInv'
      BY <2>1, PollerCounts DEF HealthInv
    <2> QED
      BY <1>0, <1>4, <2>3, <2>4, <2>5, PassSucceeded, PassFailed
  <1>2. CASE UNCHANGED inner
    <2>1. Beat(inner)' = Beat(inner) /\ HeadAges'
      BY <1>0, <1>2 DEF Beat, Gauges, HealthInv, PollerInv, HeadAges
    <2>2. CallsInv'
      BY <1>0, <1>2, PollerCounts DEF HealthInv
    <2> QED
      BY <1>0, <1>4, <2>1, <2>2, PassSucceeded, PassFailed
  <1> QED
    BY <1>1, <1>2 DEF ApplyEnds

\* A heartbeat, from within a long phase or at the top of a pass.
LEMMA Beats ==
  ASSUME HealthInv, heartbeat_while \/ PassBegins, UNCHANGED calls
  PROVE  HealthInv'
  <1>0. inner' = Stamped(inner) /\ UNCHANGED <<tick, chain, backoff, failures, told, reported>>
    BY DEF heartbeat_while, PassBegins
  <1>1. /\ inner' \in Recorder /\ inner'.counts = inner.counts
        /\ Beat(inner)' = tick
        /\ Gauges(inner)'.head = Gauges(inner).head
        /\ Gauges(inner)'.head_at = Gauges(inner).head_at
    BY <1>0, BeatTaken
  <1>2. CallsInv'
    BY <1>1, PollerCounts DEF HealthInv
  <1>3. HeadAges' /\ OneTellPerStreak'
    BY <1>0, <1>1 DEF HealthInv, PollerInv, HeadAges, OneTellPerStreak
  <1>4. PollerType' /\ BeatsInTime'
    <2>1. CASE heartbeat_while
      <3>1. /\ poller' = [poller EXCEPT !.due = @ + 1] /\ tick >= poller.due /\ Live
            /\ poller.at \in {"seeding", "reading", "applying"}
        BY <2>1 DEF heartbeat_while, Interval, Live
      <3> QED
        BY <3>1, <1>0, <1>1, HealthAssumption
           DEF HealthAssumption, HealthInv, PollerInv, PollerType, BeatsInTime, Live
    <2>2. CASE PassBegins
      <3>1. poller' = [at |-> "reading", due |-> tick] /\ Live
        BY <2>2 DEF PassBegins, Live
      <3> QED
        BY <3>1, <1>0, <1>1, HealthAssumption
           DEF HealthAssumption, HealthInv, PollerInv, PollerType, BeatsInTime, Live
    <2> QED
      BY <2>1, <2>2
  <1> QED
    BY <1>2, <1>3, <1>4 DEF HealthInv, PollerInv

\* The steps that touch no gauge.
LEMMA NothingRecorded ==
  ASSUME HealthInv, SeedEnds \/ PollerDies \/ Watchdog \/ TimePassesBy, UNCHANGED calls
  PROVE  HealthInv'
  <1>0. UNCHANGED <<inner, failures, told, backoff>>
    BY DEF SeedEnds, PollerDies, Watchdog, TimePassesBy
  <1>1. CallsInv'
    BY <1>0, PollerCounts DEF HealthInv, CallsInv
  <1>2. Beat(inner)' = Beat(inner) /\ OneTellPerStreak'
    BY <1>0 DEF Beat, Gauges, HealthInv, PollerInv, OneTellPerStreak
  <1>3. HeadAges'
    <2>1. CASE TimePassesBy
      <3>1. tick' = tick + 1 /\ (chain' = chain \/ chain' = chain + 1)
        BY <2>1 DEF TimePassesBy
      <3> QED
        BY <1>0, <3>1, HealthAssumption
           DEF HealthAssumption, HealthInv, PollerInv, PollerType, HeadAges, Gauges
    <2>2. CASE ~TimePassesBy
      BY <1>0, <2>2 DEF SeedEnds, PollerDies, Watchdog, HealthInv, PollerInv, HeadAges, Gauges
    <2> QED
      BY <2>1, <2>2
  <1>4. PollerType' /\ BeatsInTime'
    <2>1. CASE SeedEnds
      <3>1. poller' = [at |-> "top", due |-> tick] /\ Live /\ poller.at = "seeding"
            /\ UNCHANGED <<tick, chain, reported>>
        BY <2>1 DEF SeedEnds, Live
      <3> QED
        BY <3>1, <1>0, <1>2, BeatIsTime, HealthAssumption
           DEF HealthAssumption, HealthInv, PollerInv, PollerType, BeatsInTime, Live
    <2>2. CASE PollerDies
      BY <2>2, <1>0 DEF PollerDies, HealthInv, PollerInv, PollerType, BeatsInTime, Live
    <2>3. CASE TimePassesBy
      <3>1. /\ tick' = tick + 1 /\ (chain' = chain \/ chain' = chain + 1)
            /\ Live => tick < poller.due + Slack
            /\ UNCHANGED <<poller, reported>>
        BY <2>3 DEF TimePassesBy
      <3> QED
        BY <3>1, <1>0, <1>2, HealthAssumption
           DEF HealthAssumption, HealthInv, PollerInv, PollerType, BeatsInTime, Live
    <2>4. CASE Watchdog
      <3> DEFINE last == Gauges(inner).heartbeat
      <3>1. /\ reported' = (last # Missing /\ tick - last > liveness_deadline)
            /\ UNCHANGED <<tick, chain, poller>>
        BY <2>4 DEF Watchdog, pool_status, Gauges
      <3>2. liveness_deadline = LIVENESS_INTERVALS + MaxBackoff
        BY HealthAssumption DEF HealthAssumption, liveness_deadline, Interval
      <3>3. Live /\ last # Missing => tick - last <= liveness_deadline
        <4> SUFFICES ASSUME Live, last # Missing PROVE tick - last <= liveness_deadline
          OBVIOUS
        <4>1. last = Beat(inner) /\ last \in Nat
          BY BeatIsTime DEF Beat
        <4> HIDE DEF last
        <4>2. tick <= last + 1 + 2 * Slack + MaxBackoff
          BY <4>1, HealthAssumption
             DEF HealthAssumption, HealthInv, PollerInv, PollerType, BeatsInTime, Live
        <4> QED
          BY <3>2, <4>1, <4>2, HealthAssumption DEF HealthAssumption, HealthInv, PollerInv, PollerType
      <3>4. reported' \in BOOLEAN /\ (Live => ~reported')
        <4> HIDE DEF last
        <4>1. last # Missing => last \in Nat
          BY BeatIsTime DEF last, PoolGauges, Gauge
        <4>2. liveness_deadline \in Nat /\ tick \in Nat
          BY <3>2, HealthAssumption DEF HealthAssumption, HealthInv, PollerInv, PollerType
        <4>3. reported' \in BOOLEAN
          BY <3>1, Zenon
        <4>4. Live /\ last # Missing => ~(tick - last > liveness_deadline)
          BY <3>3, <4>1, <4>2
        <4>5. Live => ~reported'
          BY <3>1, <4>4, Zenon
        <4> QED
          BY <4>3, <4>5
      <3> QED
        BY <3>1, <3>4, <1>0, <1>2 DEF HealthInv, PollerInv, PollerType, BeatsInTime, Live
    <2> QED
      BY <2>1, <2>2, <2>3, <2>4
  <1> QED
    BY <1>1, <1>2, <1>3, <1>4 DEF HealthInv, PollerInv

LEMMA HealthStarts == HealthInit /\ MetricsInit => HealthInv
  <1> SUFFICES ASSUME HealthInit, MetricsInit PROVE HealthInv
    OBVIOUS
  <1>1. CallsInv
    <2>1. inner \in Recorder /\ calls = [r \in Recorders |-> << >>]
          /\ \A c \in Counters : inner.counts[c] = 0
      BY NewIsRecorder DEF MetricsInit
    <2>2. ASSUME NEW r \in Recorders
          PROVE  Orderly(calls[r], KindOf(r)) /\ NextIsCovered(r) /\ calls[r] \in Seq(AnyCall)
      <3>1. calls[r] = << >>
        BY <2>1
      <3>2. \A w \in Attempts : inner.counts[<<KindOf(r), w>>] = 0
        BY <2>1, CountersAre, RecorderKinds DEF Kinds
      <3>3. SettledBy(KindOf(r)) = 0 /\ inner.counts[<<KindOf(r), "attempted">>] = 0
        BY <3>2 DEF SettledBy, Attempts
      <3> QED
        BY <3>1, <3>3, EmptyIsOrderly DEF NextIsCovered
    <2> QED
      BY <2>1, <2>2 DEF CallsInv
  <1>2. Gauges(inner).heartbeat = Missing /\ Gauges(inner).head = Missing
    BY NewIsRecorder DEF MetricsInit
  <1>3. PollerType /\ OneTellPerStreak
    <2>1. tick \in Nat /\ chain \in Nat /\ chain > ReplicaLag /\ backoff \in 1..MaxBackoff
      BY HealthAssumption DEF HealthAssumption, HealthInit, Interval
    <2>2. failures = 0 /\ told = 0 /\ reported \in BOOLEAN
      BY DEF HealthInit
    <2>3. poller \in [at : {"seeding", "top", "reading", "applying", "sleeping", "dead"}, due : Nat]
      BY DEF HealthInit
    <2> QED
      BY <2>1, <2>2, <2>3, HealthAssumption DEF HealthAssumption, PollerType, OneTellPerStreak
  <1>4. BeatsInTime
    BY <1>2, HealthAssumption DEF HealthAssumption, HealthInit, BeatsInTime, Beat
  <1>5. HeadAges
    BY <1>2 DEF HeadAges
  <1> QED
    BY <1>1, <1>3, <1>4, <1>5 DEF HealthInv, PollerInv

LEMMA HealthTold ==
  ASSUME HealthInv
  PROVE  TellsTruth
  <1>0. liveness_deadline = LIVENESS_INTERVALS + MaxBackoff
    BY HealthAssumption DEF HealthAssumption, liveness_deadline, Interval
  <1>1. LiveIsNotStalled
    <2> SUFFICES ASSUME Live PROVE liveness /\ ~reported
      BY DEF LiveIsNotStalled
    <2>1. tick <= Beat(inner) + 1 + 2 * Slack + MaxBackoff /\ ~reported
      BY BeatIsTime, HealthAssumption
         DEF HealthAssumption, HealthInv, PollerInv, PollerType, BeatsInTime, Live
    <2>2. tick - Beat(inner) <= liveness_deadline
      BY <1>0, <2>1, BeatIsTime, HealthAssumption
         DEF HealthAssumption, HealthInv, PollerInv, PollerType
    <2> QED
      BY <2>1, <2>2 DEF liveness, pool_status, Beat, Gauges
  <1>2. ReadyIsNearHead
    <2> SUFFICES ASSUME readiness(TRUE)
                 PROVE  chain - Gauges(inner).processed
                            <= max_lag_ledgers + liveness_deadline + ReplicaLag
      BY DEF ReadyIsNearHead, Gauges
    <2> DEFINE g == Gauges(inner)
    <2>1. /\ g.processed # Missing /\ g.head # Missing
          /\ tick - g.head_at <= liveness_deadline
          /\ g.head - g.processed <= max_lag_ledgers
      BY DEF readiness, pool_status, Gauges
    <2>2. g.processed \in Nat
      BY <2>1, BeatIsTime DEF PoolGauges, Gauge
    <2>3. /\ g.head \in Nat /\ g.head_at \in Nat
          /\ chain - g.head <= (tick - g.head_at) + ReplicaLag
      BY <2>1 DEF HealthInv, PollerInv, HeadAges
    <2> HIDE DEF g
    <2>4. chain - g.processed <= max_lag_ledgers + liveness_deadline + ReplicaLag
      BY <1>0, <2>1, <2>2, <2>3, HealthAssumption
         DEF HealthAssumption, HealthInv, PollerInv, PollerType
    <2> QED
      BY <2>4 DEF g
  <1>3. OneTellPerStreak
    BY DEF HealthInv, PollerInv
  <1>4. SettledWereAttempted
    <2> SUFFICES ASSUME NEW k \in Kinds
                 PROVE  \/ inner.counts[<<k, "attempted">>] = MaxCount
                        \/ inner.counts[<<k, "succeeded">>] + inner.counts[<<k, "failed">>]
                              <= inner.counts[<<k, "attempted">>]
      BY DEF SettledWereAttempted, Kinds
    <2>1. PICK r \in Recorders : KindOf(r) = k
      BY RecorderKinds DEF Kinds
    <2>2. NextIsCovered(r)
      BY DEF HealthInv, CallsInv
    <2> QED
      BY <2>1, <2>2 DEF NextIsCovered, Full, SettledBy
  <1> QED
    BY <1>1, <1>2, <1>3, <1>4 DEF TellsTruth

LEMMA HealthStays ==
  ASSUME HealthInv,
         \/ HealthNext /\ UNCHANGED <<calls, notes>>
         \/ MetricsNext /\ UNCHANGED clocks
         \/ UNCHANGED <<clocks, metricsVars>>
  PROVE  HealthInv'
  <1>1. CASE MetricsNext /\ UNCHANGED clocks
    BY <1>1, RecordingKeeps
  <1>2. CASE UNCHANGED <<clocks, metricsVars>>
    <2>1. UNCHANGED <<tick, chain, poller, backoff, failures, told, reported, inner, calls>>
      BY <1>2 DEF clocks, metricsVars
    <2>2. CallsInv'
      BY <2>1, PollerCounts DEF HealthInv, CallsInv
    <2> QED
      BY <2>1, <2>2 DEF HealthInv, PollerInv, PollerType, BeatsInTime, HeadAges, OneTellPerStreak,
                        Live, Beat, Gauges
  <1>3. CASE HealthNext /\ UNCHANGED <<calls, notes>>
    <2>0. UNCHANGED calls
      BY <1>3
    <2>1. CASE heartbeat_while \/ PassBegins
      BY <2>0, <2>1, Beats
    <2>2. CASE SeedEnds \/ PollerDies \/ Watchdog \/ TimePassesBy
      BY <2>0, <2>2, NothingRecorded
    <2>3. CASE \E sequence \in (chain - ReplicaLag)..chain : ReadHead(sequence)
      BY <2>0, <2>3, HeadWasRead
    <2>4. CASE ReadFails
      <3>1. /\ poller.at = "reading" /\ PassFails /\ report_rpc_failing
            /\ UNCHANGED <<tick, chain, reported, inner>>
        BY <2>4 DEF ReadFails
      <3>2. CallsInv'
        BY <2>0, <3>1, PollerCounts DEF HealthInv, CallsInv
      <3>3. Beat(inner)' = Beat(inner) /\ HeadAges'
        BY <3>1 DEF Beat, Gauges, HealthInv, PollerInv, HeadAges
      <3> QED
        BY <3>1, <3>2, <3>3, PassFailed
    <2>5. CASE \E how \in {"applied", "unsaved", "undrained", "failed"} : ApplyEnds(how)
      BY <2>0, <2>5, PassApplied
    <2> QED
      BY <1>3, <2>1, <2>2, <2>3, <2>4, <2>5 DEF HealthNext
  <1> QED
    BY <1>1, <1>2, <1>3

\* What the run says of itself is so, however its tasks interleave, whatever
\* fails and at whatever limit of the counters: a live poller is not called
\* stalled, one that lost the chain is not called ready, a streak of failures
\* is told once, and nothing is shown settled that was not attempted
\* (http.rs, liveness and readiness; ledger.rs, run; metrics.rs, render).
THEOREM RunTellsTruth == HealthSpec => []TellsTruth
  <1>1. HealthInv => TellsTruth
    BY HealthTold
  <1>2. HealthInv /\ [\/ HealthNext /\ UNCHANGED <<calls, notes>>
                      \/ MetricsNext /\ UNCHANGED clocks]_<<clocks, metricsVars>> => HealthInv'
    BY HealthStays
  <1> QED
    BY <1>1, <1>2, HealthStarts, PTL DEF HealthSpec

----------------------------------------------------------------------------
(* The start.                                                              *)

LEMMA LeastOf ==
  ASSUME NEW T \in SUBSET Nat, T # {}
  PROVE  \E x \in T : \A y \in T : x <= y
  <1> DEFINE R == OpToRel(<, Nat)
  <1>1. IsWellFoundedOn(R, Nat)
    BY NatLessThanWellFounded
  <1>2. \A x, y \in Nat : y < x => <<y, x>> \in R
    BY DEF OpToRel
  <1> HIDE DEF R
  <1>3. PICK x \in T : \A y \in T : ~(<<y, x>> \in R)
    BY <1>1, WFMin
  <1>4. ASSUME NEW y \in T PROVE x <= y
    <2>1. x \in Nat /\ y \in Nat
      OBVIOUS
    <2>2. ~(y < x)
      BY <1>2, <1>3, <2>1, Zenon
    <2> QED
      BY <2>1, <2>2
  <1> QED
    BY <1>4

\* A check that fails says why, and one that is passed fails nowhere.
SaysAt(c, k) == c[k].fails => c[k].why # Passed
Says(c) == DOMAIN c \subseteq Nat /\ \A k \in DOMAIN c : SaysAt(c, k)
Passes(c) == \A k \in DOMAIN c : ~c[k].fails

LEMMA NoneFails ==
  ASSUME NEW c, Says(c), FirstFailing(c) = Passed
  PROVE  Passes(c)
  <1> DEFINE failing == {k \in DOMAIN c : c[k].fails}
             first == CHOOSE k \in failing : \A j \in failing : k <= j
  <1>1. CASE failing = {}
    BY <1>1 DEF Passes
  <1>2. CASE failing # {}
    <2>1. failing \in SUBSET Nat
      BY DEF Says
    <2>2. first \in failing
      <3> HIDE DEF failing
      <3> QED
        BY <1>2, <2>1, LeastOf
    <2>3. FirstFailing(c) = c[first].why
      BY <1>2 DEF FirstFailing
    <2>4. c[first].why # Passed
      <3> HIDE DEF first
      <3> QED
        BY <2>2 DEF Says, SaysAt
    <2> QED
      BY <2>3, <2>4
  <1> QED
    BY <1>1, <1>2

\* Two sequences of checks, one after the other.
LEMMA OneAfterOther ==
  ASSUME NEW S, NEW a \in Seq(S), NEW b \in Seq(S), Says(a), Says(b)
  PROVE  Says(a \o b) /\ (Passes(a \o b) => Passes(a) /\ Passes(b))
  <1> DEFINE w == a \o b
  <1>1. /\ w \in Seq(S) /\ Len(w) = Len(a) + Len(b)
        /\ \A i \in 1..Len(a) + Len(b) : w[i] = IF i <= Len(a) THEN a[i] ELSE b[i - Len(a)]
    BY ConcatProperties
  <1>2. /\ DOMAIN a = 1..Len(a) /\ DOMAIN b = 1..Len(b) /\ DOMAIN w = 1..(Len(a) + Len(b))
        /\ Len(a) \in Nat /\ Len(b) \in Nat
    BY <1>1
  <1> HIDE DEF w
  <1>3. Says(w)
    <2>1. ASSUME NEW i \in DOMAIN w PROVE SaysAt(w, i)
      <3>1. CASE i <= Len(a)
        <4>1. i \in DOMAIN a /\ w[i] = a[i]
          BY <3>1, <1>1, <1>2
        <4> QED
          BY <4>1 DEF Says, SaysAt
      <3>2. CASE ~(i <= Len(a))
        <4>1. i - Len(a) \in DOMAIN b /\ w[i] = b[i - Len(a)]
          BY <3>2, <1>1, <1>2
        <4> QED
          BY <4>1 DEF Says, SaysAt
      <3> QED
        BY <3>1, <3>2
    <2>2. DOMAIN w \subseteq Nat
      BY <1>2
    <2> QED
      BY <2>1, <2>2 DEF Says
  <1>4. ASSUME Passes(w) PROVE Passes(a)
    <2> SUFFICES ASSUME NEW i \in DOMAIN a PROVE ~a[i].fails
      BY DEF Passes
    <2>1. i \in DOMAIN w /\ w[i] = a[i]
      BY <1>1, <1>2
    <2> QED
      BY <2>1, <1>4 DEF Passes
  <1>5. ASSUME Passes(w) PROVE Passes(b)
    <2> SUFFICES ASSUME NEW i \in DOMAIN b PROVE ~b[i].fails
      BY DEF Passes
    <2>1. i + Len(a) \in DOMAIN w /\ ~(i + Len(a) <= Len(a)) /\ i + Len(a) - Len(a) = i
      BY <1>2
    <2>2. w[i + Len(a)] = b[i]
      BY <2>1, <1>1, <1>2
    <2> QED
      BY <2>1, <2>2, <1>5 DEF Passes
  <1> QED
    BY <1>3, <1>4, <1>5 DEF w

\* A sequence of so many checks says why when each of them does.
LEMMA FourSay ==
  ASSUME NEW c, DOMAIN c = 1..4, SaysAt(c, 1), SaysAt(c, 2), SaysAt(c, 3), SaysAt(c, 4)
  PROVE  Says(c)
  <1>1. \A k \in 1..4 : k = 1 \/ k = 2 \/ k = 3 \/ k = 4
    OBVIOUS
  <1>2. \A k \in DOMAIN c : SaysAt(c, k)
    BY <1>1
  <1>3. DOMAIN c \subseteq Nat
    OBVIOUS
  <1> QED
    BY <1>2, <1>3 DEF Says

LEMMA SixSay ==
  ASSUME NEW c, DOMAIN c = 1..6, SaysAt(c, 1), SaysAt(c, 2), SaysAt(c, 3), SaysAt(c, 4),
         SaysAt(c, 5), SaysAt(c, 6)
  PROVE  Says(c)
  <1>1. \A k \in 1..6 : k = 1 \/ k = 2 \/ k = 3 \/ k = 4 \/ k = 5 \/ k = 6
    OBVIOUS
  <1>2. \A k \in DOMAIN c : SaysAt(c, k)
    BY <1>1
  <1>3. DOMAIN c \subseteq Nat
    OBVIOUS
  <1> QED
    BY <1>2, <1>3 DEF Says

LEMMA FiveSay ==
  ASSUME NEW c, DOMAIN c = 1..5, SaysAt(c, 1), SaysAt(c, 2), SaysAt(c, 3), SaysAt(c, 4),
         SaysAt(c, 5)
  PROVE  Says(c)
  <1>1. \A k \in 1..5 : k = 1 \/ k = 2 \/ k = 3 \/ k = 4 \/ k = 5
    OBVIOUS
  <1>2. \A k \in DOMAIN c : SaysAt(c, k)
    BY <1>1
  <1>3. DOMAIN c \subseteq Nat
    OBVIOUS
  <1> QED
    BY <1>2, <1>3 DEF Says

LEMMA OneSays ==
  ASSUME NEW c, DOMAIN c = 1..1, c[1].why # Passed
  PROVE  Says(c)
  <1>1. \A k \in 1..1 : k = 1
    OBVIOUS
  <1>2. \A k \in DOMAIN c : SaysAt(c, k)
    BY <1>1 DEF SaysAt
  <1>3. DOMAIN c \subseteq Nat
    OBVIOUS
  <1> QED
    BY <1>2, <1>3 DEF Says

LEMMA ParsedIs ==
  ASSUME NEW g, parse(g) = Passed
  PROVE  KnobsInRange(g.knobs) /\ health_multiplier(g.multiplier)
  <1> DEFINE c == <<Check(~strict_bool(g.dry_run), "DRY_RUN"),
                    Check(g.network = "both", "NETWORK"),
                    Check(g.pools_from = "both", "POOLS_FILE"),
                    Check(~KnobsInRange(g.knobs), "range"),
                    Check(~target_health_factor(g.target_hf), "TARGET_HF"),
                    Check(~health_multiplier(g.multiplier), "HF_SAFETY_MULTIPLIER")>>
  <1>1. /\ DOMAIN c = 1..6 /\ SaysAt(c, 1) /\ SaysAt(c, 2) /\ SaysAt(c, 3) /\ SaysAt(c, 4)
        /\ SaysAt(c, 5) /\ SaysAt(c, 6)
    BY DEF SaysAt, Passed, Check
  <1>2. /\ c[4].fails <=> ~KnobsInRange(g.knobs)
        /\ c[6].fails <=> ~health_multiplier(g.multiplier)
    BY DEF Check
  <1>3. FirstFailing(c) = Passed
    BY DEF parse
  <1> HIDE DEF c
  <1>4. Passes(c)
    BY <1>1, <1>3, SixSay, NoneFails
  <1> QED
    BY <1>1, <1>2, <1>4 DEF Passes

LEMMA KeysAre ==
  ASSUME NEW g, signing_keys(g) = Passed
  PROVE  /\ g.auctioneer_key # NoKey => g.auctioneer_key # g.filler_key
         /\ Armed(g) => g.filler_key # NoKey
  <1> DEFINE c == <<Check(g.auctioneer_key = Malformed, "AUCTIONEER_SECRET_KEY"),
                    Check(g.filler_key = Malformed, "FILLER_SECRET_KEY"),
                    Check(g.auctioneer_key # NoKey /\ g.auctioneer_key = g.filler_key, "same key"),
                    Check(Armed(g) /\ g.filler_key = NoKey, "DRY_RUN")>>
  <1>1. DOMAIN c = 1..4 /\ SaysAt(c, 1) /\ SaysAt(c, 2) /\ SaysAt(c, 3) /\ SaysAt(c, 4)
    <2>0. DOMAIN c = 1..4
      BY DEF Check
    <2>1. SaysAt(c, 1)
      BY DEF SaysAt, Passed, Check
    <2>2. SaysAt(c, 2)
      BY DEF SaysAt, Passed, Check
    <2>3. SaysAt(c, 3)
      BY DEF SaysAt, Passed, Check
    <2>4. SaysAt(c, 4)
      BY DEF SaysAt, Passed, Check
    <2> QED
      BY <2>0, <2>1, <2>2, <2>3, <2>4
  <1>2. /\ c[3].fails <=> g.auctioneer_key # NoKey /\ g.auctioneer_key = g.filler_key
        /\ c[4].fails <=> Armed(g) /\ g.filler_key = NoKey
    BY DEF Check
  <1>3. FirstFailing(c) = Passed
    BY DEF signing_keys
  <1> HIDE DEF c
  <1>4. Passes(c)
    BY <1>1, <1>3, FourSay, NoneFails
  <1> QED
    BY <1>1, <1>2, <1>4 DEF Passes

LEMMA FourOf ==
  ASSUME NEW w, NEW x, NEW y, NEW z
  PROVE  DOMAIN <<w, x, y, z>> = 1..4
  OBVIOUS

LEMMA OneOf ==
  ASSUME NEW S, NEW x \in S
  PROVE  <<x>> \in Seq(S)
  OBVIOUS

LEMMA PoolIs ==
  ASSUME NEW pools, NEW k, FirstFailing(PoolChecks(pools, k)) = Passed
  PROVE  /\ ~\E j \in 1..(k - 1) : pools[j].address = pools[k].address
         /\ ~(pools[k].min_hf <= ContractMin)
  <1> DEFINE c == PoolChecks(pools, k)
  <1>1. DOMAIN c = 1..4 /\ SaysAt(c, 1) /\ SaysAt(c, 2) /\ SaysAt(c, 3) /\ SaysAt(c, 4)
    <2>0. DOMAIN c = 1..4
      <3>1. \E w, x, y, z : c = <<w, x, y, z>>
        BY Zenon DEF PoolChecks
      <3> HIDE DEF c
      <3> QED
        BY <3>1, FourOf
    <2>1. SaysAt(c, 1)
      BY DEF SaysAt, Passed, Check, PoolChecks
    <2>2. SaysAt(c, 2)
      BY DEF SaysAt, Passed, Check, PoolChecks
    <2>3. SaysAt(c, 3)
      BY DEF SaysAt, Passed, Check, PoolChecks
    <2>4. SaysAt(c, 4)
      BY DEF SaysAt, Passed, Check, PoolChecks
    <2> QED
      BY <2>0, <2>1, <2>2, <2>3, <2>4
  <1>2. /\ c[1].fails <=> \E j \in 1..(k - 1) : pools[j].address = pools[k].address
        /\ c[3].fails <=> pools[k].min_hf <= ContractMin
    BY DEF Check, PoolChecks
  <1> HIDE DEF c
  <1>3. Passes(c)
    BY <1>1, FourSay, NoneFails DEF c
  <1> QED
    BY <1>1, <1>2, <1>3 DEF Passes

LEMMA PoolsAre ==
  ASSUME NEW pools, Len(pools) \in Nat, DOMAIN pools = 1..Len(pools), parse_pools(pools) = Passed
  PROVE  \A k \in DOMAIN pools : FirstFailing(PoolChecks(pools, k)) = Passed
  <1> DEFINE first(k) == FirstFailing(PoolChecks(pools, k))
             a == <<Check(pools = << >>, "no pool")>>
             b == [k \in DOMAIN pools |-> Check(first(k) # Passed, first(k))]
             S == {Check(pools = << >>, "no pool")} \cup {b[k] : k \in DOMAIN pools}
  <1>1. FirstFailing(a \o b) = Passed
    BY DEF parse_pools
  <1>2. DOMAIN a = 1..1 /\ a[1].why # Passed
    <2>1. DOMAIN a = 1..1
      OBVIOUS
    <2>2. a[1].why # Passed
      BY DEF Passed, Check
    <2> QED
      BY <2>1, <2>2
  <1>3. a \in Seq(S)
    <2>1. Check(pools = << >>, "no pool") \in S
      OBVIOUS
    <2> HIDE DEF S
    <2> QED
      BY <2>1, OneOf, Zenon
  <1> HIDE DEF first
  <1>4. b \in [1..Len(pools) -> S]
    <2>1. \A k \in 1..Len(pools) : b[k] \in S
      OBVIOUS
    <2> HIDE DEF S
    <2> QED
      BY <2>1
  <1>5. DOMAIN b = DOMAIN pools /\ \A k \in DOMAIN pools :
            (b[k].fails <=> first(k) # Passed) /\ b[k].why = first(k)
    BY DEF Check
  <1> HIDE DEF a, b, S
  <1>6. b \in Seq(S)
    BY <1>4
  <1>7. Says(b)
    <2>1. \A k \in DOMAIN b : SaysAt(b, k)
      BY <1>5 DEF SaysAt
    <2> QED
      BY <2>1, <1>5 DEF Says
  <1>8. Passes(b)
    <2>1. Says(a)
      BY <1>2, OneSays
    <2> QED
      BY <2>1, <1>1, <1>3, <1>6, <1>7, OneAfterOther, NoneFails
  <1> QED
    BY <1>5, <1>8 DEF Passes, first

LEMMA ServiceIs ==
  ASSUME NEW g, service_with_secrets(g) = Passed
  PROVE  parse_pools(g.pools) = Passed /\ ~thresholds(g)
  <1> DEFINE a == <<Pair(g.chat_id, g.bot_token, "TELEGRAM")>>
             b == chain_with_secret(g)
             c == <<Check(~g.database_url, "DATABASE_URL"),
                    Check(g.pools_from \in {"none", "unreadable"}, "POOLS_FILE"),
                    Check(parse_pools(g.pools) # Passed, parse_pools(g.pools)),
                    Check(thresholds(g), "LIQ_HF_THRESHOLD"),
                    Check(g.fee_reserve \notin 0..StroopsMax, "XLM_FEE_RESERVE")>>
             S == {a[1], b[1], b[2], b[3], b[4], c[1], c[2], c[3], c[4], c[5]}
  <1>1. FirstFailing(a \o b \o c) = Passed
    BY DEF service_with_secrets
  <1>2. DOMAIN a = 1..1 /\ a[1].why # Passed
    BY DEF Passed, Check, Pair
  <1>3. /\ DOMAIN b = 1..4
        /\ SaysAt(b, 1) /\ SaysAt(b, 2) /\ SaysAt(b, 3) /\ SaysAt(b, 4)
    <2>0. DOMAIN b = 1..4
      BY DEF Check, Pair, chain_with_secret
    <2>1. SaysAt(b, 1)
      BY DEF SaysAt, Passed, Check, Pair, chain_with_secret
    <2>2. SaysAt(b, 2)
      BY DEF SaysAt, Passed, Check, Pair, chain_with_secret
    <2>3. SaysAt(b, 3)
      BY DEF SaysAt, Passed, Check, Pair, chain_with_secret
    <2>4. SaysAt(b, 4)
      BY DEF SaysAt, Passed, Check, Pair, chain_with_secret
    <2> QED
      BY <2>0, <2>1, <2>2, <2>3, <2>4
  <1>4. /\ DOMAIN c = 1..5
        /\ SaysAt(c, 1) /\ SaysAt(c, 2) /\ SaysAt(c, 3) /\ SaysAt(c, 4) /\ SaysAt(c, 5)
    <2>0. DOMAIN c = 1..5
      BY DEF Check
    <2>1. SaysAt(c, 1)
      BY DEF SaysAt, Passed, Check
    <2>2. SaysAt(c, 2)
      BY DEF SaysAt, Passed, Check
    <2>3. SaysAt(c, 3)
      BY DEF SaysAt, Passed, Check
    <2>4. SaysAt(c, 4)
      BY DEF SaysAt, Passed, Check
    <2>5. SaysAt(c, 5)
      BY DEF SaysAt, Passed, Check
    <2> QED
      BY <2>0, <2>1, <2>2, <2>3, <2>4, <2>5
  <1>5. /\ c[3].fails <=> parse_pools(g.pools) # Passed
        /\ c[4].fails <=> thresholds(g)
    BY DEF Check
  <1>6. a \in Seq(S)
    BY DEF Pair, Check
  <1>7. b \in Seq(S)
    BY DEF Pair, Check, chain_with_secret
  <1>8. c \in Seq(S)
    BY DEF Check
  <1> HIDE DEF a, b, c, S
  <1>9. Says(a) /\ Says(b) /\ Says(c)
    BY <1>2, <1>3, <1>4, OneSays, FourSay, FiveSay
  <1>10. a \o b \in Seq(S) /\ Says(a \o b)
    BY <1>6, <1>7, <1>9, OneAfterOther, ConcatProperties
  <1>11. Passes(c)
    BY <1>1, <1>8, <1>9, <1>10, OneAfterOther, NoneFails
  <1> QED
    BY <1>4, <1>5, <1>11 DEF Passes

LEMMA ChainIs ==
  ASSUME NEW g, validate(g) = Passed, NEW k \in DOMAIN g.pools, DOMAIN g.pools \subseteq Nat
  PROVE  /\ g.chain[k].backstop = g.chain[1].backstop
         /\ validate_primary_asset(g, k)
         /\ ~(g.chain[k].max_positions < 2)
  <1> DEFINE c(j) == <<Check(~g.rpc_up, "chain"),
                       Check(g.chain[j].backstop # g.chain[1].backstop, "backstop"),
                       Check(~validate_primary_asset(g, j), "primary asset"),
                       Check(~validate_supported_assets(g, j), "supported asset"),
                       Check(g.chain[j].max_positions < 2, "max_positions")>>
             all == [j \in DOMAIN g.pools |-> Check(FirstFailing(c(j)) # Passed, FirstFailing(c(j)))]
             d == c(k)
  <1>1. FirstFailing(all) = Passed
    BY DEF validate
  <1>2. /\ DOMAIN d = 1..5
        /\ SaysAt(d, 1) /\ SaysAt(d, 2) /\ SaysAt(d, 3) /\ SaysAt(d, 4) /\ SaysAt(d, 5)
    <2>0. DOMAIN d = 1..5
      BY DEF Check
    <2>1. SaysAt(d, 1)
      BY DEF SaysAt, Passed, Check
    <2>2. SaysAt(d, 2)
      BY DEF SaysAt, Passed, Check
    <2>3. SaysAt(d, 3)
      BY DEF SaysAt, Passed, Check
    <2>4. SaysAt(d, 4)
      BY DEF SaysAt, Passed, Check
    <2>5. SaysAt(d, 5)
      BY DEF SaysAt, Passed, Check
    <2> QED
      BY <2>0, <2>1, <2>2, <2>3, <2>4, <2>5
  <1>3. /\ d[2].fails <=> g.chain[k].backstop # g.chain[1].backstop
        /\ d[3].fails <=> ~validate_primary_asset(g, k)
        /\ d[5].fails <=> g.chain[k].max_positions < 2
    BY DEF Check
  <1> HIDE DEF c, d
  <1>4. DOMAIN all = DOMAIN g.pools /\ \A j \in DOMAIN g.pools :
            (all[j].fails <=> FirstFailing(c(j)) # Passed) /\ all[j].why = FirstFailing(c(j))
    BY DEF Check
  <1> HIDE DEF all
  <1>5. Passes(all)
    <2>1. \A j \in DOMAIN all : SaysAt(all, j)
      BY <1>4 DEF SaysAt
    <2>2. Says(all)
      BY <2>1, <1>4 DEF Says
    <2> QED
      BY <2>2, <1>1, NoneFails
  <1>6. FirstFailing(d) = Passed
    BY <1>4, <1>5 DEF Passes, d
  <1>7. Passes(d)
    BY <1>2, <1>6, FiveSay, NoneFails
  <1> QED
    BY <1>2, <1>3, <1>7 DEF Passes

LEMMA FloorBelow ==
  ASSUME NEW n \in Int, NEW m \in Int, NEW d \in Nat \ {0}, n <= m * d
  PROVE  n \div d <= m
  <1> DEFINE q == n \div d
  <1>1. q \in Int /\ q * d <= n
    OBVIOUS
  <1> HIDE DEF q
  <1>2. SUFFICES ASSUME q >= m + 1 PROVE FALSE
    BY <1>1 DEF q
  <1>3. q * d >= (m + 1) * d
    BY <1>1, <1>2
  <1>4. (m + 1) * d = m * d + d
    OBVIOUS
  <1>5. m * d \in Int /\ q * d \in Int /\ (m + 1) * d \in Int
    BY <1>1
  <1> QED
    BY <1>1, <1>3, <1>4, <1>5

\* A floor above the contract's minimum stays above it under the multiplier.
LEMMA FloorAboveMin ==
  ASSUME NEW x \in Int, NEW y \in Int, x > ContractMin, y >= One
  PROVE  mul_ceil_one(x, y) > ContractMin
  <1>1. One \in Nat \ {0} /\ ContractMin \in Nat
    BY ConfigurationAssumption
  <1> DEFINE p == x * y
             q == (-p) \div One
  <1>2. p \in Int /\ x * One <= p
    BY <1>1
  <1>3. (-x) * One = -(x * One) /\ x * One \in Int
    BY <1>1
  <1> HIDE DEF p
  <1>4. -p <= (-x) * One
    BY <1>2, <1>3
  <1>5. q <= -x /\ q \in Int
    BY <1>1, <1>2, <1>4, FloorBelow
  <1>6. mul_ceil_one(x, y) = -q
    BY DEF mul_ceil_one, p
  <1> HIDE DEF q
  <1> QED
    BY <1>1, <1>5, <1>6

LEMMA NoKnobIsZero ==
  ASSUME NEW g \in Givens, KnobsInRange(g.knobs)
  PROVE  \A k \in DOMAIN g.knobs : g.knobs[k] # 0
  <1> DEFINE k == g.knobs
  <1>1. DOMAIN k = {"tx_poll_ledgers", "database_max_connections", "poll_interval_ms",
                    "refresh_batch", "full_scan_ledgers", "oracle_scan_ledgers",
                    "price_delta_bps", "plan_iterations", "replan_ledgers",
                    "inventory_refresh_secs", "cooldown_hours", "health_max_lag_ledgers"}
    BY ConfigurationAssumption
  <1>2. k["tx_poll_ledgers"] # 0 /\ k["database_max_connections"] # 0
        /\ k["poll_interval_ms"] # 0 /\ k["refresh_batch"] # 0
    BY DEF KnobsInRange, ChainKnobs, StoreKnobs, TrackerKnobs, InRange
  <1>3. k["full_scan_ledgers"] # 0 /\ k["oracle_scan_ledgers"] # 0
        /\ k["price_delta_bps"] # 0 /\ k["plan_iterations"] # 0
    BY DEF KnobsInRange, TrackerKnobs, AuctioneerKnobs
  <1>4. k["replan_ledgers"] # 0 /\ k["inventory_refresh_secs"] # 0
        /\ k["cooldown_hours"] # 0 /\ k["health_max_lag_ledgers"] # 0
    BY DEF KnobsInRange, FillerKnobs, ReportKnobs
  <1> HIDE DEF k
  <1>5. \A n \in DOMAIN k : k[n] # 0
    BY <1>1, <1>2, <1>3, <1>4
  <1> QED
    BY <1>5 DEF k

\* What the checks that pass say of a configuration.
Sound(g) ==
    LET signers == into_signers(g)
    IN  /\ \A hf \in 0..(3 * One) : hf <= g.liq_hf => hf < g.scan_hf
        /\ \A k \in DOMAIN g.pools :
              /\ mul_ceil_one(g.pools[k].min_hf, g.multiplier) > ContractMin
              /\ g.chain[k].reserves[g.pools[k].primary].c_factor > 0
              /\ g.chain[k].max_positions >= 2
              /\ \A j \in DOMAIN g.pools :
                    /\ g.chain[j].backstop = g.chain[k].backstop
                    /\ g.pools[j].address = g.pools[k].address => j = k
        /\ \A k \in DOMAIN g.knobs : g.knobs[k] # 0
        /\ \A role \in DOMAIN signers : signers[role] # NoKey => signers[role] \in own_addresses(g)

LEMMA CheckedIsSound ==
  ASSUME NEW g \in Givens, parse(g) = Passed, service_with_secrets(g) = Passed,
         validate(g) = Passed
  PROVE  Sound(g)
  <1>1. /\ g.liq_hf \in Int /\ g.scan_hf \in Int /\ g.multiplier \in Int
        /\ Len(g.pools) \in Nat /\ DOMAIN g.pools = 1..Len(g.pools)
        /\ One \in Nat \ {0} /\ ContractMin \in Nat
    BY ConfigurationAssumption
  <1>2. DOMAIN g.pools \subseteq Nat
    BY <1>1
  <1>3. KnobsInRange(g.knobs) /\ health_multiplier(g.multiplier)
    BY ParsedIs
  <1>4. parse_pools(g.pools) = Passed /\ ~thresholds(g)
    BY ServiceIs
  <1>5. \A k \in DOMAIN g.pools :
           /\ ~\E j \in 1..(k - 1) : g.pools[j].address = g.pools[k].address
           /\ ~(g.pools[k].min_hf <= ContractMin)
    BY <1>1, <1>4, PoolsAre, PoolIs
  <1>6. \A k \in DOMAIN g.pools :
           /\ g.chain[k].backstop = g.chain[1].backstop
           /\ validate_primary_asset(g, k)
           /\ ~(g.chain[k].max_positions < 2)
    BY <1>2, ChainIs
  <1>7. \A hf \in 0..(3 * One) : hf <= g.liq_hf => hf < g.scan_hf
    BY <1>1, <1>4 DEF thresholds
  <1>8. ASSUME NEW k \in DOMAIN g.pools
        PROVE  mul_ceil_one(g.pools[k].min_hf, g.multiplier) > ContractMin
    <2>1. g.pools[k].min_hf \in Int
      BY ConfigurationAssumption
    <2> QED
      BY <2>1, <1>1, <1>3, <1>5, FloorAboveMin DEF health_multiplier
  <1>9. ASSUME NEW k \in DOMAIN g.pools
        PROVE  g.chain[k].reserves[g.pools[k].primary].c_factor > 0
    <2> DEFINE reserves == g.chain[k].reserves
               asset == g.pools[k].primary
    <2>1. asset \in DOMAIN reserves /\ reserves[asset].c_factor # 0
      BY <1>6 DEF validate_primary_asset
    <2>2. \A a \in DOMAIN reserves : reserves[a].c_factor \in Nat
      BY ConfigurationAssumption
    <2> HIDE DEF reserves, asset
    <2>3. reserves[asset].c_factor > 0
      BY <2>1, <2>2
    <2> QED
      BY <2>3 DEF reserves, asset
  <1>10. ASSUME NEW k \in DOMAIN g.pools
         PROVE  g.chain[k].max_positions >= 2
    <2>1. g.chain[k].max_positions \in Nat
      BY ConfigurationAssumption
    <2> QED
      BY <2>1, <1>6
  <1>11. ASSUME NEW k \in DOMAIN g.pools, NEW j \in DOMAIN g.pools,
                g.pools[j].address = g.pools[k].address
         PROVE  j = k
    <2>1. j \in Nat /\ k \in Nat /\ 1 <= j /\ 1 <= k
      BY <1>1
    <2>2. ~(j < k)
      <3> SUFFICES ASSUME j < k PROVE FALSE
        OBVIOUS
      <3>1. j \in 1..(k - 1)
        BY <2>1
      <3> QED
        BY <3>1, <1>5, <1>11
    <2>3. ~(k < j)
      <3> SUFFICES ASSUME k < j PROVE FALSE
        OBVIOUS
      <3>1. k \in 1..(j - 1)
        BY <2>1
      <3> QED
        BY <3>1, <1>5, <1>11
    <2> QED
      BY <2>1, <2>2, <2>3
  <1>12. \A k \in DOMAIN g.knobs : g.knobs[k] # 0
    BY <1>3, NoKnobIsZero
  <1>13. \A role \in DOMAIN into_signers(g) :
            into_signers(g)[role] # NoKey => into_signers(g)[role] \in own_addresses(g)
    BY DEF into_signers, own_addresses
  <1>14. \A k \in DOMAIN g.pools : \A j \in DOMAIN g.pools :
            /\ g.chain[j].backstop = g.chain[k].backstop
            /\ g.pools[j].address = g.pools[k].address => j = k
    BY <1>6, <1>11
  <1> QED
    BY <1>7, <1>8, <1>9, <1>10, <1>12, <1>13, <1>14, Zenon DEF Sound

\* One worker for each key: what the spawning leaves.
Spawned(g, w, q) ==
    LET signers == into_signers(g)
    IN  /\ \A i, j \in DOMAIN w : w[i] = w[j] => i = j
        /\ \A role \in DOMAIN q :
              q[role] # NoQueue => q[role] \in DOMAIN w /\ w[q[role]] = signers[role]
        /\ Armed(g) <=> q["filler"] # NoQueue
        /\ ~Armed(g) => w = << >>

LEMMA SpawnedIdle ==
  ASSUME NEW g, ~Armed(g)
  PROVE  Spawned(g, << >>, [auctioneer |-> NoQueue, filler |-> NoQueue])
  <1> DEFINE q == [auctioneer |-> NoQueue, filler |-> NoQueue]
  <1>1. \A role \in DOMAIN q : q[role] = NoQueue
    OBVIOUS
  <1>2. q["filler"] = NoQueue
    OBVIOUS
  <1>3. DOMAIN << >> = {}
    OBVIOUS
  <1> HIDE DEF q
  <1>4. Spawned(g, << >>, q)
    BY <1>1, <1>2, <1>3 DEF Spawned
  <1> QED
    BY <1>4 DEF q

LEMMA SpawnedShared ==
  ASSUME NEW g, Armed(g), g.auctioneer_key = NoKey, g.filler_key # NoKey
  PROVE  Spawned(g, <<g.filler_key>>, [filler |-> 1, auctioneer |-> 1])
  <1> DEFINE w == <<g.filler_key>>
             q == [filler |-> 1, auctioneer |-> 1]
             signers == into_signers(g)
  <1>1. DOMAIN w = 1..1 /\ w[1] = g.filler_key
    OBVIOUS
  <1>2. DOMAIN q = {"filler", "auctioneer"} /\ q["filler"] = 1 /\ q["auctioneer"] = 1
    OBVIOUS
  <1>3. signers["filler"] = g.filler_key /\ signers["auctioneer"] = g.filler_key
    BY DEF into_signers
  <1>4. \A i \in 1..1 : i = 1
    OBVIOUS
  <1>5. 1 \in 1..1 /\ NoQueue # 1
    BY DEF NoQueue
  <1> HIDE DEF w, q, signers
  <1>6. \A i, j \in DOMAIN w : w[i] = w[j] => i = j
    BY <1>1, <1>4
  <1>7. \A role \in DOMAIN q :
           q[role] # NoQueue => q[role] \in DOMAIN w /\ w[q[role]] = signers[role]
    BY <1>1, <1>2, <1>3, <1>5
  <1> QED
    BY <1>2, <1>5, <1>6, <1>7, Zenon DEF Spawned, w, q, signers

LEMMA SpawnedApart ==
  ASSUME NEW g, Armed(g), g.auctioneer_key # NoKey, g.auctioneer_key # g.filler_key
  PROVE  Spawned(g, <<g.filler_key, g.auctioneer_key>>, [filler |-> 1, auctioneer |-> 2])
  <1> DEFINE w == <<g.filler_key, g.auctioneer_key>>
             q == [filler |-> 1, auctioneer |-> 2]
             signers == into_signers(g)
  <1>1. DOMAIN w = 1..2 /\ w[1] = g.filler_key /\ w[2] = g.auctioneer_key
    OBVIOUS
  <1>2. DOMAIN q = {"filler", "auctioneer"} /\ q["filler"] = 1 /\ q["auctioneer"] = 2
    OBVIOUS
  <1>3. signers["filler"] = g.filler_key /\ signers["auctioneer"] = g.auctioneer_key
    BY DEF into_signers
  <1>4. \A i \in 1..2 : i = 1 \/ i = 2
    OBVIOUS
  <1>5. 1 \in 1..2 /\ 2 \in 1..2 /\ NoQueue # 1 /\ NoQueue # 2
    BY DEF NoQueue
  <1> HIDE DEF w, q, signers
  <1>6. \A i, j \in DOMAIN w : w[i] = w[j] => i = j
    BY <1>1, <1>4
  <1>7. \A role \in DOMAIN q :
           q[role] # NoQueue => q[role] \in DOMAIN w /\ w[q[role]] = signers[role]
    BY <1>1, <1>2, <1>3, <1>5
  <1> QED
    BY <1>2, <1>5, <1>6, <1>7, Zenon DEF Spawned, w, q, signers

\* What the start knows when it is past a step.
PastKeys == {"store", "validate", "filler", "telegram", "checked", "seed", "spawn", "running"}
PastService == {"keys"} \cup PastKeys
PastArgs == {"service"} \cup PastService
PastValidate == {"filler", "telegram", "checked", "seed", "spawn", "running"}

BootInv ==
    /\ given \in Givens
    /\ boot \in PastArgs => parse(given) = Passed
    /\ boot \in PastService => service_with_secrets(given) = Passed
    /\ boot \in PastKeys => signing_keys(given) = Passed
    /\ boot \in PastValidate => validate(given) = Passed
    /\ boot # "running" =>
          workers = << >> /\ queues = [auctioneer |-> NoQueue, filler |-> NoQueue]
    /\ boot = "running" => Spawned(given, workers, queues)

\* A step that is no spawning keeps what is known, given what it checked.
LEMMA StepKeepsBoot ==
  ASSUME BootInv, NEW at, NEW why, NEW next, StepOn(at, why, next), at # "running",
         next # "running",
         why = Passed /\ next \in PastArgs => at \in PastArgs \/ parse(given) = Passed,
         why = Passed /\ next \in PastService =>
             at \in PastService \/ service_with_secrets(given) = Passed,
         why = Passed /\ next \in PastKeys => at \in PastKeys \/ signing_keys(given) = Passed,
         why = Passed /\ next \in PastValidate => at \in PastValidate \/ validate(given) = Passed
  PROVE  BootInv'
  <1>1. /\ boot = at /\ boot' = (IF why = Passed THEN next ELSE "refused")
        /\ given' = given /\ workers' = workers /\ queues' = queues
    BY DEF StepOn
  <1>2. "refused" \notin PastArgs /\ "refused" \notin PastService /\ "refused" \notin PastKeys
        /\ "refused" \notin PastValidate /\ "refused" # "running"
    BY DEF PastArgs, PastService, PastKeys, PastValidate
  <1>3. boot' # "running" /\ boot # "running"
    BY <1>1, <1>2
  <1>4. given' \in Givens
    BY <1>1 DEF BootInv
  <1>5. boot' \in PastArgs => parse(given') = Passed
    BY <1>1, <1>2 DEF BootInv
  <1>6. boot' \in PastService => service_with_secrets(given') = Passed
    BY <1>1, <1>2 DEF BootInv
  <1>7. boot' \in PastKeys => signing_keys(given') = Passed
    BY <1>1, <1>2 DEF BootInv
  <1>8. boot' \in PastValidate => validate(given') = Passed
    BY <1>1, <1>2 DEF BootInv
  <1>9. workers' = << >> /\ queues' = [auctioneer |-> NoQueue, filler |-> NoQueue]
    BY <1>1, <1>3, Zenon DEF BootInv
  <1> QED
    BY <1>3, <1>4, <1>5, <1>6, <1>7, <1>8, <1>9, Zenon DEF BootInv

LEMMA SpawnKeepsBoot ==
  ASSUME BootInv, spawn_queues
  PROVE  BootInv'
  <1>1. boot = "spawn" /\ boot' = "running" /\ given' = given
    BY DEF spawn_queues
  <1>2. /\ "spawn" \in PastArgs /\ "spawn" \in PastService /\ "spawn" \in PastKeys
        /\ "spawn" \in PastValidate /\ "spawn" # "running"
    BY DEF PastArgs, PastService, PastKeys, PastValidate
  <1>3. /\ given \in Givens /\ parse(given) = Passed /\ service_with_secrets(given) = Passed
        /\ signing_keys(given) = Passed /\ validate(given) = Passed
        /\ workers = << >> /\ queues = [auctioneer |-> NoQueue, filler |-> NoQueue]
    BY <1>1, <1>2, Zenon DEF BootInv
  <1>4. /\ given.auctioneer_key # NoKey => given.auctioneer_key # given.filler_key
        /\ Armed(given) => given.filler_key # NoKey
    BY <1>3, KeysAre
  <1> DEFINE fk == given.filler_key
             ak == given.auctioneer_key
  <1>5. ASSUME ~Armed(given) PROVE Spawned(given, workers', queues')
    <2>1. workers' = << >> /\ queues' = [auctioneer |-> NoQueue, filler |-> NoQueue]
      BY <1>3, <1>5, Zenon DEF spawn_queues
    <2> QED
      BY <2>1, <1>1, <1>5, SpawnedIdle, Zenon
  <1>6. ASSUME Armed(given) /\ ak = NoKey PROVE Spawned(given, workers', queues')
    <2>1. into_signers(given).filler = fk /\ fk # NoKey /\ shared(given)
      BY <1>4, <1>6 DEF into_signers, shared
    <2>2. <<fk>> \o << >> = <<fk>> /\ <<fk>> # << >>
      OBVIOUS
    <2>3. workers' = <<fk>> \o << >> /\ queues' = [filler |-> 1, auctioneer |-> 1]
      BY <2>1, <2>2, <1>6 DEF spawn_queues, SharesQueue
    <2>4. workers' = <<fk>>
      BY <2>2, <2>3
    <2> QED
      BY <2>3, <2>4, <1>1, <1>4, <1>6, SpawnedShared
  <1>7. ASSUME Armed(given) /\ ak # NoKey PROVE Spawned(given, workers', queues')
    <2>1. into_signers(given).filler = fk /\ fk # NoKey /\ ~shared(given)
          /\ into_signers(given).auctioneer = ak
      BY <1>4, <1>7 DEF into_signers, shared
    <2>2. <<fk>> \o <<ak>> = <<fk, ak>> /\ <<fk>> # << >> /\ Len(<<fk, ak>>) = 2
      BY TwoInOrder
    <2>3. workers' = <<fk>> \o <<ak>> /\ queues' = [filler |-> 1, auctioneer |-> Len(<<fk>> \o <<ak>>)]
      BY <2>1, <2>2, <1>7 DEF spawn_queues, SharesQueue
    <2>4. workers' = <<fk, ak>> /\ queues' = [filler |-> 1, auctioneer |-> 2]
      BY <2>2, <2>3
    <2> QED
      BY <2>4, <1>1, <1>4, <1>7, SpawnedApart
  <1>8. Spawned(given', workers', queues')
    BY <1>5, <1>6, <1>7, <1>1
  <1> QED
    BY <1>1, <1>3, <1>8, Zenon DEF BootInv

LEMMA BootStarts == BootInit => BootInv
  BY DEF BootInit, BootInv, PastArgs, PastService, PastKeys, PastValidate

LEMMA BootStep ==
  ASSUME BootInv, [BootNext]_bootVars
  PROVE  BootInv'
  <1> USE DEF PastArgs, PastService, PastKeys, PastValidate
  <1>1. CASE ParseArgs
    BY <1>1, StepKeepsBoot DEF ParseArgs
  <1>2. CASE BuildService
    BY <1>2, StepKeepsBoot DEF BuildService
  <1>3. CASE BuildKeys
    BY <1>3, StepKeepsBoot DEF BuildKeys
  <1>4. CASE ConnectStore
    BY <1>4, StepKeepsBoot DEF ConnectStore
  <1>5. CASE ValidatePools
    BY <1>5, StepKeepsBoot DEF ValidatePools
  <1>6. CASE ValidateFiller
    BY <1>6, StepKeepsBoot DEF ValidateFiller
  <1>7. CASE verify_telegram
    BY <1>7, StepKeepsBoot DEF verify_telegram
  <1>8. CASE build_seed_sources
    BY <1>8, StepKeepsBoot DEF build_seed_sources
  <1>9. CASE spawn_queues
    BY <1>9, SpawnKeepsBoot
  <1>10. CASE UNCHANGED bootVars
    BY <1>10, Zenon DEF bootVars, BootInv
  <1> QED
    BY <1>1, <1>2, <1>3, <1>4, <1>5, <1>6, <1>7, <1>8, <1>9, <1>10 DEF BootNext

LEMMA BootIsSound ==
  ASSUME BootInv
  PROVE  StartIsSound
  <1>1. CASE boot # "running"
    BY <1>1 DEF StartIsSound, RunsSound, OneWorkerPerKey
  <1>2. CASE boot = "running"
    <2>1. "running" \in PastArgs /\ "running" \in PastService /\ "running" \in PastValidate
      BY DEF PastArgs, PastService, PastKeys, PastValidate
    <2>2. Sound(given)
      BY <2>1, <1>2, CheckedIsSound DEF BootInv
    <2>3. Spawned(given, workers, queues)
      BY <1>2 DEF BootInv
    <2>4. RunsSound
      BY <2>2, Zenon DEF RunsSound, Sound
    <2>5. OneWorkerPerKey
      BY <2>3, Zenon DEF OneWorkerPerKey, Spawned
    <2> QED
      BY <2>4, <2>5 DEF StartIsSound
  <1> QED
    BY <1>1, <1>2

\* A start that reaches its loop was given what the rest of the bot assumes of
\* its thresholds, pools and chain, and has exactly one worker for each key
\* that signs, none when it is dry (config.rs, service_with_secrets;
\* service.rs, validate and spawn_queues).
THEOREM StartsSound == BootSpec => []StartIsSound
  <1>1. BootInit => BootInv
    BY BootStarts
  <1>2. BootInv /\ [BootNext]_bootVars => BootInv'
    BY BootStep
  <1>3. BootInv => StartIsSound
    BY BootIsSound
  <1> QED
    BY <1>1, <1>2, <1>3, PTL DEF BootSpec
=============================================================================
