------------------------------- MODULE Runtime -------------------------------
(***************************************************************************)
(* The tasks of one run and how they end (src/service.rs, Service::run,     *)
(* drain_tasks, finish_run and the spawners): signals, a task's error, a    *)
(* task's panic, the shutdown flag they all raise, the channels whose       *)
(* closing ends a task, and the exit code (src/main.rs).  The notifier is   *)
(* the one of Notifier; a run drains it last.                               *)
(***************************************************************************)
EXTENDS Notifier

CONSTANTS
    Pollers,     \* one per pool
    Workers,     \* one per distinct key; none in a dry run
    Bystanders,  \* "http" when a port is configured, and the "watchdog"
    QueueOf,     \* the worker each deciding task submits through
    MaxPanics,   \* bound: panics
    MaxErrors,   \* bound: store failures
    LastWords    \* bound: whether only the last task to run notifies

Deciders == {"auctioneer", "filler"}
Tasks == Pollers \cup Workers \cup Deciders \cup Bystanders \cup {"tracker"}

ASSUME RuntimeAssumption ==
    /\ Workers = {} \/ QueueOf \in [Deciders -> Workers]
    /\ Pollers # {}
    /\ Bystanders \subseteq {"http", "watchdog"}
    /\ Pollers \cap ({"http", "watchdog", "tracker"} \cup Deciders \cup Workers) = {}
    /\ Workers \cap ({"http", "watchdog", "tracker"} \cup Deciders) = {}
    /\ None \notin Tasks
    /\ LastWords \in BOOLEAN

VARIABLES
    task,      \* "unborn", "running", "returned", "failed" or "panicked"
    doing,     \* what a running task is in the middle of
    shutdown,  \* the flag
    signals,   \* SIGINT and SIGTERM received
    joined,    \* the tasks join_next has answered for
    failure,   \* the first task error drain_tasks saw
    panicked,  \* whether it saw a panic
    phase,     \* "seeding", "joining", "finishing" or "exited"
    code,      \* the exit code
    faults,    \* panics and errors so far
    left       \* history: the submissions whose outcome was not learned

runVars == <<task, doing, shutdown, signals, joined, failure, panicked, phase, code, faults, left>>
allRunVars == <<runVars, notifierVars>>

Running(t) == task[t] = "running"
Over(t) == task[t] \in {"returned", "failed", "panicked"}
Free == "free"

RunInit ==
    /\ task = [t \in Tasks |-> IF t = "http" THEN "running" ELSE "unborn"]
    /\ doing = [t \in Tasks |-> Free]
    /\ shutdown = FALSE
    /\ signals = 0
    /\ joined = {}
    /\ failure = None
    /\ panicked = FALSE
    /\ phase = "seeding"
    /\ code = None
    /\ faults = [panics |-> 0, errors |-> 0]
    /\ left = {}

\* Submissions between sendTransaction and their outcome.
InFlight == {w \in Workers : Running(w) /\ doing[w] # Free}

\* What becomes of a submission whose outcome nobody learns.
Without(w, how) == [worker |-> w, how |-> how]

\* The process ends: every task still there is gone.
ExitsWith(c) ==
    /\ phase' = "exited"
    /\ code' = c
    /\ left' = left \cup {Without(w, "cut off") : w \in InFlight}
    /\ task' = [t \in Tasks |-> IF Running(t) THEN "gone" ELSE task[t]]
    /\ doing' = [t \in Tasks |-> Free]

\* spawn_shutdown_listener: the first signal asks, the second ends.
Signal ==
    /\ phase # "exited"
    /\ signals < 2
    /\ signals' = signals + 1
    /\ \/ /\ signals = 0
          /\ shutdown' = TRUE
          /\ UNCHANGED <<task, doing, phase, code, left>>
       \/ signals = 1 /\ ExitsWith(130) /\ UNCHANGED shutdown
    /\ UNCHANGED <<joined, failure, panicked, faults>>

\* The seed pass fails, or a configuration is refused before it: the run
\* returns, and the http task is aborted with the set.
StartFails(c) ==
    /\ phase = "seeding"
    /\ faults.errors < MaxErrors
    /\ faults' = [faults EXCEPT !.errors = @ + 1]
    /\ ExitsWith(c)
    /\ UNCHANGED <<shutdown, signals, joined, failure, panicked>>

\* spawn_pollers, spawn_queues, spawn_watchdog, spawn_auctioneer,
\* spawn_filler and the tracker's task; a raised flag is found by each.
Spawn ==
    /\ phase = "seeding"
    /\ task' = [t \in Tasks |-> IF t = "http" THEN task[t] ELSE "running"]
    /\ phase' = "joining"
    /\ UNCHANGED <<doing, shutdown, signals, joined, failure, panicked, code, faults, left>>

----------------------------------------------------------------------------
(* The tasks.                                                              *)

Ends(t, how) ==
    /\ task' = [task EXCEPT ![t] = how]
    /\ doing' = [doing EXCEPT ![t] = Free]
    /\ UNCHANGED <<shutdown, signals, joined, failure, panicked, phase, code>>

\* A task comes to its end without an error.
Leaves(t) == Ends(t, "returned") /\ UNCHANGED <<faults, left>>

Goes(t, step) ==
    /\ doing' = [doing EXCEPT ![t] = step]
    /\ UNCHANGED <<task, shutdown, signals, joined, failure, panicked, phase, code, faults, left>>

\* A store error ends the tracker, the auctioneer or the filler.
TaskFails(t) ==
    /\ t \in Deciders \cup {"tracker"}
    /\ Running(t) /\ doing[t] # "submitting"
    /\ faults.errors < MaxErrors
    /\ faults' = [faults EXCEPT !.errors = @ + 1]
    /\ Ends(t, "failed")
    /\ UNCHANGED left

\* Any task may panic wherever it runs code, and one that waits for another's
\* answer runs none; the build unwinds.  A worker takes the outcome of what it
\* has sent with it.
TaskPanics(t) ==
    /\ Running(t) /\ doing[t] \notin {"submitting", "awaiting"}
    /\ faults.panics < MaxPanics
    /\ faults' = [faults EXCEPT !.panics = @ + 1]
    /\ left' = IF t \in InFlight THEN left \cup {Without(t, "panicked")} ELSE left
    /\ Ends(t, "panicked")

\* serve: a port that cannot be bound ends the server alone.
HttpBinds ==
    /\ Running("http") /\ doing["http"] = Free
    /\ Goes("http", "bound") \/ Leaves("http")

\* serve_on: connections are taken until the flag is raised, and nothing but
\* the client closes one.
ClientConnects ==
    /\ Running("http") /\ doing["http"] = "bound"
    /\ ~shutdown
    /\ Goes("http", "serving")

ClientLeaves ==
    /\ Running("http") /\ doing["http"] = "serving"
    /\ Goes("http", "bound")

\* The flag ends the watchdog's loop, and the server when nobody is connected.
BystanderReturns(t) ==
    /\ t \in Bystanders
    /\ Running(t)
    /\ shutdown
    /\ t = "http" => doing["http"] = "bound"
    /\ Leaves(t)

\* LedgerPoller::run: a pass sends a tick and waits for the answer, which a
\* tracker that is gone never gives; between passes the flag ends it, and so
\* does a closed channel.
PollerSends(p) ==
    /\ Running(p) /\ doing[p] = Free
    /\ ~shutdown
    /\ Running("tracker")
    /\ Goes(p, "awaiting")

PollerReturns(p) ==
    /\ Running(p)
    /\ Over("tracker") \/ (doing[p] = Free /\ shutdown)
    /\ Leaves(p)

\* tracker_loop: a tick is applied and answered, shutdown or not; it returns
\* once every poller's sender is gone.
TrackerAnswers(p) ==
    /\ Running("tracker")
    /\ doing[p] = "awaiting"
    /\ Goes(p, Free)

TrackerReturns ==
    /\ Running("tracker")
    /\ \A p \in Pollers : Over(p)
    /\ Leaves("tracker")

\* auctioneer_loop and filler_loop: the flag is read before each unit of
\* work, and the work may submit after it was raised.
DeciderWorks(d) ==
    /\ Running(d) /\ doing[d] = Free
    /\ ~shutdown
    /\ Goes(d, "working")

DeciderSubmits(d) ==
    /\ Running(d) /\ doing[d] = "working"
    /\ \/ Workers # {} /\ Goes(d, "submitting")
       \/ Goes(d, Free)

\* A reply channel that was dropped is an answer too.
DeciderAnswered(d) ==
    /\ Running(d) /\ doing[d] = "submitting"
    /\ Over(QueueOf[d])
    /\ Goes(d, Free)

\* The flag is looked at between ticks; a dropped tick_tx ends the loop.
DeciderReturns(d) ==
    /\ Running(d) /\ doing[d] = Free
    /\ shutdown \/ Over("tracker")
    /\ Leaves(d)

\* run_queue_with: one job at a time, from its preparation to its outcome.
WorkerTakes(w, d) ==
    /\ Running(w) /\ doing[w] = Free
    /\ ~shutdown
    /\ QueueOf[d] = w
    /\ doing[d] = "submitting"
    /\ Goes(w, d)

\* A job received after the flag is answered ShuttingDown.
WorkerRefuses(w, d) ==
    /\ Running(w) /\ doing[w] = Free
    /\ shutdown
    /\ QueueOf[d] = w
    /\ doing[d] = "submitting"
    /\ Goes(d, Free)

\* submit_until_settled: an outcome is waited for, and only a raised flag lets
\* Unknown be the answer.
WorkerSettles(w) ==
    /\ Running(w) /\ doing[w] # Free
    /\ doing' = [doing EXCEPT ![w] = Free, ![doing[w]] = Free]
    /\ \/ UNCHANGED left
       \/ shutdown /\ left' = left \cup {Without(w, "Unknown")}
    /\ UNCHANGED <<task, shutdown, signals, joined, failure, panicked, phase, code, faults>>

\* No handle is left: they went into the deciding tasks and end with them.
WorkerReturns(w) ==
    /\ Running(w) /\ doing[w] = Free
    /\ \A d \in Deciders : QueueOf[d] = w => Over(d)
    /\ Leaves(w)

----------------------------------------------------------------------------
(* The end of the run.                                                     *)

\* Faulty variant: the first error leaves the loop, and aborts the rest.
drain_tasks_First(t) ==
    /\ phase = "joining"
    /\ Over(t) /\ t \notin joined
    /\ joined' = joined \cup {t}
    /\ failure' = IF task[t] = "failed" THEN t ELSE failure
    /\ panicked' = (panicked \/ task[t] = "panicked")
    /\ shutdown' = (shutdown \/ task[t] \in {"failed", "panicked"})
    /\ phase' = IF joined' = Tasks \/ task[t] = "failed" THEN "finishing" ELSE phase
    /\ UNCHANGED <<task, doing, signals, code, faults, left>>

\* Faulty variant: a panic is kept, and only an error raises the flag.
drain_tasks_PanicKept(t) ==
    /\ phase = "joining"
    /\ Over(t) /\ t \notin joined
    /\ joined' = joined \cup {t}
    /\ failure' = IF failure = None /\ task[t] = "failed" THEN t ELSE failure
    /\ panicked' = (panicked \/ task[t] = "panicked")
    /\ shutdown' = (shutdown \/ task[t] = "failed")
    /\ phase' = IF joined' = Tasks THEN "finishing" ELSE phase
    /\ UNCHANGED <<task, doing, signals, code, faults, left>>

\* drain_tasks: the first error and the first panic raise the flag and are
\* kept; nothing leaves before every task has been joined.
drain_tasks(t) ==
    /\ phase = "joining"
    /\ Over(t) /\ t \notin joined
    /\ joined' = joined \cup {t}
    /\ failure' = IF failure = None /\ task[t] = "failed" THEN t ELSE failure
    /\ panicked' = (panicked \/ task[t] = "panicked")
    /\ shutdown' = (shutdown \/ task[t] \in {"failed", "panicked"})
    /\ phase' = IF joined' = Tasks THEN "finishing" ELSE phase
    /\ UNCHANGED <<task, doing, signals, code, faults, left>>

\* Faulty variant: an error hides a panic.
ExitCode_ErrorFirst == IF failure # None THEN 1 ELSE IF panicked THEN 101 ELSE 0

\* finish_run and main: a panic is resumed, a task's error is fatal.
ExitCode == IF panicked THEN 101 ELSE IF failure # None THEN 1 ELSE 0

\* Faulty variant: the process ends without the notifier's drain.
finish_run_AtOnce ==
    /\ phase = "finishing"
    /\ ExitsWith(ExitCode)
    /\ UNCHANGED <<shutdown, signals, joined, failure, panicked, faults>>

\* finish_run: once the drain has ended, one way or the other.
finish_run ==
    /\ phase = "finishing"
    /\ drain \in {"drained", "timed out"}
    /\ ExitsWith(ExitCode)
    /\ UNCHANGED <<shutdown, signals, joined, failure, panicked, faults>>

\* Steps that wait for nothing but the processor, and a worker's answer once
\* the flag is up.
TaskStep ==
    \/ "http" \in Bystanders /\ HttpBinds
    \/ \E t \in Bystanders : BystanderReturns(t)
    \/ \E p \in Pollers : PollerReturns(p)
    \/ TrackerReturns
    \/ \E d \in Deciders : DeciderAnswered(d) \/ DeciderReturns(d)
    \/ \E w \in Workers : WorkerReturns(w)
    \/ \E w \in Workers, d \in Deciders : WorkerRefuses(w, d)
    \/ shutdown /\ \E w \in Workers : WorkerSettles(w)

\* Steps that wait for the store, the chain or a client, and those that
\* nothing obliges.
OpenStep ==
    \/ "http" \in Bystanders /\ (ClientConnects \/ ClientLeaves)
    \/ \E p \in Pollers : PollerSends(p) \/ TrackerAnswers(p)
    \/ \E d \in Deciders : DeciderWorks(d) \/ DeciderSubmits(d)
    \/ \E w \in Workers, d \in Deciders : WorkerTakes(w, d)
    \/ ~shutdown /\ \E w \in Workers : WorkerSettles(w)

RunStep ==
    \/ Signal
    \/ \E c \in {1, 2} : StartFails(c)
    \/ Spawn
    \/ \E t \in Tasks : TaskFails(t) \/ TaskPanics(t) \/ drain_tasks(t)
    \/ TaskStep
    \/ OpenStep
    \/ finish_run

\* The tasks notify as they run; bound: of those notifications, the ones on
\* the way out, or the last of these.
Talkers == {t \in Tasks \ Workers : Running(t) /\ t # "http"}
CallsNotify ==
    /\ shutdown
    /\ Talkers # {}
    /\ LastWords => \A t, u \in Talkers : t = u

\* Deliveries go on until the process ends.
NotifierStep ==
    /\ phase # "exited"
    /\ \/ \E k \in Keys : CallsNotify /\ Claim(k)
       \/ \E i \in Sends, answer \in Answers : DeliveryEnds(i, answer)
       \/ Elapse

\* A call of notify comes back before its task is joined, and the drain ends
\* within its budget.
NotifierSettles ==
    /\ phase # "exited"
    /\ \/ \E i \in Sends : Dispatch(i)
       \/ phase = "finishing" /\ InState({"claimed"}) = {} /\ DrainStarts
       \/ DrainEnds

RunNext ==
    \/ RunStep /\ UNCHANGED notifierVars
    \/ (NotifierStep \/ NotifierSettles) /\ UNCHANGED runVars

\* The run itself: it joins what has ended, drains the notifier and returns.
Finishing ==
    \/ ((\E t \in Tasks : drain_tasks(t)) \/ finish_run) /\ UNCHANGED notifierVars
    \/ NotifierSettles /\ UNCHANGED runVars

\* Tasks are scheduled, and the run is woken for each that ends.  A worker's
\* answer comes once the flag is up: every RPC call has a timeout (rpc.rs), and
\* the first Unknown is then returned.
RunFairness ==
    /\ WF_allRunVars(TaskStep /\ UNCHANGED notifierVars)
    /\ WF_allRunVars(Finishing)

Started == RunInit /\ NotifierInit

RunSpec == Started /\ [][RunNext]_allRunVars /\ RunFairness

----------------------------------------------------------------------------

\* A run that was not ended by a second signal is cut off nowhere between a
\* sendTransaction and its outcome, whichever task failed or panicked first.
\* What it does not learn the outcome of was answered Unknown because the run
\* was asked to stop, or was with a worker that panicked, and then the process
\* ends as that panic (service.rs, drain_tasks; queue.rs, resolve).
NothingAbandoned ==
    phase = "exited" /\ code # 130 =>
        \A l \in left : \/ l.how = "Unknown" /\ shutdown
                        \/ l.how = "panicked" /\ code = 101

\* The exit code says why the run ended: a panic wins over an error, and only
\* a run that was asked to stop ends with 0 (service.rs, Drained and
\* finish_run; main.rs).
ExitSaysWhy ==
    phase = "exited" /\ joined # {} /\ code # 130 =>
        /\ code = 101 <=> \E t \in Tasks : task[t] = "panicked"
        /\ code = 1 => \E t \in Tasks : task[t] = "failed"
        /\ code = 0 => signals > 0 /\ \A t \in Tasks : task[t] = "returned"

\* Whatever the run decided to say has arrived or is in the log when the
\* process ends, unless the channel outlasted the drain's budget (service.rs,
\* finish_run; notifier.rs, drain).
LastWordsLeave ==
    phase = "exited" /\ code # 130 /\ drain # "timed out" =>
        \A i \in Sends : sends[i].state = "delivered" \/ i \in log

\* The connections the server has taken are closed: graceful shutdown waits
\* for each, and the code has no timeout of its own (http.rs, serve_on).
ClientsLeave == "http" \in Bystanders => []<>(doing["http"] # "serving")

\* A tick, a unit of work and the seed come back from the database and the
\* chain: RPC calls have a timeout, a query has none once it has a connection
\* (store.rs, Store::connect).
StoreAnswers ==
    /\ \A p \in Pollers : []<>(doing[p] # "awaiting")
    /\ \A d \in Deciders : []<>(doing[d] # "working")
    /\ []<>(phase # "seeding")

\* A signal, an error or a panic ends the run, provided the clients leave and
\* the store answers: no task waits for one that is gone, and no worker for a
\* handle that is still held (service.rs, spawn_shutdown_listener,
\* drain_tasks, tracker_loop; queue.rs, run_queue_with).
RunEnds ==
    ClientsLeave /\ StoreAnswers =>
        (shutdown \/ \E t \in Tasks : task[t] \in {"failed", "panicked"}) ~> phase = "exited"

\* When the process ends, whatever failed first, no submission was cut off,
\* nothing is left unsaid and the exit code is true (service.rs, drain_tasks
\* and finish_run).
EndsWell == NothingAbandoned /\ ExitSaysWhy /\ LastWordsLeave
=============================================================================
