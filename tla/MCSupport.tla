------------------------------ MODULE MCSupport ------------------------------
(***************************************************************************)
(* The parts around the decisions, each on an instance of its own: the      *)
(* notifier, the recorder, the health probes, the pool reader, the scan's   *)
(* walk, the answers of a node and the events in them, and the creation of  *)
(* an auction.  A behaviour belongs to one of them, its scope, and the      *)
(* others stand still.                                                      *)
(***************************************************************************)
EXTENDS Notifier, Health, PoolReader, ScanWalk, RpcAnswers, PoolEvents, Creation

VARIABLE scope

Scopes == {"notifier", "metrics", "health", "reader", "scan", "answers", "events", "creation"}

AnExchange == CHOOSE x \in Exchanges : TRUE
ACall == CHOOSE c \in Invocations : TRUE

\* HealthInit fixes the recorder as MetricsInit does.
Init ==
    /\ scope \in Scopes
    /\ NotifierInit /\ MetricsInit /\ HealthInit /\ ReaderInit
    /\ scope = "health" \/ cursor = Missing
    /\ IF scope = "scan" THEN ScanInit
       ELSE ScanInit /\ rows = [a \in Unhealthy |-> Untracked]
    /\ IF scope = "answers" THEN AnswersInit
       ELSE exchange = [method |-> AnExchange.method, truth |-> AnExchange.truth,
                        raw |-> AnExchange.raw, reply |-> Arrived, whole |-> TRUE]
    /\ IF scope = "events" THEN EventsInit ELSE emitted = ACall
    /\ CreationInit
    /\ scope = "creation" \/ (keyed = FALSE /\ dry = TRUE /\ band = [lo |-> 1, hi |-> 1])

fixed == <<scope, exchange, emitted>>
reads == <<readerVars, scanVars, creationVars, fixed>>

InNotifier == scope = "notifier" /\ NotifierNext /\ UNCHANGED <<reads, metricsVars, clocks>>
InMetrics == scope = "metrics" /\ MetricsNext /\ UNCHANGED <<reads, notifierVars, clocks>>
InHealth == scope = "health" /\ HealthNext /\ UNCHANGED <<reads, notifierVars, calls, notes>>
InReader == scope = "reader" /\ ReaderNext
            /\ UNCHANGED <<scanVars, creationVars, fixed, notifierVars, metricsVars, clocks>>
InScan == scope = "scan" /\ ScanNext
          /\ UNCHANGED <<readerVars, creationVars, fixed, notifierVars, metricsVars, clocks>>
InCreation == scope = "creation" /\ CreationNext
              /\ UNCHANGED <<readerVars, scanVars, fixed, notifierVars, metricsVars, clocks>>

Next == InNotifier \/ InMetrics \/ InHealth \/ InReader \/ InScan \/ InCreation

MCSpec == Init /\ [][Next]_<<reads, notifierVars, metricsVars, clocks>>

\* Nothing the chain says is misread: a reply is read for what it is, or is an
\* error, and of the calls that move an account only those that name nobody, or
\* that were warned of, pass the tracker by (chain/rpc.rs; chain/xdr/events.rs).
NothingMisread == TruthOrError /\ MoversAreNamed
=============================================================================
