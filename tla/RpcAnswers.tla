------------------------------ MODULE RpcAnswers ------------------------------
(***************************************************************************)
(* What RpcClient (src/chain/rpc.rs) makes of what a node answers.  An      *)
(* answer is what an honest node renders of what is so on chain, and one    *)
(* part of it may be missing or unreadable when it arrives.                 *)
(***************************************************************************)
EXTENDS Integers, Sequences, FiniteSets

CONSTANTS
    NoCode,     \* no contract error
    PoolCode,   \* the code a failing pool call fails with
    CallerCode  \* the code of a frame around it

ASSUME AnswersAssumption == Cardinality({NoCode, PoolCode, CallerCode}) = 3

\* A field of an answer; serde and from_base64 tell its three states apart.
Field(v) == [is |-> "ok", v |-> v]
Gone == [is |-> "gone"]
Garbled == [is |-> "garbled"]

Ok(v) == [ok |-> TRUE, v |-> v]
Err(e) == [ok |-> FALSE, e |-> e]

Unreadable(f) == f.is = "garbled"
Lacks(f) == f.is # "ok"
\* A vector with #[serde(default)] is empty when it is left out.
Defaulted(f) == IF f.is = "ok" THEN f.v ELSE << >>

\* An answer of a call that got through: RpcClient::call.
call(reply) ==
    CASE reply.transport # "arrived" -> Err("Transport")
      [] reply.status # 200 -> Err("Http")
      [] reply.error -> Err("Rpc")
      [] reply.result = "none" -> Err("Shape")
      [] OTHER -> Ok("result")

-----------------------------------------------------------------------------
(* Contract errors.                                                         *)

Diagnostic(topic, error) == [topic |-> topic, error |-> error]

contract_error_in_events(events) ==
    LET errors == {i \in DOMAIN events : events[i].topic = "error" /\ events[i].error # NoCode}
    IN IF errors = {} THEN NoCode ELSE events[CHOOSE i \in errors : \A j \in errors : i <= j].error

\* Only a message that names a contract error carries a pool's code.
contract_error_in_message(message) ==
    IF message.error = "Contract" THEN message.number ELSE NoCode

meta_diagnostics(meta) == IF meta.version \in {"V3", "V4"} THEN meta.events ELSE << >>

-----------------------------------------------------------------------------
(* The three calls a submission rests on.                                   *)

\* Faulty variant: an outcome without its ledger is one not found yet.
transaction_Lenient(raw) ==
    IF raw.status = "NOT_FOUND" \/ Lacks(raw.ledger)
    THEN Ok([is |-> "NotFound", ledger |-> 0, code |-> NoCode])
    ELSE Err("Shape")

transaction(raw) ==
    LET found(is, code) == Ok([is |-> is, ledger |-> raw.ledger.v, code |-> code])
    IN CASE Unreadable(raw.ledger) -> Err("Shape")
         [] raw.status = "NOT_FOUND" -> Ok([is |-> "NotFound", ledger |-> 0, code |-> NoCode])
         [] Lacks(raw.ledger) \/ raw.ledger = Field(0) \/ Lacks(raw.meta) -> Err("Shape")
         [] raw.status = "SUCCESS" -> found("SUCCESS", NoCode)
         [] raw.status = "FAILED" ->
                IF Lacks(raw.result) \/ Unreadable(raw.events) THEN Err("Shape")
                ELSE found("FAILED", contract_error_in_events(Defaulted(raw.events)
                                                              \o meta_diagnostics(raw.meta.v)))
         [] OTHER -> Err("Shape")

\* error first: a failure's other fields are not looked at.
simulate(raw) ==
    CASE Unreadable(raw.events) \/ Unreadable(raw.error) -> Err("Shape")
      [] raw.error.is = "ok" ->
            LET logged == contract_error_in_events(Defaulted(raw.events))
            IN Ok([is |-> "Failure", restore |-> FALSE,
                   code |-> IF logged # NoCode THEN logged ELSE contract_error_in_message(raw.error.v)])
      [] Lacks(raw.results) \/ Unreadable(raw.auth) \/ Unreadable(raw.restore)
            \/ Lacks(raw.data) \/ Lacks(raw.fee) -> Err("Shape")
      [] OTHER -> Ok([is |-> "Success", restore |-> raw.restore.is = "ok", code |-> NoCode])

SendStatuses == {"PENDING", "DUPLICATE", "TRY_AGAIN_LATER", "ERROR"}

\* Only ERROR carries a result, and may leave it out.
send(raw) ==
    CASE raw.status \notin SendStatuses \/ Lacks(raw.hash) -> Err("Shape")
      [] raw.status = "ERROR" /\ (Unreadable(raw.result) \/ Unreadable(raw.events)) -> Err("Xdr")
      [] OTHER -> Ok([is |-> raw.status,
                      code |-> IF raw.status = "ERROR"
                               THEN contract_error_in_events(Defaulted(raw.events)) ELSE NoCode])

\* account: an entry that is left out is an account that was never funded.
account(raw) ==
    CASE Unreadable(raw.entry) \/ Lacks(raw.latest) -> Err("Shape")
      [] raw.entry.is = "gone" -> Err("NoAccount")
      [] OTHER -> Ok([is |-> "Account", sequence |-> raw.entry.v])

fee_stats(raw) ==
    IF Lacks(raw.p70) \/ Lacks(raw.p90) THEN Err("Shape")
    ELSE Ok([is |-> "FeeStats", p70 |-> raw.p70.v, p90 |-> raw.p90.v])

Decoded(method, raw) ==
    CASE method = "getTransaction" -> transaction(raw)
      [] method = "simulateTransaction" -> simulate(raw)
      [] method = "sendTransaction" -> send(raw)
      [] method = "getLedgerEntries" -> account(raw)
      [] method = "getFeeStats" -> fee_stats(raw)

-----------------------------------------------------------------------------
(* The node: what is so, how it renders it, and what is lost of it.         *)

Frames(code) ==
    IF code = NoCode THEN << Diagnostic("fn_call", NoCode), Diagnostic("error", NoCode) >>
    ELSE << Diagnostic("fn_return", CallerCode), Diagnostic("error", code),
            Diagnostic("error", CallerCode) >>

Included(status, code) ==
    {[status |-> status, ledger |-> Field(5), meta |-> Field([version |-> v, events |-> inMeta]),
      result |-> Field("result"), events |-> Field(beside)] :
        v \in {"V3", "V4"}, <<inMeta, beside>> \in {<<Frames(code), << >> >>, << << >>, Frames(code)>>}}

\* NOT_FOUND carries ledger 0 from some nodes and none from others.
NotFound ==
    {[status |-> "NOT_FOUND", ledger |-> l, meta |-> Gone, result |-> Gone, events |-> Gone] :
        l \in {Field(0), Gone}}

Ran(restore) ==
    [error |-> Gone, results |-> Field("xdr"), auth |-> Field("auth"), data |-> Field("data"),
     fee |-> Field("fee"), events |-> Field(<< >>), restore |-> restore]

Message(code) ==
    IF code = NoCode THEN [error |-> "WasmVm", number |-> CallerCode]
    ELSE [error |-> "Contract", number |-> code]

Refused(code, events) ==
    [error |-> Field(Message(code)), results |-> Gone, auth |-> Gone, data |-> Gone,
     fee |-> Gone, events |-> events, restore |-> Gone]

Sent(status, code) ==
    [status |-> status, hash |-> Field("hash"), result |-> Gone,
     events |-> IF status = "ERROR" THEN Field(Frames(code)) ELSE Gone]

\* A call with what is so, which is what an intact answer has to say.
Exchange(method, truth, raws) == {[method |-> method, truth |-> truth, raw |-> r] : r \in raws}

Codes == {NoCode, PoolCode}

Exchanges ==
    Exchange("getTransaction", [is |-> "NotFound", ledger |-> 0, code |-> NoCode], NotFound)
    \cup Exchange("getTransaction", [is |-> "SUCCESS", ledger |-> 5, code |-> NoCode],
                  Included("SUCCESS", NoCode))
    \cup UNION {Exchange("getTransaction", [is |-> "FAILED", ledger |-> 5, code |-> c],
                         Included("FAILED", c)) : c \in Codes}
    \cup UNION {Exchange("simulateTransaction", [is |-> "Success", restore |-> r.is = "ok", code |-> NoCode],
                         {Ran(r)}) : r \in {Gone, Field("preamble")}}
    \cup UNION {Exchange("simulateTransaction", [is |-> "Failure", restore |-> FALSE, code |-> c],
                         {Refused(c, Field(Frames(c))), Refused(c, Gone)}) : c \in Codes}
    \cup UNION {Exchange("sendTransaction", [is |-> s, code |-> c], {Sent(s, c)}) :
                    <<s, c>> \in {<<s, NoCode>> : s \in SendStatuses} \cup {<<"ERROR", PoolCode>>}}
    \cup Exchange("getLedgerEntries", [is |-> "Account", sequence |-> 7],
                  {[entry |-> Field(7), latest |-> Field(5)]})
    \cup Exchange("getFeeStats", [is |-> "FeeStats", p70 |-> 1, p90 |-> 2],
                  {[p70 |-> Field(1), p90 |-> Field(2)]})

\* At most one field arrives damaged: left out, unreadable, or a zero where
\* there should be a ledger.  An entry is whole or not there.
Damages(f) ==
    CASE f = "status" -> {"???"}
      [] f = "ledger" -> {Gone, Garbled, Field(0)}
      [] f = "entry" -> {Garbled}
      [] OTHER -> {Gone, Garbled}

Damaged(raw) == UNION {{[raw EXCEPT ![f] = d] : d \in Damages(f)} : f \in DOMAIN raw}

Replies ==
    {[transport |-> t, status |-> s, error |-> e, result |-> r] :
        t \in {"arrived", "timed out"}, s \in {200, 503}, e \in BOOLEAN, r \in {"none", "result"}}

Arrived == [transport |-> "arrived", status |-> 200, error |-> FALSE, result |-> "result"]

VARIABLE exchange   \* one call: what is so, the reply, and whether it is whole

AnswersInit ==
    \E x \in Exchanges :
        \/ \E reply \in Replies :
               exchange = [method |-> x.method, truth |-> x.truth, raw |-> x.raw,
                           reply |-> reply, whole |-> TRUE]
        \/ \E raw \in Damaged(x.raw) \ {x.raw} :
               exchange = [method |-> x.method, truth |-> x.truth, raw |-> raw,
                           reply |-> Arrived, whole |-> FALSE]

Heard(x) == LET body == call(x.reply) IN IF body.ok THEN Decoded(x.method, x.raw) ELSE body

\* What is said agrees with what is so; losing its log loses only the code,
\* and losing a preamble only the preamble.
Agrees(said, truth) ==
    \A f \in DOMAIN truth :
        \/ said[f] = truth[f]
        \/ f = "code" /\ said[f] = NoCode
        \/ f = "restore" /\ ~said[f]

\* A call never answers anything but what is so.  A reply that was lost,
\* refused or damaged on the way is an error, so a transaction that applied
\* is never taken for one that was not found, nor a refused simulation for
\* one that ran; and a whole reply is read in full, the error code of the
\* frame that failed included, wherever the node keeps its log.
TruthOrError ==
    LET said == Heard(exchange)
    IN /\ said.ok => exchange.reply = Arrived /\ Agrees(said.v, exchange.truth)
       /\ exchange.reply = Arrived /\ exchange.whole => said = Ok(exchange.truth)

=============================================================================
