------------------------------ MODULE PoolEvents ------------------------------
(***************************************************************************)
(* The pool's events as the tracker reads them: decode_pool_event and      *)
(* PoolEvent::affected_accounts (src/chain/xdr/events.rs).  The contract   *)
(* is seen from outside: which events its calls emit and whose positions   *)
(* they move, as the comments of that file describe it.                    *)
(***************************************************************************)
EXTENDS Integers, Sequences, FiniteSets, TLC

CONSTANTS user, filler   \* two accounts

ASSUME EventsAssumption == user # filler

VARIABLE emitted   \* one contract call: its events and the accounts it moved

\* What an event has to look like: its topics, the name included, and data.
Signature(topics, data) == [topics |-> topics, data |-> data]

decode_position_event ==
    [n \in {"supply", "withdraw", "supply_collateral", "withdraw_collateral", "borrow", "repay"} |->
        Signature({3}, "pair")]
    @@ ("flash_loan" :> Signature({4}, "pair"))

decode_auction_event ==
    "new_auction" :> Signature({3}, "percent and auction")
    @@ "fill_auction" :> Signature({3}, "filler, percent and auction")
    @@ "delete_auction" :> Signature({3}, "void")

decode_admin_event ==
    [n \in {"bad_debt", "collateral_orphaned"} |-> Signature({3}, "amount")]
    @@ [n \in {"defaulted_debt", "orphan_settled"} |-> Signature({2}, "amount")]
    @@ "debt_setoff" :> Signature({2}, "pair")
    @@ "set_reserve" :> Signature({1}, "asset and index")
    @@ "set_status" :> Signature({1, 2}, "status")

Modelled == decode_position_event @@ decode_auction_event @@ decode_admin_event

Some(e) == [is |-> "event", event |-> e]
NoEvent == [is |-> "none"]
ShapeError == [is |-> "error"]

Matches(e, s) == e.topics \in s.topics /\ e.data = s.data

\* Faulty variant: an event that does not fit is taken for one of no interest.
decode_pool_event_Skips(e) ==
    IF e.named /\ e.name \in DOMAIN Modelled /\ Matches(e, Modelled[e.name]) THEN Some(e) ELSE NoEvent

\* No topics, a first topic that is not a symbol, a name that is not
\* modelled: none of them an error.
decode_pool_event(e) ==
    IF ~e.named \/ e.name \notin DOMAIN Modelled THEN NoEvent
    ELSE IF Matches(e, Modelled[e.name]) THEN Some(e) ELSE ShapeError

affected_accounts(e) ==
    CASE e.name = "fill_auction" -> {e.first, e.second}
      [] e.name \in {"defaulted_debt", "debt_setoff", "orphan_settled", "set_reserve", "set_status"} -> {}
      [] OTHER -> {e.first}

-----------------------------------------------------------------------------
(* The contract.                                                            *)

\* An event about one account, or about the first and a filler.
Emit(name, first, second) ==
    [named |-> TRUE, name |-> name, data |-> Modelled[name].data, first |-> first, second |-> second,
     topics |-> CHOOSE n \in Modelled[name].topics : TRUE]
About(name) == Emit(name, user, user)

Invocation(events, moved) == [events |-> events, moved |-> moved, cleared |-> FALSE]

\* bad_debt(user), when the user's own supply clears the debt: its one event is
\* about the reserve.
ClearingSetoff == [events |-> <<About("debt_setoff")>>, moved |-> {user}, cleared |-> TRUE]

\* A full fill may end in a default; what is left of the collateral is moved.
Invocations ==
    {Invocation(<<About(n)>>, {user}) : n \in DOMAIN decode_position_event}
    \cup {Invocation(<<About(n)>>, {}) : n \in {"new_auction", "delete_auction", "set_reserve", "set_status"}}
    \cup {Invocation(<<Emit("fill_auction", user, filler)>> \o rest, {user, filler}) :
             rest \in {<< >>, <<About("debt_setoff")>>,
                       <<About("debt_setoff"), About("defaulted_debt"), About("collateral_orphaned")>>}}
    \cup {Invocation(<<About("defaulted_debt"), About("collateral_orphaned")>>, {user}),
          Invocation(<<About("bad_debt")>>, {user}),
          Invocation(<<About("orphan_settled")>>, {}),
          ClearingSetoff}

\* A contract upgrade adds a topic or changes the data of one event, or adds
\* an event of its own before the others.
Upgraded(c) ==
    UNION {{[c EXCEPT !.events[i].topics = @ + 3], [c EXCEPT !.events[i].data = "other"]} :
               i \in DOMAIN c.events}
    \cup {[c EXCEPT !.events = <<[About("supply") EXCEPT !.name = "gulp"]>> \o @],
          [c EXCEPT !.events = <<[About("supply") EXCEPT !.named = FALSE]>> \o @]}

EventsInit == emitted \in Invocations \cup UNION {Upgraded(c) : c \in Invocations}

\* The poller warns of an event that does not decode, skips it, and goes on
\* with its page: drain.
Warned == \E i \in DOMAIN emitted.events : decode_pool_event(emitted.events[i]).is = "error"

Named ==
    UNION {LET d == decode_pool_event(emitted.events[i])
           IN IF d.is = "event" THEN affected_accounts(d.event) ELSE {} :
               i \in DOMAIN emitted.events}

\* Every account whose positions a contract call moved is named by one of its
\* events, so that the tracker reads it again, with two exceptions: an event
\* whose shape has changed is skipped, but never in silence; and a set-off that
\* clears a borrower's debt names nobody (events.rs, its head comment), the one
\* call the tracker is not told of.
MoversAreNamed == emitted.moved \subseteq Named \/ Warned \/ emitted.cleared

=============================================================================
