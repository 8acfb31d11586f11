----------------------------- MODULE Inventory -----------------------------
(***************************************************************************)
(* The filler's wallet as the bot believes it to be (src/inventory.rs):    *)
(* the balances last read from chain, what the open reservation holds of   *)
(* them, and the fee reserve withheld from the native asset.               *)
(*                                                                         *)
(* The filler is one task that settles a reservation before it takes the   *)
(* next, so there is one reservation at most.  An asset that a map of the  *)
(* code does not name has the amount 0 here.                               *)
(***************************************************************************)
EXTENDS Integers

CONSTANTS
    Assets,     \* the assets of the pools, and the native one
    FeeAsset,   \* the native asset
    FeeReserve  \* XLM_FEE_RESERVE

ASSUME InventoryAssumption ==
    /\ FeeAsset \in Assets
    /\ FeeReserve \in Nat

Amounts == [Assets -> Nat]
Nothing == [a \in Assets |-> 0]

VARIABLES
    balances,  \* Ledger::balances
    reserved,  \* Ledger::reserved
    everRead,  \* Ledger::read_at is Some
    claim      \* the amounts of the open Reservation, Nothing without one

inventory == <<balances, reserved, everRead, claim>>

InventoryTypeOK ==
    /\ balances \in Amounts
    /\ reserved \in Amounts
    /\ everRead \in BOOLEAN
    /\ claim \in Amounts

InventoryInit ==
    /\ balances = Nothing
    /\ reserved = Nothing
    /\ everRead = FALSE
    /\ claim = Nothing

\* Ledger::available: never below zero.
available(a) ==
    LET withheld == IF a = FeeAsset THEN FeeReserve ELSE 0
        free == balances[a] - reserved[a] - withheld
    IN  IF free > 0 THEN free ELSE 0

\* subtract: saturates, and never errs.
subtract(held, amounts) ==
    [a \in Assets |-> IF held[a] > amounts[a] THEN held[a] - amounts[a] ELSE 0]

\* Inventory::record_balances: open claims survive a fresh read.
record_balances(read) ==
    /\ balances' = read
    /\ everRead' = TRUE
    /\ UNCHANGED <<reserved, claim>>

\* Inventory::reserve checks every asset before it takes any.
CanReserve(spend) == \A a \in Assets : spend[a] > 0 => spend[a] <= available(a)

reserve(spend) ==
    /\ CanReserve(spend)
    /\ reserved' = [a \in Assets |-> reserved[a] + spend[a]]
    /\ claim' = spend
    /\ UNCHANGED <<balances, everRead>>

\* Faulty variant: a consumed reservation leaves the balances as they were.
consume_Balances ==
    /\ reserved' = subtract(reserved, claim)
    /\ claim' = Nothing
    /\ UNCHANGED <<balances, everRead>>

\* Reservation::consume: the amounts left the wallet, or may have.
consume ==
    /\ reserved' = subtract(reserved, claim)
    /\ balances' = subtract(balances, claim)
    /\ claim' = Nothing
    /\ UNCHANGED everRead

\* Faulty variant: the token is gone, and its hold is not.
release_Leaks ==
    /\ claim' = Nothing
    /\ UNCHANGED <<balances, reserved, everRead>>

\* Reservation::release, and the drop of an unsettled token.
release ==
    /\ reserved' = subtract(reserved, claim)
    /\ claim' = Nothing
    /\ UNCHANGED <<balances, everRead>>
============================================================================
