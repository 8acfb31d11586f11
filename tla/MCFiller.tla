------------------------------ MODULE MCFiller ------------------------------
(* Filler for TLC: one pool whose only asset also pays the fees. *)
EXTENDS Filler, TLC

CONSTANTS p1, b1, xlm

OnePool == <<p1>>
BothInOne == [b \in Borrowers |-> p1]
Native == [p \in PoolSet |-> {xlm}]

Amount(n) == [a \in Assets |-> n]
Two == Amount(2)
OneOnly == {Amount(1)}

Symmetry == Permutations(Borrowers)
============================================================================
