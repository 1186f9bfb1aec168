----------------------------- MODULE BlockTime ------------------------------
(***************************************************************************)
(* block.timestamp as the contracts read it.  A transaction executes at    *)
(* one timestamp and several may share it, so time passes in a step of its *)
(* own, between transactions.                                              *)
(***************************************************************************)
EXTENDS Integers

CONSTANT Horizon     \* bound: the last timestamp of a run

ASSUME HorizonAssumption == Horizon \in Nat \ {0}

VARIABLE now         \* block.timestamp, never 0 on a live chain

TimeInit == now = 1

Tick == /\ now < Horizon
        /\ now' = now + 1

TimeTypeOK == now \in 1..Horizon
=============================================================================
