--------------------------- MODULE MCRiderDeposit ---------------------------
(* RiderDeposit with values for TLC: requests, orders and handlers are model *)
(* values, an order earns as much as a deposit.                              *)
EXTENDS RiderDeposit, TLC

FeeTwo == [o \in Orders |-> 2]

Symmetry == Permutations(Requests) \cup Permutations(Orders) \cup Permutations(Handlers)
=============================================================================
