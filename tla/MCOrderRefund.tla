--------------------------- MODULE MCOrderRefund ---------------------------
(* OrderRefund with values for TLC: orders, payments, refunds, claims and handlers *)
(* are model values, and the .cfg chooses the functions over them among these.     *)
EXTENDS OrderRefund, TLC

CONSTANTS o1, p1, p2, u1, k1

OneBuyer == [o \in Orders |-> u1]
PayOne == [p \in Payments |-> o1]
Either == (p1 :> "ifpay") @@ (p2 :> "gateway")
OwnKey == [p \in Payments |-> p]
SameKey == [p \in Payments |-> k1]
ClaimOne == [c \in Claims |-> o1]
PriceFour == [o \in Orders |-> 4]
\* platform 1, school nothing, merchant 2, rider 1: half of the order rounds up.
Split == [o \in Orders |-> [s \in Subjects |->
  IF s = "merchant" THEN 2 ELSE IF s = "school" THEN 0 ELSE 1]]
FeeTwo == [o \in Orders |-> 2]
Ten == [u \in Users |-> 10]

Symmetry == Permutations(Refunds) \cup Permutations(Handlers)
=============================================================================
