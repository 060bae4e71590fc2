--------------------------- MODULE WithdrawEscrow ---------------------------
(***************************************************************************)
(* What the withdrawal service promises, without handlers, gateway or      *)
(* retries: the amount of a request is set aside once, and then it either  *)
(* leaves the account or comes back, once.  A failed request may be set    *)
(* aside again; a paid or a rejected one never moves again.  The promise ends    *)
(* for an account whose books are spoiled, and for that account alone.     *)
(***************************************************************************)
EXTENDS Integers

CONSTANTS Accounts, Requests, Owner, Amount, Deposit, SpendAmounts

VARIABLES
  free,   \* what the owner of an account may spend
  stage,  \* where the money of a request is
  spoiled \* the accounts the promise no longer covers

vars == <<free, stage, spoiled>>

Stage == {"none", "held", "paid", "rejected", "failed"}

Init ==
  /\ free = [a \in Accounts |-> Deposit[a]]
  /\ stage = [r \in Requests |-> "none"]
  /\ spoiled = {}

\* The request takes its amount from what is free: a new request, or a failed one
\* tried again.
Place(r) ==
  /\ stage[r] \in {"none", "failed"}
  /\ free[Owner[r]] >= Amount[r]
  /\ free' = [free EXCEPT ![Owner[r]] = @ - Amount[r]]
  /\ stage' = [stage EXCEPT ![r] = "held"]
  /\ UNCHANGED spoiled

Pay(r) ==
  /\ stage[r] = "held"
  /\ stage' = [stage EXCEPT ![r] = "paid"]
  /\ UNCHANGED <<free, spoiled>>

GiveBack(r) ==
  /\ stage[r] = "held"
  /\ free' = [free EXCEPT ![Owner[r]] = @ + Amount[r]]
  /\ \E why \in {"rejected", "failed"} : stage' = [stage EXCEPT ![r] = why]
  /\ UNCHANGED spoiled

Spend(a) ==
  /\ \E n \in SpendAmounts :
       free[a] >= n /\ free' = [free EXCEPT ![a] = @ - n]
  /\ UNCHANGED <<stage, spoiled>>

\* Anything may happen to an account that is, or now becomes, spoiled.
Stray(a) ==
  /\ spoiled' = spoiled \cup {a}
  /\ \A b \in Accounts \ {a} : free'[b] = free[b]
  /\ \A r \in Requests : Owner[r] # a => stage'[r] = stage[r]

Next ==
  \/ \E r \in Requests : Place(r) \/ Pay(r) \/ GiveBack(r)
  \/ \E a \in Accounts : Spend(a) \/ Stray(a)

Spec == Init /\ [][Next]_vars
=============================================================================
