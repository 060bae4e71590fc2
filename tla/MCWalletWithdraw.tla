-------------------------- MODULE MCWalletWithdraw --------------------------
(* WalletWithdraw with values for TLC: accounts, requests and handlers are model *)
(* values, and the functions over them are chosen by the .cfg among these.       *)
EXTENDS WalletWithdraw, FiniteSetsExt, TLC

CONSTANTS a1, r1, r2

OneAccount == [r \in Requests |-> a1]
Unit == [r \in Requests |-> 1]
OneAndTwo == (r1 :> 1) @@ (r2 :> 2)
AllWechat == [r \in Requests |-> "wechat"]
AllAlipay == [r \in Requests |-> "alipay"]
WechatAndBank == (r1 :> "wechat") @@ (r2 :> "bank_card")
Two == [a \in Accounts |-> 2]
Three == [a \in Accounts |-> 3]

\* The variables an action reads: the rest is history, and a run whose properties do not
\* mention it need not tell states apart by it.
Present == <<wallet, request, txn, payout, notices, session, batch, crashes, outflow, tries>>

HandlerSymmetry == Permutations(Handlers)
=============================================================================
