----------------------------- MODULE MCFulfilment -----------------------------
(* Small instances of Fulfilment: one paid order, or a paid and an unpaid one. *)
EXTENDS Fulfilment

CONSTANTS o1, o2

MCPaid == {[type |-> "payment.processed", order |-> o1]}
MCPaidAndUnpaid == MCPaid \cup {[type |-> "payment.failed", order |-> o2]}

(* Retry budgets: a retry for everybody, or for notification-service only. *)
MCRetryOnce == [s \in Services |-> 2]
MCMixedBudgets == [s \in Services |-> IF s = "notification" THEN 2 ELSE 1]
===============================================================================
