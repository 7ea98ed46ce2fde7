-------------------------- MODULE MCRetryExecutor --------------------------
(***************************************************************************)
(* Small instances of RetryExecutor.  payment.events with the two groups   *)
(* that can fail on it: e1 is a payment.failed, for which order-service    *)
(* writes its database, e2 a payment.processed, for which stock-service    *)
(* publishes the reservation.  Each group skips the other's event.         *)
(***************************************************************************)
EXTENDS RetryExecutor

CONSTANTS orders, stock, e1, e2

MCGroups == {orders, stock}
MCEvents == {e1, e2}
MCInterest == [g \in MCGroups |-> IF g = stock THEN {e2} ELSE {e1}]
=============================================================================
