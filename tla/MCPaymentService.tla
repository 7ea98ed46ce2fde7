--------------------------- MODULE MCPaymentService ---------------------------
(***************************************************************************)
(* Small instances of PaymentService: two envelopes of one order (what an  *)
(* upstream duplicate with a new eventId looks like) and two replicas.  No *)
(* envelope is RuleViolating: what the business rules refuse is one of the *)
(* outcomes the gateway may choose.                                        *)
(***************************************************************************)
EXTENDS PaymentService

CONSTANTS p1, p2, e1, e2, o1

MCOrderOf == [e \in Events |-> o1]
===============================================================================
