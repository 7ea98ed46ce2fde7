--------------------------- MODULE MCConsumerGroup ---------------------------
(***************************************************************************)
(* Two replicas of payment-service on order.events.  Their groupId is set  *)
(* as docker/services/docker-compose.yml does; a suffix left over in one   *)
(* replica's environment must not matter.                                  *)
(***************************************************************************)
EXTENDS ConsumerGroup

CONSTANTS r1, r2, o1, o2

MCGroupEnv ==
    [m \in Members |-> [explicit |-> "eventflow.payment-service",
                        suffix |-> IF m = r1 THEN "unset" ELSE "-b"]]
MCHash == [o \in Orders |-> IF o = o1 THEN 0 ELSE 1]

NoVariables == [f \in PolicyFields |-> Unset]

Plain == [shared |-> NoVariables, consumer |-> NoVariables, producer |-> NoVariables,
          sessionTimeoutMs |-> Unset, heartbeatIntervalMs |-> Unset,
          paymentTimeoutDelayMs |-> Unset, fromBeginning |-> FALSE]

(* One failure is a dead letter: the blank consumer variable gives way to the shared one. *)
OneAttempt == [Plain EXCEPT !.shared.maxAttempts = Numeric(1), !.consumer.maxAttempts = Blank,
                            !.producer.maxAttempts = Garbage, !.fromBeginning = TRUE]

(* The only backoff and the heartbeat interval make up the session timeout exactly. *)
LongBackoff == [Plain EXCEPT !.consumer.baseDelayMs = Numeric(27000), !.shared.baseDelayMs = Garbage,
                             !.shared.maxAttempts = Numeric(2), !.producer.maxAttempts = Numeric(1)]

(* A second backoff would outlast the session, but there is no second one. *)
NarrowBackoff == [Plain EXCEPT !.shared.baseDelayMs = Numeric(14000), !.consumer.maxAttempts = Numeric(2),
                               !.producer.maxAttempts = Numeric(1),
                               !.paymentTimeoutDelayMs = Numeric(0), !.fromBeginning = TRUE]

(* No backoff at all; the handler's two publishes fit the session, the dead letter's does not. *)
SlowBroker == [Plain EXCEPT !.shared.baseDelayMs = Numeric(9000), !.consumer.maxAttempts = Numeric(1),
                            !.producer.maxAttempts = Numeric(2), !.paymentTimeoutDelayMs = Numeric(0)]

MCEnvironments == {OneAttempt, LongBackoff, NarrowBackoff, SlowBroker}
MCPlainEnvironment == {Plain}
==============================================================================
