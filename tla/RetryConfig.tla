----------------------------- MODULE RetryConfig -----------------------------
(***************************************************************************)
(* Where the numbers of a retry policy come from, and what they make of a  *)
(* wait: retry-policy.ts and producer-retry-policy.ts of shared/src/kafka. *)
(*                                                                         *)
(* An environment gives a value to every field of the policy under each of *)
(* the prefixes KAFKA_RETRY_*, KAFKA_CONSUMER_RETRY_* and                  *)
(* KAFKA_PRODUCER_RETRY_*.  Fractions are left out.                        *)
(***************************************************************************)
EXTENDS RetryPolicy, EnvVar

DEFAULT_RETRY_POLICY ==
    [maxAttempts |-> 3, baseDelayMs |-> 1000, maxDelayMs |-> 30000, backoffMultiplier |-> 2]

PolicyFields == DOMAIN DEFAULT_RETRY_POLICY

(* Blank and unreadable values give way to the fallback. *)
ResolveRetryNumber(raw, fallback) == IF raw.kind = "number" THEN raw.value ELSE fallback

ResolveRetryPolicy(env) ==
    [f \in PolicyFields |-> ResolveRetryNumber(env.shared[f], DEFAULT_RETRY_POLICY[f])]

\* Mutant: the fallback of a blank variable is the default, not the shared value.
ResolvePastShared(env) ==
    [f \in PolicyFields |->
        ResolveRetryNumber(OrElse(env.consumer[f], env.shared[f]), DEFAULT_RETRY_POLICY[f])]

(***************************************************************************)
(* A blank KAFKA_CONSUMER_RETRY_* hides KAFKA_RETRY_* from ??, but the     *)
(* fallback it then gets is the shared policy.                             *)
(***************************************************************************)
ResolveConsumerRetryPolicy(env) ==
    [f \in PolicyFields |->
        ResolveRetryNumber(OrElse(env.consumer[f], env.shared[f]), ResolveRetryPolicy(env)[f])]

ResolveProducerRetryNumber(own, shared, fallback) ==
    ResolveRetryNumber(OrElse(own, shared), fallback)

ResolveProducerRetryPolicy(env) ==
    [f \in PolicyFields |->
        ResolveProducerRetryNumber(env.producer[f], env.shared[f], ResolveRetryPolicy(env)[f])]

(* baseDelay * multiplier^(attempt - 1), capped at maxDelay. *)
CalculateBackoffMs(attempt, policy) ==
    LET delay == policy.baseDelayMs * policy.backoffMultiplier ^ (attempt - 1)
    IN  IF attempt <= 0 THEN 0
        ELSE IF delay < policy.maxDelayMs THEN delay ELSE policy.maxDelayMs

(* The waits a service announces at start-up, one for each attempt but the last. *)
GetRetryBackoffSchedule(policy) ==
    [attempt \in 1..(policy.maxAttempts - 1) |-> CalculateBackoffMs(attempt, policy)]

(***************************************************************************)
(* A producer's policy is given to kafkajs as its transport retries        *)
(* (kafka-config.ts).  Its retrier waits before every further try of a     *)
(* send: the initial time at first, then the last wait multiplied and      *)
(* capped, each up to a fifth longer or shorter at random and rounded up.  *)
(***************************************************************************)
TransportRetries(policy) == IF policy.maxAttempts > 1 THEN policy.maxAttempts - 1 ELSE 0

LongestWait(ms) == (6 * ms + 4) \div 5

(* How long one send can have waited when it ends, by the longest of the random waits. *)
PublishDelays(policy) ==
    LET Capped(ms) == IF ms < policy.maxDelayMs THEN ms ELSE policy.maxDelayMs
        wait[n \in Nat] == IF n <= 1 THEN LongestWait(policy.baseDelayMs)
                           ELSE Capped(LongestWait(wait[n - 1]) * policy.backoffMultiplier)
        total[n \in Nat] == IF n = 0 THEN 0 ELSE total[n - 1] + wait[n]
    IN  {total[n] : n \in 0..TransportRetries(policy)}

------------------------------------------------------------------------------

(***************************************************************************)
(* The policy of a consumer or producer is, field by field, the first      *)
(* readable value of the prefixed variable, the shared variable and the    *)
(* default: a blank or unreadable variable never hides a good one.         *)
(***************************************************************************)
RawValues == {Unset, Blank, Garbage, Numeric(0), Numeric(5)}

FirstReadable(own, shared, default) ==
    IF own.kind = "number" THEN own.value
    ELSE IF shared.kind = "number" THEN shared.value
    ELSE default

PolicyIsLayered ==
    \A own, shared \in RawValues :
        LET e == [v \in {"consumer", "producer", "shared"} |->
                    [f \in PolicyFields |-> IF v = "shared" THEN shared ELSE own]]
        IN  \A f \in PolicyFields :
              /\ FirstReadable(own, shared, DEFAULT_RETRY_POLICY[f]) =
                  ResolveConsumerRetryPolicy(e)[f]
              /\ FirstReadable(own, shared, DEFAULT_RETRY_POLICY[f]) =
                  ResolveProducerRetryPolicy(e)[f]
==============================================================================
