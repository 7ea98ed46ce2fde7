----------------------------- MODULE PaymentRules -----------------------------
(***************************************************************************)
(* payment-rules.ts and payment-simulator.ts: which orders are refused,    *)
(* and what the simulated gateway answers for the others.  Amounts are in  *)
(* cents, the failure rate and Math.random in hundredths.                  *)
(***************************************************************************)
EXTENDS EnvVar, Sequences, FiniteSetsExt

NumberOf(raw, default) == ToNumber(OrElse(raw, Numeric(default)))

ResolvePaymentBusinessRules(env) ==
    [minAmount |-> NumberOf(env.minAmount, 1),
     maxAmount |-> NumberOf(env.maxAmount, 1000000),
     maxItems |-> NumberOf(env.maxItems, 50),
     amountTolerance |-> NumberOf(env.amountTolerance, 1)]

SumLineItems(items) == MapThenSumSet(LAMBDA i : items[i].quantity * items[i].unitPrice, DOMAIN items)

Drift(order) ==
    LET d == SumLineItems(order.items) - order.totalAmount IN IF d < 0 THEN -d ELSE d

\* Mutant: one item more than the limit.
TooManyItemsLate(order, config) == LessThan(config.maxItems, Numeric(Len(order.items) - 1))

TooManyItems(order, config) == LessThan(config.maxItems, Numeric(Len(order.items)))

(* A threshold that is not a number compares false: its rule is off. *)
EvaluatePaymentRules(order, config) ==
    LET rules ==
          [MIN_AMOUNT |-> LessThan(Numeric(order.totalAmount), config.minAmount),
           MAX_AMOUNT |-> LessThan(config.maxAmount, Numeric(order.totalAmount)),
           NON_EMPTY_ITEMS |-> order.items = <<>>,
           MAX_ITEMS |-> TooManyItems(order, config),
           AMOUNT_MATCHES_ITEMS |-> LessThan(config.amountTolerance, Numeric(Drift(order))),
           POSITIVE_QUANTITY |-> \E i \in DOMAIN order.items : order.items[i].quantity <= 0,
           NON_NEGATIVE_PRICE |-> \E i \in DOMAIN order.items : order.items[i].unitPrice < 0]
    IN  {rule \in DOMAIN rules : rules[rule]}

(* NaN falls back to the default; the rest is clamped to 0..1. *)
ResolvePaymentFailureRate(env) ==
    LET raw == NumberOf(env.failureRate, 20)
    IN  CASE raw.kind = "garbage" -> 20
          [] raw.kind = "number" /\ raw.value < 0 -> 0
          [] raw.kind = "number" /\ raw.value > 100 -> 100
          [] OTHER -> raw.value

(* Nothing but the word true forces failures. *)
IsPaymentForceFailureEnabled(env) == env.forceFailure = "true"

\* Mutant: the boundary belongs to the failures.
ShouldFailInclusive(random, env) ==
    IsPaymentForceFailureEnabled(env) \/ random <= ResolvePaymentFailureRate(env)

ShouldFail(random, env) ==
    IsPaymentForceFailureEnabled(env) \/ random < ResolvePaymentFailureRate(env)

PAYMENT_FAILURE_SCENARIOS ==
    {"Payment gateway timeout", "Gateway unavailable", "Card declined", "Connection reset by peer"}

(* The outcomes for one draw of Math.random, one per scenario picked. *)
SimulatePaymentGateway(random, env) ==
    IF ShouldFail(random, env)
    THEN [outcome : {"failed"}, reason : PAYMENT_FAILURE_SCENARIOS]
    ELSE {[outcome |-> "approved", reason |-> "none"]}
==============================================================================
