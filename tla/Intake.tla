-------------------------------- MODULE Intake --------------------------------
(***************************************************************************)
(* What the checks along the way make of the data of an order: the body of *)
(* POST /orders, the envelope on order.events, the business rules and the  *)
(* gateway of payment-service, and the verdict on payment.events as the    *)
(* three services that read it parse it.                                   *)
(*                                                                         *)
(* Crashes, retries and duplicates are the subject of OrderService,        *)
(* PaymentService and RetryExecutor; here every step succeeds and every    *)
(* record is delivered once, so that only the data decide.                 *)
(***************************************************************************)
EXTENDS PaymentRules, Catalog, SequencesExt

CONSTANTS Orders,       (* the ids createOrder draws                               *)
          Requests,     (* the bodies clients post                                 *)
          Environments, (* the PAYMENT_* variables a deployment may have           *)
          Draws,        (* the values of Math.random, a subset of 0..99            *)
          MaxFinite,    (* the largest amount a JavaScript number can hold         *)
          MaxProbes     (* bound on the probes of verify-kafka-partitions.mjs      *)

(***************************************************************************)
(* What a client can post as far as JSON and the transforming pipe leave   *)
(* it open, and what an environment can hold.  Ids are uuids, which are    *)
(* neither empty nor blank.                                                *)
(***************************************************************************)
LineItem == [productId : STRING, quantity : Int, unitPrice : Int]
Bodies == [customerId : STRING, items : Seq(LineItem), currency : STRING, unknownProperty : BOOLEAN]
Environment ==
    [minAmount : RawNumber, maxAmount : RawNumber, maxItems : RawNumber, amountTolerance : RawNumber,
     failureRate : RawNumber, forceFailure : STRING]

ASSUME IntakeAssumption ==
    /\ Orders \cap {"empty", "blank"} = {}
    /\ Requests \subseteq Bodies /\ Requests # {}
    /\ Environments \subseteq Environment
    /\ Draws \subseteq 0..99
    /\ MaxFinite \in Nat /\ MaxProbes \in Nat

CURRENCIES == {"BRL", "USD", "EUR"}
EVENT_SCHEMA_VERSION == "1.0"
Consumers == {"payment", "stock", "order", "notification"}

VARIABLES
    env,           (* the environment payment-service was started with          *)
    status,        (* status[o]: "none", "refused" by the pipe, or "pending"    *)
    request,       (* request[o]: the body order o was made from                *)
    orderEvents,   (* the records of order.events                               *)
    paymentEvents, (* the records of payment.events                             *)
    outcomes,      (* outcomes[c]: what c made of each record it has read       *)
    probes

vars == <<env, status, request, orderEvents, paymentEvents, outcomes, probes, answer>>

Rules == ResolvePaymentBusinessRules(env)

------------------------------------------------------------------------------
(* Strings are "empty", "blank" (spaces only), or something to read. *)
MinLength1(s) == s # "empty"
NonEmptyString(s) == s \notin {"empty", "blank"}

(***************************************************************************)
(* CreateOrderDto and the ValidationPipe of main.ts: quantities are whole  *)
(* and positive, prices positive, and no property is unknown.              *)
(***************************************************************************)
AcceptsBody(body) ==
    /\ MinLength1(body.customerId)
    /\ body.items # <<>>
    /\ \A i \in DOMAIN body.items :
          LET item == body.items[i]
          IN  MinLength1(item.productId) /\ item.quantity >= 1 /\ item.unitPrice > 0
    /\ body.currency \in CURRENCIES \cup {"absent"}
    /\ ~body.unknownProperty

\* Mutant: the quantity is forgotten.
PricesOnly(items) == MapThenSumSet(LAMBDA i : items[i].unitPrice, DOMAIN items)

TotalAmount(items) == SumLineItems(items)

(* JSON has no word for Infinity: JSON.stringify writes null. *)
Null == -1

\* Mutant: amounts are written as they are.
AsAnything(amount) == amount

AsJson(amount) == IF amount > MaxFinite THEN Null ELSE amount

CreateEventEnvelope(type, orderId, payload) ==
    [kind |-> "envelope", eventType |-> type, version |-> EVENT_SCHEMA_VERSION,
     correlationId |-> orderId, payload |-> payload]

OrderCreated(o, body) ==
    CreateEventEnvelope("order.created", o,
        [orderId |-> o, customerId |-> body.customerId, items |-> body.items,
         totalAmount |-> AsJson(TotalAmount(body.items)),
         currency |-> IF body.currency = "absent" THEN "BRL" ELSE body.currency])

------------------------------------------------------------------------------
(* The parsers.  A body that is no envelope cannot be extracted. *)

ValidEventEnvelope(r, type) ==
    /\ r.eventType = type
    /\ r.version = EVENT_SCHEMA_VERSION

\* Mutant: a currency the order service sells in is unknown here.
TwoCurrencies(p) ==
    /\ NonEmptyString(p.customerId) /\ p.items # <<>> /\ p.totalAmount >= 0
    /\ \A i \in DOMAIN p.items : NonEmptyString(p.items[i].productId)
    /\ p.currency \in {"BRL", "USD"}

(* Unlike the pipe, the consumer trims strings before it looks at them. *)
ValidOrderCreatedPayload(p) ==
    /\ NonEmptyString(p.customerId)
    /\ p.items # <<>>
    /\ \A i \in DOMAIN p.items :
          LET item == p.items[i]
          IN  NonEmptyString(item.productId) /\ item.quantity > 0 /\ item.unitPrice >= 0
    /\ p.totalAmount >= 0
    /\ p.currency \in CURRENCIES

ParseOrderEventsMessage(r) ==
    IF r.kind # "envelope" THEN "invalid"
    ELSE IF r.eventType # "order.created" THEN "skipped"
    ELSE IF /\ ValidEventEnvelope(r, "order.created")
            /\ ValidOrderCreatedPayload(r.payload)
            /\ r.correlationId = r.payload.orderId
         THEN "order.created" ELSE "invalid"

ValidPaymentProcessedPayload(p) ==
    NonEmptyString(p.paymentId) /\ NonEmptyString(p.orderId) /\ NonEmptyString(p.transactionId)

ValidPaymentFailedPayload(p) ==
    NonEmptyString(p.paymentId) /\ NonEmptyString(p.orderId) /\ NonEmptyString(p.reason)

ParsePaymentProcessedMessage(r) ==
    IF r.eventType # "payment.processed" THEN "skipped"
    ELSE IF /\ ValidEventEnvelope(r, "payment.processed")
            /\ ValidPaymentProcessedPayload(r.payload)
            /\ r.correlationId = r.payload.orderId
         THEN "payment.processed" ELSE "invalid"

ParsePaymentFailedMessage(r) ==
    IF r.eventType # "payment.failed" THEN "skipped"
    ELSE IF /\ ValidEventEnvelope(r, "payment.failed")
            /\ ValidPaymentFailedPayload(r.payload)
            /\ r.correlationId = r.payload.orderId
         THEN "payment.failed" ELSE "invalid"

Parse(c, r) ==
    IF c = "stock" THEN ParsePaymentProcessedMessage(r) ELSE ParsePaymentFailedMessage(r)

------------------------------------------------------------------------------

PaymentProcessed(o, paymentId) ==
    CreateEventEnvelope("payment.processed", o,
        [paymentId |-> paymentId, orderId |-> o, transactionId |-> "transaction"])

\* Mutant: the envelope is correlated by the payment.
FailedByPayment(o, paymentId, why) ==
    CreateEventEnvelope("payment.failed", paymentId,
        [paymentId |-> paymentId, orderId |-> o, reason |-> why])

PaymentFailed(o, paymentId, why) ==
    CreateEventEnvelope("payment.failed", o,
        [paymentId |-> paymentId, orderId |-> o, reason |-> why])

Init ==
    /\ env \in Environments
    /\ status = [o \in Orders |-> "none"]
    /\ request = [o \in Orders |-> CHOOSE body \in Requests : TRUE]
    /\ orderEvents = <<>>
    /\ paymentEvents = <<>>
    /\ outcomes = [c \in Consumers |-> <<>>]
    /\ probes = 0
    /\ answer = NoAnswer

(* POST /orders with a good body: the row is saved and order.created published. *)
CreateOrder(o, body) ==
    /\ status[o] = "none"
    /\ AcceptsBody(body)
    /\ status' = [status EXCEPT ![o] = "pending"]
    /\ request' = [request EXCEPT ![o] = body]
    /\ orderEvents' = Append(orderEvents, OrderCreated(o, body))
    /\ UNCHANGED <<env, paymentEvents, outcomes, probes, answer>>

(* A bad body: 400, and no id was drawn; the slot only tells it apart. *)
RefuseOrder(o, body) ==
    /\ status[o] = "none"
    /\ ~AcceptsBody(body)
    /\ status' = [status EXCEPT ![o] = "refused"]
    /\ request' = [request EXCEPT ![o] = body]
    /\ UNCHANGED <<env, orderEvents, paymentEvents, outcomes, probes, answer>>

(* verify-kafka-partitions.mjs writes JSON that is no envelope to order.events. *)
ProduceWithKey ==
    /\ probes < MaxProbes
    /\ probes' = probes + 1
    /\ orderEvents' = Append(orderEvents, [kind |-> "probe"])
    /\ UNCHANGED <<env, status, request, paymentEvents, outcomes, answer>>

Unread(c, topic) == Len(outcomes[c]) < Len(topic)
NextRecord(c, topic) == topic[Len(outcomes[c]) + 1]
Note(c, outcome) == outcomes' = [outcomes EXCEPT ![c] = Append(@, outcome)]

(* handleOrderEvents: what is invalid or of another type is acknowledged. *)
AcknowledgeOrderEvent ==
    /\ Unread("payment", orderEvents)
    /\ ParseOrderEventsMessage(NextRecord("payment", orderEvents)) # "order.created"
    /\ Note("payment", ParseOrderEventsMessage(NextRecord("payment", orderEvents)))
    /\ UNCHANGED <<env, status, request, orderEvents, paymentEvents, probes, answer>>

(* processPayment: the rules, then the gateway; the verdict is published. *)
ProcessPayment ==
    LET order == NextRecord("payment", orderEvents).payload
    IN  /\ Unread("payment", orderEvents)
        /\ ParseOrderEventsMessage(NextRecord("payment", orderEvents)) = "order.created"
        /\ \/ /\ EvaluatePaymentRules(order, Rules) # {}
              /\ paymentEvents' = Append(paymentEvents, PaymentFailed(order.orderId, "payment", "business_rule"))
              /\ Note("payment", "failed")
           \/ /\ EvaluatePaymentRules(order, Rules) = {}
              /\ \E draw \in Draws : \E result \in SimulatePaymentGateway(draw, env) :
                    /\ paymentEvents' = Append(paymentEvents,
                          IF result.outcome = "failed"
                          THEN PaymentFailed(order.orderId, "payment", result.reason)
                          ELSE PaymentProcessed(order.orderId, "payment"))
                    /\ Note("payment", result.outcome)
        /\ UNCHANGED <<env, status, request, orderEvents, probes, answer>>

(* Stock, order and notification service read payment.events, each at its pace. *)
HandlePaymentEvents(c) ==
    /\ Unread(c, paymentEvents)
    /\ Note(c, Parse(c, NextRecord(c, paymentEvents)))
    /\ UNCHANGED <<env, status, request, orderEvents, paymentEvents, probes, answer>>

(* GET /events/catalog of any service, at any time. *)
AskForCatalog(s) ==
    /\ GetCatalog(s)
    /\ UNCHANGED <<env, status, request, orderEvents, paymentEvents, outcomes, probes>>

Next ==
    \/ \E o \in Orders, body \in Requests : CreateOrder(o, body) \/ RefuseOrder(o, body)
    \/ ProduceWithKey
    \/ AcknowledgeOrderEvent \/ ProcessPayment
    \/ \E c \in Consumers \ {"payment"} : HandlePaymentEvents(c)
    \/ \E s \in ServiceName : AskForCatalog(s)

Spec == Init /\ [][Next]_vars

------------------------------------------------------------------------------

(* Type invariant; no amount on the wire is one JSON cannot write. *)
TypeOK ==
    /\ env \in Environments
    /\ status \in [Orders -> {"none", "refused", "pending"}]
    /\ request \in [Orders -> Requests]
    /\ \A k \in DOMAIN orderEvents :
          orderEvents[k].kind = "envelope" =>
             /\ orderEvents[k].payload.orderId \in Orders
             /\ orderEvents[k].payload.totalAmount \in Null..MaxFinite
    /\ \A k \in DOMAIN paymentEvents :
          paymentEvents[k].eventType \in {"payment.processed", "payment.failed"}
    /\ \A k \in DOMAIN outcomes["payment"] :
          outcomes["payment"][k] \in {"invalid", "skipped", "failed", "approved"}
    /\ \A c \in Consumers \ {"payment"} : \A k \in DOMAIN outcomes[c] :
          outcomes[c][k] \in {"invalid", "skipped", "payment.processed", "payment.failed"}
    /\ probes \in 0..MaxProbes

Handled == DOMAIN outcomes["payment"]
BodyOf(k) == request[orderEvents[k].payload.orderId]
JudgedAs(k, outcome) == outcomes["payment"][k] = outcome

(***************************************************************************)
(* The trail that makes the properties inductive: every record of          *)
(* order.events is a probe or was made from an accepted body that its slot *)
(* still holds; every outcome of payment-service is one its record, the    *)
(* rules and some draw give; every verdict is about an order of this       *)
(* service; and nobody has read further than the topic goes.               *)
(***************************************************************************)
OrderTrail ==
    \A k \in DOMAIN orderEvents :
        \/ orderEvents[k] = [kind |-> "probe"]
        \/ \E o \in Orders :
              /\ status[o] = "pending" /\ AcceptsBody(request[o])
              /\ orderEvents[k] = OrderCreated(o, request[o])

Judgement(r, outcome) ==
    LET refused == EvaluatePaymentRules(r.payload, Rules)
    IN  IF ParseOrderEventsMessage(r) # "order.created"
        THEN outcome = ParseOrderEventsMessage(r)
        ELSE \/ outcome = "failed" /\ (refused # {} \/ \E draw \in Draws : ShouldFail(draw, env))
             \/ outcome = "approved" /\ refused = {} /\ \E draw \in Draws : ~ShouldFail(draw, env)

JudgeTrail ==
    /\ Len(outcomes["payment"]) <= Len(orderEvents)
    /\ \A k \in Handled : Judgement(orderEvents[k], outcomes["payment"][k])

Reasons == {"business_rule"} \cup PAYMENT_FAILURE_SCENARIOS
IsVerdict(r) ==
    \E o \in Orders : \/ r = PaymentProcessed(o, "payment")
                      \/ \E why \in Reasons : r = PaymentFailed(o, "payment", why)

VerdictTrail ==
    /\ \A k \in DOMAIN paymentEvents : IsVerdict(paymentEvents[k])
    /\ \A c \in Consumers \ {"payment"} : Len(outcomes[c]) <= Len(paymentEvents)

IntakeInv == OrderTrail /\ JudgeTrail /\ VerdictTrail

(***************************************************************************)
(* payment-service drops an accepted order, which then stays pending for   *)
(* good, only for a name made of spaces or a total no JSON can carry;      *)
(* whatever else the pipe lets through, the consumer can read.             *)
(***************************************************************************)
Names(body) == {body.customerId} \cup {body.items[i].productId : i \in DOMAIN body.items}
Stranded(body) == "blank" \in Names(body) \/ SumLineItems(body.items) > MaxFinite

OnlyTheseAreStranded ==
    \A k \in Handled :
        JudgedAs(k, "invalid") <=> orderEvents[k].kind = "probe" \/ Stranded(BodyOf(k))

(***************************************************************************)
(* The rules about the sum, the quantities and the prices never refuse an  *)
(* order the order service made: only the configured bounds do, and a      *)
(* tolerance that is set below zero, which no sum keeps.                   *)
(***************************************************************************)
NoSumIsTolerated == LessThan(Rules.amountTolerance, Numeric(0))
OnlyBoundsRefuse ==
    \A k \in Handled :
        ~JudgedAs(k, "invalid") =>
            EvaluatePaymentRules(orderEvents[k].payload, Rules)
               \subseteq {"MIN_AMOUNT", "MAX_AMOUNT", "MAX_ITEMS"}
                          \cup (IF NoSumIsTolerated THEN {"AMOUNT_MATCHES_ITEMS"} ELSE {})

(***************************************************************************)
(* What is approved keeps, by what the customer asked for, every bound     *)
(* that is set to a number or left to its default.                         *)
(***************************************************************************)
Stated(raw) == raw.kind \in {"unset", "number"}
Bound(raw, default) == IF raw.kind = "number" THEN raw.value ELSE default

ApprovedWithinBounds ==
    \A k \in Handled :
        JudgedAs(k, "approved") =>
            LET items == BodyOf(k).items
            IN  /\ Stated(env.minAmount) => SumLineItems(items) >= Bound(env.minAmount, 1)
                /\ Stated(env.maxAmount) => SumLineItems(items) <= Bound(env.maxAmount, 1000000)
                /\ Stated(env.maxItems) => Len(items) <= Bound(env.maxItems, 50)

(***************************************************************************)
(* A demo set to fail always approves nothing, one set to fail never fails *)
(* nothing but orders that break a rule, at the boundaries and for rates   *)
(* beyond them.                                                            *)
(***************************************************************************)
RateIsSet == env.failureRate.kind = "number"
SetToFail == env.forceFailure = "true" \/ (RateIsSet /\ env.failureRate.value >= 100)
SetToPass ==
    /\ env.forceFailure # "true"
    /\ env.failureRate.kind = "blank" \/ (RateIsSet /\ env.failureRate.value <= 0)

SettingsDecide ==
    \A k \in Handled :
        /\ SetToFail => ~JudgedAs(k, "approved")
        /\ SetToPass /\ JudgedAs(k, "failed") =>
              EvaluatePaymentRules(orderEvents[k].payload, Rules) # {}

(***************************************************************************)
(* Every verdict is taken by exactly the services the catalog lists for    *)
(* it: they find it valid, and the others on the topic skip it.            *)
(***************************************************************************)
VerdictsAreUnderstood ==
    \A c \in Consumers \ {"payment"} : \A k \in DOMAIN outcomes[c] :
        outcomes[c][k] =
            IF ServiceOf[c] \in GetCatalogEntry(paymentEvents[k].eventType).consumers
            THEN paymentEvents[k].eventType ELSE "skipped"
==============================================================================
