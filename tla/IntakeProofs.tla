----------------------------- MODULE IntakeProofs -----------------------------
(***************************************************************************)
(* Proofs about Intake, for any bodies, environments, draws and orders:    *)
(* what the checks along the way make of the data of an order.             *)
(***************************************************************************)
EXTENDS Intake, RetryConfig, CountingProofs, FiniteSetTheorems

------------------------------------------------------------------------------
(* The sum of the line items. *)

(* The element the fold of the community modules takes next. *)
First(s) == CHOOSE x \in s : TRUE

(* g gives every subset of S the sum of F over it, as that fold computes it. *)
SumsUp(g, S, F) ==
    /\ g \in [SUBSET S -> Nat]
    /\ \A s \in SUBSET S : g[s] = IF s = {} THEN 0 ELSE F[First(s)] + g[s \ {First(s)}]

(***************************************************************************)
(* The fold of the community modules, unfolded: for a finite S and numbers *)
(* F there is a function that sums them up, subset by subset.              *)
(***************************************************************************)
LEMMA SumExists ==
    ASSUME NEW S, IsFiniteSet(S), NEW F \in [S -> Nat]
    PROVE  \E g : SumsUp(g, S, F)
<1> DEFINE V == [SUBSET S -> Nat]
           next(v) == [s \in SUBSET S |-> IF s = {} THEN 0 ELSE F[First(s)] + v[s \ {First(s)}]]
           zero == [s \in SUBSET S |-> 0]
           step == [n \in Nat |-> [v \in V |-> next(v)]]
<1>1. \A s \in SUBSET S : s # {} => First(s) \in s
  BY DEF First
<1>2. ASSUME NEW v \in V PROVE next(v) \in V
  BY <1>1
<1>3. zero \in V /\ step \in [Nat -> [V -> V]]
  BY <1>2
<1>4. PICK h \in [Nat -> V] : h[0] = zero /\ \A n \in Nat : h[n + 1] = step[n][h[n]]
  <2> DEFINE R(W) == \A v \in W : \A st \in [Nat -> [W -> W]] :
                       \E h \in [Nat -> W] : h[0] = v /\ \A n \in Nat : h[n + 1] = st[n][h[n]]
  <2>1. \A W : R(W)
    BY Recursion, Zenon
  <2> HIDE DEF zero, step, V, R
  <2>2. R(V)
    BY <2>1
  <2> QED
    BY <1>3, <2>2 DEF R
<1>5. ASSUME NEW n \in Nat, NEW s \in SUBSET S, s # {}
      PROVE  h[n + 1][s] = F[First(s)] + h[n][s \ {First(s)}]
  <2>1. h[n] \in V /\ h[n + 1] = next(h[n])
    BY <1>4
  <2> QED
    BY <1>5, <2>1
<1> DEFINE g == [s \in SUBSET S |-> h[Cardinality(s)][s]]
<1>6. \A s \in SUBSET S : IsFiniteSet(s) /\ Cardinality(s) \in Nat
  BY FS_Subset, FS_CardinalityType
<1>7. g \in [SUBSET S -> Nat]
  BY <1>4, <1>6
<1>8. ASSUME NEW s \in SUBSET S
      PROVE  g[s] = IF s = {} THEN 0 ELSE F[First(s)] + g[s \ {First(s)}]
  <2>1. CASE s = {}
    <3>1. Cardinality(s) = 0
      BY <2>1, FS_EmptySet
    <3> QED
      BY <1>4, <2>1, <3>1
  <2>2. CASE s # {}
    <3>1. First(s) \in s /\ s \ {First(s)} \in SUBSET S
      BY <1>1, <2>2
    <3>2. /\ Cardinality(s \ {First(s)}) = Cardinality(s) - 1
          /\ Cardinality(s) \in Nat /\ Cardinality(s \ {First(s)}) \in Nat
      BY <1>6, <3>1, FS_RemoveElement
    <3>3. PICK n \in Nat : n = Cardinality(s \ {First(s)}) /\ n + 1 = Cardinality(s)
      BY <3>2
    <3>4. h[n + 1][s] = F[First(s)] + h[n][s \ {First(s)}]
      BY <1>5, <2>2
    <3> QED
      BY <2>2, <3>1, <3>3, <3>4
  <2> QED
    BY <2>1, <2>2
<1> HIDE DEF g
<1> QED
  BY <1>7, <1>8 DEF SumsUp

(* The sum of the line items of an order is a number if every product is one. *)
LEMMA SumOfLineItems ==
    ASSUME NEW items, IsFiniteSet(DOMAIN items),
           \A i \in DOMAIN items : items[i].quantity * items[i].unitPrice \in Nat
    PROVE  SumLineItems(items) \in Nat
<1> DEFINE S == DOMAIN items
           Total(i) == items[i].quantity * items[i].unitPrice
           IsSum(g) == g = [s \in SUBSET S |->
                              IF s = {} THEN 0 ELSE Total(First(s)) + g[s \ {First(s)}]]
<1>1. PICK g : IsSum(g) /\ SumLineItems(items) = g[S]
  <2>1. \E g : IsSum(g)
    <3> DEFINE F == [i \in S |-> Total(i)]
    <3>1. F \in [S -> Nat] /\ IsFiniteSet(S)
      OBVIOUS
    <3>2. \A s \in SUBSET S : s # {} => F[First(s)] = Total(First(s))
      <4>1. \A s \in SUBSET S : s # {} => First(s) \in S
        BY DEF First
      <4> HIDE DEF Total
      <4> QED
        BY <4>1
    <3> HIDE DEF F, S, Total
    <3>3. PICK g : SumsUp(g, S, F)
      BY <3>1, SumExists
    <3>4. \A s \in SUBSET S :
              g[s] = IF s = {} THEN 0 ELSE Total(First(s)) + g[s \ {First(s)}]
      BY <3>2, <3>3 DEF SumsUp
    <3>5. g = [s \in SUBSET S |-> IF s = {} THEN 0 ELSE Total(First(s)) + g[s \ {First(s)}]]
      BY <3>3, <3>4 DEF SumsUp
    <3> QED
      BY <3>5
  <2> QED
    BY <2>1, Zenon DEF First, SumLineItems, MapThenSumSet, MapThenFoldSet
<1>2. \A s \in SUBSET S : /\ s # {} => First(s) \in s /\ Total(First(s)) \in Nat
                         /\ g[s] = IF s = {} THEN 0 ELSE Total(First(s)) + g[s \ {First(s)}]
  <2>1. \A s \in SUBSET S : s # {} => First(s) \in s
    BY DEF First
  <2>2. \A i \in S : Total(i) \in Nat
    OBVIOUS
  <2> HIDE DEF Total
  <2> QED
    BY <1>1, <2>1, <2>2
<1> HIDE DEF Total
<1> DEFINE Known(n) == \A s \in SUBSET S : Cardinality(s) = n => g[s] \in Nat
           T == {n \in Nat : Known(n)}
<1>3. \A s \in SUBSET S : IsFiniteSet(s) /\ Cardinality(s) \in Nat
  BY FS_Subset, FS_CardinalityType
<1>4. Known(0)
  BY <1>2, <1>3, FS_EmptySet
<1>5. ASSUME NEW n \in Nat, Known(n) PROVE Known(n + 1)
  <2> SUFFICES ASSUME NEW s \in SUBSET S, Cardinality(s) = n + 1 PROVE g[s] \in Nat
    OBVIOUS
  <2>1. s # {}
    BY FS_EmptySet
  <2>2. First(s) \in s /\ Total(First(s)) \in Nat /\ s \ {First(s)} \in SUBSET S
    BY <1>2, <2>1
  <2>3. Cardinality(s \ {First(s)}) = n
    BY <1>3, <2>2, FS_RemoveElement
  <2>4. g[s \ {First(s)}] \in Nat
    BY <1>5, <2>2, <2>3
  <2>5. g[s] = Total(First(s)) + g[s \ {First(s)}]
    BY <1>2, <2>1
  <2> QED
    BY <2>2, <2>4, <2>5
<1>6. \A n \in Nat : n \in T
  <2> HIDE DEF Known
  <2>1. 0 \in T /\ \A n \in T : n + 1 \in T
    BY <1>4, <1>5
  <2>2. T \in SUBSET Nat
    OBVIOUS
  <2> HIDE DEF T
  <2> QED
    BY <2>1, <2>2, Induction
<1>7. Known(Cardinality(S))
  BY <1>3, <1>6
<1> QED
  BY <1>1, <1>7

(* A quantity and a price that are not negative have a product that is not. *)
LEMMA ProductIsNat ==
    ASSUME NEW q \in Nat, NEW p \in Nat
    PROVE  q * p \in Nat
<1> DEFINE T == {n \in Nat : n * p \in Nat}
<1>1. 0 \in T
  OBVIOUS
<1>2. \A n \in T : n + 1 \in T
  OBVIOUS
<1>3. T \in SUBSET Nat
  OBVIOUS
<1>4. \A n \in Nat : n \in T
  <2> HIDE DEF T
  <2> QED
    BY <1>1, <1>2, <1>3, Induction
<1> QED
  BY <1>4

(* What the pipe accepts adds up to a number. *)
LEMMA AcceptedSum ==
    ASSUME NEW body \in Bodies, AcceptsBody(body)
    PROVE  /\ SumLineItems(body.items) \in Nat
           /\ body.items \in Seq(LineItem) /\ body.items # <<>>
           /\ \A i \in DOMAIN body.items :
                 /\ body.items[i].quantity \in Nat /\ body.items[i].quantity > 0
                 /\ body.items[i].unitPrice \in Nat
                 /\ body.items[i].productId # "empty"
<1>1. body.items \in Seq(LineItem) /\ body.items # <<>>
  BY DEF Bodies, AcceptsBody
<1>2. ASSUME NEW i \in DOMAIN body.items
      PROVE  /\ body.items[i].quantity \in Nat /\ body.items[i].quantity > 0
             /\ body.items[i].unitPrice \in Nat
             /\ body.items[i].productId # "empty"
  <2>1. body.items[i] \in LineItem
    BY <1>1
  <2>2. /\ MinLength1(body.items[i].productId)
        /\ body.items[i].quantity >= 1 /\ body.items[i].unitPrice > 0
    BY DEF AcceptsBody
  <2> QED
    BY <2>1, <2>2 DEF LineItem, MinLength1
<1>3. IsFiniteSet(DOMAIN body.items)
  <2>1. Len(body.items) \in Nat /\ DOMAIN body.items = 1..Len(body.items)
    BY <1>1
  <2>2. IsFiniteSet(1..Len(body.items))
    BY <2>1, FS_Interval
  <2> QED
    BY <2>1, <2>2
<1>4. \A i \in DOMAIN body.items : body.items[i].quantity * body.items[i].unitPrice \in Nat
  BY <1>2, ProductIsNat
<1>5. SumLineItems(body.items) \in Nat
  BY <1>3, <1>4, SumOfLineItems
<1> QED
  BY <1>1, <1>2, <1>5

------------------------------------------------------------------------------
(* The envelope of an order, and what its reader makes of it. *)

(* The fields of order.created. *)
LEMMA CreatedFields ==
    ASSUME NEW o, NEW body
    PROVE  LET r == OrderCreated(o, body)
           IN  /\ r.kind = "envelope" /\ r.eventType = "order.created" /\ r.version = EVENT_SCHEMA_VERSION
               /\ r.correlationId = o /\ r.payload.orderId = o
               /\ r.payload.customerId = body.customerId /\ r.payload.items = body.items
               /\ r.payload.totalAmount = AsJson(SumLineItems(body.items))
               /\ r.payload.currency = IF body.currency = "absent" THEN "BRL" ELSE body.currency
  BY DEF OrderCreated, CreateEventEnvelope, TotalAmount

(* The amount on the wire is negative exactly if the sum is too large for JSON. *)
LEMMA AmountOnTheWire ==
    ASSUME NEW n \in Nat
    PROVE  /\ AsJson(n) \in Null..MaxFinite
           /\ AsJson(n) >= 0 <=> n <= MaxFinite
           /\ n <= MaxFinite => AsJson(n) = n
           /\ n > MaxFinite <=> ~(n <= MaxFinite)
  BY IntakeAssumption DEF AsJson, Null

(* payment-service reads the envelope of an accepted body unless the body is stranded. *)
LEMMA ReadOrStranded ==
    ASSUME NEW o, NEW body \in Bodies, AcceptsBody(body)
    PROVE  ParseOrderEventsMessage(OrderCreated(o, body))
             = IF Stranded(body) THEN "invalid" ELSE "order.created"
<1> DEFINE r == OrderCreated(o, body)
           p == r.payload
<1>1. /\ r.kind = "envelope" /\ r.eventType = "order.created" /\ r.version = EVENT_SCHEMA_VERSION
      /\ r.correlationId = o /\ p.orderId = o
      /\ p.customerId = body.customerId /\ p.items = body.items
      /\ p.totalAmount = AsJson(SumLineItems(body.items))
      /\ p.currency = IF body.currency = "absent" THEN "BRL" ELSE body.currency
  BY CreatedFields
<1> HIDE DEF r
<1>2. /\ SumLineItems(body.items) \in Nat /\ body.items # <<>>
      /\ \A i \in DOMAIN body.items :
            /\ body.items[i].quantity \in Nat /\ body.items[i].quantity > 0
            /\ body.items[i].unitPrice \in Nat
            /\ body.items[i].productId # "empty"
  BY AcceptedSum
<1>3. p.totalAmount >= 0 <=> ~(SumLineItems(body.items) > MaxFinite)
  BY <1>1, <1>2, AmountOnTheWire
<1>4. body.customerId # "empty" /\ p.currency \in CURRENCIES
  BY <1>1 DEF AcceptsBody, MinLength1, CURRENCIES
<1>5. ValidOrderCreatedPayload(p)
        <=> /\ body.customerId # "blank"
            /\ \A i \in DOMAIN body.items : body.items[i].productId # "blank"
            /\ ~(SumLineItems(body.items) > MaxFinite)
  <2>1. NonEmptyString(p.customerId) <=> body.customerId # "blank"
    BY <1>1, <1>4 DEF NonEmptyString
  <2>2. ASSUME NEW i \in DOMAIN body.items
        PROVE  (/\ NonEmptyString(p.items[i].productId)
                /\ p.items[i].quantity > 0 /\ p.items[i].unitPrice >= 0)
                  <=> body.items[i].productId # "blank"
    BY <1>1, <1>2 DEF NonEmptyString
  <2> QED
    BY <1>1, <1>2, <1>3, <1>4, <2>1, <2>2 DEF ValidOrderCreatedPayload
<1>6. Stranded(body)
        <=> \/ body.customerId = "blank"
            \/ \E i \in DOMAIN body.items : body.items[i].productId = "blank"
            \/ SumLineItems(body.items) > MaxFinite
  BY DEF Stranded, Names
<1>7. ParseOrderEventsMessage(r) = IF ValidOrderCreatedPayload(p) THEN "order.created" ELSE "invalid"
  BY <1>1 DEF ParseOrderEventsMessage, ValidEventEnvelope
<1> QED
  BY <1>5, <1>6, <1>7 DEF r

(* A probe is no envelope. *)
LEMMA ProbeIsInvalid == ParseOrderEventsMessage([kind |-> "probe"]) = "invalid"
  BY DEF ParseOrderEventsMessage

------------------------------------------------------------------------------
(* The business rules and the gateway. *)

(* Which rules an order breaks. *)
LEMMA RuleBook ==
    ASSUME NEW order, NEW config
    PROVE  LET broken == EvaluatePaymentRules(order, config)
           IN  /\ broken \subseteq {"MIN_AMOUNT", "MAX_AMOUNT", "NON_EMPTY_ITEMS", "MAX_ITEMS",
                                    "AMOUNT_MATCHES_ITEMS", "POSITIVE_QUANTITY", "NON_NEGATIVE_PRICE"}
               /\ "MIN_AMOUNT" \in broken <=> LessThan(Numeric(order.totalAmount), config.minAmount)
               /\ "MAX_AMOUNT" \in broken <=> LessThan(config.maxAmount, Numeric(order.totalAmount))
               /\ "NON_EMPTY_ITEMS" \in broken <=> order.items = <<>>
               /\ "MAX_ITEMS" \in broken <=> TooManyItems(order, config)
               /\ "AMOUNT_MATCHES_ITEMS" \in broken
                    <=> LessThan(config.amountTolerance, Numeric(Drift(order)))
               /\ "POSITIVE_QUANTITY" \in broken
                    <=> \E i \in DOMAIN order.items : order.items[i].quantity <= 0
               /\ "NON_NEGATIVE_PRICE" \in broken
                    <=> \E i \in DOMAIN order.items : order.items[i].unitPrice < 0
  BY DEF EvaluatePaymentRules

(* A variable that was resolved is a number or none. *)
LEMMA Resolved ==
    ASSUME NEW raw \in RawNumber, NEW default \in Int
    PROVE  /\ raw.kind = "unset" => NumberOf(raw, default) = Numeric(default)
           /\ raw.kind = "blank" => NumberOf(raw, default) = Numeric(0)
           /\ raw.kind = "garbage" => NumberOf(raw, default).kind = "garbage"
           /\ raw.kind = "number" => NumberOf(raw, default) = Numeric(raw.value) /\ raw.value \in Int
  BY DEF RawNumber, NumberOf, OrElse, ToNumber, Numeric

(* Comparing with a number. *)
LEMMA Compared ==
    ASSUME NEW a \in Int, NEW b \in Int
    PROVE  LessThan(Numeric(a), Numeric(b)) <=> a < b
  BY DEF LessThan, Numeric

------------------------------------------------------------------------------
(* The topics and the outcomes are sequences of records of several shapes. *)

IsList(s) == \E S : s \in Seq(S)

(* What appending to a list changes: nothing before its end, one element after. *)
LEMMA AppendToList ==
    ASSUME NEW s, IsList(s), NEW r
    PROVE  /\ IsList(Append(s, r))
           /\ Len(s) \in Nat /\ DOMAIN s = 1..Len(s)
           /\ Len(Append(s, r)) = Len(s) + 1 /\ DOMAIN Append(s, r) = 1..(Len(s) + 1)
           /\ \A k \in 1..Len(s) : Append(s, r)[k] = s[k]
           /\ Append(s, r)[Len(s) + 1] = r
<1>1. PICK S : s \in Seq(S)
  BY DEF IsList
<1> DEFINE V == S \cup {r}
<1>2. s \in Seq(V) /\ r \in V
  BY <1>1
<1> HIDE DEF V
<1>3. Append(s, r) \in Seq(V)
  BY <1>2
<1> QED
  BY <1>2, <1>3 DEF IsList

Lists ==
    /\ IsList(orderEvents) /\ IsList(paymentEvents)
    /\ DOMAIN outcomes = Consumers /\ \A c \in Consumers : IsList(outcomes[c])

(* The length and the domain of each of them. *)
LEMMA ListLengths ==
    ASSUME Lists
    PROVE  /\ Len(orderEvents) \in Nat /\ DOMAIN orderEvents = 1..Len(orderEvents)
           /\ Len(paymentEvents) \in Nat /\ DOMAIN paymentEvents = 1..Len(paymentEvents)
           /\ \A c \in Consumers : Len(outcomes[c]) \in Nat /\ DOMAIN outcomes[c] = 1..Len(outcomes[c])
  BY AppendToList DEF Lists

------------------------------------------------------------------------------
(* What the trail says of a record payment-service is through with. *)

(* The outcome fits the body the record was made from. *)
JudgedBody(k, o, body) ==
    /\ orderEvents[k] = OrderCreated(o, body)
    /\ body \in Bodies /\ AcceptsBody(body) /\ BodyOf(k) = body
    /\ IF Stranded(body) THEN JudgedAs(k, "invalid")
       ELSE /\ SumLineItems(body.items) <= MaxFinite
            /\ \/ /\ JudgedAs(k, "failed")
                  /\ \/ EvaluatePaymentRules(orderEvents[k].payload, Rules) # {}
                     \/ \E draw \in Draws : ShouldFail(draw, env)
               \/ /\ JudgedAs(k, "approved")
                  /\ EvaluatePaymentRules(orderEvents[k].payload, Rules) = {}
                  /\ \E draw \in Draws : ~ShouldFail(draw, env)

(* It was a probe, or made from a body. *)
LEMMA JudgedRecord ==
    ASSUME TypeOK, Lists, OrderTrail, JudgeTrail, NEW k \in Handled
    PROVE  \/ orderEvents[k] = [kind |-> "probe"] /\ JudgedAs(k, "invalid")
           \/ \E o \in Orders, body \in Bodies : JudgedBody(k, o, body)
<1>1. k \in DOMAIN orderEvents
  BY ListLengths DEF JudgeTrail, Handled, Consumers
<1> DEFINE r == orderEvents[k]
           x == outcomes["payment"][k]
<1>2. Judgement(r, x)
  BY DEF JudgeTrail
<1>3. CASE r = [kind |-> "probe"]
  <2>1. ParseOrderEventsMessage(r) = "invalid"
    BY <1>3, ProbeIsInvalid
  <2> HIDE DEF r
  <2>2. x = "invalid"
    BY <1>2, <2>1 DEF Judgement
  <2> QED
    BY <1>3, <2>2 DEF JudgedAs, r
<1>4. ASSUME NEW o \in Orders, AcceptsBody(request[o]), r = OrderCreated(o, request[o])
      PROVE  \E i \in Orders, body \in Bodies : JudgedBody(k, i, body)
  <2>1. PICK body : body = request[o]
    OBVIOUS
  <2>2. body \in Bodies /\ AcceptsBody(body) /\ r = OrderCreated(o, body)
    BY <1>4, <2>1, IntakeAssumption DEF TypeOK
  <2>3. BodyOf(k) = body
    <3>1. r.payload.orderId = o
      BY <2>2, CreatedFields
    <3> QED
      BY <2>1, <3>1 DEF BodyOf
  <2>4. ParseOrderEventsMessage(r) = IF Stranded(body) THEN "invalid" ELSE "order.created"
    BY <2>2, ReadOrStranded
  <2>5. ~Stranded(body) => SumLineItems(body.items) <= MaxFinite
    <3>1. SumLineItems(body.items) \in Nat
      BY <2>2, AcceptedSum
    <3> QED
      BY <3>1, IntakeAssumption DEF Stranded
  <2> HIDE DEF r, x
  <2>6. IF Stranded(body) THEN x = "invalid"
        ELSE \/ x = "failed" /\ \/ EvaluatePaymentRules(r.payload, Rules) # {}
                                \/ \E draw \in Draws : ShouldFail(draw, env)
             \/ /\ x = "approved" /\ EvaluatePaymentRules(r.payload, Rules) = {}
                /\ \E draw \in Draws : ~ShouldFail(draw, env)
    BY <1>2, <2>4 DEF Judgement
  <2>7. JudgedBody(k, o, body)
    BY <2>2, <2>3, <2>5, <2>6 DEF JudgedBody, JudgedAs, r, x
  <2> QED
    BY <2>2, <2>7
<1> QED
  BY <1>1, <1>3, <1>4 DEF OrderTrail

(* So only a blank name or a sum beyond JSON strands an accepted order ... *)
LEMMA StrandedFollows ==
    ASSUME TypeOK, Lists, IntakeInv
    PROVE  OnlyTheseAreStranded
<1> SUFFICES ASSUME NEW k \in Handled
             PROVE  JudgedAs(k, "invalid") <=> orderEvents[k].kind = "probe" \/ Stranded(BodyOf(k))
  BY DEF OnlyTheseAreStranded
<1>1. CASE orderEvents[k] = [kind |-> "probe"] /\ JudgedAs(k, "invalid")
  BY <1>1
<1>2. ASSUME NEW o \in Orders, NEW body \in Bodies, JudgedBody(k, o, body)
      PROVE  JudgedAs(k, "invalid") <=> orderEvents[k].kind = "probe" \/ Stranded(BodyOf(k))
  <2>1. orderEvents[k].kind = "envelope" /\ BodyOf(k) = body
    BY <1>2, CreatedFields DEF JudgedBody
  <2>2. JudgedAs(k, "invalid") <=> Stranded(body)
    BY <1>2 DEF JudgedBody, JudgedAs
  <2> QED
    BY <2>1, <2>2
<1> QED
  BY <1>1, <1>2, JudgedRecord DEF IntakeInv

(* ... only the bounds refuse one ... *)
LEMMA RefusedFollows ==
    ASSUME TypeOK, Lists, IntakeInv
    PROVE  OnlyBoundsRefuse
<1> SUFFICES ASSUME NEW k \in Handled, ~JudgedAs(k, "invalid")
             PROVE  EvaluatePaymentRules(orderEvents[k].payload, Rules)
                       \subseteq {"MIN_AMOUNT", "MAX_AMOUNT", "MAX_ITEMS"}
                          \cup (IF NoSumIsTolerated THEN {"AMOUNT_MATCHES_ITEMS"} ELSE {})
  BY DEF OnlyBoundsRefuse
<1>1. PICK o \in Orders, body \in Bodies : JudgedBody(k, o, body)
  BY JudgedRecord DEF IntakeInv
<1>2. PICK order : order = orderEvents[k].payload
  OBVIOUS
<1>3. /\ AcceptsBody(body) /\ SumLineItems(body.items) <= MaxFinite
      /\ order.items = body.items /\ order.totalAmount = AsJson(SumLineItems(body.items))
  BY <1>1, <1>2, CreatedFields DEF JudgedBody
<1>4. /\ SumLineItems(body.items) \in Nat /\ body.items # <<>>
      /\ \A i \in DOMAIN body.items :
            /\ body.items[i].quantity \in Nat /\ body.items[i].quantity > 0
            /\ body.items[i].unitPrice \in Nat
  BY <1>3, AcceptedSum
<1>5. Drift(order) = 0
  <2>1. order.totalAmount = SumLineItems(body.items)
    BY <1>3, <1>4, AmountOnTheWire
  <2>2. SumLineItems(order.items) - order.totalAmount = 0
    BY <1>3, <1>4, <2>1
  <2> QED
    BY <2>2 DEF Drift
<1> DEFINE broken == EvaluatePaymentRules(order, Rules)
<1>6. broken \subseteq {"MIN_AMOUNT", "MAX_AMOUNT", "NON_EMPTY_ITEMS", "MAX_ITEMS",
                        "AMOUNT_MATCHES_ITEMS", "POSITIVE_QUANTITY", "NON_NEGATIVE_PRICE"}
  BY RuleBook
<1>7. "NON_EMPTY_ITEMS" \notin broken
  BY <1>3, <1>4, RuleBook
<1>8. "AMOUNT_MATCHES_ITEMS" \in broken => NoSumIsTolerated
  BY <1>5, RuleBook DEF NoSumIsTolerated
<1>9. "POSITIVE_QUANTITY" \notin broken /\ "NON_NEGATIVE_PRICE" \notin broken
  <2>1. \A i \in DOMAIN order.items : ~(order.items[i].quantity <= 0) /\ ~(order.items[i].unitPrice < 0)
    BY <1>3, <1>4
  <2> QED
    BY <2>1, RuleBook
<1> HIDE DEF broken
<1>10. broken \subseteq {"MIN_AMOUNT", "MAX_AMOUNT", "MAX_ITEMS"}
                          \cup (IF NoSumIsTolerated THEN {"AMOUNT_MATCHES_ITEMS"} ELSE {})
  BY <1>6, <1>7, <1>8, <1>9
<1> QED
  BY <1>2, <1>10 DEF broken

(* A bound that is stated is a number. *)
LEMMA BoundIsNumber ==
    ASSUME NEW raw \in RawNumber, NEW default \in Int, Stated(raw)
    PROVE  Bound(raw, default) \in Int /\ NumberOf(raw, default) = Numeric(Bound(raw, default))
<1>1. CASE raw.kind = "unset"
  BY <1>1, Resolved DEF Bound
<1>2. CASE raw.kind = "number"
  BY <1>2, Resolved DEF Bound
<1> QED
  BY <1>1, <1>2 DEF Stated

(* ... and what is approved keeps the bounds, by what the customer asked for. *)
LEMMA ApprovedFollows ==
    ASSUME TypeOK, Lists, IntakeInv
    PROVE  ApprovedWithinBounds
<1> SUFFICES ASSUME NEW k \in Handled, JudgedAs(k, "approved")
             PROVE  /\ Stated(env.minAmount) =>
                          SumLineItems(BodyOf(k).items) >= Bound(env.minAmount, 1)
                    /\ Stated(env.maxAmount) =>
                          SumLineItems(BodyOf(k).items) <= Bound(env.maxAmount, 1000000)
                    /\ Stated(env.maxItems) => Len(BodyOf(k).items) <= Bound(env.maxItems, 50)
  BY DEF ApprovedWithinBounds
<1>1. PICK o \in Orders, body \in Bodies : JudgedBody(k, o, body)
  <2>1. ~JudgedAs(k, "invalid")
    BY DEF JudgedAs
  <2> QED
    BY <2>1, JudgedRecord DEF IntakeInv
<1>2. PICK order : order = orderEvents[k].payload
  OBVIOUS
<1>3. /\ AcceptsBody(body) /\ SumLineItems(body.items) <= MaxFinite /\ BodyOf(k) = body
      /\ order.items = body.items /\ order.totalAmount = AsJson(SumLineItems(body.items))
      /\ EvaluatePaymentRules(order, Rules) = {}
  BY <1>1, <1>2, CreatedFields DEF JudgedBody, JudgedAs
<1>4. SumLineItems(body.items) \in Nat /\ Len(body.items) \in Nat
      /\ order.totalAmount = SumLineItems(body.items)
  BY <1>3, AcceptedSum, AmountOnTheWire
<1>5. /\ ~LessThan(Numeric(order.totalAmount), Rules.minAmount)
      /\ ~LessThan(Rules.maxAmount, Numeric(order.totalAmount))
      /\ ~LessThan(Rules.maxItems, Numeric(Len(order.items)))
  BY <1>3, RuleBook DEF TooManyItems
<1>6. /\ env.minAmount \in RawNumber /\ env.maxAmount \in RawNumber /\ env.maxItems \in RawNumber
  BY IntakeAssumption DEF TypeOK, Environment
<1>7. /\ Rules.minAmount = NumberOf(env.minAmount, 1)
      /\ Rules.maxAmount = NumberOf(env.maxAmount, 1000000)
      /\ Rules.maxItems = NumberOf(env.maxItems, 50)
  BY DEF Rules, ResolvePaymentBusinessRules
<1>8. Stated(env.minAmount) => SumLineItems(body.items) >= Bound(env.minAmount, 1)
  <2> SUFFICES ASSUME Stated(env.minAmount) PROVE SumLineItems(body.items) >= Bound(env.minAmount, 1)
    OBVIOUS
  <2>1. /\ Bound(env.minAmount, 1) \in Int
        /\ ~LessThan(Numeric(SumLineItems(body.items)), Numeric(Bound(env.minAmount, 1)))
    BY <1>4, <1>5, <1>6, <1>7, BoundIsNumber
  <2>2. ~(SumLineItems(body.items) < Bound(env.minAmount, 1))
    BY <1>4, <2>1, Compared
  <2> QED
    BY <1>4, <2>1, <2>2
<1>9. Stated(env.maxAmount) => SumLineItems(body.items) <= Bound(env.maxAmount, 1000000)
  <2> SUFFICES ASSUME Stated(env.maxAmount)
               PROVE  SumLineItems(body.items) <= Bound(env.maxAmount, 1000000)
    OBVIOUS
  <2>1. /\ Bound(env.maxAmount, 1000000) \in Int
        /\ ~LessThan(Numeric(Bound(env.maxAmount, 1000000)), Numeric(SumLineItems(body.items)))
    BY <1>4, <1>5, <1>6, <1>7, BoundIsNumber
  <2>2. ~(Bound(env.maxAmount, 1000000) < SumLineItems(body.items))
    BY <1>4, <2>1, Compared
  <2> QED
    BY <1>4, <2>1, <2>2
<1>10. Stated(env.maxItems) => Len(body.items) <= Bound(env.maxItems, 50)
  <2> SUFFICES ASSUME Stated(env.maxItems) PROVE Len(body.items) <= Bound(env.maxItems, 50)
    OBVIOUS
  <2>1. /\ Bound(env.maxItems, 50) \in Int
        /\ ~LessThan(Numeric(Bound(env.maxItems, 50)), Numeric(Len(body.items)))
    BY <1>3, <1>5, <1>6, <1>7, BoundIsNumber
  <2>2. ~(Bound(env.maxItems, 50) < Len(body.items))
    BY <1>4, <2>1, Compared
  <2> QED
    BY <1>4, <2>1, <2>2
<1> QED
  BY <1>3, <1>8, <1>9, <1>10

(* How the failure rate compares with the draws, by the variable it is read from. *)
LEMMA RateOf ==
    ASSUME env.failureRate \in RawNumber, NEW draw \in 0..99
    PROVE  /\ SetToFail => ShouldFail(draw, env)
           /\ SetToPass => ~ShouldFail(draw, env)
<1> DEFINE raw == env.failureRate
           n == NumberOf(raw, 20)
<1>1. ASSUME env.forceFailure # "true", raw.kind = "number", raw.value >= 100 PROVE draw < ResolvePaymentFailureRate(env)
  <2>1. n = Numeric(raw.value) /\ raw.value \in Int
    BY <1>1, Resolved
  <2>2. n.kind = "number" /\ n.value = raw.value
    BY <2>1 DEF Numeric
  <2>3. ResolvePaymentFailureRate(env) = IF raw.value > 100 THEN 100 ELSE raw.value
    <3> HIDE DEF n, raw
    <3> QED
      BY <1>1, <2>1, <2>2 DEF ResolvePaymentFailureRate, n, raw
  <2> QED
    BY <1>1, <2>1, <2>3
<1>2. ASSUME raw.kind = "number", raw.value <= 0 PROVE ~(draw < ResolvePaymentFailureRate(env))
  <2>1. n = Numeric(raw.value) /\ raw.value \in Int
    BY <1>2, Resolved
  <2>2. n.kind = "number" /\ n.value = raw.value
    BY <2>1 DEF Numeric
  <2>3. ResolvePaymentFailureRate(env) = 0
    BY <1>2, <2>1, <2>2 DEF ResolvePaymentFailureRate
  <2> QED
    BY <2>3
<1>3. ASSUME raw.kind = "blank" PROVE ~(draw < ResolvePaymentFailureRate(env))
  <2>1. n.kind = "number" /\ n.value = 0
    BY <1>3, Resolved DEF Numeric
  <2>2. ResolvePaymentFailureRate(env) = 0
    BY <2>1 DEF ResolvePaymentFailureRate
  <2> QED
    BY <2>2
<1>4. SetToFail => ShouldFail(draw, env)
  BY <1>1 DEF SetToFail, RateIsSet, ShouldFail, IsPaymentForceFailureEnabled
<1>5. SetToPass => ~ShouldFail(draw, env)
  BY <1>2, <1>3 DEF SetToPass, RateIsSet, ShouldFail, IsPaymentForceFailureEnabled
<1> QED
  BY <1>4, <1>5

(* ... and the settings of a demo decide. *)
LEMMA SettingsFollow ==
    ASSUME TypeOK, Lists, IntakeInv
    PROVE  SettingsDecide
<1> SUFFICES ASSUME NEW k \in Handled
             PROVE  /\ SetToFail => ~JudgedAs(k, "approved")
                    /\ SetToPass /\ JudgedAs(k, "failed") =>
                          EvaluatePaymentRules(orderEvents[k].payload, Rules) # {}
  BY DEF SettingsDecide
<1>1. env.failureRate \in RawNumber /\ Draws \subseteq 0..99
  BY IntakeAssumption DEF TypeOK, Environment
<1>2. \A draw \in Draws : (SetToFail => ShouldFail(draw, env)) /\ (SetToPass => ~ShouldFail(draw, env))
  BY <1>1, RateOf
<1>3. CASE JudgedAs(k, "invalid")
  BY <1>3 DEF JudgedAs
<1>4. CASE ~JudgedAs(k, "invalid")
  <2>1. PICK o \in Orders, body \in Bodies : JudgedBody(k, o, body)
    BY <1>4, JudgedRecord DEF IntakeInv
  <2>2. \/ JudgedAs(k, "failed") /\ ~JudgedAs(k, "approved")
           /\ \/ EvaluatePaymentRules(orderEvents[k].payload, Rules) # {}
              \/ \E draw \in Draws : ShouldFail(draw, env)
        \/ JudgedAs(k, "approved") /\ ~JudgedAs(k, "failed")
           /\ \E draw \in Draws : ~ShouldFail(draw, env)
    BY <1>4, <2>1 DEF JudgedBody, JudgedAs
  <2> QED
    BY <1>2, <2>2
<1> QED
  BY <1>3, <1>4

------------------------------------------------------------------------------
(* The verdicts and their readers. *)

(* Which services the catalog lists for a verdict. *)
LEMMA CatalogOfVerdicts ==
    /\ GetCatalogEntry("payment.processed").consumers = {"stock-service"}
    /\ GetCatalogEntry("payment.failed").consumers = {"order-service", "notification-service"}
<1>1. ASSUME NEW type, NEW services, NEW entry \in EVENT_CATALOG, entry.eventType = type,
             \A e \in EVENT_CATALOG : e.eventType = type => e.consumers = services
      PROVE  GetCatalogEntry(type).consumers = services
  BY <1>1 DEF GetCatalogEntry
<1>2. GetCatalogEntry("payment.processed").consumers = {"stock-service"}
  <2> DEFINE entry == Entry("payment.processed", "payment.events", "payment-service", {"stock-service"})
  <2>1. entry \in EVENT_CATALOG /\ entry.eventType = "payment.processed"
    BY DEF EVENT_CATALOG, Entry
  <2>2. \A e \in EVENT_CATALOG : e.eventType = "payment.processed" => e.consumers = {"stock-service"}
    BY DEF EVENT_CATALOG, Entry
  <2> HIDE DEF entry
  <2> QED
    BY <1>1, <2>1, <2>2
<1>3. GetCatalogEntry("payment.failed").consumers = {"order-service", "notification-service"}
  <2> DEFINE entry == Entry("payment.failed", "payment.events", "payment-service",
                            {"order-service", "notification-service"})
  <2>1. entry \in EVENT_CATALOG /\ entry.eventType = "payment.failed"
    BY DEF EVENT_CATALOG, Entry
  <2>2. \A e \in EVENT_CATALOG :
           e.eventType = "payment.failed" => e.consumers = {"order-service", "notification-service"}
    BY DEF EVENT_CATALOG, Entry
  <2> HIDE DEF entry
  <2> QED
    BY <1>1, <2>1, <2>2
<1> QED
  BY <1>2, <1>3

(* What the catalog makes of a record for a reader of payment.events. *)
Expected(c, r) ==
    IF ServiceOf[c] \in GetCatalogEntry(r.eventType).consumers THEN r.eventType ELSE "skipped"

(* The names of the readers as the catalog has them. *)
LEMMA Readers ==
    ASSUME NEW c \in Consumers \ {"payment"}
    PROVE  \/ c = "stock" /\ ServiceOf[c] = "stock-service"
           \/ c = "order" /\ ServiceOf[c] = "order-service"
           \/ c = "notification" /\ ServiceOf[c] = "notification-service"
  BY DEF Consumers, ServiceOf

(* Every reader makes of a verdict what the catalog says, whatever the order and the reason. *)
LEMMA ParsedAsExpected ==
    ASSUME NEW c \in Consumers \ {"payment"}, NEW r, IsVerdict(r)
    PROVE  /\ Parse(c, r) = Expected(c, r)
           /\ r.eventType \in {"payment.processed", "payment.failed"}
           /\ Parse(c, r) \in {"invalid", "skipped", "payment.processed", "payment.failed"}
<1>1. \A o \in Orders : NonEmptyString(o)
  BY IntakeAssumption DEF NonEmptyString
<1>2. NonEmptyString("payment") /\ NonEmptyString("transaction") /\ \A why \in Reasons : NonEmptyString(why)
  BY DEF NonEmptyString, Reasons, PAYMENT_FAILURE_SCENARIOS
<1>3. ASSUME NEW o \in Orders, r = PaymentProcessed(o, "payment")
      PROVE  /\ r.eventType = "payment.processed"
             /\ ParsePaymentProcessedMessage(r) = "payment.processed"
             /\ ParsePaymentFailedMessage(r) = "skipped"
  <2>1. /\ r.eventType = "payment.processed" /\ r.version = EVENT_SCHEMA_VERSION /\ r.correlationId = o
        /\ r.payload.orderId = o /\ r.payload.paymentId = "payment"
        /\ r.payload.transactionId = "transaction"
    BY <1>3 DEF PaymentProcessed, CreateEventEnvelope
  <2> QED
    BY <1>1, <1>2, <2>1 DEF ParsePaymentProcessedMessage, ParsePaymentFailedMessage,
                            ValidEventEnvelope, ValidPaymentProcessedPayload
<1>4. ASSUME NEW o \in Orders, NEW why \in Reasons, r = PaymentFailed(o, "payment", why)
      PROVE  /\ r.eventType = "payment.failed"
             /\ ParsePaymentProcessedMessage(r) = "skipped"
             /\ ParsePaymentFailedMessage(r) = "payment.failed"
  <2>1. /\ r.eventType = "payment.failed" /\ r.version = EVENT_SCHEMA_VERSION /\ r.correlationId = o
        /\ r.payload.orderId = o /\ r.payload.paymentId = "payment" /\ r.payload.reason = why
    BY <1>4 DEF PaymentFailed, CreateEventEnvelope
  <2> QED
    BY <1>1, <1>2, <2>1 DEF ParsePaymentProcessedMessage, ParsePaymentFailedMessage,
                            ValidEventEnvelope, ValidPaymentFailedPayload
<1>5. \/ /\ r.eventType = "payment.processed"
         /\ ParsePaymentProcessedMessage(r) = "payment.processed"
         /\ ParsePaymentFailedMessage(r) = "skipped"
      \/ /\ r.eventType = "payment.failed"
         /\ ParsePaymentProcessedMessage(r) = "skipped"
         /\ ParsePaymentFailedMessage(r) = "payment.failed"
  BY <1>3, <1>4 DEF IsVerdict
<1> QED
  BY <1>5, Readers, CatalogOfVerdicts DEF Parse, Expected

------------------------------------------------------------------------------
(* The catalog, and the retry policies. *)

(* What the catalog says of an event agrees with where it travels. *)
LEMMA CatalogTopics ==
    \A e \in EVENT_CATALOG : e.topic = ResolveKafkaTopic(e.eventType) /\ e.topic \in TOPICS
<1>1. ASSUME NEW e \in EVENT_CATALOG
      PROVE  \/ e.eventType = "order.created" /\ e.topic = "order.events"
             \/ e.eventType = "payment.processed" /\ e.topic = "payment.events"
             \/ e.eventType = "payment.failed" /\ e.topic = "payment.events"
             \/ /\ e.eventType \notin {"order.created", "payment.processed", "payment.failed"}
                /\ e.topic = e.eventType
  BY DEF EVENT_CATALOG, Entry
<1>2. \A e \in EVENT_CATALOG : e.topic \in TOPICS
  BY DEF EVENT_CATALOG, Entry, TOPICS
<1> QED
  BY <1>1, <1>2 DEF ResolveKafkaTopic

(* A service hears of what it consumes, but for the three exceptions. *)
LEMMA Subscribed ==
    ASSUME NEW s \in ServiceName
    PROVE  /\ \A e \in GetEventsByConsumer(s) :
                 e.topic \notin EventPatterns[s] <=> <<e.eventType, s>> \in Deaf
           /\ EventPatterns[s] \subseteq {e.topic : e \in GetEventsByConsumer(s)}
<1>1. EventPatterns[s] = CASE s = "payment-service" -> {"order.events", "order.cancelled"}
                           [] s = "stock-service" -> {"payment.events", "order.cancelled"}
                           [] s = "notification-service" ->
                                 {"stock.reserved", "payment.events", "order.cancelled"}
                           [] s = "order-service" ->
                                 {"payment.events", "stock.released", "stock.failed", "notification.sent"}
                           [] s = "dlq-service" -> {"notification.failed"}
  BY DEF EventPatterns
<1>2. \A e \in GetEventsByConsumer(s) :
          e.topic \notin EventPatterns[s] <=> <<e.eventType, s>> \in Deaf
  <2>1. CASE s = "payment-service"
    <3>1. EventPatterns[s] = {"order.events", "order.cancelled"}
      BY <1>1, <2>1
    <3> QED
      BY <2>1, <3>1 DEF GetEventsByConsumer, EVENT_CATALOG, Entry, Deaf
  <2>2. CASE s = "stock-service"
    <3>1. EventPatterns[s] = {"payment.events", "order.cancelled"}
      BY <1>1, <2>2
    <3> QED
      BY <2>2, <3>1 DEF GetEventsByConsumer, EVENT_CATALOG, Entry, Deaf
  <2>3. CASE s = "notification-service"
    <3>1. EventPatterns[s] = {"stock.reserved", "payment.events", "order.cancelled"}
      BY <1>1, <2>3
    <3> QED
      BY <2>3, <3>1 DEF GetEventsByConsumer, EVENT_CATALOG, Entry, Deaf
  <2>4. CASE s = "order-service"
    <3>1. EventPatterns[s] = {"payment.events", "stock.released", "stock.failed", "notification.sent"}
      BY <1>1, <2>4
    <3> QED
      BY <2>4, <3>1 DEF GetEventsByConsumer, EVENT_CATALOG, Entry, Deaf
  <2>5. CASE s = "dlq-service"
    <3>1. EventPatterns[s] = {"notification.failed"}
      BY <1>1, <2>5
    <3> QED
      BY <2>5, <3>1 DEF GetEventsByConsumer, EVENT_CATALOG, Entry, Deaf
  <2> QED
    BY <2>1, <2>2, <2>3, <2>4, <2>5 DEF ServiceName
<1>3. ASSUME NEW topic \in EventPatterns[s] PROVE \E e \in GetEventsByConsumer(s) : e.topic = topic
  <2>1. ASSUME NEW e \in EVENT_CATALOG, s \in e.consumers, e.topic = topic
        PROVE  \E i \in GetEventsByConsumer(s) : i.topic = topic
    BY <2>1 DEF GetEventsByConsumer
  <2>2. \E e \in EVENT_CATALOG : s \in e.consumers /\ e.topic = topic
    <3> DEFINE Listed(type, where, who) ==
                 \E e \in EVENT_CATALOG : e.eventType = type /\ e.topic = where /\ e.consumers = who
    <3>1. /\ Listed("order.created", "order.events", {"payment-service"})
          /\ Listed("order.cancelled", "order.cancelled",
                    {"payment-service", "stock-service", "notification-service"})
          /\ Listed("payment.processed", "payment.events", {"stock-service"})
          /\ Listed("payment.failed", "payment.events", {"order-service", "notification-service"})
          /\ Listed("stock.reserved", "stock.reserved", {"notification-service"})
          /\ Listed("stock.released", "stock.released", {"order-service"})
          /\ Listed("stock.failed", "stock.failed", {"order-service", "notification-service"})
          /\ Listed("notification.sent", "notification.sent", {"order-service"})
          /\ Listed("notification.failed", "notification.failed", {"dlq-service"})
      BY DEF EVENT_CATALOG, Entry
    <3>2. ASSUME NEW type, NEW who, s \in who, Listed(type, topic, who)
          PROVE  \E e \in EVENT_CATALOG : s \in e.consumers /\ e.topic = topic
      BY <3>2
    <3> HIDE DEF Listed
    <3>3. CASE s = "payment-service"
      BY <1>1, <3>1, <3>2, <3>3
    <3>4. CASE s = "stock-service"
      BY <1>1, <3>1, <3>2, <3>4
    <3>5. CASE s = "notification-service"
      BY <1>1, <3>1, <3>2, <3>5
    <3>6. CASE s = "order-service"
      BY <1>1, <3>1, <3>2, <3>6
    <3>7. CASE s = "dlq-service"
      BY <1>1, <3>1, <3>2, <3>7
    <3> QED
      BY <3>3, <3>4, <3>5, <3>6, <3>7 DEF ServiceName
  <2> QED
    BY <2>1, <2>2
<1> QED
  BY <1>2, <1>3

(***************************************************************************)
(* Whatever the variables hold, a consumer's and a producer's policy is    *)
(* made of the first readable values.                                      *)
(***************************************************************************)
LEMMA FirstReadableWins ==
    ASSUME NEW e, NEW f \in PolicyFields,
           e.shared[f] \in RawNumber, e.consumer[f] \in RawNumber, e.producer[f] \in RawNumber
    PROVE  /\ ResolveConsumerRetryPolicy(e)[f]
                = FirstReadable(e.consumer[f], e.shared[f], DEFAULT_RETRY_POLICY[f])
           /\ ResolveProducerRetryPolicy(e)[f]
                = FirstReadable(e.producer[f], e.shared[f], DEFAULT_RETRY_POLICY[f])
  BY DEF ResolveConsumerRetryPolicy, ResolveProducerRetryPolicy, ResolveProducerRetryNumber,
         ResolveRetryPolicy, ResolveRetryNumber, OrElse, FirstReadable

(* A blank or unreadable variable never hides a good one. *)
THEOREM PoliciesAreLayered == PolicyIsLayered
<1> SUFFICES ASSUME NEW own \in RawValues, NEW shared \in RawValues, NEW f \in PolicyFields
             PROVE  LET e == [v \in {"consumer", "producer", "shared"} |->
                                [i \in PolicyFields |-> IF v = "shared" THEN shared ELSE own]]
                    IN  /\ FirstReadable(own, shared, DEFAULT_RETRY_POLICY[f]) =
                             ResolveConsumerRetryPolicy(e)[f]
                        /\ FirstReadable(own, shared, DEFAULT_RETRY_POLICY[f]) =
                             ResolveProducerRetryPolicy(e)[f]
  BY DEF PolicyIsLayered
<1> DEFINE e == [v \in {"consumer", "producer", "shared"} |->
                   [i \in PolicyFields |-> IF v = "shared" THEN shared ELSE own]]
<1>1. e.shared[f] = shared /\ e.consumer[f] = own /\ e.producer[f] = own
  OBVIOUS
<1>2. RawValues \subseteq RawNumber
  BY DEF RawValues, RawNumber, Unset, Blank, Garbage, Numeric
<1>3. PICK given : given = e
  OBVIOUS
<1> HIDE DEF e
<1>4. /\ ResolveConsumerRetryPolicy(given)[f] = FirstReadable(own, shared, DEFAULT_RETRY_POLICY[f])
      /\ ResolveProducerRetryPolicy(given)[f] = FirstReadable(own, shared, DEFAULT_RETRY_POLICY[f])
  BY <1>1, <1>2, <1>3, FirstReadableWins
<1> QED
  BY <1>3, <1>4 DEF e

------------------------------------------------------------------------------
(* The steps. *)

(* The inductive invariant. *)
Inv == TypeOK /\ Lists /\ IntakeInv /\ VerdictsAreUnderstood

(* Every state before the first request has it. *)
LEMMA InvInit == Init => Inv
<1> SUFFICES ASSUME Init PROVE Inv
  OBVIOUS
<1>1. IsList(<<>>) /\ Len(<<>>) = 0 /\ DOMAIN <<>> = {}
  BY DEF IsList
<1>2. /\ orderEvents = <<>> /\ paymentEvents = <<>> /\ probes = 0 /\ env \in Environments
      /\ outcomes = [c \in Consumers |-> <<>>]
      /\ status = [o \in Orders |-> "none"]
      /\ request \in [Orders -> Requests]
  <2>1. (CHOOSE body \in Requests : TRUE) \in Requests
    BY IntakeAssumption
  <2> QED
    BY <2>1 DEF Init
<1>3. \A c \in Consumers : outcomes[c] = <<>>
  BY <1>2
<1>4. TypeOK
  BY <1>1, <1>2, <1>3, IntakeAssumption DEF TypeOK, Consumers
<1>5. Lists
  BY <1>1, <1>2, <1>3 DEF Lists
<1>6. IntakeInv
  BY <1>1, <1>2, <1>3 DEF IntakeInv, OrderTrail, JudgeTrail, VerdictTrail, Handled, Consumers
<1>7. VerdictsAreUnderstood
  BY <1>1, <1>3 DEF VerdictsAreUnderstood
<1> QED
  BY <1>4, <1>5, <1>6, <1>7 DEF Inv

(* What noting an outcome changes. *)
LEMMA NoteAppends ==
    ASSUME Lists, NEW c \in Consumers, NEW x, Note(c, x), NEW n, n = Len(outcomes[c])
    PROVE  /\ n \in Nat /\ DOMAIN outcomes' = Consumers /\ \A d \in Consumers : IsList(outcomes'[d])
           /\ \A d \in Consumers \ {c} : outcomes'[d] = outcomes[d]
           /\ Len(outcomes'[c]) = n + 1 /\ DOMAIN outcomes'[c] = 1..(n + 1)
           /\ \A k \in 1..n : outcomes'[c][k] = outcomes[c][k]
           /\ outcomes'[c][n + 1] = x
<1>1. /\ DOMAIN outcomes' = Consumers
      /\ outcomes'[c] = Append(outcomes[c], x)
      /\ \A d \in Consumers \ {c} : outcomes'[d] = outcomes[d]
  BY DEF Note, Lists
<1>2. PICK s : s = outcomes[c]
  OBVIOUS
<1>3. IsList(s)
  BY <1>2 DEF Lists
<1>4. /\ IsList(Append(s, x)) /\ n \in Nat
      /\ Len(Append(s, x)) = n + 1 /\ DOMAIN Append(s, x) = 1..(n + 1)
      /\ \A k \in 1..n : Append(s, x)[k] = s[k]
      /\ Append(s, x)[n + 1] = x
  BY <1>2, <1>3, AppendToList
<1>5. \A d \in Consumers : IsList(outcomes'[d])
  BY <1>1, <1>2, <1>4 DEF Lists
<1> QED
  BY <1>1, <1>2, <1>4, <1>5

(* The judgements stay true while the records they are about stay. *)
LEMMA JudgementsStay ==
    ASSUME JudgeTrail, Lists, env' = env, outcomes'["payment"] = outcomes["payment"],
           Len(orderEvents) <= Len(orderEvents'), Len(orderEvents') \in Nat,
           \A k \in DOMAIN orderEvents : orderEvents'[k] = orderEvents[k]
    PROVE  JudgeTrail'
<1>1. Len(outcomes["payment"]) \in Nat /\ Len(orderEvents) \in Nat
      /\ DOMAIN orderEvents = 1..Len(orderEvents)
      /\ DOMAIN outcomes["payment"] = 1..Len(outcomes["payment"])
  BY ListLengths DEF Consumers
<1>2. ASSUME NEW k \in Handled PROVE Judgement(orderEvents[k], outcomes["payment"][k])'
  <2>1. orderEvents'[k] = orderEvents[k]
    BY <1>1 DEF JudgeTrail, Handled
  <2>2. Judgement(orderEvents[k], outcomes["payment"][k])
    BY DEF JudgeTrail
  <2> QED
    BY <2>1, <2>2 DEF Judgement, Rules
<1> QED
  BY <1>1, <1>2 DEF JudgeTrail, Handled

(* A request, good or bad, keeps the invariant: its slot was free. *)
LEMMA RequestStep ==
    ASSUME Inv, NEW o \in Orders, NEW body \in Requests, CreateOrder(o, body) \/ RefuseOrder(o, body)
    PROVE  Inv'
<1> USE DEF Inv
<1>1. /\ status[o] = "none" /\ env' = env /\ paymentEvents' = paymentEvents /\ outcomes' = outcomes
      /\ probes' = probes
      /\ request' = [request EXCEPT ![o] = body]
      /\ \/ /\ AcceptsBody(body) /\ status' = [status EXCEPT ![o] = "pending"]
            /\ orderEvents' = Append(orderEvents, OrderCreated(o, body))
         \/ status' = [status EXCEPT ![o] = "refused"] /\ orderEvents' = orderEvents
  BY DEF CreateOrder, RefuseOrder
<1>2. /\ status' \in [Orders -> {"none", "refused", "pending"}] /\ request' \in [Orders -> Requests]
      /\ request'[o] = body /\ (AcceptsBody(body) /\ orderEvents' # orderEvents => status'[o] = "pending")
      /\ \A i \in Orders \ {o} : status'[i] = status[i] /\ request'[i] = request[i]
  BY <1>1 DEF TypeOK
<1>3. /\ IsList(orderEvents) /\ Len(orderEvents) \in Nat /\ DOMAIN orderEvents = 1..Len(orderEvents)
  BY AppendToList DEF Lists
<1>4. /\ IsList(orderEvents') /\ Len(orderEvents') \in Nat /\ DOMAIN orderEvents' = 1..Len(orderEvents')
      /\ Len(orderEvents) <= Len(orderEvents')
      /\ \A k \in DOMAIN orderEvents : orderEvents'[k] = orderEvents[k]
      /\ \A k \in DOMAIN orderEvents' \ DOMAIN orderEvents :
            /\ AcceptsBody(body) /\ status'[o] = "pending" /\ request'[o] = body
            /\ orderEvents'[k] = OrderCreated(o, body)
  <2>1. CASE orderEvents' = orderEvents
    BY <1>3, <2>1
  <2>2. CASE orderEvents' # orderEvents
    <3>1. /\ AcceptsBody(body) /\ orderEvents' = Append(orderEvents, OrderCreated(o, body))
          /\ status'[o] = "pending" /\ request'[o] = body
      BY <1>1, <1>2, <2>2
    <3>2. PICK r : r = OrderCreated(o, body)
      OBVIOUS
    <3>3. /\ IsList(orderEvents')
          /\ Len(orderEvents') = Len(orderEvents) + 1 /\ DOMAIN orderEvents' = 1..(Len(orderEvents) + 1)
          /\ \A k \in 1..Len(orderEvents) : orderEvents'[k] = orderEvents[k]
          /\ orderEvents'[Len(orderEvents) + 1] = r
      BY <1>3, <3>1, <3>2, AppendToList
    <3>4. \A k \in DOMAIN orderEvents' \ DOMAIN orderEvents : k = Len(orderEvents) + 1
      BY <1>3, <3>3
    <3> QED
      BY <1>3, <3>1, <3>2, <3>3, <3>4
  <2> QED
    BY <2>1, <2>2
<1>5. OrderTrail'
  <2> SUFFICES ASSUME NEW k \in DOMAIN orderEvents'
               PROVE  \/ orderEvents'[k] = [kind |-> "probe"]
                      \/ \E i \in Orders : /\ status'[i] = "pending" /\ AcceptsBody(request'[i])
                                           /\ orderEvents'[k] = OrderCreated(i, request'[i])
    BY DEF OrderTrail
  <2>1. CASE k \in DOMAIN orderEvents
    <3>1. \/ orderEvents[k] = [kind |-> "probe"]
          \/ \E i \in Orders : /\ status[i] = "pending" /\ AcceptsBody(request[i])
                               /\ orderEvents[k] = OrderCreated(i, request[i])
      BY <2>1 DEF IntakeInv, OrderTrail
    <3>2. \A i \in Orders : status[i] = "pending" => i # o
      BY <1>1
    <3> QED
      BY <1>2, <1>4, <2>1, <3>1, <3>2
  <2>2. CASE k \notin DOMAIN orderEvents
    BY <1>4, <2>2
  <2> QED
    BY <2>1, <2>2
<1>6. TypeOK'
  <2>1. ASSUME NEW k \in DOMAIN orderEvents', orderEvents'[k].kind = "envelope"
        PROVE  /\ orderEvents'[k].payload.orderId \in Orders
               /\ orderEvents'[k].payload.totalAmount \in Null..MaxFinite
    <3>1. CASE k \in DOMAIN orderEvents
      BY <1>4, <2>1, <3>1 DEF TypeOK
    <3>2. CASE k \notin DOMAIN orderEvents
      <4>1. AcceptsBody(body) /\ body \in Bodies /\ orderEvents'[k] = OrderCreated(o, body)
        BY <1>4, <3>2, IntakeAssumption
      <4>2. /\ orderEvents'[k].payload.orderId = o
            /\ orderEvents'[k].payload.totalAmount = AsJson(SumLineItems(body.items))
        BY <4>1, CreatedFields
      <4>3. SumLineItems(body.items) \in Nat
        BY <4>1, AcceptedSum
      <4> QED
        BY <4>2, <4>3, AmountOnTheWire
    <3> QED
      BY <3>1, <3>2
  <2> QED
    BY <1>1, <1>2, <2>1 DEF TypeOK
<1>7. JudgeTrail'
  BY <1>1, <1>4, JudgementsStay DEF IntakeInv
<1>8. Lists' /\ VerdictTrail' /\ VerdictsAreUnderstood'
  BY <1>1, <1>4 DEF Lists, IntakeInv, VerdictTrail, VerdictsAreUnderstood
<1> QED
  BY <1>5, <1>6, <1>7, <1>8 DEF IntakeInv

(* A probe keeps it. *)
LEMMA ProbeStep ==
    ASSUME Inv, ProduceWithKey
    PROVE  Inv'
<1> USE DEF Inv
<1> DEFINE probe == [kind |-> "probe"]
<1>1. /\ env' = env /\ status' = status /\ request' = request /\ paymentEvents' = paymentEvents
      /\ outcomes' = outcomes /\ probes < MaxProbes /\ probes' = probes + 1
      /\ orderEvents' = Append(orderEvents, probe)
  BY DEF ProduceWithKey
<1>2. /\ IsList(orderEvents) /\ Len(orderEvents) \in Nat /\ DOMAIN orderEvents = 1..Len(orderEvents)
      /\ IsList(orderEvents')
      /\ Len(orderEvents') = Len(orderEvents) + 1 /\ DOMAIN orderEvents' = 1..(Len(orderEvents) + 1)
      /\ \A k \in DOMAIN orderEvents : orderEvents'[k] = orderEvents[k]
      /\ orderEvents'[Len(orderEvents) + 1] = probe
  <2>1. PICK r : r = probe
    OBVIOUS
  <2> HIDE DEF probe
  <2> QED
    BY <1>1, <2>1, AppendToList DEF Lists
<1>3. \A k \in DOMAIN orderEvents' : k \in DOMAIN orderEvents \/ orderEvents'[k] = probe
  BY <1>2
<1>4. OrderTrail'
  BY <1>1, <1>2, <1>3 DEF IntakeInv, OrderTrail
<1>5. TypeOK'
  <2>1. probe.kind # "envelope"
    OBVIOUS
  <2>2. probes' \in 0..MaxProbes
    BY <1>1, IntakeAssumption DEF TypeOK
  <2> QED
    BY <1>1, <1>2, <1>3, <2>1, <2>2 DEF TypeOK
<1>6. JudgeTrail'
  BY <1>1, <1>2, JudgementsStay DEF IntakeInv
<1>7. Lists' /\ VerdictTrail' /\ VerdictsAreUnderstood'
  BY <1>1, <1>2 DEF Lists, IntakeInv, VerdictTrail, VerdictsAreUnderstood
<1> QED
  BY <1>4, <1>5, <1>6, <1>7 DEF IntakeInv

(* What payment-service makes of its next record is one of the judgements of the trail. *)
LEMMA JudgedNext ==
    ASSUME Inv, AcknowledgeOrderEvent \/ ProcessPayment
    PROVE  /\ Unread("payment", orderEvents)
           /\ env' = env /\ status' = status /\ request' = request /\ orderEvents' = orderEvents
           /\ probes' = probes
           /\ \E x \in {"invalid", "skipped", "failed", "approved"} :
                 /\ Note("payment", x)
                 /\ Judgement(NextRecord("payment", orderEvents), x)
           /\ paymentEvents' = paymentEvents
              \/ \E r : IsVerdict(r) /\ paymentEvents' = Append(paymentEvents, r)
<1> USE DEF Inv
<1>1. PICK r : r = NextRecord("payment", orderEvents)
  OBVIOUS
<1>2. CASE AcknowledgeOrderEvent
  <2>1. PICK x : x = ParseOrderEventsMessage(r)
    OBVIOUS
  <2>2. x # "order.created" /\ Note("payment", x)
    BY <1>1, <1>2, <2>1 DEF AcknowledgeOrderEvent
  <2>3. x \in {"invalid", "skipped"}
    BY <2>1, <2>2 DEF ParseOrderEventsMessage
  <2>4. Judgement(r, x)
    BY <2>1, <2>2 DEF Judgement
  <2> QED
    BY <1>1, <1>2, <2>2, <2>3, <2>4 DEF AcknowledgeOrderEvent
<1>3. CASE ProcessPayment
  <2> DEFINE order == r.payload
  <2>1. Unread("payment", orderEvents) /\ ParseOrderEventsMessage(r) = "order.created"
    BY <1>1, <1>3 DEF ProcessPayment
  <2>2. order.orderId \in Orders
    <3>1. r.kind = "envelope"
      BY <2>1 DEF ParseOrderEventsMessage
    <3>2. PICK k \in DOMAIN orderEvents : r = orderEvents[k]
      <4>1. /\ Len(outcomes["payment"]) + 1 \in DOMAIN orderEvents
        BY <2>1, ListLengths DEF Unread, Consumers
      <4> QED
        BY <1>1, <4>1 DEF NextRecord
    <3> QED
      BY <3>1, <3>2 DEF TypeOK
  <2>3. \/ /\ EvaluatePaymentRules(order, Rules) # {}
           /\ paymentEvents' = Append(paymentEvents, PaymentFailed(order.orderId, "payment", "business_rule"))
           /\ Note("payment", "failed")
        \/ /\ EvaluatePaymentRules(order, Rules) = {}
           /\ \E draw \in Draws : \E result \in SimulatePaymentGateway(draw, env) :
                 /\ paymentEvents' = Append(paymentEvents,
                       IF result.outcome = "failed"
                       THEN PaymentFailed(order.orderId, "payment", result.reason)
                       ELSE PaymentProcessed(order.orderId, "payment"))
                 /\ Note("payment", result.outcome)
    BY <1>1, <1>3 DEF ProcessPayment
  <2> DEFINE Judged == \E x \in {"failed", "approved"} : \E v :
                          /\ Note("payment", x) /\ Judgement(r, x)
                          /\ IsVerdict(v) /\ paymentEvents' = Append(paymentEvents, v)
  <2>4. Judged
    <3>1. CASE EvaluatePaymentRules(order, Rules) # {}
      <4>1. /\ paymentEvents' = Append(paymentEvents, PaymentFailed(order.orderId, "payment", "business_rule"))
            /\ Note("payment", "failed")
        BY <2>3, <3>1
      <4>2. IsVerdict(PaymentFailed(order.orderId, "payment", "business_rule"))
        BY <2>2 DEF IsVerdict, Reasons
      <4>3. Judgement(r, "failed")
        BY <2>1, <3>1 DEF Judgement
      <4> QED
        BY <4>1, <4>2, <4>3
    <3>2. CASE EvaluatePaymentRules(order, Rules) = {}
      <4>1. PICK draw \in Draws : \E result \in SimulatePaymentGateway(draw, env) :
                 /\ paymentEvents' = Append(paymentEvents,
                       IF result.outcome = "failed"
                       THEN PaymentFailed(order.orderId, "payment", result.reason)
                       ELSE PaymentProcessed(order.orderId, "payment"))
                 /\ Note("payment", result.outcome)
        BY <2>3, <3>2
      <4>2. PICK result \in SimulatePaymentGateway(draw, env) :
                 /\ paymentEvents' = Append(paymentEvents,
                       IF result.outcome = "failed"
                       THEN PaymentFailed(order.orderId, "payment", result.reason)
                       ELSE PaymentProcessed(order.orderId, "payment"))
                 /\ Note("payment", result.outcome)
        BY <4>1
      <4>3. CASE ShouldFail(draw, env)
        <5>1. result.outcome = "failed" /\ result.reason \in PAYMENT_FAILURE_SCENARIOS
          BY <4>3 DEF SimulatePaymentGateway
        <5>2. IsVerdict(PaymentFailed(order.orderId, "payment", result.reason))
          BY <2>2, <5>1 DEF IsVerdict, Reasons
        <5>3. Judgement(r, "failed")
          BY <2>1, <4>3 DEF Judgement
        <5> QED
          BY <4>2, <5>1, <5>2, <5>3
      <4>4. CASE ~ShouldFail(draw, env)
        <5>1. result.outcome = "approved"
          BY <4>4 DEF SimulatePaymentGateway
        <5>2. IsVerdict(PaymentProcessed(order.orderId, "payment"))
          BY <2>2 DEF IsVerdict
        <5>3. Judgement(r, "approved")
          BY <2>1, <3>2, <4>4 DEF Judgement
        <5> QED
          BY <4>2, <5>1, <5>2, <5>3
      <4> QED
        BY <4>3, <4>4
    <3> QED
      BY <3>1, <3>2
  <2>5. env' = env /\ status' = status /\ request' = request /\ orderEvents' = orderEvents /\ probes' = probes
    BY <1>3 DEF ProcessPayment
  <2> QED
    BY <1>1, <2>1, <2>4, <2>5
<1> QED
  BY <1>2, <1>3

(* Judging a record keeps the invariant. *)
LEMMA JudgeStep ==
    ASSUME Inv, AcknowledgeOrderEvent \/ ProcessPayment
    PROVE  Inv'
<1> USE DEF Inv
<1>1. /\ Unread("payment", orderEvents)
      /\ env' = env /\ status' = status /\ request' = request /\ orderEvents' = orderEvents
      /\ probes' = probes
  BY JudgedNext
<1>2. PICK x \in {"invalid", "skipped", "failed", "approved"} :
          Note("payment", x) /\ Judgement(NextRecord("payment", orderEvents), x)
  BY JudgedNext
<1> DEFINE n == Len(outcomes["payment"])
<1>3. /\ n \in Nat /\ DOMAIN outcomes["payment"] = 1..n /\ IsList(outcomes["payment"])
      /\ Len(orderEvents) \in Nat /\ DOMAIN orderEvents = 1..Len(orderEvents)
      /\ Len(paymentEvents) \in Nat /\ DOMAIN paymentEvents = 1..Len(paymentEvents)
      /\ IsList(orderEvents) /\ IsList(paymentEvents)
  BY ListLengths DEF Lists, Consumers
<1>4. /\ DOMAIN outcomes' = Consumers /\ \A d \in Consumers : IsList(outcomes'[d])
      /\ \A d \in Consumers \ {"payment"} : outcomes'[d] = outcomes[d]
      /\ Len(outcomes'["payment"]) = n + 1 /\ DOMAIN outcomes'["payment"] = 1..(n + 1)
      /\ \A k \in 1..n : outcomes'["payment"][k] = outcomes["payment"][k]
      /\ outcomes'["payment"][n + 1] = x
  <2>1. "payment" \in Consumers
    BY DEF Consumers
  <2>2. Note("payment", x) /\ Lists
    BY <1>2
  <2> HIDE DEF Inv
  <2> QED
    BY <2>1, <2>2, NoteAppends, Zenon
<1> DEFINE Longer ==
             /\ IsList(paymentEvents') /\ Len(paymentEvents') \in Nat
             /\ Len(paymentEvents) <= Len(paymentEvents')
             /\ DOMAIN paymentEvents' = 1..Len(paymentEvents')
             /\ \A k \in DOMAIN paymentEvents : paymentEvents'[k] = paymentEvents[k]
             /\ \A k \in DOMAIN paymentEvents' : IsVerdict(paymentEvents'[k])
<1>5. Longer
  <2>1. \A k \in DOMAIN paymentEvents : IsVerdict(paymentEvents[k])
    BY DEF IntakeInv, VerdictTrail
  <2>2. CASE paymentEvents' = paymentEvents
    BY <1>3, <2>1, <2>2
  <2>3. ASSUME NEW r, IsVerdict(r), paymentEvents' = Append(paymentEvents, r)
        PROVE  Longer
    <3>1. /\ IsList(paymentEvents') /\ Len(paymentEvents') = Len(paymentEvents) + 1
          /\ DOMAIN paymentEvents' = 1..(Len(paymentEvents) + 1)
          /\ \A k \in 1..Len(paymentEvents) : paymentEvents'[k] = paymentEvents[k]
          /\ paymentEvents'[Len(paymentEvents) + 1] = r
      BY <1>3, <2>3, AppendToList
    <3>2. \A k \in DOMAIN paymentEvents' : k \in DOMAIN paymentEvents \/ paymentEvents'[k] = r
      BY <1>3, <3>1
    <3> QED
      BY <1>3, <2>1, <2>3, <3>1, <3>2
  <2> HIDE DEF Longer
  <2> QED
    BY <2>2, <2>3, JudgedNext
<1>6. TypeOK'
  <2>1. \A k \in DOMAIN outcomes'["payment"] :
            outcomes'["payment"][k] \in {"invalid", "skipped", "failed", "approved"}
    <3>1. \A k \in 1..n : outcomes["payment"][k] \in {"invalid", "skipped", "failed", "approved"}
      BY <1>3 DEF TypeOK
    <3>2. \A k \in 1..(n + 1) : k \in 1..n \/ k = n + 1
      BY <1>3
    <3> HIDE DEF n
    <3> QED
      BY <1>4, <3>1, <3>2
  <2>2. \A k \in DOMAIN paymentEvents' :
            paymentEvents'[k].eventType \in {"payment.processed", "payment.failed"}
    <3>1. "stock" \in Consumers \ {"payment"}
      BY DEF Consumers
    <3> QED
      BY <1>5, <3>1, ParsedAsExpected
  <2> QED
    BY <1>1, <1>4, <2>1, <2>2 DEF TypeOK
<1>7. OrderTrail'
  BY <1>1 DEF IntakeInv, OrderTrail
<1>8. JudgeTrail'
  <2>1. n < Len(orderEvents) /\ Judgement(orderEvents[n + 1], x)
    BY <1>1, <1>2 DEF Unread, NextRecord
  <2>2. ASSUME NEW k \in 1..(n + 1) PROVE Judgement(orderEvents[k], outcomes["payment"][k])'
    <3>1. Judgement(orderEvents[k], outcomes'["payment"][k])
      <4>1. CASE k \in 1..n
        BY <1>3, <1>4, <4>1 DEF IntakeInv, JudgeTrail, Handled
      <4>2. CASE k = n + 1
        BY <1>4, <2>1, <4>2
      <4> QED
        BY <1>3, <4>1, <4>2
    <3> QED
      BY <1>1, <3>1 DEF Judgement, Rules
  <2> HIDE DEF n
  <2> QED
    BY <1>1, <1>3, <1>4, <2>1, <2>2 DEF JudgeTrail, Handled
<1>9. Lists' /\ VerdictTrail'
  <2>1. ASSUME NEW c \in Consumers \ {"payment"} PROVE Len(outcomes'[c]) <= Len(paymentEvents')
    <3>1. outcomes'[c] = outcomes[c] /\ Len(outcomes[c]) \in Nat /\ Len(outcomes[c]) <= Len(paymentEvents)
      BY <1>4, ListLengths DEF IntakeInv, VerdictTrail
    <3> QED
      BY <1>3, <1>5, <3>1
  <2> QED
    BY <1>1, <1>3, <1>4, <1>5, <2>1 DEF Lists, VerdictTrail
<1>10. VerdictsAreUnderstood'
  <2>1. ASSUME NEW c \in Consumers \ {"payment"}, NEW k \in DOMAIN outcomes'[c]
        PROVE  outcomes'[c][k] = Expected(c, paymentEvents'[k])
    <3>1. outcomes'[c] = outcomes[c] /\ k \in DOMAIN paymentEvents
      BY <1>3, <1>4, <2>1, ListLengths DEF IntakeInv, VerdictTrail
    <3> QED
      BY <1>5, <2>1, <3>1 DEF VerdictsAreUnderstood, Expected
  <2> QED
    BY <2>1 DEF VerdictsAreUnderstood, Expected
<1> QED
  BY <1>6, <1>7, <1>8, <1>9, <1>10 DEF IntakeInv

(* So does reading a verdict. *)
LEMMA VerdictStep ==
    ASSUME Inv, NEW c \in Consumers \ {"payment"}, HandlePaymentEvents(c)
    PROVE  Inv'
<1> USE DEF Inv
<1> DEFINE n == Len(outcomes[c])
<1>1. /\ env' = env /\ status' = status /\ request' = request /\ orderEvents' = orderEvents
      /\ paymentEvents' = paymentEvents /\ probes' = probes
      /\ n < Len(paymentEvents) /\ Note(c, Parse(c, paymentEvents[n + 1]))
  BY DEF HandlePaymentEvents, Unread, NextRecord
<1>2. PICK x : x = Parse(c, paymentEvents[n + 1])
  OBVIOUS
<1>3. /\ n \in Nat /\ DOMAIN outcomes[c] = 1..n /\ IsList(outcomes[c])
      /\ Len(paymentEvents) \in Nat /\ DOMAIN paymentEvents = 1..Len(paymentEvents)
      /\ Len(orderEvents) \in Nat
  BY ListLengths DEF Lists
<1>4. /\ DOMAIN outcomes' = Consumers /\ \A d \in Consumers : IsList(outcomes'[d])
      /\ \A d \in Consumers \ {c} : outcomes'[d] = outcomes[d]
      /\ Len(outcomes'[c]) = n + 1 /\ DOMAIN outcomes'[c] = 1..(n + 1)
      /\ \A k \in 1..n : outcomes'[c][k] = outcomes[c][k]
      /\ outcomes'[c][n + 1] = x
  <2>1. Note(c, x)
    BY <1>1, <1>2
  <2>2. Lists
    OBVIOUS
  <2> HIDE DEF Inv
  <2> QED
    BY <2>1, <2>2, NoteAppends, Zenon
<1>5. /\ x = Expected(c, paymentEvents[n + 1])
      /\ x \in {"invalid", "skipped", "payment.processed", "payment.failed"}
  <2>1. IsVerdict(paymentEvents[n + 1])
    BY <1>1, <1>3 DEF IntakeInv, VerdictTrail
  <2> QED
    BY <1>2, <2>1, ParsedAsExpected
<1>6. "payment" \in Consumers /\ outcomes'["payment"] = outcomes["payment"]
  BY <1>4 DEF Consumers
<1>7. TypeOK'
  <2>1. ASSUME NEW d \in Consumers \ {"payment"}, NEW k \in DOMAIN outcomes'[d]
        PROVE  outcomes'[d][k] \in {"invalid", "skipped", "payment.processed", "payment.failed"}
    <3>1. CASE d = c /\ k = n + 1
      BY <1>4, <1>5, <3>1
    <3>2. CASE d = c /\ k # n + 1
      <4>1. k \in 1..n
        BY <1>3, <1>4, <2>1, <3>2
      <4> QED
        BY <1>3, <1>4, <3>2, <4>1 DEF TypeOK
    <3>3. CASE d # c
      BY <1>4, <2>1, <3>3 DEF TypeOK
    <3> QED
      BY <3>1, <3>2, <3>3
  <2> QED
    BY <1>1, <1>6, <2>1 DEF TypeOK
<1>8. OrderTrail'
  BY <1>1 DEF IntakeInv, OrderTrail
<1>9. JudgeTrail'
  BY <1>1, <1>3, <1>6, JudgementsStay DEF IntakeInv
<1>10. Lists' /\ VerdictTrail'
  <2>1. \A d \in Consumers \ {"payment"} : Len(outcomes'[d]) <= Len(paymentEvents)
    BY <1>1, <1>3, <1>4 DEF IntakeInv, VerdictTrail
  <2> QED
    BY <1>1, <1>4, <2>1 DEF Lists, IntakeInv, VerdictTrail
<1>11. VerdictsAreUnderstood'
  <2>1. ASSUME NEW d \in Consumers \ {"payment"}, NEW k \in DOMAIN outcomes'[d]
        PROVE  outcomes'[d][k] = Expected(d, paymentEvents[k])
    <3>1. CASE d = c /\ k = n + 1
      BY <1>4, <1>5, <3>1
    <3>2. CASE d = c /\ k # n + 1
      <4>1. k \in 1..n
        BY <1>3, <1>4, <2>1, <3>2
      <4> QED
        BY <1>3, <1>4, <3>2, <4>1 DEF VerdictsAreUnderstood, Expected
    <3>3. CASE d # c
      BY <1>4, <2>1, <3>3 DEF VerdictsAreUnderstood, Expected
    <3> QED
      BY <3>1, <3>2, <3>3
  <2> QED
    BY <1>1, <2>1 DEF VerdictsAreUnderstood, Expected
<1> QED
  BY <1>7, <1>8, <1>9, <1>10, <1>11 DEF IntakeInv

(* A step that changes none of the variables but the answer keeps it. *)
LEMMA AnswerStep ==
    ASSUME Inv, UNCHANGED <<env, status, request, orderEvents, paymentEvents, outcomes, probes>>
    PROVE  Inv'
<1>1. JudgeTrail'
  BY JudgementsStay, ListLengths DEF Inv, IntakeInv
<1> QED
  BY <1>1 DEF Inv, TypeOK, Lists, IntakeInv, OrderTrail, VerdictTrail, VerdictsAreUnderstood

(* It holds in every state a client and the services can reach. *)
THEOREM Invariance == Spec => []Inv
<1>1. Init => Inv
  BY InvInit
<1>2. Inv /\ [Next]_vars => Inv'
  <2> SUFFICES ASSUME Inv, [Next]_vars PROVE Inv'
    OBVIOUS
  <2>1. ASSUME NEW o \in Orders, NEW body \in Requests, CreateOrder(o, body) \/ RefuseOrder(o, body)
        PROVE  Inv'
    BY <2>1, RequestStep
  <2>2. CASE ProduceWithKey
    BY <2>2, ProbeStep
  <2>3. CASE AcknowledgeOrderEvent \/ ProcessPayment
    BY <2>3, JudgeStep
  <2>4. ASSUME NEW c \in Consumers \ {"payment"}, HandlePaymentEvents(c) PROVE Inv'
    BY <2>4, VerdictStep
  <2>5. ASSUME NEW s \in ServiceName, AskForCatalog(s) PROVE Inv'
    BY <2>5, AnswerStep DEF AskForCatalog
  <2>6. CASE UNCHANGED vars
    BY <2>6, AnswerStep DEF vars
  <2> QED
    BY <2>1, <2>2, <2>3, <2>4, <2>5, <2>6 DEF Next
<1> QED
  BY <1>1, <1>2, PTL DEF Spec

(* Every variable keeps its type, and no amount on the wire is one JSON cannot write. *)
THEOREM TypeCorrect == Spec => []TypeOK
  BY Invariance, PTL DEF Inv

(* An accepted order is dropped by payment-service only for a blank name or a sum beyond JSON. *)
THEOREM StrandedOnlyByBlanksAndSize == Spec => []OnlyTheseAreStranded
<1>1. Inv => OnlyTheseAreStranded
  BY StrandedFollows DEF Inv
<1> QED
  BY <1>1, Invariance, PTL

(* No order the order service made breaks a rule about sums, quantities or prices. *)
THEOREM RefusedOnlyByBounds == Spec => []OnlyBoundsRefuse
<1>1. Inv => OnlyBoundsRefuse
  BY RefusedFollows DEF Inv
<1> QED
  BY <1>1, Invariance, PTL

(* What is approved is within every bound that is set to a number or left alone. *)
THEOREM ApprovedKeepsBounds == Spec => []ApprovedWithinBounds
<1>1. Inv => ApprovedWithinBounds
  BY ApprovedFollows DEF Inv
<1> QED
  BY <1>1, Invariance, PTL

(* A demo set to fail approves nothing, one set to pass fails nothing the rules let through. *)
THEOREM SettingsDecideVerdicts == Spec => []SettingsDecide
<1>1. Inv => SettingsDecide
  BY SettingsFollow DEF Inv
<1> QED
  BY <1>1, Invariance, PTL

(* Every verdict is taken by the services the catalog lists for it and by no other. *)
THEOREM VerdictsReachTheirReaders == Spec => []VerdictsAreUnderstood
  BY Invariance, PTL DEF Inv

(* What a service says of its events is where they travel and what it hears. *)
THEOREM AnswersAreRight == Spec => []AnswersTellTheRoutes
<1>1. Init => AnswersTellTheRoutes
  BY DEF Init, AnswersTellTheRoutes
<1>2. AnswersTellTheRoutes /\ [Next]_vars => AnswersTellTheRoutes'
  <2> SUFFICES ASSUME AnswersTellTheRoutes, [Next]_vars PROVE AnswersTellTheRoutes'
    OBVIOUS
  <2>1. ASSUME NEW s \in ServiceName, GetCatalog(s) PROVE AnswersTellTheRoutes'
    <3>1. /\ answer'.service = s /\ answer'.produces = GetEventsByProducer(s)
          /\ answer'.consumes = GetEventsByConsumer(s)
          /\ answer'.systemCatalog \subseteq EVENT_CATALOG
      BY <2>1 DEF GetCatalog
    <3>2. \A e \in answer'.produces \cup answer'.systemCatalog :
              e.topic = ResolveKafkaTopic(e.eventType) /\ e.topic \in TOPICS
      BY <3>1, CatalogTopics DEF GetEventsByProducer
    <3>3. /\ \A e \in answer'.consumes :
                e.topic \notin EventPatterns[answer'.service] <=> <<e.eventType, answer'.service>> \in Deaf
          /\ EventPatterns[answer'.service] \subseteq {e.topic : e \in answer'.consumes}
      BY <3>1, Subscribed
    <3> QED
      BY <3>2, <3>3 DEF AnswersTellTheRoutes
  <2>2. CASE UNCHANGED answer
    BY <2>2 DEF AnswersTellTheRoutes
  <2>3. (\E s \in ServiceName : GetCatalog(s)) \/ UNCHANGED answer
    BY DEF Next, vars, CreateOrder, RefuseOrder, ProduceWithKey, AcknowledgeOrderEvent, ProcessPayment,
           HandlePaymentEvents, AskForCatalog
  <2> QED
    BY <2>1, <2>2, <2>3
<1> QED
  BY <1>1, <1>2, PTL DEF Spec
=============================================================================
