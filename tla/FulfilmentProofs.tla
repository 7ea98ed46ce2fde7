--------------------------- MODULE FulfilmentProofs ---------------------------
(***************************************************************************)
(* Proofs about Fulfilment, for any orders and verdicts, any retry budgets *)
(* and any number of faults.                                               *)
(***************************************************************************)
EXTENDS Fulfilment, CountingProofs, FiniteSetTheorems, TLAPS

Working == {"handling", "sending", "failed", "escaped"}

(* The envelopes made and the records of the topics. *)
LogsOK ==
    /\ envelopes \in Seq(Envelope)
    /\ log \in [Topics -> Seq(Record)]
    /\ \A t \in Topics : \A k \in 1..Len(log[t]) : log[t][k].event \in 1..Len(envelopes)

(* Where the handlers are; only what a handler accepts is worked on. *)
PlacesOK ==
    /\ position \in [Handlers -> Nat]
    /\ committed \in [Handlers -> Nat]
    /\ phase \in [Handlers -> Phases]
    /\ \A h \in Handlers :
          /\ committed[h] <= position[h] /\ position[h] <= Len(log[h.topic])
          /\ phase[h] # "idle" => position[h] < Len(log[h.topic])
          /\ phase[h] \in Working => Accepts(h, InHand(h).type)
    /\ \A h, k \in Handlers :
          h.service = k.service /\ phase[h] # "idle" /\ phase[k] # "idle" => h = k

(* The notification.send in memory is published and belongs to the record in hand. *)
HeldOK ==
    /\ held \in [Handlers -> Nat]
    /\ \A h \in Handlers : phase[h] = "sending" =>
          /\ h = notification
          /\ held[h] \in 1..Len(envelopes)
          /\ envelopes[held[h]].type = "notification.send"
          /\ envelopes[held[h]].order = InHand(h).order
          /\ Published(held[h])

RestOK ==
    /\ status \in [Orders -> Statuses]
    /\ dlq \subseteq [topic : Topics, failure : [service : Services, event : Nat]]
    /\ faults \in 0..MaxFaults
    /\ lost \subseteq [service : Services, event : Nat]

FulfilmentInv ==
    LogsOK /\ PlacesOK /\ HeldOK /\ RestOK /\ CausalChain /\ StatusFollowsVerdict

------------------------------------------------------------------------------
(* Handlers and what they accept. *)

(* A handler reads one topic and belongs to one service. *)
LEMMA HandlerFacts ==
    ASSUME NEW h \in Handlers
    PROVE  h.topic \in Topics /\ h.service \in Services
BY DEF Handlers, Topics, Services

(* A handler accepts only what is routed to its topic. *)
LEMMA AcceptedTopic ==
    ASSUME NEW h \in Handlers, NEW type, Accepts(h, type)
    PROVE  ResolveKafkaTopic(type) = h.topic
BY DEF Accepts

(* Each handler that changes something accepts one type. *)
LEMMA AcceptedType ==
    ASSUME NEW type \in EventTypes
    PROVE  /\ Accepts(stock, type) => type = "payment.processed"
           /\ Accepts(notification, type) => type = "stock.reserved"
           /\ \A h \in OrderHandlers : Accepts(h, type) =>
                 type = IF h.topic = "payment.events" THEN "payment.failed"
                                                      ELSE "notification.sent"
<1>1. Accepts(stock, type) => type = "payment.processed"
  BY DEF Accepts, stock
<1>2. Accepts(notification, type) => type = "stock.reserved"
  BY DEF Accepts, notification, ResolveKafkaTopic, EventTypes
<1>3. ASSUME NEW h \in OrderHandlers, Accepts(h, type)
      PROVE  type = IF h.topic = "payment.events" THEN "payment.failed" ELSE "notification.sent"
  BY <1>3 DEF Accepts, OrderHandlers, Handlers, ResolveKafkaTopic, EventTypes
<1> QED
  BY <1>1, <1>2, <1>3

(* A handler at work has a record of an existing envelope, which is published. *)
LEMMA AtWork ==
    ASSUME LogsOK, PlacesOK, NEW h \in Handlers, phase[h] \in Working
    PROVE  /\ position[h] \in Nat
           /\ position[h] + 1 \in 1..Len(log[h.topic])
           /\ Current(h) \in Record
           /\ EventInHand(h) \in 1..Len(envelopes)
           /\ InHand(h) \in Envelope
           /\ Accepts(h, InHand(h).type)
           /\ ResolveKafkaTopic(InHand(h).type) = h.topic
           /\ h.topic \in Topics
           /\ Published(EventInHand(h))
<1>1. h.topic \in Topics
  BY HandlerFacts
<1>2. position[h] \in Nat /\ position[h] + 1 \in 1..Len(log[h.topic])
  <2>1. position[h] \in Nat /\ Len(log[h.topic]) \in Nat
    BY <1>1 DEF PlacesOK, LogsOK
  <2>2. phase[h] # "idle"
    BY DEF Working
  <2>3. position[h] < Len(log[h.topic])
    BY <2>2 DEF PlacesOK
  <2> QED
    BY <2>1, <2>3
<1>3. Current(h) \in Record /\ EventInHand(h) \in 1..Len(envelopes)
  BY <1>1, <1>2 DEF LogsOK, Current, EventInHand
<1>4. InHand(h) \in Envelope
  BY <1>3 DEF LogsOK, InHand
<1>5. Accepts(h, InHand(h).type)
  BY DEF PlacesOK
<1>6. ResolveKafkaTopic(InHand(h).type) = h.topic
  BY <1>5, AcceptedTopic
<1>7. Published(EventInHand(h))
  BY <1>2, <1>6 DEF Published, InHand, EventInHand, Current
<1> QED
  BY <1>1, <1>2, <1>3, <1>4, <1>5, <1>6, <1>7

------------------------------------------------------------------------------
(* What a step may do to the topics and the envelopes. *)

(* An envelope is made, and the broker has it not at all, once or twice. *)
Made(type, order, cause) ==
    /\ CreateEnvelope(type, order, cause)
    /\ \/ log' = log
       \/ \E n \in {1, 2} : Appended(type, Fresh(NewEventId), n)

(* The envelope is one the saga asks for now. *)
Justified(type, order, cause) ==
    /\ type \in EventTypes
    /\ ResolveKafkaTopic(type) \in Topics
    /\ order \in Orders
    /\ cause \in Nat
    /\ type = "payment.processed" => cause = NoEvent
    /\ type \in DOMAIN Causes =>
          /\ cause \in 1..Len(envelopes)
          /\ envelopes[cause].type = Causes[type]
          /\ envelopes[cause].order = order
          /\ Published(cause)

(* A handler republishes the record in its hands. *)
Repeated(h) ==
    /\ phase[h] \in Working
    /\ UNCHANGED envelopes
    /\ \E n \in {1, 2} : Appended(InHand(h).type, Again(h), n)

TopicsStep ==
    \/ UNCHANGED <<envelopes, log>>
    \/ \E type \in EventTypes, order \in Orders, cause \in Nat :
          Made(type, order, cause) /\ Justified(type, order, cause)
    \/ \E h \in Handlers : Repeated(h)

(* Envelopes and topics only grow. *)
Grows ==
    /\ Len(envelopes) \in Nat /\ Len(envelopes') \in Nat
    /\ Len(envelopes) <= Len(envelopes')
    /\ \A id \in 1..Len(envelopes) : envelopes'[id] = envelopes[id]
    /\ \A t \in Topics :
          /\ Len(log[t]) \in Nat /\ Len(log'[t]) \in Nat
          /\ Len(log[t]) <= Len(log'[t])
          /\ \A k \in 1..Len(log[t]) : log'[t][k] = log[t][k]

(* Every record added carries the event, in its topic. *)
OnlyAdds(type, id) ==
    \A t \in Topics : \A k \in 1..Len(log'[t]) :
        k \notin 1..Len(log[t]) => t = ResolveKafkaTopic(type) /\ log'[t][k].event = id

(* One record or two at the end of a topic leave what was there. *)
LEMMA AppendRecords ==
    \A s \in Seq(Record), r \in Record : \A added \in {<<r>>, <<r, r>>} :
        /\ s \o added \in Seq(Record)
        /\ Len(s \o added) \in Nat /\ Len(s) \in Nat
        /\ Len(s) <= Len(s \o added)
        /\ \A k \in 1..Len(s) : (s \o added)[k] = s[k]
        /\ \A k \in 1..Len(s \o added) : k \notin 1..Len(s) => (s \o added)[k] = r
<1> TAKE s \in Seq(Record), r \in Record
<1> TAKE added \in {<<r>>, <<r, r>>}
<1>1. added \in Seq(Record) /\ Len(added) \in Nat /\ \A k \in 1..Len(added) : added[k] = r
  <2>1. CASE added = <<r>>
    BY <2>1
  <2>2. CASE added = <<r, r>>
    BY <2>2
  <2> QED
    BY <2>1, <2>2
<1>2. \A k \in 1..(Len(s) + Len(added)) :
          (s \o added)[k] = IF k <= Len(s) THEN s[k] ELSE added[k - Len(s)]
  BY <1>1
<1> QED
  BY <1>1, <1>2

(* Appending a record of an existing envelope. *)
LEMMA AppendedEffect ==
    ASSUME log \in [Topics -> Seq(Record)], NEW type, ResolveKafkaTopic(type) \in Topics,
           NEW r \in Record, NEW n \in {1, 2}, Appended(type, r, n)
    PROVE  /\ log' \in [Topics -> Seq(Record)]
           /\ \A t \in Topics :
                 /\ Len(log[t]) \in Nat /\ Len(log'[t]) \in Nat
                 /\ Len(log[t]) <= Len(log'[t])
                 /\ \A k \in 1..Len(log[t]) : log'[t][k] = log[t][k]
           /\ OnlyAdds(type, r.event)
<1> DEFINE T == ResolveKafkaTopic(type)
           u == log[T] \o (IF n = 1 THEN <<r>> ELSE <<r, r>>)
<1> DEFINE added == IF n = 1 THEN <<r>> ELSE <<r, r>>
<1>1. log' = [log EXCEPT ![T] = u] /\ T \in Topics
  BY DEF Appended
<1>2. log[T] \in Seq(Record) /\ added \in {<<r>>, <<r, r>>} /\ u = log[T] \o added
  OBVIOUS
<1> HIDE DEF u, added, T
<1>3. /\ u \in Seq(Record)
      /\ Len(u) \in Nat /\ Len(log[T]) \in Nat
      /\ Len(log[T]) <= Len(u)
      /\ \A k \in 1..Len(log[T]) : u[k] = log[T][k]
      /\ \A k \in 1..Len(u) : k \notin 1..Len(log[T]) => u[k] = r
  <2> DEFINE s == log[T]
  <2>1. s \in Seq(Record) /\ r \in Record /\ added \in {<<r>>, <<r, r>>} /\ u = s \o added
    BY <1>2
  <2> HIDE DEF s
  <2>2. /\ s \o added \in Seq(Record)
        /\ Len(s \o added) \in Nat /\ Len(s) \in Nat
        /\ Len(s) <= Len(s \o added)
        /\ \A k \in 1..Len(s) : (s \o added)[k] = s[k]
        /\ \A k \in 1..Len(s \o added) : k \notin 1..Len(s) => (s \o added)[k] = r
    <3>1. \A a \in {<<r>>, <<r, r>>} :
             /\ s \o a \in Seq(Record)
             /\ Len(s \o a) \in Nat /\ Len(s) \in Nat
             /\ Len(s) <= Len(s \o a)
             /\ \A k \in 1..Len(s) : (s \o a)[k] = s[k]
             /\ \A k \in 1..Len(s \o a) : k \notin 1..Len(s) => (s \o a)[k] = r
      BY <2>1, AppendRecords, Zenon
    <3> QED
      BY <2>1, <3>1, Zenon
  <2> QED
    BY <2>1, <2>2 DEF s
<1>4. log' \in [Topics -> Seq(Record)]
  BY <1>1, <1>3
<1>5. log'[T] = u /\ \A t \in Topics : t # T => log'[t] = log[t]
  BY <1>1
<1>6. ASSUME NEW t \in Topics
      PROVE  /\ Len(log[t]) \in Nat /\ Len(log'[t]) \in Nat
             /\ Len(log[t]) <= Len(log'[t])
             /\ \A k \in 1..Len(log[t]) : log'[t][k] = log[t][k]
             /\ \A k \in 1..Len(log'[t]) :
                   k \notin 1..Len(log[t]) => t = T /\ log'[t][k].event = r.event
  <2>1. CASE t = T
    BY <2>1, <1>3, <1>5
  <2>2. CASE t # T
    <3>1. log[t] \in Seq(Record) /\ log'[t] = log[t]
      BY <2>2, <1>5
    <3> QED
      BY <3>1
  <2> QED
    BY <2>1, <2>2
<1> QED
  BY <1>4, <1>6 DEF OnlyAdds, T

(* A step of the topics is of the kind the rest of the proofs uses. *)
LEMMA TopicsStepEffect ==
    ASSUME LogsOK, PlacesOK, TopicsStep
    PROVE  /\ LogsOK' /\ Grows
           /\ \/ UNCHANGED <<envelopes, log>>
              \/ /\ UNCHANGED envelopes
                 /\ \E h \in Handlers :
                       phase[h] \in Working /\ OnlyAdds(InHand(h).type, EventInHand(h))
              \/ \E type \in EventTypes, order \in Orders, cause \in Nat :
                    /\ CreateEnvelope(type, order, cause) /\ Justified(type, order, cause)
                    /\ OnlyAdds(type, NewEventId)
<1>1. CASE UNCHANGED <<envelopes, log>>
  <2>1. LogsOK'
    BY <1>1 DEF LogsOK
  <2>2. Len(envelopes) \in Nat /\ \A t \in Topics : Len(log[t]) \in Nat
    BY DEF LogsOK
  <2> QED
    BY <1>1, <2>1, <2>2 DEF Grows
<1>2. ASSUME NEW type \in EventTypes, NEW order \in Orders, NEW cause \in Nat,
             Made(type, order, cause), Justified(type, order, cause)
      PROVE  LogsOK' /\ Grows /\ OnlyAdds(type, NewEventId)
  <2> DEFINE e == [type |-> type, order |-> order, cause |-> cause]
  <2>1. e \in Envelope
    BY DEF Envelope
  <2>2. envelopes \in Seq(Envelope) /\ envelopes' = Append(envelopes, e)
    BY <1>2 DEF LogsOK, Made, CreateEnvelope
  <2> HIDE DEF e
  <2>3. /\ envelopes' \in Seq(Envelope)
        /\ Len(envelopes) \in Nat
        /\ Len(envelopes') = Len(envelopes) + 1
        /\ \A id \in 1..Len(envelopes) : envelopes'[id] = envelopes[id]
    BY <2>1, <2>2
  <2>4. Fresh(NewEventId) \in Record /\ Fresh(NewEventId).event = NewEventId
    BY <2>3 DEF Fresh, NewEventId, Record
  <2>5. ResolveKafkaTopic(type) \in Topics
    BY <1>2 DEF Justified
  <2>6. /\ log \in [Topics -> Seq(Record)]
        /\ \A t \in Topics : \A k \in 1..Len(log[t]) : log[t][k].event \in 1..Len(envelopes)
    BY DEF LogsOK
  <2>7. /\ log' \in [Topics -> Seq(Record)]
        /\ \A t \in Topics :
              /\ Len(log[t]) \in Nat /\ Len(log'[t]) \in Nat
              /\ Len(log[t]) <= Len(log'[t])
              /\ \A k \in 1..Len(log[t]) : log'[t][k] = log[t][k]
        /\ OnlyAdds(type, NewEventId)
    <3>1. CASE log' = log
      <4>1. \A t \in Topics : Len(log[t]) \in Nat
        BY <2>6
      <4> QED
        BY <3>1, <2>6, <4>1 DEF OnlyAdds
    <3>2. ASSUME NEW n \in {1, 2}, Appended(type, Fresh(NewEventId), n)
          PROVE  <2>7
      BY <3>2, <2>4, <2>5, <2>6, AppendedEffect
    <3> QED
      BY <1>2, <3>1, <3>2 DEF Made
  <2>8. Grows
    BY <2>3, <2>7 DEF Grows
  <2>9. ASSUME NEW t \in Topics, NEW k \in 1..Len(log'[t])
        PROVE  log'[t][k].event \in 1..Len(envelopes')
    <3>1. CASE k \in 1..Len(log[t])
      BY <3>1, <2>3, <2>6, <2>7
    <3>2. CASE k \notin 1..Len(log[t])
      BY <3>2, <2>3, <2>7 DEF OnlyAdds, NewEventId
    <3> QED
      BY <3>1, <3>2
  <2> QED
    BY <2>3, <2>7, <2>8, <2>9 DEF LogsOK
<1>3. ASSUME NEW h \in Handlers, Repeated(h)
      PROVE  /\ LogsOK' /\ Grows /\ UNCHANGED envelopes
             /\ phase[h] \in Working /\ OnlyAdds(InHand(h).type, EventInHand(h))
  <2>1. phase[h] \in Working /\ envelopes' = envelopes
    BY <1>3 DEF Repeated
  <2>2. /\ Current(h) \in Record
        /\ EventInHand(h) \in 1..Len(envelopes)
        /\ ResolveKafkaTopic(InHand(h).type) \in Topics
    BY <2>1, AtWork
  <2>3. Again(h) \in Record /\ Again(h).event = EventInHand(h)
    BY <2>2 DEF Again, NextAttempt, EventInHand, Record
  <2>4. /\ log \in [Topics -> Seq(Record)]
        /\ \A t \in Topics : \A k \in 1..Len(log[t]) : log[t][k].event \in 1..Len(envelopes)
        /\ envelopes \in Seq(Envelope) /\ Len(envelopes) \in Nat
    BY DEF LogsOK
  <2>5. PICK n \in {1, 2} : Appended(InHand(h).type, Again(h), n)
    BY <1>3 DEF Repeated
  <2>6. /\ log' \in [Topics -> Seq(Record)]
        /\ \A t \in Topics :
              /\ Len(log[t]) \in Nat /\ Len(log'[t]) \in Nat
              /\ Len(log[t]) <= Len(log'[t])
              /\ \A k \in 1..Len(log[t]) : log'[t][k] = log[t][k]
        /\ OnlyAdds(InHand(h).type, EventInHand(h))
    BY <2>2, <2>3, <2>4, <2>5, AppendedEffect
  <2>7. Grows
    BY <2>1, <2>4, <2>6 DEF Grows
  <2>8. ASSUME NEW t \in Topics, NEW k \in 1..Len(log'[t])
        PROVE  log'[t][k].event \in 1..Len(envelopes')
    <3>1. CASE k \in 1..Len(log[t])
      BY <3>1, <2>1, <2>4, <2>6
    <3>2. CASE k \notin 1..Len(log[t])
      BY <3>2, <2>1, <2>2, <2>6 DEF OnlyAdds
    <3> QED
      BY <3>1, <3>2
  <2> QED
    BY <2>1, <2>4, <2>6, <2>7, <2>8 DEF LogsOK
<1>4. CASE \E type \in EventTypes, order \in Orders, cause \in Nat :
              Made(type, order, cause) /\ Justified(type, order, cause)
  BY <1>4, <1>2 DEF Made
<1> QED
  BY <1>1, <1>3, <1>4 DEF TopicsStep

------------------------------------------------------------------------------
(* Every step of the specification is such a step of the topics. *)

(* A handler that makes an envelope of the next type of the chain. *)
LEMMA JustifiedByHand ==
    ASSUME LogsOK, PlacesOK, NEW h \in Handlers, phase[h] \in Working,
           NEW type \in DOMAIN Causes, InHand(h).type = Causes[type]
    PROVE  /\ Justified(type, InHand(h).order, EventInHand(h))
           /\ type \in EventTypes /\ InHand(h).order \in Orders /\ EventInHand(h) \in Nat
<1>1. /\ EventInHand(h) \in 1..Len(envelopes)
      /\ InHand(h) \in Envelope
      /\ Published(EventInHand(h))
  BY AtWork
<1>2. Len(envelopes) \in Nat
  BY DEF LogsOK
<1>3. type \in {"stock.reserved", "notification.send", "notification.sent"} /\ type # "payment.processed"
  BY DEF Causes
<1>4. type \in EventTypes /\ ResolveKafkaTopic(type) \in Topics
  BY <1>3 DEF EventTypes, ResolveKafkaTopic, Topics
<1>5. InHand(h).order \in Orders /\ EventInHand(h) \in Nat
  BY <1>1, <1>2 DEF Envelope
<1> QED
  BY <1>1, <1>3, <1>4, <1>5 DEF Justified, InHand

(* A successful publish makes one event, with its cause. *)
LEMMA EmitMakes ==
    ASSUME NEW type, NEW order, NEW cause, CreateEnvelope(type, order, cause),
           Emit(type, Fresh(NewEventId))
    PROVE  Made(type, order, cause)
BY DEF Emit, Made

(* A rejected publish makes the same event or none. *)
LEMMA SendRejectsMakes ==
    ASSUME NEW type, NEW order, NEW cause, SendRejects(type, order, cause)
    PROVE  UNCHANGED <<envelopes, log>> \/ Made(type, order, cause)
BY DEF SendRejects, Made

(* The two handlers that publish are handlers. *)
LEMMA HandlersKnown == stock \in Handlers /\ notification \in Handlers
BY DEF stock, notification, Handlers

(* Whatever a step does, the topics change as TopicsStep says. *)
LEMMA NextIsTopicsStep ==
    ASSUME LogsOK, PlacesOK, HeldOK, [Next]_vars
    PROVE  TopicsStep
<1>1. ASSUME NEW v \in Verdicts, PublishVerdict(v)
      PROVE  TopicsStep
  <2>1. v.type \in {"payment.processed", "payment.failed"} /\ v.order \in Orders
    BY FulfilmentAssumption
  <2>2. Made(v.type, v.order, NoEvent)
    BY <1>1, EmitMakes DEF PublishVerdict
  <2>3. Justified(v.type, v.order, NoEvent)
    BY <2>1 DEF Justified, EventTypes, ResolveKafkaTopic, Topics, Causes, NoEvent
  <2>4. v.type \in EventTypes /\ NoEvent \in Nat
    BY <2>1 DEF EventTypes, NoEvent
  <2> QED
    BY <2>1, <2>2, <2>3, <2>4 DEF TopicsStep
<1>2. ASSUME StockStep
      PROVE  TopicsStep
  <2>1. phase[stock] \in Working
    BY <1>2 DEF StockStep, ReserveStock, ReserveStockRejects, Working
  <2>2. InHand(stock).type = "payment.processed"
    BY <2>1, AtWork, AcceptedType, HandlersKnown DEF Envelope
  <2>3. "stock.reserved" \in DOMAIN Causes /\ Causes["stock.reserved"] = "payment.processed"
    BY DEF Causes
  <2>4. /\ Justified("stock.reserved", InHand(stock).order, EventInHand(stock))
        /\ "stock.reserved" \in EventTypes
        /\ InHand(stock).order \in Orders /\ EventInHand(stock) \in Nat
    BY <2>1, <2>2, <2>3, JustifiedByHand, HandlersKnown
  <2>5. \/ UNCHANGED <<envelopes, log>>
        \/ Made("stock.reserved", InHand(stock).order, EventInHand(stock))
    BY <1>2, EmitMakes, SendRejectsMakes DEF StockStep, ReserveStock, ReserveStockRejects
  <2> QED
    BY <2>4, <2>5 DEF TopicsStep
<1>3. ASSUME SendNotification \/ SendNotificationRejects
      PROVE  TopicsStep
  <2>1. phase[notification] \in Working
    BY <1>3 DEF SendNotification, SendNotificationRejects, Working
  <2>2. InHand(notification).type = "stock.reserved"
    BY <2>1, AtWork, AcceptedType, HandlersKnown DEF Envelope
  <2>3. "notification.send" \in DOMAIN Causes /\ Causes["notification.send"] = "stock.reserved"
    BY DEF Causes
  <2>4. /\ Justified("notification.send", InHand(notification).order, EventInHand(notification))
        /\ "notification.send" \in EventTypes
        /\ InHand(notification).order \in Orders /\ EventInHand(notification) \in Nat
    BY <2>1, <2>2, <2>3, JustifiedByHand, HandlersKnown
  <2>5. \/ UNCHANGED <<envelopes, log>>
        \/ Made("notification.send", InHand(notification).order, EventInHand(notification))
    BY <1>3, EmitMakes, SendRejectsMakes DEF SendNotification, SendNotificationRejects
  <2> QED
    BY <2>4, <2>5 DEF TopicsStep
<1>4. ASSUME NotificationSent \/ NotificationSentRejects
      PROVE  TopicsStep
  <2> DEFINE cause == held[notification]
             order == InHand(notification).order
  <2>1. phase[notification] = "sending"
    BY <1>4 DEF NotificationSent, NotificationSentRejects
  <2>2. /\ cause \in 1..Len(envelopes)
        /\ envelopes[cause].type = "notification.send"
        /\ envelopes[cause].order = order
        /\ Published(cause)
    BY <2>1, HandlersKnown DEF HeldOK
  <2>3. order \in Orders
    BY <2>1, AtWork, HandlersKnown DEF Envelope, Working
  <2>4. cause \in Nat
    BY HandlersKnown DEF HeldOK
  <2>5. Made("notification.sent", order, cause) \/ UNCHANGED <<envelopes, log>>
    BY <1>4, EmitMakes, SendRejectsMakes DEF NotificationSent, NotificationSentRejects
  <2> HIDE DEF cause, order
  <2>6. "notification.sent" \in EventTypes /\ ResolveKafkaTopic("notification.sent") \in Topics
    BY DEF EventTypes, ResolveKafkaTopic, Topics
  <2>7. Causes["notification.sent"] = "notification.send"
    BY DEF Causes
  <2>8. Justified("notification.sent", order, cause)
    BY <2>2, <2>3, <2>4, <2>6, <2>7 DEF Justified
  <2> QED
    BY <2>3, <2>4, <2>5, <2>6, <2>8 DEF TopicsStep
<1>5. ASSUME NEW h \in Handlers, ScheduleRetry(h) \/ RetryPublishRejects(h)
      PROVE  TopicsStep
  <2>1. phase[h] \in Working
    BY <1>5 DEF ScheduleRetry, RetryPublishRejects, Working
  <2>2. \/ UNCHANGED <<envelopes, log>>
        \/ UNCHANGED envelopes /\ \E n \in {1, 2} : Appended(InHand(h).type, Again(h), n)
    BY <1>5 DEF ScheduleRetry, RetryPublishRejects, Emit
  <2> QED
    BY <2>1, <2>2 DEF Repeated, TopicsStep
<1>6. ASSUME NEW h \in Handlers,
             Deliver(h) \/ SendToDlq(h) \/ Resolve(h) \/ DropEscaped(h) \/ RedeliverEscaped(h)
      PROVE  TopicsStep
  BY <1>6 DEF TopicsStep, Deliver, SendToDlq, Resolve, DropEscaped, RedeliverEscaped
<1>7. ASSUME OrderStep
      PROVE  TopicsStep
  BY <1>7 DEF TopicsStep, OrderStep, UpdateOrderStatus, UpdateRejects
<1>8. ASSUME NEW s \in Services, Crash(s)
      PROVE  TopicsStep
  BY <1>8 DEF TopicsStep, Crash
<1>9. CASE UNCHANGED vars
  BY <1>9 DEF TopicsStep, vars
<1> QED
  BY <1>1, <1>2, <1>3, <1>4, <1>5, <1>6, <1>7, <1>8, <1>9
  DEF Next, NotificationStep, Execute, Finish

------------------------------------------------------------------------------
(* Causation. *)

(* What was published stays published. *)
LEMMA PublishedStays ==
    ASSUME LogsOK, Grows, NEW id \in 1..Len(envelopes), Published(id),
           ResolveKafkaTopic(envelopes[id].type) \in Topics
    PROVE  Published(id)'
<1> DEFINE T == ResolveKafkaTopic(envelopes[id].type)
<1>1. PICK k \in 1..Len(log[T]) : log[T][k].event = id
  BY DEF Published
<1>2. envelopes'[id] = envelopes[id]
  BY DEF Grows
<1>3. k \in 1..Len(log'[T]) /\ log'[T][k] = log[T][k]
  BY <1>1 DEF Grows
<1> QED
  BY <1>1, <1>2, <1>3 DEF Published, ResolveKafkaTopic

(* A record added to the topics publishes nothing but its own event. *)
LEMMA PublishedBefore ==
    ASSUME LogsOK, Grows, NEW id \in 1..Len(envelopes), Published(id)',
           ResolveKafkaTopic(envelopes[id].type) \in Topics,
           NEW type, NEW added, OnlyAdds(type, added), added # id
    PROVE  Published(id)
<1> DEFINE T == ResolveKafkaTopic(envelopes[id].type)
<1>1. envelopes'[id] = envelopes[id]
  BY DEF Grows
<1>2. PICK k \in 1..Len(log'[T]) : log'[T][k].event = id
  BY <1>1 DEF Published, ResolveKafkaTopic
<1>3. k \in 1..Len(log[T])
  BY <1>2 DEF OnlyAdds
<1>4. log'[T][k] = log[T][k]
  BY <1>3 DEF Grows
<1> QED
  BY <1>2, <1>3, <1>4 DEF Published

(* An event and its cause each have a topic. *)
LEMMA ChainTypes ==
    ASSUME NEW type \in DOMAIN Causes
    PROVE  ResolveKafkaTopic(type) \in Topics /\ ResolveKafkaTopic(Causes[type]) \in Topics
BY DEF Causes, ResolveKafkaTopic, Topics

(* A new event has its cause behind it, and an old one keeps it. *)
LEMMA CausalChainStep ==
    ASSUME LogsOK, PlacesOK, CausalChain, TopicsStep
    PROVE  CausalChain'
<1> SUFFICES ASSUME NEW id \in 1..Len(envelopes'), Published(id)',
                    envelopes'[id].type \in DOMAIN Causes,
                    NEW cause, cause = envelopes'[id].cause
             PROVE  /\ cause \in 1..(id - 1)
                    /\ envelopes'[cause].type = Causes[envelopes'[id].type]
                    /\ envelopes'[cause].order = envelopes'[id].order
                    /\ Published(cause)'
  BY Zenon DEF CausalChain, Published, Causes
<1>1. /\ LogsOK' /\ Grows
      /\ Len(envelopes) \in Nat /\ Len(envelopes') \in Nat
      /\ \A old \in 1..Len(envelopes) : envelopes'[old] = envelopes[old]
  BY TopicsStepEffect DEF Grows
<1>2. CASE id \in 1..Len(envelopes)
  <2>1. envelopes'[id] = envelopes[id] /\ ResolveKafkaTopic(envelopes[id].type) \in Topics
    BY <1>1, <1>2, ChainTypes
  <2>2. Published(id)
    <3>1. CASE UNCHANGED <<envelopes, log>>
      BY <3>1 DEF Published, ResolveKafkaTopic
    <3>2. ASSUME NEW h \in Handlers, phase[h] \in Working,
                 OnlyAdds(InHand(h).type, EventInHand(h))
          PROVE  Published(id)
      <4>1. CASE EventInHand(h) = id
        BY <3>2, <4>1, AtWork
      <4>2. CASE EventInHand(h) # id
        BY <3>2, <4>2, <1>1, <1>2, <2>1, PublishedBefore
      <4> QED
        BY <4>1, <4>2
    <3>3. ASSUME NEW type \in EventTypes, OnlyAdds(type, NewEventId)
          PROVE  Published(id)
      <4>1. NewEventId # id
        BY <1>1, <1>2 DEF NewEventId
      <4> QED
        BY <3>3, <4>1, <1>1, <1>2, <2>1, PublishedBefore
    <3> QED
      BY <3>1, <3>2, <3>3, TopicsStepEffect
  <2>3. /\ cause \in 1..(id - 1)
        /\ envelopes[cause].type = Causes[envelopes[id].type]
        /\ envelopes[cause].order = envelopes[id].order
        /\ Published(cause)
    BY <1>2, <2>1, <2>2 DEF CausalChain
  <2>4. cause \in 1..Len(envelopes) /\ ResolveKafkaTopic(envelopes[cause].type) \in Topics
    BY <1>1, <1>2, <2>1, <2>3, ChainTypes
  <2>5. Published(cause)' /\ envelopes'[cause] = envelopes[cause]
    BY <1>1, <2>3, <2>4, PublishedStays
  <2> QED
    BY <2>1, <2>3, <2>5
<1>3. CASE id \notin 1..Len(envelopes)
  <2>1. PICK type \in EventTypes, order \in Orders, by \in Nat :
            CreateEnvelope(type, order, by) /\ Justified(type, order, by)
    BY <1>1, <1>3, TopicsStepEffect
  <2> DEFINE e == [type |-> type, order |-> order, cause |-> by]
  <2>2. e \in Envelope
    BY DEF Envelope
  <2>3. envelopes' = Append(envelopes, e) /\ envelopes \in Seq(Envelope)
    BY <2>1 DEF CreateEnvelope, LogsOK
  <2>4. e.type = type /\ e.order = order /\ e.cause = by
    OBVIOUS
  <2> HIDE DEF e
  <2>5. id = Len(envelopes) + 1 /\ envelopes'[id] = e
    BY <1>1, <1>3, <2>2, <2>3
  <2>6. cause = by
    BY <2>4, <2>5
  <2>7. /\ cause \in 1..Len(envelopes)
        /\ envelopes[cause].type = Causes[type]
        /\ envelopes[cause].order = order
        /\ Published(cause)
    BY <2>1, <2>4, <2>5, <2>6 DEF Justified
  <2>8. Published(cause)' /\ envelopes'[cause] = envelopes[cause]
    BY <1>1, <2>4, <2>5, <2>7, ChainTypes, PublishedStays
  <2> QED
    BY <1>1, <2>4, <2>5, <2>7, <2>8
<1> QED
  BY <1>2, <1>3

------------------------------------------------------------------------------
(* Where the handlers are. *)

(* The record a handler works on stays the same while the topics grow. *)
LEMMA InHandStays ==
    ASSUME LogsOK, PlacesOK, Grows, NEW h \in Handlers, phase[h] # "idle",
           position'[h] = position[h]
    PROVE  EventInHand(h)' = EventInHand(h) /\ InHand(h)' = InHand(h)
<1>1. h.topic \in Topics /\ position[h] + 1 \in 1..Len(log[h.topic])
  <2>1. h.topic \in Topics
    BY HandlerFacts
  <2>2. position[h] \in Nat /\ Len(log[h.topic]) \in Nat /\ position[h] < Len(log[h.topic])
    BY <2>1 DEF PlacesOK, Grows
  <2> QED
    BY <2>1, <2>2
<1>2. Current(h)' = Current(h)
  BY <1>1 DEF Current, Grows
<1>3. EventInHand(h) \in 1..Len(envelopes)
  BY <1>1 DEF LogsOK, EventInHand, Current
<1> QED
  BY <1>2, <1>3 DEF EventInHand, InHand, Grows

(* Nobody moves: the topics grew. *)
LEMMA PlacesStay ==
    ASSUME LogsOK, PlacesOK, Grows, UNCHANGED <<position, committed, phase>>
    PROVE  PlacesOK'
<1>1. ASSUME NEW h \in Handlers
      PROVE  /\ committed[h] <= position[h] /\ position[h] <= Len(log'[h.topic])
             /\ phase[h] # "idle" => position[h] < Len(log'[h.topic])
             /\ phase[h] \in Working => Accepts(h, InHand(h)'.type)
  <2>1. Len(log[h.topic]) \in Nat /\ Len(log'[h.topic]) \in Nat
        /\ Len(log[h.topic]) <= Len(log'[h.topic]) /\ position[h] \in Nat
    BY HandlerFacts DEF Grows, PlacesOK
  <2>2. phase[h] \in Working => Accepts(h, InHand(h)'.type)
    <3>1. ASSUME phase[h] \in Working
          PROVE  Accepts(h, InHand(h)'.type)
      <4>1. phase[h] # "idle"
        BY <3>1 DEF Working
      <4>2. InHand(h)' = InHand(h)
        BY <4>1, InHandStays
      <4> QED
        BY <3>1, <4>2 DEF PlacesOK
    <3> QED
      BY <3>1
  <2> QED
    BY <2>1, <2>2 DEF PlacesOK
<1> QED
  BY <1>1 DEF PlacesOK, Accepts, ResolveKafkaTopic

(* A handler goes from one step of its record to the next, or gives it back. *)
LEMMA PlacesAfterGoto ==
    ASSUME LogsOK, PlacesOK, Grows, NEW h \in Handlers, NEW step \in Phases,
           phase[h] # "idle", step \in Working => phase[h] \in Working,
           Goto(h, step), UNCHANGED <<position, committed>>
    PROVE  PlacesOK'
<1>1. phase' = [phase EXCEPT ![h] = step] /\ phase \in [Handlers -> Phases]
  BY DEF Goto, PlacesOK
<1>2. ASSUME NEW k \in Handlers
      PROVE  /\ phase'[k] # "idle" => phase[k] # "idle"
             /\ phase'[k] \in Working => phase[k] \in Working
  BY <1>1
<1>3. ASSUME NEW k \in Handlers
      PROVE  /\ committed[k] <= position[k] /\ position[k] <= Len(log'[k.topic])
             /\ phase'[k] # "idle" => position[k] < Len(log'[k.topic])
  <2>1. /\ Len(log[k.topic]) \in Nat /\ Len(log'[k.topic]) \in Nat
        /\ Len(log[k.topic]) <= Len(log'[k.topic]) /\ position[k] \in Nat
    BY HandlerFacts DEF Grows, PlacesOK
  <2> QED
    BY <1>2, <2>1 DEF PlacesOK
<1>4. ASSUME NEW k \in Handlers, phase'[k] \in Working
      PROVE  Accepts(k, InHand(k)'.type)
  <2>1. phase[k] \in Working /\ phase[k] # "idle"
    BY <1>2, <1>4 DEF Working
  <2>2. InHand(k)' = InHand(k)
    BY <2>1, InHandStays
  <2> QED
    BY <2>1, <2>2 DEF PlacesOK
<1>5. \A k, l \in Handlers :
          k.service = l.service /\ phase'[k] # "idle" /\ phase'[l] # "idle" => k = l
  BY <1>2 DEF PlacesOK
<1> QED
  BY <1>1, <1>3, <1>4, <1>5 DEF PlacesOK, Accepts, ResolveKafkaTopic

(* The consumer of a service hands out a record while the others of it are idle. *)
LEMMA PlacesAfterDeliver ==
    ASSUME LogsOK, PlacesOK, NEW h \in Handlers, Deliver(h)
    PROVE  PlacesOK'
<1> DEFINE step == IF Accepts(h, InHand(h).type) THEN "handling" ELSE "done"
<1>1. /\ phase' = [phase EXCEPT ![h] = step] /\ phase \in [Handlers -> Phases]
      /\ step \in Phases
      /\ UNCHANGED <<position, committed, log, envelopes>>
      /\ position[h] < Len(log[h.topic])
      /\ \A k \in Handlers : k.service = h.service => phase[k] = "idle"
  BY DEF Deliver, Goto, PlacesOK, Phases, HandlersOf
<1>2. step \in Working => Accepts(h, InHand(h).type)
  BY DEF Working
<1> HIDE DEF step
<1>3. ASSUME NEW k \in Handlers
      PROVE  /\ committed[k] <= position[k] /\ position[k] <= Len(log[k.topic])
             /\ phase'[k] # "idle" => position[k] < Len(log[k.topic])
             /\ phase'[k] \in Working => Accepts(k, InHand(k).type)
  BY <1>1, <1>2 DEF PlacesOK
<1>4. ASSUME NEW k \in Handlers, NEW l \in Handlers,
             k.service = l.service, phase'[k] # "idle", phase'[l] # "idle"
      PROVE  k = l
  <2>1. CASE k = h \/ l = h
    BY <1>1, <1>4, <2>1
  <2>2. CASE k # h /\ l # h
    BY <1>1, <1>4, <2>2 DEF PlacesOK
  <2> QED
    BY <2>1, <2>2
<1>5. \A k \in Handlers : InHand(k)' = InHand(k)
  BY <1>1 DEF InHand, EventInHand, Current
<1> QED
  BY <1>1, <1>3, <1>4, <1>5 DEF PlacesOK, Accepts, ResolveKafkaTopic

(* A record is resolved, or dropped with the error that escaped it. *)
LEMMA PlacesAfterMove ==
    ASSUME LogsOK, PlacesOK, NEW h \in Handlers, Resolve(h) \/ DropEscaped(h)
    PROVE  PlacesOK'
<1>1. /\ phase' = [phase EXCEPT ![h] = "idle"] /\ phase \in [Handlers -> Phases]
      /\ position' = [position EXCEPT ![h] = position[h] + 1]
      /\ position \in [Handlers -> Nat]
      /\ UNCHANGED <<committed, log, envelopes>>
      /\ phase[h] # "idle"
  BY DEF Resolve, DropEscaped, Goto, PlacesOK
<1>2. "idle" \in Phases /\ "idle" \notin Working
  BY DEF Phases, Working
<1>3. position' \in [Handlers -> Nat] /\ phase' \in [Handlers -> Phases]
  BY <1>1, <1>2
<1>4. ASSUME NEW k \in Handlers
      PROVE  /\ committed[k] <= position'[k] /\ position'[k] <= Len(log[k.topic])
             /\ phase'[k] # "idle" => position'[k] < Len(log[k.topic])
             /\ phase'[k] \in Working => Accepts(k, InHand(k)'.type)
  <2>1. /\ position[k] \in Nat /\ committed[k] \in Nat /\ Len(log[k.topic]) \in Nat
    BY HandlerFacts DEF PlacesOK, LogsOK
  <2>2. CASE k = h
    <3>1. phase'[h] = "idle" /\ position'[h] = position[h] + 1
      BY <1>1
    <3>2. committed[h] <= position[h] /\ position[h] < Len(log[h.topic])
      BY <1>1 DEF PlacesOK
    <3> QED
      BY <1>2, <2>1, <2>2, <3>1, <3>2
  <2>3. CASE k # h
    <3>1. phase'[k] = phase[k] /\ position'[k] = position[k]
      BY <1>1, <2>3
    <3>2. InHand(k)' = InHand(k)
      BY <1>1, <3>1 DEF InHand, EventInHand, Current
    <3> QED
      BY <3>1, <3>2 DEF PlacesOK
  <2> QED
    BY <2>2, <2>3
<1>5. \A k, l \in Handlers :
          k.service = l.service /\ phase'[k] # "idle" /\ phase'[l] # "idle" => k = l
  BY <1>1 DEF PlacesOK
<1> QED
  BY <1>1, <1>3, <1>4, <1>5 DEF PlacesOK, Accepts, ResolveKafkaTopic

(* The consumers of a service start again behind what they had committed. *)
LEMMA PlacesAfterCrash ==
    ASSUME LogsOK, PlacesOK, NEW s \in Services, Crash(s)
    PROVE  PlacesOK'
<1>1. PICK offset : /\ \A h \in HandlersOf(s) : offset[h] \in Nat
                    /\ \A h \in HandlersOf(s) : committed[h] <= offset[h] /\ offset[h] <= position[h]
                    /\ committed' = [h \in Handlers |-> IF h.service = s THEN offset[h] ELSE committed[h]]
                    /\ position' = [h \in Handlers |-> IF h.service = s THEN offset[h] ELSE position[h]]
  <2> DEFINE n == Len(log["payment.events"]) + Len(log["notification.sent"]) + Len(log["stock.reserved"])
  <2>1. n \in Nat
    BY DEF LogsOK, Topics
  <2>2. PICK offset \in [HandlersOf(s) -> 0..n] :
            /\ \A h \in HandlersOf(s) : committed[h] <= offset[h] /\ offset[h] <= position[h]
            /\ committed' = [h \in Handlers |-> IF h.service = s THEN offset[h] ELSE committed[h]]
            /\ position' = [h \in Handlers |-> IF h.service = s THEN offset[h] ELSE position[h]]
    BY Zenon DEF Crash
  <2> HIDE DEF n
  <2>3. \A h \in HandlersOf(s) : offset[h] \in Nat
    BY <2>1, <2>2
  <2> QED
    BY <2>2, <2>3, Zenon
<1>2. /\ phase' = [h \in Handlers |-> IF h.service = s THEN "idle" ELSE phase[h]]
      /\ UNCHANGED <<log, envelopes>>
  BY DEF Crash
<1>3. /\ position \in [Handlers -> Nat] /\ committed \in [Handlers -> Nat]
      /\ phase \in [Handlers -> Phases]
      /\ "idle" \in Phases /\ "idle" \notin Working
  BY DEF PlacesOK, Phases, Working
<1>4. \A h \in Handlers : h.service = s => offset[h] \in Nat /\ offset[h] <= position[h]
  BY <1>1 DEF HandlersOf
<1>5. /\ position' \in [Handlers -> Nat] /\ committed' \in [Handlers -> Nat]
      /\ phase' \in [Handlers -> Phases]
  BY <1>1, <1>2, <1>3, <1>4
<1>6. ASSUME NEW k \in Handlers
      PROVE  /\ committed'[k] <= position'[k] /\ position'[k] <= Len(log[k.topic])
             /\ phase'[k] # "idle" => position'[k] < Len(log[k.topic])
             /\ phase'[k] \in Working => Accepts(k, InHand(k)'.type)
  <2>1. position[k] \in Nat /\ committed[k] \in Nat /\ Len(log[k.topic]) \in Nat
    BY HandlerFacts DEF PlacesOK, LogsOK
  <2>2. CASE k.service = s
    <3>1. phase'[k] = "idle" /\ position'[k] = offset[k] /\ committed'[k] = offset[k]
      BY <1>1, <1>2, <2>2
    <3>2. position[k] <= Len(log[k.topic])
      BY DEF PlacesOK
    <3> QED
      BY <1>3, <1>4, <2>1, <2>2, <3>1, <3>2
  <2>3. CASE k.service # s
    <3>1. phase'[k] = phase[k] /\ position'[k] = position[k] /\ committed'[k] = committed[k]
      BY <1>1, <1>2, <2>3
    <3>2. InHand(k)' = InHand(k)
      BY <1>2, <3>1 DEF InHand, EventInHand, Current
    <3> QED
      BY <3>1, <3>2 DEF PlacesOK
  <2> QED
    BY <2>2, <2>3
<1>7. \A k, l \in Handlers :
          k.service = l.service /\ phase'[k] # "idle" /\ phase'[l] # "idle" => k = l
  BY <1>2 DEF PlacesOK
<1> QED
  BY <1>2, <1>5, <1>6, <1>7 DEF PlacesOK, Accepts, ResolveKafkaTopic

(* A handler at work stays on a record it accepts. *)
LEMMA PlacesStep ==
    ASSUME LogsOK, PlacesOK, HeldOK, [Next]_vars
    PROVE  PlacesOK'
<1>1. Grows
  BY NextIsTopicsStep, TopicsStepEffect
<1>2. {"idle", "sending", "failed", "escaped", "done"} \subseteq Phases
  BY DEF Phases
<1>3. CASE UNCHANGED vars
  BY <1>1, <1>3, PlacesStay DEF vars
<1>4. ASSUME NEW v \in Verdicts, PublishVerdict(v)
      PROVE  PlacesOK'
  BY <1>1, <1>4, PlacesStay DEF PublishVerdict, deliveryVars
<1>5. CASE StockStep
  <2>1. /\ phase[stock] = "handling"
        /\ Goto(stock, "done") \/ Goto(stock, "failed")
        /\ UNCHANGED <<position, committed>>
    BY <1>5 DEF StockStep, ReserveStock, ReserveStockRejects
  <2> QED
    BY <1>1, <1>2, <2>1, PlacesAfterGoto, HandlersKnown DEF Working
<1>6. CASE NotificationStep
  <2>1. /\ phase[notification] \in {"handling", "sending"}
        /\ Goto(notification, "sending") \/ Goto(notification, "done") \/ Goto(notification, "failed")
        /\ UNCHANGED <<position, committed>>
    BY <1>6 DEF NotificationStep, SendNotification, NotificationSent,
                SendNotificationRejects, NotificationSentRejects
  <2> QED
    BY <1>1, <1>2, <2>1, PlacesAfterGoto, HandlersKnown DEF Working
<1>7. ASSUME NEW h \in OrderHandlers, UpdateOrderStatus(h) \/ UpdateRejects(h)
      PROVE  PlacesOK'
  <2>1. /\ h \in Handlers
        /\ phase[h] = "handling"
        /\ Goto(h, "done") \/ Goto(h, "failed")
        /\ UNCHANGED <<position, committed>>
    BY <1>7 DEF UpdateOrderStatus, UpdateRejects, OrderHandlers
  <2> QED
    BY <1>1, <1>2, <2>1, PlacesAfterGoto DEF Working
<1>8. ASSUME NEW h \in Handlers, Execute(h) \/ RedeliverEscaped(h)
      PROVE  PlacesOK'
  <2>1. /\ phase[h] \in {"failed", "escaped"}
        /\ Goto(h, "done") \/ Goto(h, "escaped") \/ Goto(h, "idle")
        /\ UNCHANGED <<position, committed>>
    BY <1>8 DEF Execute, ScheduleRetry, SendToDlq, RetryPublishRejects, RedeliverEscaped
  <2> QED
    BY <1>1, <1>2, <2>1, PlacesAfterGoto DEF Working
<1> QED
  BY <1>3, <1>4, <1>5, <1>6, <1>7, <1>8, PlacesAfterDeliver, PlacesAfterMove, PlacesAfterCrash
  DEF Next, OrderStep, Finish

------------------------------------------------------------------------------
(* What notification-service holds in memory. *)

(* The envelope in memory stands while its handler stays where it is. *)
LEMMA HeldStays ==
    ASSUME LogsOK, PlacesOK, HeldOK, Grows, held' \in [Handlers -> Nat],
           \A h \in Handlers : phase'[h] = "sending" =>
               phase[h] = "sending" /\ position'[h] = position[h] /\ held'[h] = held[h]
    PROVE  HeldOK'
<1> SUFFICES ASSUME NEW h \in Handlers, phase'[h] = "sending", NEW id, id = held'[h]
             PROVE  /\ h = notification
                    /\ id \in 1..Len(envelopes')
                    /\ envelopes'[id].type = "notification.send"
                    /\ envelopes'[id].order = InHand(h)'.order
                    /\ Published(id)'
  BY Zenon DEF HeldOK, notification, Published
<1>1. phase[h] = "sending" /\ position'[h] = position[h] /\ id = held[h]
  OBVIOUS
<1>2. /\ h = notification
      /\ id \in 1..Len(envelopes)
      /\ envelopes[id].type = "notification.send"
      /\ envelopes[id].order = InHand(h).order
      /\ Published(id)
  BY <1>1 DEF HeldOK
<1>3. InHand(h)' = InHand(h)
  BY <1>1, InHandStays
<1>4. ResolveKafkaTopic(envelopes[id].type) \in Topics
  BY <1>2 DEF ResolveKafkaTopic, Topics
<1>5. Published(id)' /\ envelopes'[id] = envelopes[id] /\ id \in 1..Len(envelopes')
  BY <1>2, <1>4, PublishedStays DEF Grows
<1> QED
  BY <1>2, <1>3, <1>5

(* notification.send is published: its envelope is the last one made. *)
LEMMA HeldAfterSend ==
    ASSUME LogsOK, PlacesOK, HeldOK, Grows, LogsOK', SendNotification
    PROVE  HeldOK'
<1> DEFINE e == [type |-> "notification.send", order |-> InHand(notification).order,
                 cause |-> EventInHand(notification)]
           T == ResolveKafkaTopic("notification.send")
<1>1. notification \in Handlers /\ phase[notification] = "handling"
  BY HandlersKnown DEF SendNotification
<1>2. EventInHand(notification) \in Nat /\ InHand(notification) \in Envelope
  BY <1>1, AtWork DEF Working, LogsOK
<1>3. e \in Envelope
  BY <1>2 DEF Envelope, EventTypes
<1>4. /\ envelopes' = Append(envelopes, e) /\ envelopes \in Seq(Envelope)
      /\ e.type = "notification.send" /\ e.order = InHand(notification).order
  BY DEF SendNotification, CreateEnvelope, LogsOK
<1> HIDE DEF e
<1>5. /\ NewEventId \in 1..Len(envelopes')
      /\ NewEventId \in Nat
      /\ envelopes'[NewEventId] = e
  BY <1>3, <1>4 DEF NewEventId
<1>6. InHand(notification)' = InHand(notification)
  BY <1>1, InHandStays DEF SendNotification
<1>7. \E k \in 1..Len(log'[T]) : log'[T][k].event = NewEventId
  <2> DEFINE r == Fresh(NewEventId)
  <2>1. r \in Record /\ r.event = NewEventId
    BY <1>5 DEF Fresh, Record
  <2>2. T \in Topics /\ log \in [Topics -> Seq(Record)]
    BY DEF ResolveKafkaTopic, Topics, LogsOK
  <2>3. \/ log'[T] = log[T] \o <<r>>
        \/ log'[T] = log[T] \o <<r, r>>
    BY <2>2 DEF SendNotification, Emit, Appended
  <2> HIDE DEF r, T
  <2>4. log[T] \in Seq(Record)
    BY <2>2
  <2>5. CASE log'[T] = log[T] \o <<r>>
    <3>1. Len(log[T]) + 1 \in 1..Len(log'[T]) /\ log'[T][Len(log[T]) + 1] = r
      BY <2>1, <2>4, <2>5
    <3> QED
      BY <2>1, <3>1
  <2>6. CASE log'[T] = log[T] \o <<r, r>>
    <3>1. Len(log[T]) + 1 \in 1..Len(log'[T]) /\ log'[T][Len(log[T]) + 1] = r
      BY <2>1, <2>4, <2>6
    <3> QED
      BY <2>1, <3>1
  <2> QED
    BY <2>3, <2>5, <2>6
<1> SUFFICES ASSUME NEW id, id = NewEventId
             PROVE  HeldOK'
  OBVIOUS
<1>8. Published(id)'
  BY <1>4, <1>5, <1>7 DEF Published, ResolveKafkaTopic
<1>9. /\ held' = [held EXCEPT ![notification] = id]
      /\ phase' = [phase EXCEPT ![notification] = "sending"]
      /\ held \in [Handlers -> Nat] /\ phase \in [Handlers -> Phases]
  BY DEF SendNotification, Goto, HeldOK, PlacesOK
<1>10. held' \in [Handlers -> Nat]
  BY <1>5, <1>9
<1>11. ASSUME NEW h \in Handlers, phase'[h] = "sending"
       PROVE  h = notification
  BY <1>9, <1>11 DEF HeldOK
<1>12. held'[notification] = id
  BY <1>1, <1>9
<1>13. \A h \in Handlers : phase'[h] = "sending" =>
          /\ h = notification
          /\ held'[h] \in 1..Len(envelopes')
          /\ envelopes'[held'[h]].type = "notification.send"
          /\ envelopes'[held'[h]].order = InHand(h)'.order
  BY <1>4, <1>5, <1>6, <1>11, <1>12
<1>14. \A h \in Handlers : phase'[h] = "sending" => Published(held[h])'
  BY <1>8, <1>11, <1>12 DEF Published
<1> QED
  BY <1>10, <1>13, <1>14, Zenon DEF HeldOK, notification

(* The envelope in memory is a published send for the record in hand. *)
LEMMA HeldStep ==
    ASSUME LogsOK, PlacesOK, HeldOK, [Next]_vars
    PROVE  HeldOK'
<1> DEFINE Kept == \A h \in Handlers : phase'[h] = "sending" =>
                       phase[h] = "sending" /\ position'[h] = position[h] /\ held'[h] = held[h]
<1>1. LogsOK' /\ Grows
  BY NextIsTopicsStep, TopicsStepEffect
<1>2. /\ phase \in [Handlers -> Phases] /\ position \in [Handlers -> Nat]
      /\ held \in [Handlers -> Nat] /\ NoEvent \in Nat
  BY DEF PlacesOK, HeldOK, NoEvent
<1>3. CASE UNCHANGED vars
  <2>1. held' \in [Handlers -> Nat] /\ Kept
    BY <1>2, <1>3 DEF vars
  <2> QED
    BY <1>1, <2>1, HeldStays
<1>4. ASSUME NEW v \in Verdicts, PublishVerdict(v)
      PROVE  HeldOK'
  <2>1. held' \in [Handlers -> Nat] /\ Kept
    BY <1>2, <1>4 DEF PublishVerdict, deliveryVars
  <2> QED
    BY <1>1, <2>1, HeldStays
<1>5. ASSUME NEW h \in Handlers, NEW step \in {"idle", "handling", "failed", "escaped", "done"},
             Goto(h, step), held' = held \/ held' = [held EXCEPT ![h] = NoEvent],
             position' = position \/ position' = [position EXCEPT ![h] = position[h] + 1]
      PROVE  HeldOK'
  <2>1. held' \in [Handlers -> Nat] /\ Kept
    BY <1>2, <1>5 DEF Goto
  <2> QED
    BY <1>1, <2>1, HeldStays
<1>6. ASSUME NEW s \in Services, Crash(s)
      PROVE  HeldOK'
  <2>1. /\ held' = [h \in Handlers |-> IF h.service = s THEN NoEvent ELSE held[h]]
        /\ phase' = [h \in Handlers |-> IF h.service = s THEN "idle" ELSE phase[h]]
        /\ \A h \in Handlers : h.service # s => position'[h] = position[h]
    BY <1>6 DEF Crash
  <2>2. held' \in [Handlers -> Nat] /\ Kept
    BY <1>2, <2>1
  <2> QED
    BY <1>1, <2>2, HeldStays
<1>7. CASE StockStep
  BY <1>5, <1>7, HandlersKnown DEF StockStep, ReserveStock, ReserveStockRejects
<1>8. CASE NotificationStep
  <2>1. SendNotification \/ NotificationSent \/ SendNotificationRejects \/ NotificationSentRejects
    BY <1>8 DEF NotificationStep
  <2>2. CASE SendNotification
    BY <1>1, <2>2, HeldAfterSend
  <2>3. CASE NotificationSent
    BY <1>5, <2>3, HandlersKnown DEF NotificationSent
  <2>4. CASE SendNotificationRejects
    BY <1>5, <2>4, HandlersKnown DEF SendNotificationRejects
  <2>5. CASE NotificationSentRejects
    BY <1>5, <2>5, HandlersKnown DEF NotificationSentRejects
  <2> QED
    BY <2>1, <2>2, <2>3, <2>4, <2>5
<1>9. ASSUME NEW h \in OrderHandlers, UpdateOrderStatus(h) \/ UpdateRejects(h)
      PROVE  HeldOK'
  BY <1>5, <1>9 DEF UpdateOrderStatus, UpdateRejects, OrderHandlers
<1>10. ASSUME NEW h \in Handlers, Deliver(h)
       PROVE  HeldOK'
  BY <1>5, <1>10 DEF Deliver
<1>11. ASSUME NEW h \in Handlers, Execute(h)
       PROVE  HeldOK'
  BY <1>5, <1>11 DEF Execute, ScheduleRetry, SendToDlq, RetryPublishRejects
<1>12. ASSUME NEW h \in Handlers, Finish(h)
       PROVE  HeldOK'
  BY <1>5, <1>12 DEF Finish, Resolve, DropEscaped, RedeliverEscaped
<1> QED
  BY <1>3, <1>4, <1>6, <1>7, <1>8, <1>9, <1>10, <1>11, <1>12 DEF Next, OrderStep

------------------------------------------------------------------------------
(* Rows, dead letters, faults. *)

(* The fault counter stays within its bound. *)
LEMMA FaultsStep ==
    ASSUME faults \in 0..MaxFaults, [Next]_vars
    PROVE  faults' \in 0..MaxFaults
<1>1. UNCHANGED faults \/ NewFault
  BY DEF Next, vars, PublishVerdict, Emit, StockStep, ReserveStock, ReserveStockRejects,
         NotificationStep, SendNotification, NotificationSent, SendNotificationRejects,
         NotificationSentRejects, OrderStep, UpdateOrderStatus, UpdateRejects, Deliver,
         Execute, ScheduleRetry, SendToDlq, RetryPublishRejects, Finish, Resolve,
         DropEscaped, RedeliverEscaped, Crash
<1> QED
  BY <1>1, FulfilmentAssumption DEF NewFault

(* A dead letter and a lost event are well formed. *)
LEMMA DeadLetterTyped ==
    ASSUME LogsOK, PlacesOK, NEW h \in Handlers, phase[h] \in Working
    PROVE  /\ [topic |-> ResolveKafkaTopic(InHand(h).type), failure |-> FailureEnvelope(h)]
                \in [topic : Topics, failure : [service : Services, event : Nat]]
           /\ [service |-> h.service, event |-> EventInHand(h)] \in [service : Services, event : Nat]
<1>1. /\ EventInHand(h) \in Nat
      /\ ResolveKafkaTopic(InHand(h).type) \in Topics
      /\ h.service \in Services
  BY AtWork, HandlerFacts DEF LogsOK
<1> QED
  BY <1>1 DEF FailureEnvelope

(* Rows, dead letters and losses stay well formed. *)
LEMMA RestStep ==
    ASSUME LogsOK, PlacesOK, RestOK, [Next]_vars
    PROVE  RestOK'
<1>1. faults' \in 0..MaxFaults
  BY FaultsStep DEF RestOK
<1>2. CASE UNCHANGED <<status, dlq, lost>>
  BY <1>1, <1>2 DEF RestOK
<1>3. ASSUME NEW h \in OrderHandlers, UpdateOrderStatus(h)
      PROVE  RestOK'
  BY <1>1, <1>3 DEF RestOK, UpdateOrderStatus, Statuses
<1>4. ASSUME NEW h \in Handlers, SendToDlq(h) \/ RetryPublishRejects(h)
      PROVE  RestOK'
  <2>1. /\ phase[h] \in Working
        /\ UNCHANGED <<status, lost>>
        /\ UNCHANGED dlq \/ DeadLetter(h)
    BY <1>4 DEF SendToDlq, RetryPublishRejects, Working
  <2> QED
    BY <1>1, <2>1, DeadLetterTyped DEF RestOK, DeadLetter
<1>5. ASSUME NEW h \in Handlers, DropEscaped(h)
      PROVE  RestOK'
  <2>1. /\ phase[h] \in Working
        /\ UNCHANGED <<status, dlq>>
        /\ lost' = lost \cup {[service |-> h.service, event |-> EventInHand(h)]}
    BY <1>5 DEF DropEscaped, Working
  <2> QED
    BY <1>1, <2>1, DeadLetterTyped DEF RestOK
<1> QED
  BY <1>2, <1>3, <1>4, <1>5
  DEF Next, vars, PublishVerdict, StockStep, ReserveStock, ReserveStockRejects,
      NotificationStep, SendNotification, NotificationSent, SendNotificationRejects,
      NotificationSentRejects, OrderStep, UpdateRejects, Deliver, Execute, ScheduleRetry,
      Finish, Resolve, RedeliverEscaped, Crash

------------------------------------------------------------------------------
(* The status of the rows. *)

(* What is in the envelopes stays in them. *)
Verdict(o, type) ==
    \E id \in 1..Len(envelopes) : envelopes[id].order = o /\ envelopes[id].type = type

(* A verdict once made stays made. *)
LEMMA VerdictStays ==
    ASSUME Grows, NEW o, NEW type, Verdict(o, type)
    PROVE  Verdict(o, type)'
BY DEF Verdict, Grows

(* A notification.sent in its topic goes back to the order's payment. *)
LEMMA SentMeansPaid ==
    ASSUME LogsOK, CausalChain, NEW id \in 1..Len(envelopes), Published(id),
           envelopes[id].type = "notification.sent"
    PROVE  Verdict(envelopes[id].order, "payment.processed")
<1>1. ASSUME NEW effect \in 1..Len(envelopes), Published(effect),
             envelopes[effect].type \in DOMAIN Causes
      PROVE  \E cause \in 1..Len(envelopes) :
                /\ Published(cause)
                /\ envelopes[cause].type = Causes[envelopes[effect].type]
                /\ envelopes[cause].order = envelopes[effect].order
  <2>1. Len(envelopes) \in Nat
    BY DEF LogsOK
  <2> QED
    BY <1>1, <2>1 DEF CausalChain
<1>2. /\ DOMAIN Causes = {"stock.reserved", "notification.send", "notification.sent"}
      /\ Causes["notification.sent"] = "notification.send"
      /\ Causes["notification.send"] = "stock.reserved"
      /\ Causes["stock.reserved"] = "payment.processed"
  BY DEF Causes
<1>3. PICK send \in 1..Len(envelopes) :
          /\ Published(send) /\ envelopes[send].type = "notification.send"
          /\ envelopes[send].order = envelopes[id].order
  BY <1>1, <1>2
<1>4. PICK reserved \in 1..Len(envelopes) :
          /\ Published(reserved) /\ envelopes[reserved].type = "stock.reserved"
          /\ envelopes[reserved].order = envelopes[id].order
  BY <1>1, <1>2, <1>3
<1>5. PICK paid \in 1..Len(envelopes) :
          /\ envelopes[paid].type = "payment.processed"
          /\ envelopes[paid].order = envelopes[id].order
  BY <1>1, <1>2, <1>4
<1> QED
  BY <1>5 DEF Verdict

(* A status changes only on an event that goes back to the order's verdict. *)
LEMMA StatusStep ==
    ASSUME LogsOK, PlacesOK, HeldOK, RestOK, CausalChain, StatusFollowsVerdict, [Next]_vars
    PROVE  StatusFollowsVerdict'
<1> DEFINE Backs(st) == IF st = "completed" THEN "payment.processed" ELSE "payment.failed"
<1>1. Grows
  BY NextIsTopicsStep, TopicsStepEffect
<1>2. \A o \in Orders : status[o] # "pending" => Verdict(o, Backs(status[o]))
  BY DEF StatusFollowsVerdict, Verdict
<1>3. ASSUME \A o \in Orders : status'[o] # "pending" =>
                 status'[o] = status[o] \/ Verdict(o, Backs(status'[o]))
      PROVE  StatusFollowsVerdict'
  <2>1. \A o \in Orders : status'[o] # "pending" => Verdict(o, Backs(status'[o]))
    BY <1>2, <1>3
  <2>2. ASSUME NEW o \in Orders, status'[o] # "pending"
        PROVE  \E id \in 1..Len(envelopes') :
                  envelopes'[id].order = o /\ envelopes'[id].type = Backs(status'[o])
    <3>1. ASSUME NEW type, type = Backs(status'[o])
          PROVE  Verdict(o, type)'
      BY <1>1, <2>1, <2>2, <3>1, VerdictStays
    <3> QED
      BY <3>1 DEF Verdict
  <2> QED
    BY <2>2 DEF StatusFollowsVerdict
<1>4. CASE UNCHANGED status
  BY <1>3, <1>4
<1>5. ASSUME NEW h \in OrderHandlers, UpdateOrderStatus(h)
      PROVE  StatusFollowsVerdict'
  <2> DEFINE new == IF h.topic = "payment.events" THEN "failed" ELSE "completed"
  <2>1. /\ h \in Handlers /\ phase[h] \in Working
        /\ status' = [status EXCEPT ![InHand(h).order] = new]
    BY <1>5 DEF OrderHandlers, UpdateOrderStatus, Working
  <2>2. /\ EventInHand(h) \in 1..Len(envelopes)
        /\ InHand(h) = envelopes[EventInHand(h)]
        /\ InHand(h) \in Envelope
        /\ Accepts(h, InHand(h).type)
        /\ Published(EventInHand(h))
    BY <2>1, AtWork DEF InHand
  <2>3. InHand(h).type = IF h.topic = "payment.events" THEN "payment.failed"
                                                       ELSE "notification.sent"
    BY <2>2, AcceptedType DEF Envelope
  <2>4. Verdict(InHand(h).order, Backs(new))
    <3>1. CASE h.topic = "payment.events"
      BY <2>2, <2>3, <3>1 DEF Verdict
    <3>2. CASE h.topic # "payment.events"
      BY <2>2, <2>3, <3>2, SentMeansPaid
    <3> QED
      BY <3>1, <3>2
  <2>5. InHand(h).order \in Orders /\ status \in [Orders -> Statuses]
    BY <2>2 DEF Envelope, RestOK
  <2> HIDE DEF new, Backs
  <2>6. ASSUME NEW o \in Orders
        PROVE  status'[o] = status[o] \/ Verdict(o, Backs(status'[o]))
    BY <2>1, <2>4, <2>5
  <2> QED
    BY <1>3, <2>6
<1> QED
  BY <1>4, <1>5
  DEF Next, vars, PublishVerdict, StockStep, ReserveStock, ReserveStockRejects,
      NotificationStep, SendNotification, NotificationSent, SendNotificationRejects,
      NotificationSentRejects, OrderStep, UpdateRejects, Deliver, Execute, ScheduleRetry,
      SendToDlq, RetryPublishRejects, Finish, Resolve, DropEscaped, RedeliverEscaped, Crash

------------------------------------------------------------------------------
(* The invariant and the theorems. *)

(* The invariant holds at the start ... *)
LEMMA InvInit == Init => FulfilmentInv
<1> SUFFICES ASSUME Init PROVE FulfilmentInv
  OBVIOUS
<1>1. LogsOK
  BY DEF Init, LogsOK
<1>2. PlacesOK
  <2>1. \A h \in Handlers : h.topic \in Topics
    BY HandlerFacts
  <2> QED
    BY <2>1 DEF Init, PlacesOK, Phases, Working
<1>3. HeldOK
  BY DEF Init, HeldOK, NoEvent
<1>4. RestOK
  BY FulfilmentAssumption DEF Init, RestOK, Statuses
<1>5. CausalChain
  BY DEF Init, CausalChain
<1>6. StatusFollowsVerdict
  BY DEF Init, StatusFollowsVerdict
<1> QED
  BY <1>1, <1>2, <1>3, <1>4, <1>5, <1>6 DEF FulfilmentInv

(* ... is kept by every step ... *)
LEMMA InvStep == FulfilmentInv /\ [Next]_vars => FulfilmentInv'
<1> SUFFICES ASSUME FulfilmentInv, [Next]_vars PROVE FulfilmentInv'
  OBVIOUS
<1>1. LogsOK /\ PlacesOK /\ HeldOK /\ RestOK /\ CausalChain /\ StatusFollowsVerdict
  BY DEF FulfilmentInv
<1>2. TopicsStep
  BY <1>1, NextIsTopicsStep
<1> QED
  BY <1>1, <1>2, TopicsStepEffect, PlacesStep, HeldStep, RestStep, CausalChainStep, StatusStep
  DEF FulfilmentInv

(* ... implies type correctness ... *)
LEMMA InvTyped == FulfilmentInv => TypeOK
<1> SUFFICES ASSUME FulfilmentInv PROVE TypeOK
  OBVIOUS
<1>1. LogsOK /\ PlacesOK /\ HeldOK /\ RestOK
  BY DEF FulfilmentInv
<1> QED
  BY <1>1 DEF TypeOK, LogsOK, PlacesOK, HeldOK, RestOK

(* ... and so holds for ever. *)
LEMMA InvHolds == Spec => []FulfilmentInv
BY InvInit, InvStep, PTL DEF Spec

(* Envelopes, topics, offsets and handlers stay well formed, and a service  *)
(* works on one record at a time.                                           *)
THEOREM TypeCorrect == Spec => []TypeOK
BY InvHolds, InvTyped, PTL

(* createEventEnvelope's causationId tells the truth: an event of the saga  *)
(* is in its topic only if its cause is in its own, for the same order,     *)
(* whatever crashes, rejected publishes and duplicates happen.              *)
THEOREM CausalChainHolds == Spec => []CausalChain
<1>1. FulfilmentInv => CausalChain
  BY DEF FulfilmentInv
<1> QED
  BY <1>1, InvHolds, PTL

(* The feedback handlers of order-service complete an order only if it was  *)
(* paid and fail it only if a payment of it failed.                         *)
THEOREM StatusHonest == Spec => []StatusFollowsVerdict
<1>1. FulfilmentInv => StatusFollowsVerdict
  BY DEF FulfilmentInv
<1> QED
  BY <1>1, InvHolds, PTL

------------------------------------------------------------------------------
(* What a fault costs: the sizes of what is made, recorded and open. *)

(***************************************************************************)
(* A set that gains nothing but some of the n numbers after L gains at     *)
(* most n, and one less if it loses an element.                            *)
(***************************************************************************)
LEMMA SizeAfter ==
    ASSUME NEW S, IsFiniteSet(S), NEW L \in Nat, NEW n \in 0..2, NEW T
    PROVE  /\ Cardinality(S) \in Nat
           /\ T \subseteq S \cup ((L + 1)..(L + n)) =>
                 IsFiniteSet(T) /\ Cardinality(T) \in Nat /\ Cardinality(T) <= Cardinality(S) + n
           /\ \A x \in S : T \subseteq (S \ {x}) \cup ((L + 1)..(L + n)) =>
                 Cardinality(T) \in Nat /\ Cardinality(T) + 1 <= Cardinality(S) + n
<1> DEFINE added == (L + 1)..(L + n)
<1>1. IsFiniteSet(added) /\ Cardinality(added) = n
  BY FS_Interval
<1> HIDE DEF added
<1>2. ASSUME NEW base, IsFiniteSet(base), T \subseteq base \cup added
      PROVE  /\ IsFiniteSet(T) /\ Cardinality(T) \in Nat /\ Cardinality(base) \in Nat
             /\ Cardinality(T) <= Cardinality(base) + n
  <2>1. /\ IsFiniteSet(base \cup added) /\ Cardinality(base \cap added) \in Nat
        /\ Cardinality(base \cup added)
              = Cardinality(base) + Cardinality(added) - Cardinality(base \cap added)
    <3>1. IsFiniteSet(base \cap added)
      BY <1>2, FS_Intersection
    <3> QED
      BY <1>1, <1>2, <3>1, FS_Union, FS_CardinalityType
  <2>2. IsFiniteSet(T) /\ Cardinality(T) <= Cardinality(base \cup added)
    BY <1>2, <2>1, FS_Subset
  <2>3. Cardinality(T) \in Nat /\ Cardinality(base) \in Nat /\ Cardinality(base \cup added) \in Nat
    BY <1>2, <2>1, <2>2, FS_CardinalityType
  <2> QED
    BY <1>1, <2>1, <2>2, <2>3
<1>3. ASSUME NEW x \in S, T \subseteq (S \ {x}) \cup added
      PROVE  Cardinality(T) \in Nat /\ Cardinality(T) + 1 <= Cardinality(S) + n
  <2>1. IsFiniteSet(S \ {x}) /\ Cardinality(S \ {x}) = Cardinality(S) - 1 /\ Cardinality(S) \in Nat
    BY FS_RemoveElement, FS_CardinalityType
  <2>2. Cardinality(T) \in Nat /\ Cardinality(T) <= Cardinality(S \ {x}) + n
    BY <1>2, <1>3, <2>1
  <2> QED
    BY <2>1, <2>2
<1> QED
  BY <1>2, <1>3, FS_CardinalityType DEF added

Stages == {stock, notification}

(* The stages and what they take. *)
LEMMA StageFacts ==
    /\ Stages \subseteq Handlers /\ stock # notification
    /\ \A h \in Stages : h.topic \in Topics /\ ResolveKafkaTopic(Takes(h)) = h.topic
    /\ Takes(stock) = "payment.processed" /\ Takes(notification) = "stock.reserved"
    /\ \A h \in Handlers : h \in Stages \/ h \in OrderHandlers
    /\ \A h \in Stages : h \notin OrderHandlers
BY DEF Stages, stock, notification, Handlers, OrderHandlers, Topics, Takes, ResolveKafkaTopic

(* The sets that are counted are finite. *)
Countable ==
    \A o \in Orders :
        /\ \A h \in Stages : \A closed \in SUBSET Phases :
              /\ IsFiniteSet(RecordsOf(h, o)) /\ Cardinality(RecordsOf(h, o)) \in Nat
              /\ IsFiniteSet(Open(h, o, closed)) /\ Cardinality(Open(h, o, closed)) \in Nat
              /\ Cardinality(Open(h, o, closed)) <= Cardinality(RecordsOf(h, o))
              /\ RetryDue(h, o) \in 0..1
        /\ \A t \in EventTypes : Caused(o, t) \in Nat

(* They are so in every state with topics, as they are short of a topic's length. *)
LEMMA CountedFinite == LogsOK => Countable
<1> SUFFICES ASSUME LogsOK, NEW o \in Orders
             PROVE  /\ \A h \in Stages : \A closed \in SUBSET Phases :
                          /\ IsFiniteSet(RecordsOf(h, o)) /\ Cardinality(RecordsOf(h, o)) \in Nat
                          /\ IsFiniteSet(Open(h, o, closed)) /\ Cardinality(Open(h, o, closed)) \in Nat
                          /\ Cardinality(Open(h, o, closed)) <= Cardinality(RecordsOf(h, o))
                          /\ RetryDue(h, o) \in 0..1
                    /\ \A t \in EventTypes : Caused(o, t) \in Nat
  BY DEF Countable
<1>1. ASSUME NEW n \in Nat, NEW T \in SUBSET (1..n)
      PROVE  IsFiniteSet(T) /\ Cardinality(T) \in Nat
  <2>1. IsFiniteSet(1..n)
    BY FS_Interval
  <2> QED
    BY <2>1, FS_Subset, FS_CardinalityType
<1>2. ASSUME NEW h \in Stages, NEW closed \in SUBSET Phases
      PROVE  /\ IsFiniteSet(RecordsOf(h, o)) /\ Cardinality(RecordsOf(h, o)) \in Nat
             /\ IsFiniteSet(Open(h, o, closed)) /\ Cardinality(Open(h, o, closed)) \in Nat
             /\ Cardinality(Open(h, o, closed)) <= Cardinality(RecordsOf(h, o))
             /\ RetryDue(h, o) \in 0..1
  <2>1. Len(log[h.topic]) \in Nat
    BY StageFacts DEF LogsOK
  <2>2. RecordsOf(h, o) \in SUBSET (1..Len(log[h.topic]))
    BY DEF RecordsOf
  <2>3. Open(h, o, closed) \in SUBSET RecordsOf(h, o)
    BY DEF Open
  <2>4. IsFiniteSet(RecordsOf(h, o)) /\ Cardinality(RecordsOf(h, o)) \in Nat
    BY <1>1, <2>1, <2>2
  <2>5. /\ IsFiniteSet(Open(h, o, closed))
        /\ Cardinality(Open(h, o, closed)) <= Cardinality(RecordsOf(h, o))
    BY <2>3, <2>4, FS_Subset
  <2> QED
    BY <2>4, <2>5, FS_CardinalityType DEF RetryDue
<1>3. ASSUME NEW t \in EventTypes PROVE Caused(o, t) \in Nat
  <2>1. Len(envelopes) \in Nat
    BY DEF LogsOK
  <2> QED
    BY <1>1, <2>1 DEF Caused
<1> QED
  BY <1>2, <1>3

(* The same a step later. *)
LEMMA CountedFiniteNext == LogsOK' => Countable'
BY CountedFinite, PTL

------------------------------------------------------------------------------
(* What a step adds to the records and envelopes of an order. *)

(* At most n records of the order are added at the end of the stage's topic. *)
Gains(h, o, n) ==
    RecordsOf(h, o)' \subseteq
        RecordsOf(h, o) \cup ((Len(log[h.topic]) + 1)..(Len(log[h.topic]) + n))

(* The topics are at most n records longer. *)
GrownBy(n) == \A t \in Topics : Len(log'[t]) <= Len(log[t]) + n

(* An append makes its topic one record longer, or two. *)
LEMMA AppendedLength ==
    ASSUME LogsOK, NEW type, ResolveKafkaTopic(type) \in Topics,
           NEW r \in Record, NEW n \in {1, 2}, Appended(type, r, n)
    PROVE  GrownBy(n)
<1> DEFINE T == ResolveKafkaTopic(type)
           added == IF n = 1 THEN <<r>> ELSE <<r, r>>
<1>1. log' = [log EXCEPT ![T] = log[T] \o added] /\ T \in Topics
  BY DEF Appended
<1>2. added \in Seq(Record) /\ Len(added) = n
  <2>1. CASE n = 1
    BY <2>1
  <2>2. CASE n = 2
    BY <2>2
  <2> QED
    BY <2>1, <2>2
<1>3. log \in [Topics -> Seq(Record)]
  BY DEF LogsOK
<1> HIDE DEF added, T
<1>4. Len(log[T] \o added) = Len(log[T]) + n
  BY <1>1, <1>2, <1>3
<1> SUFFICES ASSUME NEW t \in Topics PROVE Len(log'[t]) <= Len(log[t]) + n
  BY DEF GrownBy
<1>5. Len(log[t]) \in Nat
  BY <1>3
<1>6. CASE t = T
  BY <1>1, <1>3, <1>4, <1>5, <1>6
<1>7. CASE t # T
  BY <1>1, <1>3, <1>5, <1>7
<1> QED
  BY <1>6, <1>7

(* A stage gains only records of the type it takes, for their own order. *)
LEMMA GainsByAppend ==
    ASSUME LogsOK, Grows, NEW n \in 0..2, GrownBy(n),
           NEW type, NEW order, NEW id, OnlyAdds(type, id),
           envelopes'[id].type = type, envelopes'[id].order = order,
           NEW h \in Stages, NEW o \in Orders
    PROVE  /\ Gains(h, o, n)
           /\ type # Takes(h) \/ order # o => Gains(h, o, 0)
<1> DEFINE T == h.topic
<1>1. /\ T \in Topics
      /\ Len(log[T]) \in Nat /\ Len(log'[T]) \in Nat
      /\ Len(log'[T]) <= Len(log[T]) + n
      /\ \A k \in 1..Len(log[T]) : /\ log'[T][k] = log[T][k]
                                   /\ log[T][k].event \in 1..Len(envelopes)
  BY StageFacts DEF LogsOK, Grows, GrownBy
<1>2. \A k \in 1..Len(log[T]) : k \in RecordsOf(h, o)' => k \in RecordsOf(h, o)
  BY <1>1 DEF RecordsOf, Grows
<1>3. \A k \in RecordsOf(h, o)' : k \notin 1..Len(log[T]) =>
         /\ k \in (Len(log[T]) + 1)..(Len(log[T]) + n)
         /\ type = Takes(h) /\ order = o
  BY <1>1 DEF RecordsOf, OnlyAdds
<1> QED
  BY <1>1, <1>2, <1>3 DEF Gains

(* A stage gains nothing while the topics stay. *)
LEMMA GainsNothing ==
    ASSUME UNCHANGED <<envelopes, log>>, NEW h \in Stages, NEW o \in Orders
    PROVE  Gains(h, o, 0)
BY DEF Gains, RecordsOf

(* An envelope made counts once, for its own order and type. *)
LEMMA CausedAfter ==
    ASSUME LogsOK, NEW type \in EventTypes, NEW order \in Orders, NEW cause \in Nat,
           CreateEnvelope(type, order, cause), NEW o \in Orders, NEW t \in EventTypes
    PROVE  /\ Caused(o, t)' <= Caused(o, t) + 1
           /\ t # type \/ o # order => Caused(o, t)' <= Caused(o, t)
<1> DEFINE e == [type |-> type, order |-> order, cause |-> cause]
           L == Len(envelopes)
           S == {id \in 1..Len(envelopes) : envelopes[id].order = o /\ envelopes[id].type = t}
<1>1. e \in Envelope /\ e.type = type /\ e.order = order
  BY DEF Envelope
<1>2. envelopes \in Seq(Envelope) /\ envelopes' = Append(envelopes, e)
  BY DEF LogsOK, CreateEnvelope
<1> HIDE DEF e
<1>3. /\ L \in Nat /\ Len(envelopes') = L + 1
      /\ envelopes'[L + 1] = e
      /\ \A id \in 1..L : envelopes'[id] = envelopes[id]
  BY <1>1, <1>2
<1>4. IsFiniteSet(S) /\ Cardinality(S) = Caused(o, t)
  <2>1. IsFiniteSet(1..L)
    BY <1>3, FS_Interval
  <2>2. S \subseteq 1..L
    OBVIOUS
  <2> QED
    BY <2>1, <2>2, FS_Subset DEF Caused
<1>5. \A id \in S' : id \in S \/ (id = L + 1 /\ t = type /\ o = order)
  BY <1>1, <1>3
<1>6. Cardinality(S') = Caused(o, t)'
  BY DEF Caused
<1>7. S' \subseteq S \cup ((L + 1)..(L + 1))
  BY <1>3, <1>5
<1>8. t # type \/ o # order => S' \subseteq S \cup ((L + 1)..(L + 0))
  BY <1>5
<1> DEFINE U == S'
<1> HIDE DEF S
<1>9. \A n \in 0..2 : U \subseteq S \cup ((L + 1)..(L + n)) => Cardinality(U) <= Cardinality(S) + n
  <2> HIDE DEF U, L
  <2> TAKE n \in 0..2
  <2> QED
    BY <1>3, <1>4, SizeAfter
<1>10. Cardinality(S) \in Nat
  BY <1>4, FS_CardinalityType
<1>11. Cardinality(U) <= Cardinality(S) + 1
  BY <1>7, <1>9
<1>12. t # type \/ o # order => Cardinality(U) <= Cardinality(S) + 0
  BY <1>8, <1>9
<1> QED
  BY <1>4, <1>6, <1>10, <1>11, <1>12

------------------------------------------------------------------------------
(* What a step at a stage does to its open records. *)

DoneOnly == {"done"}
Handed == {"sending", "done"}

(* The stage opens nothing again and no retry falls due. *)
Calm(h) ==
    \/ /\ position'[h] = position[h]
       /\ phase[h] = "done" => phase'[h] = "done"
       /\ phase[h] = "sending" => phase'[h] \in Handed
       /\ phase'[h] = "failed" => phase[h] = "failed"
    \/ /\ position'[h] = position[h] + 1
       /\ phase'[h] = "idle"

(* The records of the order at the stage, open or not, grow by n at most. *)
Grown(h, o, n) ==
    /\ Cardinality(RecordsOf(h, o)') <= Cardinality(RecordsOf(h, o)) + n
    /\ \A closed \in {DoneOnly, Handed} :
          Cardinality(Open(h, o, closed)') <= Cardinality(Open(h, o, closed)) + n
    /\ RetryDue(h, o)' <= RetryDue(h, o)

(* Nothing more than n is open after a step that adds n and reopens nothing. *)
LEMMA OpenAfter ==
    ASSUME LogsOK, PlacesOK, LogsOK', NEW h \in Stages, NEW o \in Orders,
           NEW n \in 0..2, Gains(h, o, n), position'[h] \in Nat, NEW closed \in SUBSET Phases
    PROVE  /\ Cardinality(RecordsOf(h, o)') <= Cardinality(RecordsOf(h, o)) + n
           /\ Cardinality(Open(h, o, closed)') <= Cardinality(RecordsOf(h, o)) + n
           /\ \/ position'[h] = position[h] /\ (phase[h] \in closed => phase'[h] \in closed)
              \/ position'[h] = position[h] + 1
              => Cardinality(Open(h, o, closed)') <= Cardinality(Open(h, o, closed)) + n
           /\ /\ position'[h] = position[h]
              /\ phase[h] \notin closed /\ phase'[h] \in closed
              /\ position[h] + 1 \in RecordsOf(h, o)
              => Cardinality(Open(h, o, closed)') + 1 <= Cardinality(Open(h, o, closed)) + n
           /\ position'[h] = position[h] /\ n = 0
              => Cardinality(Open(h, o, closed)') <= Cardinality(Open(h, o, closed)) + 1
<1> DEFINE L == Len(log[h.topic])
           R == RecordsOf(h, o)
           Rnext == RecordsOf(h, o)'
           S == Open(h, o, closed)
           Snext == Open(h, o, closed)'
           p == position[h]
<1>1. L \in Nat /\ p \in Nat /\ p <= L
  BY StageFacts DEF LogsOK, PlacesOK
<1>2. Rnext \subseteq R \cup ((L + 1)..(L + n))
  BY DEF Gains
<1>3. /\ IsFiniteSet(R) /\ Cardinality(R) \in Nat
      /\ IsFiniteSet(S) /\ Cardinality(S) \in Nat
      /\ Cardinality(Rnext) \in Nat /\ Cardinality(Snext) \in Nat
      /\ Cardinality(Snext) <= Cardinality(Rnext)
  BY CountedFinite, CountedFiniteNext DEF Countable
<1>4. R \subseteq 1..L
  BY DEF RecordsOf
<1>5. S = {k \in R : p < k /\ (k = p + 1 => phase[h] \notin closed)}
  BY DEF Open
<1>6. Snext = {k \in Rnext : position'[h] < k /\ (k = position'[h] + 1 => phase'[h] \notin closed)}
  BY DEF Open
<1> HIDE DEF L, R, Rnext, S, Snext, p
<1>7. Cardinality(Rnext) <= Cardinality(R) + n
  BY <1>1, <1>2, <1>3, SizeAfter
<1>8. ASSUME \/ position'[h] = p /\ (phase[h] \in closed => phase'[h] \in closed)
             \/ position'[h] = p + 1
      PROVE  Cardinality(Snext) <= Cardinality(S) + n
  <2>1. ASSUME NEW k \in Snext, k \in R
        PROVE  k \in S
    <3>1. k \in Nat
      BY <1>1, <1>4, <2>1
    <3>2. position'[h] < k /\ (k = position'[h] + 1 => phase'[h] \notin closed)
      BY <1>6, <2>1
    <3>3. CASE position'[h] = p /\ (phase[h] \in closed => phase'[h] \in closed)
      BY <1>5, <2>1, <3>2, <3>3
    <3>4. CASE position'[h] = p + 1
      BY <1>1, <1>5, <2>1, <3>1, <3>2, <3>4
    <3> QED
      BY <1>8, <3>3, <3>4
  <2>2. Snext \subseteq S \cup ((L + 1)..(L + n))
    BY <1>2, <1>6, <2>1
  <2> QED
    BY <1>1, <1>3, <2>2, SizeAfter
<1>9. ASSUME position'[h] = p, phase[h] \notin closed, phase'[h] \in closed, p + 1 \in R
      PROVE  Cardinality(Snext) + 1 <= Cardinality(S) + n
  <2>1. p + 1 \in S
    BY <1>1, <1>5, <1>9
  <2>2. Snext \subseteq (S \ {p + 1}) \cup ((L + 1)..(L + n))
    BY <1>1, <1>2, <1>4, <1>5, <1>6, <1>9
  <2> QED
    BY <1>1, <1>3, <2>1, <2>2, SizeAfter
<1>10. ASSUME position'[h] = p, n = 0
       PROVE  Cardinality(Snext) <= Cardinality(S) + 1
  <2>1. Snext \subseteq R
    BY <1>1, <1>2, <1>6, <1>10
  <2>2. \A k \in Snext : k \in S \/ k = p + 1
    BY <1>5, <1>6, <1>10, <2>1
  <2>3. Snext \subseteq S \cup ((p + 1)..(p + 1))
    BY <1>1, <2>2
  <2>4. 1 \in 0..2
    OBVIOUS
  <2> QED
    BY <1>1, <1>3, <2>3, <2>4, SizeAfter
<1> QED
  BY <1>3, <1>7, <1>8, <1>9, <1>10 DEF R, Rnext, S, Snext, p

(* A calm stage grows only by the records added. *)
LEMMA CalmGrowth ==
    ASSUME LogsOK, PlacesOK, LogsOK', Grows, NEW h \in Stages, NEW o \in Orders,
           NEW n \in 0..2, Gains(h, o, n), Calm(h)
    PROVE  Grown(h, o, n)
<1>1. /\ position[h] \in Nat /\ position'[h] \in Nat
      /\ phase[h] \in Phases
      /\ Len(log[h.topic]) \in Nat
      /\ phase[h] # "idle" => position[h] < Len(log[h.topic])
  BY StageFacts DEF PlacesOK, LogsOK, Calm
<1>2. DoneOnly \in SUBSET Phases /\ Handed \in SUBSET Phases
  BY DEF DoneOnly, Handed, Phases
<1>3. ASSUME NEW closed \in {DoneOnly, Handed}
      PROVE  /\ Cardinality(RecordsOf(h, o)') <= Cardinality(RecordsOf(h, o)) + n
             /\ Cardinality(Open(h, o, closed)') <= Cardinality(Open(h, o, closed)) + n
  <2>1. \/ position'[h] = position[h] /\ (phase[h] \in closed => phase'[h] \in closed)
        \/ position'[h] = position[h] + 1
    BY DEF Calm, DoneOnly, Handed
  <2>2. closed \in SUBSET Phases
    BY <1>2
  <2> QED
    BY <1>1, <2>1, <2>2, OpenAfter
<1>4. RetryDue(h, o)' <= RetryDue(h, o)
  <2>1. RetryDue(h, o) \in 0..1 /\ RetryDue(h, o)' \in 0..1
    BY <1>2, CountedFinite, CountedFiniteNext DEF Countable
  <2>2. ASSUME phase'[h] = "failed", position'[h] + 1 \in RecordsOf(h, o)'
        PROVE  phase[h] = "failed" /\ position[h] + 1 \in RecordsOf(h, o)
    <3>1. phase[h] = "failed" /\ position'[h] = position[h]
      BY <2>2 DEF Calm
    <3>2. position[h] + 1 \notin (Len(log[h.topic]) + 1)..(Len(log[h.topic]) + n)
      BY <1>1, <3>1
    <3> QED
      BY <2>2, <3>1, <3>2 DEF Gains
  <2> QED
    BY <2>1, <2>2 DEF RetryDue
<1> QED
  BY <1>3, <1>4 DEF Grown

------------------------------------------------------------------------------
(* What a publish adds, order by order. *)

(* Records of the type are added for the order, n at most; no other are. *)
AddsRecords(type, order, n) ==
    \A h \in Stages, o \in Orders :
        /\ Gains(h, o, n)
        /\ type # Takes(h) \/ order # o => Gains(h, o, 0)

(* One envelope of the type is made for the order at most; no other is. *)
AddsEnvelope(type, order) ==
    \A o \in Orders, t \in EventTypes :
        /\ Caused(o, t)' <= Caused(o, t) + 1
        /\ t # type \/ o # order => Caused(o, t)' <= Caused(o, t)

(* A step that touches neither topics nor envelopes adds nothing. *)
LEMMA AddsNothing ==
    ASSUME LogsOK, UNCHANGED <<envelopes, log>>, NEW type, NEW order
    PROVE  AddsRecords(type, order, 0) /\ AddsEnvelope(type, order)
<1>1. AddsRecords(type, order, 0)
  BY GainsNothing DEF AddsRecords
<1>2. ASSUME NEW o \in Orders, NEW t \in EventTypes
      PROVE  Caused(o, t) \in Nat /\ Caused(o, t)' = Caused(o, t)
  BY CountedFinite DEF Countable, Caused
<1> QED
  BY <1>1, <1>2 DEF AddsEnvelope

(* An envelope made and sent up to twice. *)
LEMMA AddsByMaking ==
    ASSUME LogsOK, Grows, NEW type \in EventTypes, NEW order \in Orders, NEW cause \in Nat,
           ResolveKafkaTopic(type) \in Topics, CreateEnvelope(type, order, cause), NEW n \in 0..2,
           \/ n = 0 /\ log' = log
           \/ n \in {1, 2} /\ Appended(type, Fresh(NewEventId), n)
    PROVE  AddsRecords(type, order, n) /\ AddsEnvelope(type, order)
<1>1. AddsEnvelope(type, order)
  BY CausedAfter DEF AddsEnvelope
<1> DEFINE e == [type |-> type, order |-> order, cause |-> cause]
<1>2. e \in Envelope /\ e.type = type /\ e.order = order
  BY DEF Envelope
<1>3. envelopes \in Seq(Envelope) /\ envelopes' = Append(envelopes, e)
  BY DEF LogsOK, CreateEnvelope
<1> HIDE DEF e
<1>4. NewEventId \in Nat /\ envelopes'[NewEventId] = e
  BY <1>2, <1>3 DEF NewEventId
<1>5. log \in [Topics -> Seq(Record)] /\ \A t \in Topics : Len(log[t]) \in Nat
  BY DEF LogsOK
<1>6. Fresh(NewEventId) \in Record /\ Fresh(NewEventId).event = NewEventId
  BY <1>4 DEF Fresh, Record
<1>7. GrownBy(n) /\ OnlyAdds(type, NewEventId)
  <2>1. CASE n = 0 /\ log' = log
    BY <2>1, <1>5 DEF GrownBy, OnlyAdds
  <2>2. CASE n \in {1, 2} /\ Appended(type, Fresh(NewEventId), n)
    <3>1. GrownBy(n)
      BY <2>2, <1>6, AppendedLength
    <3>2. OnlyAdds(type, NewEventId)
      BY <2>2, <1>5, <1>6, AppendedEffect
    <3> QED
      BY <3>1, <3>2
  <2> QED
    BY <2>1, <2>2
<1>8. ASSUME NEW h \in Stages, NEW o \in Orders
      PROVE  Gains(h, o, n) /\ (type # Takes(h) \/ order # o => Gains(h, o, 0))
  BY <1>2, <1>4, <1>7, GainsByAppend
<1> QED
  BY <1>1, <1>8 DEF AddsRecords

(* A publish that succeeds: its record arrives twice only at the price of a fault. *)
LEMMA AddsByEmit ==
    ASSUME LogsOK, Grows, NEW type \in EventTypes, NEW order \in Orders, NEW cause \in Nat,
           ResolveKafkaTopic(type) \in Topics, CreateEnvelope(type, order, cause),
           Emit(type, Fresh(NewEventId))
    PROVE  /\ AddsEnvelope(type, order)
           /\ \/ AddsRecords(type, order, 1) /\ UNCHANGED faults
              \/ AddsRecords(type, order, 2) /\ NewFault
<1>1. CASE Appended(type, Fresh(NewEventId), 1) /\ UNCHANGED faults
  <2>1. 1 \in 0..2 /\ 1 \in {1, 2}
    OBVIOUS
  <2> QED
    BY <1>1, <2>1, AddsByMaking
<1>2. CASE Appended(type, Fresh(NewEventId), 2) /\ NewFault
  <2>1. 2 \in 0..2 /\ 2 \in {1, 2}
    OBVIOUS
  <2> QED
    BY <1>2, <2>1, AddsByMaking
<1> QED
  BY <1>1, <1>2 DEF Emit

(* A publish that rejects. *)
LEMMA AddsByReject ==
    ASSUME LogsOK, Grows, NEW type \in EventTypes, NEW order \in Orders, NEW cause \in Nat,
           ResolveKafkaTopic(type) \in Topics, SendRejects(type, order, cause)
    PROVE  /\ AddsEnvelope(type, order)
           /\ \E n \in 0..1 : AddsRecords(type, order, n)
<1>1. CASE UNCHANGED <<envelopes, log>>
  BY <1>1, AddsNothing
<1>2. CASE CreateEnvelope(type, order, cause) /\ Appended(type, Fresh(NewEventId), 1)
  <2>1. 1 \in 0..2 /\ 1 \in {1, 2} /\ 1 \in 0..1
    OBVIOUS
  <2> QED
    BY <1>2, <2>1, AddsByMaking
<1> QED
  BY <1>1, <1>2 DEF SendRejects

(* A record republished for another attempt. *)
LEMMA AddsByRepeat ==
    ASSUME LogsOK, PlacesOK, Grows, NEW h \in Handlers, phase[h] \in Working, UNCHANGED envelopes,
           NEW n \in {1, 2}, Appended(InHand(h).type, Again(h), n)
    PROVE  \A s \in Stages, o \in Orders :
               /\ Gains(s, o, n)
               /\ s # h \/ InHand(h).order # o => Gains(s, o, 0)
<1>1. /\ Current(h) \in Record /\ EventInHand(h) \in 1..Len(envelopes)
      /\ InHand(h) \in Envelope /\ Accepts(h, InHand(h).type)
      /\ ResolveKafkaTopic(InHand(h).type) \in Topics
  BY AtWork
<1>2. Again(h) \in Record /\ Again(h).event = EventInHand(h)
  <2>1. Len(envelopes) \in Nat
    BY DEF LogsOK
  <2> QED
    BY <1>1, <2>1 DEF Again, NextAttempt, EventInHand, Record
<1>3. log \in [Topics -> Seq(Record)]
  BY DEF LogsOK
<1>4. GrownBy(n) /\ OnlyAdds(InHand(h).type, EventInHand(h))
  <2>1. GrownBy(n)
    BY <1>1, <1>2, AppendedLength
  <2>2. OnlyAdds(InHand(h).type, EventInHand(h))
    BY <1>1, <1>2, <1>3, AppendedEffect
  <2> QED
    BY <2>1, <2>2
<1>5. envelopes'[EventInHand(h)].type = InHand(h).type /\ envelopes'[EventInHand(h)].order = InHand(h).order
  BY DEF InHand
<1>6. ASSUME NEW s \in Stages, s # h
      PROVE  InHand(h).type # Takes(s)
  <2>1. InHand(h).type \in EventTypes
    BY <1>1 DEF Envelope
  <2>2. h \in OrderHandlers => InHand(h).type \in {"payment.failed", "notification.sent"}
    BY <1>1, <2>1, AcceptedType
  <2>3. h = stock => InHand(h).type = "payment.processed"
    BY <1>1, <2>1, AcceptedType
  <2>4. h = notification => InHand(h).type = "stock.reserved"
    BY <1>1, <2>1, AcceptedType
  <2>5. Takes(stock) = "payment.processed" /\ Takes(notification) = "stock.reserved"
    BY StageFacts
  <2>6. (s = stock \/ s = notification) /\ (h \in OrderHandlers \/ h = stock \/ h = notification)
    BY StageFacts DEF Stages
  <2> QED
    BY <1>6, <2>2, <2>3, <2>4, <2>5, <2>6
<1>7. n \in 0..2
  OBVIOUS
<1> TAKE s \in Stages, o \in Orders
<1>8. /\ Gains(s, o, n)
      /\ InHand(h).type # Takes(s) \/ InHand(h).order # o => Gains(s, o, 0)
  BY <1>4, <1>5, <1>7, GainsByAppend
<1> QED
  BY <1>6, <1>8

------------------------------------------------------------------------------
(* What a step costs an order. *)

Recorded(h, o) == Cardinality(RecordsOf(h, o))
OpenAt(h, o, closed) == Cardinality(Open(h, o, closed))

(* No share of the order grows by more than c. *)
Costs(o, c) == \A i \in 1..5 : Shares(o)'[i] <= Shares(o)[i] + c

(* The shares are sums of these numbers. *)
LEMMA ShareSums ==
    \A o \in Orders :
        /\ Shares(o)[1] = Recorded(stock, o) + RetryDue(stock, o)
        /\ Shares(o)[2] = Caused(o, "stock.reserved") + OpenAt(stock, o, DoneOnly)
        /\ Shares(o)[3] = Recorded(notification, o) + RetryDue(notification, o)
                             + OpenAt(stock, o, DoneOnly)
        /\ Shares(o)[4] = Caused(o, "notification.send") + OpenAt(notification, o, Handed)
                             + OpenAt(stock, o, DoneOnly)
        /\ Shares(o)[5] = Caused(o, "notification.sent") + OpenAt(notification, o, DoneOnly)
                             + OpenAt(stock, o, DoneOnly)
BY DEF Shares, Recorded, OpenAt, DoneOnly, Handed

(* The same a step later. *)
LEMMA ShareSumsNext ==
    \A o \in Orders :
        /\ Shares(o)'[1] = Recorded(stock, o)' + RetryDue(stock, o)'
        /\ Shares(o)'[2] = Caused(o, "stock.reserved")' + OpenAt(stock, o, DoneOnly)'
        /\ Shares(o)'[3] = Recorded(notification, o)' + RetryDue(notification, o)'
                              + OpenAt(stock, o, DoneOnly)'
        /\ Shares(o)'[4] = Caused(o, "notification.send")' + OpenAt(notification, o, Handed)'
                              + OpenAt(stock, o, DoneOnly)'
        /\ Shares(o)'[5] = Caused(o, "notification.sent")' + OpenAt(notification, o, DoneOnly)'
                              + OpenAt(stock, o, DoneOnly)'
<1>1. (\A o \in Orders :
        /\ Shares(o)[1] = Recorded(stock, o) + RetryDue(stock, o)
        /\ Shares(o)[2] = Caused(o, "stock.reserved") + OpenAt(stock, o, DoneOnly)
        /\ Shares(o)[3] = Recorded(notification, o) + RetryDue(notification, o)
                             + OpenAt(stock, o, DoneOnly)
        /\ Shares(o)[4] = Caused(o, "notification.send") + OpenAt(notification, o, Handed)
                             + OpenAt(stock, o, DoneOnly)
        /\ Shares(o)[5] = Caused(o, "notification.sent") + OpenAt(notification, o, DoneOnly)
                             + OpenAt(stock, o, DoneOnly))'
  BY ShareSums, PTL
<1> QED
  BY <1>1

(* They are numbers. *)
ShareParts(o) ==
    /\ \A h \in Stages :
          /\ Recorded(h, o) \in Nat /\ RetryDue(h, o) \in 0..1
          /\ \A closed \in {DoneOnly, Handed} :
                OpenAt(h, o, closed) \in Nat /\ OpenAt(h, o, closed) <= Recorded(h, o)
    /\ \A t \in DOMAIN Causes : Caused(o, t) \in Nat

(* They are so in every state with topics. *)
LEMMA SharePartsTyped == LogsOK => \A o \in Orders : ShareParts(o)
<1>1. DoneOnly \in SUBSET Phases /\ Handed \in SUBSET Phases
  BY DEF DoneOnly, Handed, Phases
<1>2. DOMAIN Causes \subseteq EventTypes
  BY DEF Causes, EventTypes
<1> QED
  BY <1>1, <1>2, CountedFinite DEF Countable, ShareParts, Recorded, OpenAt

(* The same a step later. *)
LEMMA SharePartsTypedNext == LogsOK' => \A o \in Orders : ShareParts(o)'
<1>1. (LogsOK => \A o \in Orders : ShareParts(o))'
  BY SharePartsTyped, PTL
<1> QED
  BY <1>1

(* The cost of a step, share by share. *)
LEMMA CostsOf ==
    ASSUME LogsOK, LogsOK', NEW o \in Orders, NEW c \in Nat,
           Recorded(stock, o)' + RetryDue(stock, o)' <= Recorded(stock, o) + RetryDue(stock, o) + c,
           Caused(o, "stock.reserved")' + OpenAt(stock, o, DoneOnly)'
               <= Caused(o, "stock.reserved") + OpenAt(stock, o, DoneOnly) + c,
           Recorded(notification, o)' + RetryDue(notification, o)' + OpenAt(stock, o, DoneOnly)'
               <= Recorded(notification, o) + RetryDue(notification, o)
                     + OpenAt(stock, o, DoneOnly) + c,
           Caused(o, "notification.send")' + OpenAt(notification, o, Handed)'
                     + OpenAt(stock, o, DoneOnly)'
               <= Caused(o, "notification.send") + OpenAt(notification, o, Handed)
                     + OpenAt(stock, o, DoneOnly) + c,
           Caused(o, "notification.sent")' + OpenAt(notification, o, DoneOnly)'
                     + OpenAt(stock, o, DoneOnly)'
               <= Caused(o, "notification.sent") + OpenAt(notification, o, DoneOnly)
                     + OpenAt(stock, o, DoneOnly) + c
    PROVE  Costs(o, c)
<1>1. \A i \in 1..5 : i = 1 \/ i = 2 \/ i = 3 \/ i = 4 \/ i = 5
  OBVIOUS
<1>2. Shares(o)'[1] <= Shares(o)[1] + c
  BY ShareSums, ShareSumsNext
<1>3. Shares(o)'[2] <= Shares(o)[2] + c
  BY ShareSums, ShareSumsNext
<1>4. Shares(o)'[3] <= Shares(o)[3] + c
  BY ShareSums, ShareSumsNext
<1>5. Shares(o)'[4] <= Shares(o)[4] + c
  BY ShareSums, ShareSumsNext
<1>6. Shares(o)'[5] <= Shares(o)[5] + c
  BY ShareSums, ShareSumsNext
<1> QED
  BY <1>1, <1>2, <1>3, <1>4, <1>5, <1>6 DEF Costs

(* Calm stages that gain no more than c in all, and no envelope. *)
LEMMA CalmCosts ==
    ASSUME LogsOK, LogsOK', NEW o \in Orders, NEW m \in Nat, NEW n \in Nat, NEW c \in Nat, m + n <= c,
           Grown(stock, o, m), Grown(notification, o, n),
           \A t \in DOMAIN Causes : Caused(o, t)' <= Caused(o, t)
    PROVE  Costs(o, c)
<1>1. DOMAIN Causes = {"stock.reserved", "notification.send", "notification.sent"}
  BY DEF Causes
<1>2. ShareParts(o) /\ ShareParts(o)'
  BY SharePartsTyped, SharePartsTypedNext
<1>3. /\ Recorded(stock, o)' <= Recorded(stock, o) + m
      /\ OpenAt(stock, o, DoneOnly)' <= OpenAt(stock, o, DoneOnly) + m
      /\ RetryDue(stock, o)' <= RetryDue(stock, o)
      /\ Recorded(notification, o)' <= Recorded(notification, o) + n
      /\ OpenAt(notification, o, DoneOnly)' <= OpenAt(notification, o, DoneOnly) + n
      /\ OpenAt(notification, o, Handed)' <= OpenAt(notification, o, Handed) + n
      /\ RetryDue(notification, o)' <= RetryDue(notification, o)
  BY DEF Grown, Recorded, OpenAt
<1>4. /\ Recorded(stock, o) \in Nat /\ Recorded(stock, o)' \in Nat
      /\ OpenAt(stock, o, DoneOnly) \in Nat /\ OpenAt(stock, o, DoneOnly)' \in Nat
      /\ RetryDue(stock, o) \in 0..1 /\ RetryDue(stock, o)' \in 0..1
      /\ Recorded(notification, o) \in Nat /\ Recorded(notification, o)' \in Nat
      /\ OpenAt(notification, o, DoneOnly) \in Nat /\ OpenAt(notification, o, DoneOnly)' \in Nat
      /\ OpenAt(notification, o, Handed) \in Nat /\ OpenAt(notification, o, Handed)' \in Nat
      /\ RetryDue(notification, o) \in 0..1 /\ RetryDue(notification, o)' \in 0..1
  BY <1>2 DEF ShareParts, Stages
<1>5. /\ Caused(o, "stock.reserved") \in Nat /\ Caused(o, "stock.reserved")' \in Nat
      /\ Caused(o, "notification.send") \in Nat /\ Caused(o, "notification.send")' \in Nat
      /\ Caused(o, "notification.sent") \in Nat /\ Caused(o, "notification.sent")' \in Nat
      /\ Caused(o, "stock.reserved")' <= Caused(o, "stock.reserved")
      /\ Caused(o, "notification.send")' <= Caused(o, "notification.send")
      /\ Caused(o, "notification.sent")' <= Caused(o, "notification.sent")
  BY <1>1, <1>2 DEF ShareParts
<1> QED
  BY <1>3, <1>4, <1>5, CostsOf

(* The numbers a cost is made of. *)
LEMMA PartNumbers ==
    ASSUME LogsOK, LogsOK', NEW o \in Orders
    PROVE  /\ Recorded(stock, o) \in Nat /\ Recorded(stock, o)' \in Nat
           /\ OpenAt(stock, o, DoneOnly) \in Nat /\ OpenAt(stock, o, DoneOnly)' \in Nat
           /\ RetryDue(stock, o) \in 0..1 /\ RetryDue(stock, o)' \in 0..1
           /\ Recorded(notification, o) \in Nat /\ Recorded(notification, o)' \in Nat
           /\ OpenAt(notification, o, DoneOnly) \in Nat /\ OpenAt(notification, o, DoneOnly)' \in Nat
           /\ OpenAt(notification, o, Handed) \in Nat /\ OpenAt(notification, o, Handed)' \in Nat
           /\ RetryDue(notification, o) \in 0..1 /\ RetryDue(notification, o)' \in 0..1
           /\ Caused(o, "stock.reserved") \in Nat /\ Caused(o, "stock.reserved")' \in Nat
           /\ Caused(o, "notification.send") \in Nat /\ Caused(o, "notification.send")' \in Nat
           /\ Caused(o, "notification.sent") \in Nat /\ Caused(o, "notification.sent")' \in Nat
<1>1. DOMAIN Causes = {"stock.reserved", "notification.send", "notification.sent"}
  BY DEF Causes
<1>2. ShareParts(o) /\ ShareParts(o)'
  BY SharePartsTyped, SharePartsTypedNext
<1> QED
  BY <1>1, <1>2 DEF ShareParts, Stages

(* What a calm stage gains, in these numbers. *)
LEMMA CalmNumbers ==
    ASSUME LogsOK, PlacesOK, LogsOK', Grows, NEW h \in Stages, NEW o \in Orders,
           NEW n \in 0..2, Gains(h, o, n), Calm(h)
    PROVE  /\ Recorded(h, o)' <= Recorded(h, o) + n
           /\ OpenAt(h, o, DoneOnly)' <= OpenAt(h, o, DoneOnly) + n
           /\ OpenAt(h, o, Handed)' <= OpenAt(h, o, Handed) + n
           /\ RetryDue(h, o)' <= RetryDue(h, o)
BY CalmGrowth DEF Grown, Recorded, OpenAt

(* A stage left alone is calm. *)
LEMMA LeftAlone ==
    ASSUME NEW h \in Stages, position'[h] = position[h], phase'[h] = phase[h]
    PROVE  Calm(h)
BY DEF Calm, Handed

(* The record in the hands of a stage is one of the order its envelope names. *)
LEMMA HandCounted ==
    ASSUME LogsOK, PlacesOK, NEW h \in Stages, phase[h] \in Working, NEW o \in Orders
    PROVE  position[h] + 1 \in RecordsOf(h, o) <=> InHand(h).order = o
<1>1. /\ position[h] + 1 \in 1..Len(log[h.topic])
      /\ InHand(h) \in Envelope /\ Accepts(h, InHand(h).type)
  BY StageFacts, AtWork
<1>2. InHand(h).type = Takes(h)
  BY <1>1, AcceptedType, StageFacts DEF Envelope, Stages
<1> QED
  BY <1>1, <1>2 DEF RecordsOf, InHand, EventInHand, Current

(* A stage that closes the record in its hands. *)
LEMMA ClosingNumbers ==
    ASSUME LogsOK, PlacesOK, LogsOK', NEW h \in Stages, NEW o \in Orders,
           NEW n \in 0..2, Gains(h, o, n), NEW closed \in {DoneOnly, Handed},
           position'[h] = position[h], phase[h] \in Working, phase[h] \notin closed,
           phase'[h] \in closed, InHand(h).order = o
    PROVE  OpenAt(h, o, closed)' + 1 <= OpenAt(h, o, closed) + n
<1>1. closed \in SUBSET Phases
  BY DEF DoneOnly, Handed, Phases
<1>2. position[h] + 1 \in RecordsOf(h, o)
  BY HandCounted
<1>3. position'[h] \in Nat
  BY StageFacts DEF PlacesOK
<1> QED
  BY <1>1, <1>2, <1>3, OpenAfter DEF OpenAt

(* A stage that fails keeps what was open, and a retry falls due. *)
LEMMA FailingNumbers ==
    ASSUME LogsOK, PlacesOK, LogsOK', NEW h \in Stages, NEW o \in Orders, Gains(h, o, 0),
           position'[h] = position[h], phase[h] \in {"handling", "sending"}, phase'[h] = "failed"
    PROVE  /\ Recorded(h, o)' <= Recorded(h, o)
           /\ OpenAt(h, o, DoneOnly)' <= OpenAt(h, o, DoneOnly)
           /\ OpenAt(h, o, Handed)' <= OpenAt(h, o, Handed)
                                          + IF phase[h] = "sending" THEN 1 ELSE 0
           /\ RetryDue(h, o) = 0 /\ RetryDue(h, o)' \in 0..1
<1>1. DoneOnly \in SUBSET Phases /\ Handed \in SUBSET Phases
  BY DEF DoneOnly, Handed, Phases
<1>2. position[h] \in Nat /\ position'[h] \in Nat
  BY StageFacts DEF PlacesOK
<1>3. 0 \in 0..2
  OBVIOUS
<1>4. ShareParts(o) /\ ShareParts(o)'
  BY SharePartsTyped, SharePartsTypedNext
<1>5. /\ Recorded(h, o) \in Nat
      /\ OpenAt(h, o, DoneOnly) \in Nat /\ OpenAt(h, o, Handed) \in Nat
      /\ RetryDue(h, o)' \in 0..1
  BY <1>4 DEF ShareParts
<1>6. Recorded(h, o)' <= Recorded(h, o) + 0
  BY <1>1, <1>2, <1>3, OpenAfter DEF Recorded
<1>7. phase[h] \notin DoneOnly
  BY DEF DoneOnly
<1>8. OpenAt(h, o, DoneOnly)' <= OpenAt(h, o, DoneOnly) + 0
  BY <1>1, <1>2, <1>3, <1>7, OpenAfter DEF OpenAt
<1>9. phase[h] = "handling" => OpenAt(h, o, Handed)' <= OpenAt(h, o, Handed) + 0
  <2>1. phase[h] = "handling" => phase[h] \notin Handed
    BY DEF Handed
  <2> QED
    BY <1>1, <1>2, <1>3, <2>1, OpenAfter DEF OpenAt
<1>10. OpenAt(h, o, Handed)' <= OpenAt(h, o, Handed) + 1
  BY <1>1, <1>2, <1>3, OpenAfter DEF OpenAt
<1>11. RetryDue(h, o) = 0
  BY DEF RetryDue
<1> QED
  BY <1>5, <1>6, <1>8, <1>9, <1>10, <1>11

------------------------------------------------------------------------------
(* The cost of each action. *)

(* Everything a stage needs to publish about the record in its hands. *)
LEMMA HandReady ==
    ASSUME LogsOK, PlacesOK, NEW h \in Handlers, phase[h] \in Working
    PROVE  InHand(h).order \in Orders /\ EventInHand(h) \in Nat
<1>1. InHand(h) \in Envelope /\ EventInHand(h) \in 1..Len(envelopes) /\ Len(envelopes) \in Nat
  BY AtWork DEF LogsOK
<1> QED
  BY <1>1 DEF Envelope

(* The types the two stages publish. *)
LEMMA StageTypes ==
    /\ "stock.reserved" \in EventTypes /\ ResolveKafkaTopic("stock.reserved") \in Topics
    /\ "notification.send" \in EventTypes /\ ResolveKafkaTopic("notification.send") \in Topics
    /\ "notification.sent" \in EventTypes /\ ResolveKafkaTopic("notification.sent") \in Topics
    /\ "stock.reserved" # Takes(stock)
    /\ \A h \in Stages : "notification.send" # Takes(h) /\ "notification.sent" # Takes(h)
BY DEF EventTypes, ResolveKafkaTopic, Topics, Takes, Stages

(* Reserving closes a payment.processed for a stock.reserved, or two of them by a fault. *)
LEMMA ReserveStockCosts ==
    ASSUME LogsOK, PlacesOK, LogsOK', Grows, ReserveStock, NEW o \in Orders
    PROVE  (UNCHANGED faults /\ Costs(o, 0)) \/ (NewFault /\ Costs(o, 1))
<1> DEFINE order == InHand(stock).order
<1>1. /\ phase[stock] = "handling" /\ phase[stock] \in Working
      /\ UNCHANGED position /\ phase' = [phase EXCEPT ![stock] = "done"]
  BY DEF ReserveStock, Goto, Working
<1>2. stock \in Stages /\ notification \in Stages /\ stock \in Handlers /\ notification \in Handlers
      /\ stock # notification
  BY StageFacts DEF Stages
<1>3. phase'[stock] = "done" /\ phase'[notification] = phase[notification]
  BY <1>1, <1>2 DEF PlacesOK
<1>4. order \in Orders /\ EventInHand(stock) \in Nat
  BY <1>1, <1>2, HandReady
<1>5. /\ AddsEnvelope("stock.reserved", order)
      /\ \/ AddsRecords("stock.reserved", order, 1) /\ UNCHANGED faults
         \/ AddsRecords("stock.reserved", order, 2) /\ NewFault
  BY <1>4, StageTypes, AddsByEmit DEF ReserveStock
<1>6. ASSUME NEW n \in {1, 2}, AddsRecords("stock.reserved", order, n)
      PROVE  Costs(o, n - 1)
  <2>1. Gains(stock, o, 0) /\ Gains(notification, o, n) /\ (order # o => Gains(notification, o, 0))
    BY <1>2, <1>6, StageTypes DEF AddsRecords
  <2>2. Calm(stock) /\ Calm(notification)
    BY <1>1, <1>2, <1>3, LeftAlone DEF Calm
  <2>3. n \in 0..2 /\ 0 \in 0..2 /\ n - 1 \in Nat
    OBVIOUS
  <2>4. \A t \in DOMAIN Causes :
           /\ t # "stock.reserved" \/ o # order => Caused(o, t)' <= Caused(o, t)
           /\ Caused(o, t)' <= Caused(o, t) + 1
    BY <1>5 DEF AddsEnvelope, Causes, EventTypes
  <2>5. CASE order # o
    <3>1. Grown(stock, o, 0) /\ Grown(notification, o, 0)
      BY <1>2, <2>1, <2>2, <2>3, <2>5, CalmGrowth
    <3>2. \A t \in DOMAIN Causes : Caused(o, t)' <= Caused(o, t)
      BY <2>4, <2>5
    <3>3. 0 + 0 <= n - 1
      OBVIOUS
    <3> QED
      BY <2>3, <3>1, <3>2, <3>3, CalmCosts
  <2>6. CASE order = o
    <3>1. /\ Recorded(stock, o)' <= Recorded(stock, o) + 0
          /\ RetryDue(stock, o)' <= RetryDue(stock, o)
      BY <1>2, <2>1, <2>2, <2>3, CalmNumbers
    <3>2. OpenAt(stock, o, DoneOnly)' + 1 <= OpenAt(stock, o, DoneOnly) + 0
      <4>1. phase[stock] \notin DoneOnly /\ phase'[stock] \in DoneOnly /\ DoneOnly \in {DoneOnly, Handed}
        BY <1>1, <1>3 DEF DoneOnly
      <4> QED
        BY <1>1, <1>2, <2>1, <2>3, <2>6, <4>1, ClosingNumbers
    <3>3. /\ Recorded(notification, o)' <= Recorded(notification, o) + n
          /\ OpenAt(notification, o, DoneOnly)' <= OpenAt(notification, o, DoneOnly) + n
          /\ OpenAt(notification, o, Handed)' <= OpenAt(notification, o, Handed) + n
          /\ RetryDue(notification, o)' <= RetryDue(notification, o)
      BY <1>2, <2>1, <2>2, <2>3, CalmNumbers
    <3>4. /\ Caused(o, "stock.reserved")' <= Caused(o, "stock.reserved") + 1
          /\ Caused(o, "notification.send")' <= Caused(o, "notification.send")
          /\ Caused(o, "notification.sent")' <= Caused(o, "notification.sent")
      BY <2>4 DEF Causes
    <3> QED
      BY <2>3, <3>1, <3>2, <3>3, <3>4, PartNumbers, CostsOf
  <2> QED
    BY <2>5, <2>6
<1> QED
  <2>1. 1 \in {1, 2} /\ 1 - 1 = 0 /\ 2 \in {1, 2} /\ 2 - 1 = 1
    OBVIOUS
  <2>2. AddsRecords("stock.reserved", order, 1) => Costs(o, 1 - 1)
    BY <1>6, <2>1
  <2>3. AddsRecords("stock.reserved", order, 2) => Costs(o, 2 - 1)
    BY <1>6, <2>1
  <2> QED
    BY <1>5, <2>1, <2>2, <2>3

(* notification.send is made and the record moves on: nothing is added to what is open. *)
LEMMA SendNotificationCosts ==
    ASSUME LogsOK, PlacesOK, LogsOK', Grows, SendNotification, NEW o \in Orders
    PROVE  Costs(o, 0)
<1> DEFINE order == InHand(notification).order
<1>1. /\ phase[notification] = "handling" /\ phase[notification] \in Working
      /\ UNCHANGED position /\ phase' = [phase EXCEPT ![notification] = "sending"]
  BY DEF SendNotification, Goto, Working
<1>2. stock \in Stages /\ notification \in Stages /\ stock \in Handlers /\ notification \in Handlers
      /\ stock # notification
  BY StageFacts DEF Stages
<1>3. phase'[notification] = "sending" /\ phase'[stock] = phase[stock]
  BY <1>1, <1>2 DEF PlacesOK
<1>4. order \in Orders /\ EventInHand(notification) \in Nat
  BY <1>1, <1>2, HandReady
<1>5. /\ AddsEnvelope("notification.send", order)
      /\ \E n \in {1, 2} : AddsRecords("notification.send", order, n)
  BY <1>4, StageTypes, AddsByEmit DEF SendNotification
<1>6. Gains(stock, o, 0) /\ Gains(notification, o, 0)
  BY <1>2, <1>5, StageTypes DEF AddsRecords
<1>7. Calm(stock) /\ Calm(notification)
  BY <1>1, <1>2, <1>3, LeftAlone DEF Calm
<1>8. \A t \in DOMAIN Causes :
         /\ t # "notification.send" \/ o # order => Caused(o, t)' <= Caused(o, t)
         /\ Caused(o, t)' <= Caused(o, t) + 1
  BY <1>5 DEF AddsEnvelope, Causes, EventTypes
<1>9. 0 \in 0..2 /\ 0 \in Nat /\ 0 + 0 <= 0
  OBVIOUS
<1>10. CASE order # o
  <2>1. Grown(stock, o, 0) /\ Grown(notification, o, 0)
    BY <1>2, <1>6, <1>7, <1>9, CalmGrowth
  <2>2. \A t \in DOMAIN Causes : Caused(o, t)' <= Caused(o, t)
    BY <1>8, <1>10
  <2> QED
    BY <1>9, <2>1, <2>2, CalmCosts
<1>11. CASE order = o
  <2>1. /\ Recorded(stock, o)' <= Recorded(stock, o) + 0
        /\ OpenAt(stock, o, DoneOnly)' <= OpenAt(stock, o, DoneOnly) + 0
        /\ RetryDue(stock, o)' <= RetryDue(stock, o)
    BY <1>2, <1>6, <1>7, <1>9, CalmNumbers
  <2>2. /\ Recorded(notification, o)' <= Recorded(notification, o) + 0
        /\ OpenAt(notification, o, DoneOnly)' <= OpenAt(notification, o, DoneOnly) + 0
        /\ RetryDue(notification, o)' <= RetryDue(notification, o)
    BY <1>2, <1>6, <1>7, <1>9, CalmNumbers
  <2>3. OpenAt(notification, o, Handed)' + 1 <= OpenAt(notification, o, Handed) + 0
    <3>1. phase[notification] \notin Handed /\ phase'[notification] \in Handed /\ Handed \in {DoneOnly, Handed}
      BY <1>1, <1>3 DEF Handed
    <3> QED
      BY <1>1, <1>2, <1>6, <1>9, <1>11, <3>1, ClosingNumbers
  <2>4. /\ Caused(o, "stock.reserved")' <= Caused(o, "stock.reserved")
        /\ Caused(o, "notification.send")' <= Caused(o, "notification.send") + 1
        /\ Caused(o, "notification.sent")' <= Caused(o, "notification.sent")
    BY <1>8 DEF Causes
  <2> QED
    BY <1>9, <2>1, <2>2, <2>3, <2>4, PartNumbers, CostsOf
<1> QED
  BY <1>10, <1>11

(* notification.sent likewise, and the record is done. *)
LEMMA NotificationSentCosts ==
    ASSUME LogsOK, PlacesOK, HeldOK, LogsOK', Grows, NotificationSent, NEW o \in Orders
    PROVE  Costs(o, 0)
<1> DEFINE order == InHand(notification).order
<1>1. /\ phase[notification] = "sending" /\ phase[notification] \in Working
      /\ UNCHANGED position /\ phase' = [phase EXCEPT ![notification] = "done"]
  BY DEF NotificationSent, Goto, Working
<1>2. stock \in Stages /\ notification \in Stages /\ stock \in Handlers /\ notification \in Handlers
      /\ stock # notification
  BY StageFacts DEF Stages
<1>3. phase'[notification] = "done" /\ phase'[stock] = phase[stock]
  BY <1>1, <1>2 DEF PlacesOK
<1>4. order \in Orders /\ held[notification] \in Nat
  BY <1>1, <1>2, HandReady DEF HeldOK
<1>5. /\ AddsEnvelope("notification.sent", order)
      /\ \E n \in {1, 2} : AddsRecords("notification.sent", order, n)
  BY <1>4, StageTypes, AddsByEmit DEF NotificationSent
<1>6. Gains(stock, o, 0) /\ Gains(notification, o, 0)
  BY <1>2, <1>5, StageTypes DEF AddsRecords
<1>7. Calm(stock) /\ Calm(notification)
  BY <1>1, <1>2, <1>3, LeftAlone DEF Calm, Handed
<1>8. \A t \in DOMAIN Causes :
         /\ t # "notification.sent" \/ o # order => Caused(o, t)' <= Caused(o, t)
         /\ Caused(o, t)' <= Caused(o, t) + 1
  BY <1>5 DEF AddsEnvelope, Causes, EventTypes
<1>9. 0 \in 0..2 /\ 0 \in Nat /\ 0 + 0 <= 0
  OBVIOUS
<1>10. CASE order # o
  <2>1. Grown(stock, o, 0) /\ Grown(notification, o, 0)
    BY <1>2, <1>6, <1>7, <1>9, CalmGrowth
  <2>2. \A t \in DOMAIN Causes : Caused(o, t)' <= Caused(o, t)
    BY <1>8, <1>10
  <2> QED
    BY <1>9, <2>1, <2>2, CalmCosts
<1>11. CASE order = o
  <2>1. /\ Recorded(stock, o)' <= Recorded(stock, o) + 0
        /\ OpenAt(stock, o, DoneOnly)' <= OpenAt(stock, o, DoneOnly) + 0
        /\ RetryDue(stock, o)' <= RetryDue(stock, o)
    BY <1>2, <1>6, <1>7, <1>9, CalmNumbers
  <2>2. /\ Recorded(notification, o)' <= Recorded(notification, o) + 0
        /\ OpenAt(notification, o, Handed)' <= OpenAt(notification, o, Handed) + 0
        /\ RetryDue(notification, o)' <= RetryDue(notification, o)
    BY <1>2, <1>6, <1>7, <1>9, CalmNumbers
  <2>3. OpenAt(notification, o, DoneOnly)' + 1 <= OpenAt(notification, o, DoneOnly) + 0
    <3>1. /\ phase[notification] \notin DoneOnly /\ phase'[notification] \in DoneOnly
          /\ DoneOnly \in {DoneOnly, Handed}
      BY <1>1, <1>3 DEF DoneOnly
    <3> QED
      BY <1>1, <1>2, <1>6, <1>9, <1>11, <3>1, ClosingNumbers
  <2>4. /\ Caused(o, "stock.reserved")' <= Caused(o, "stock.reserved")
        /\ Caused(o, "notification.send")' <= Caused(o, "notification.send")
        /\ Caused(o, "notification.sent")' <= Caused(o, "notification.sent") + 1
    BY <1>8 DEF Causes
  <2> QED
    BY <1>9, <2>1, <2>2, <2>3, <2>4, PartNumbers, CostsOf
<1> QED
  BY <1>10, <1>11

(* A publish of stock that rejects costs an order one at most. *)
LEMMA ReserveStockRejectsCosts ==
    ASSUME LogsOK, PlacesOK, LogsOK', Grows, ReserveStockRejects, NEW o \in Orders
    PROVE  Costs(o, 1)
<1> DEFINE order == InHand(stock).order
<1>1. /\ phase[stock] = "handling" /\ phase[stock] \in Working
      /\ UNCHANGED position /\ phase' = [phase EXCEPT ![stock] = "failed"]
  BY DEF ReserveStockRejects, Goto, Working
<1>2. stock \in Stages /\ notification \in Stages /\ stock \in Handlers /\ notification \in Handlers
      /\ stock # notification
  BY StageFacts DEF Stages
<1>3. phase'[stock] = "failed" /\ phase'[notification] = phase[notification]
  BY <1>1, <1>2 DEF PlacesOK
<1>4. order \in Orders /\ EventInHand(stock) \in Nat
  BY <1>1, <1>2, HandReady
<1>5. /\ AddsEnvelope("stock.reserved", order)
      /\ \E n \in 0..1 : AddsRecords("stock.reserved", order, n)
  BY <1>4, StageTypes, AddsByReject DEF ReserveStockRejects
<1>6. PICK n \in 0..1 : AddsRecords("stock.reserved", order, n)
  BY <1>5
<1>7. Gains(stock, o, 0) /\ Gains(notification, o, n)
  BY <1>2, <1>6, StageTypes DEF AddsRecords
<1>8. Calm(notification)
  BY <1>1, <1>2, <1>3, LeftAlone
<1>9. n \in 0..2 /\ 1 \in Nat
  OBVIOUS
<1>10. /\ Caused(o, "stock.reserved")' <= Caused(o, "stock.reserved") + 1
       /\ Caused(o, "notification.send")' <= Caused(o, "notification.send")
       /\ Caused(o, "notification.sent")' <= Caused(o, "notification.sent")
  BY <1>5, StageTypes DEF AddsEnvelope
<1>11. /\ Recorded(stock, o)' <= Recorded(stock, o)
       /\ OpenAt(stock, o, DoneOnly)' <= OpenAt(stock, o, DoneOnly)
       /\ RetryDue(stock, o) = 0 /\ RetryDue(stock, o)' \in 0..1
  BY <1>1, <1>2, <1>3, <1>7, FailingNumbers
<1>12. /\ Recorded(notification, o)' <= Recorded(notification, o) + n
       /\ OpenAt(notification, o, DoneOnly)' <= OpenAt(notification, o, DoneOnly) + n
       /\ OpenAt(notification, o, Handed)' <= OpenAt(notification, o, Handed) + n
       /\ RetryDue(notification, o)' <= RetryDue(notification, o)
  BY <1>2, <1>7, <1>8, <1>9, CalmNumbers
<1> QED
  BY <1>9, <1>10, <1>11, <1>12, PartNumbers, CostsOf

(* So does a publish of notification that rejects, the first or the second. *)
LEMMA NotificationRejectsCosts ==
    ASSUME LogsOK, PlacesOK, HeldOK, LogsOK', Grows,
           SendNotificationRejects \/ NotificationSentRejects, NEW o \in Orders
    PROVE  Costs(o, 1)
<1> DEFINE order == InHand(notification).order
<1>1. /\ phase[notification] \in {"handling", "sending"} /\ phase[notification] \in Working
      /\ UNCHANGED position /\ phase' = [phase EXCEPT ![notification] = "failed"]
      /\ SendNotificationRejects => phase[notification] = "handling"
  BY DEF SendNotificationRejects, NotificationSentRejects, Goto, Working
<1>2. stock \in Stages /\ notification \in Stages /\ stock \in Handlers /\ notification \in Handlers
      /\ stock # notification
  BY StageFacts DEF Stages
<1>3. phase'[notification] = "failed" /\ phase'[stock] = phase[stock]
  BY <1>1, <1>2 DEF PlacesOK
<1>4. order \in Orders /\ EventInHand(notification) \in Nat /\ held[notification] \in Nat
  BY <1>1, <1>2, HandReady DEF HeldOK
<1>5. /\ SendNotificationRejects =>
            /\ AddsEnvelope("notification.send", order)
            /\ \E n \in 0..1 : AddsRecords("notification.send", order, n)
      /\ NotificationSentRejects =>
            /\ AddsEnvelope("notification.sent", order)
            /\ \E n \in 0..1 : AddsRecords("notification.sent", order, n)
  BY <1>4, StageTypes, AddsByReject DEF SendNotificationRejects, NotificationSentRejects
<1>6. Gains(stock, o, 0) /\ Gains(notification, o, 0)
  BY <1>2, <1>5, StageTypes DEF AddsRecords
<1>7. Calm(stock)
  BY <1>1, <1>2, <1>3, LeftAlone
<1>8. 0 \in 0..2 /\ 1 \in Nat
  OBVIOUS
<1>9. /\ Recorded(stock, o)' <= Recorded(stock, o) + 0
      /\ OpenAt(stock, o, DoneOnly)' <= OpenAt(stock, o, DoneOnly) + 0
      /\ RetryDue(stock, o)' <= RetryDue(stock, o)
  BY <1>2, <1>6, <1>7, <1>8, CalmNumbers
<1>10. /\ Recorded(notification, o)' <= Recorded(notification, o)
       /\ OpenAt(notification, o, DoneOnly)' <= OpenAt(notification, o, DoneOnly)
       /\ OpenAt(notification, o, Handed)' <= OpenAt(notification, o, Handed)
                                     + IF phase[notification] = "sending" THEN 1 ELSE 0
       /\ RetryDue(notification, o) = 0 /\ RetryDue(notification, o)' \in 0..1
  BY <1>1, <1>2, <1>3, <1>6, FailingNumbers
<1>11. CASE SendNotificationRejects
  <2>1. /\ Caused(o, "stock.reserved")' <= Caused(o, "stock.reserved")
        /\ Caused(o, "notification.send")' <= Caused(o, "notification.send") + 1
        /\ Caused(o, "notification.sent")' <= Caused(o, "notification.sent")
    BY <1>5, <1>11, StageTypes DEF AddsEnvelope
  <2>2. OpenAt(notification, o, Handed)' <= OpenAt(notification, o, Handed) + 0
    BY <1>1, <1>10, <1>11
  <2> QED
    BY <1>8, <1>9, <1>10, <2>1, <2>2, PartNumbers, CostsOf
<1>12. CASE NotificationSentRejects
  <2>1. /\ Caused(o, "stock.reserved")' <= Caused(o, "stock.reserved")
        /\ Caused(o, "notification.send")' <= Caused(o, "notification.send")
        /\ Caused(o, "notification.sent")' <= Caused(o, "notification.sent") + 1
    BY <1>5, <1>12, StageTypes DEF AddsEnvelope
  <2>2. OpenAt(notification, o, Handed)' <= OpenAt(notification, o, Handed) + 1
    <3>1. phase[notification] = "sending"
      BY <1>12 DEF NotificationSentRejects
    <3> QED
      BY <1>10, <3>1
  <2> QED
    BY <1>8, <1>9, <1>10, <2>1, <2>2, PartNumbers, CostsOf
<1> QED
  BY <1>11, <1>12

(* Where nothing is published and no stage disturbed, the step is free. *)
LEMMA CalmStepCosts ==
    ASSUME LogsOK, PlacesOK, LogsOK', Grows, UNCHANGED <<envelopes, log>>,
           Calm(stock), Calm(notification), NEW o \in Orders
    PROVE  Costs(o, 0)
<1>1. stock \in Stages /\ notification \in Stages
  BY DEF Stages
<1>2. Gains(stock, o, 0) /\ Gains(notification, o, 0)
  BY <1>1, GainsNothing
<1>3. 0 \in 0..2 /\ 0 \in Nat /\ 0 + 0 <= 0
  OBVIOUS
<1>4. Grown(stock, o, 0) /\ Grown(notification, o, 0)
  BY <1>1, <1>2, <1>3, CalmGrowth
<1>5. ASSUME NEW t \in DOMAIN Causes
      PROVE  Caused(o, t)' <= Caused(o, t)
  <2>1. t \in EventTypes /\ AddsEnvelope("order.created", o)
    BY AddsNothing DEF Causes, EventTypes
  <2>2. t # "order.created"
    BY DEF Causes
  <2> QED
    BY <2>1, <2>2 DEF AddsEnvelope
<1> QED
  BY <1>3, <1>4, <1>5, CalmCosts

(* Delivering, dead-lettering, resolving, dropping and redelivering are free. *)
LEMMA DeliveryCosts ==
    ASSUME LogsOK, PlacesOK, LogsOK', Grows, NEW h \in Handlers,
           Deliver(h) \/ SendToDlq(h) \/ Resolve(h) \/ DropEscaped(h) \/ RedeliverEscaped(h),
           NEW o \in Orders
    PROVE  Costs(o, 0)
<1>1. Stages \subseteq Handlers /\ stock \in Stages /\ notification \in Stages
  BY StageFacts DEF Stages
<1>2. UNCHANGED <<envelopes, log>>
  BY DEF Deliver, SendToDlq, Resolve, DropEscaped, RedeliverEscaped
<1>3. ASSUME NEW s \in Stages
      PROVE  Calm(s)
  <2>1. phase \in [Handlers -> Phases] /\ position \in [Handlers -> Nat]
    BY DEF PlacesOK
  <2>2. CASE s # h
    <3>1. position'[s] = position[s] /\ phase'[s] = phase[s]
      BY <1>1, <2>1, <2>2 DEF Deliver, SendToDlq, Resolve, DropEscaped, RedeliverEscaped, Goto
    <3> QED
      BY <3>1, LeftAlone
  <2>3. CASE s = h /\ (Deliver(h) \/ SendToDlq(h) \/ RedeliverEscaped(h))
    <3>1. position' = position
      BY <2>3 DEF Deliver, SendToDlq, RedeliverEscaped
    <3>2. Deliver(h) => phase[h] = "idle" /\ phase'[h] \in {"handling", "done"}
      BY <2>1 DEF Deliver, Goto, HandlersOf
    <3>3. SendToDlq(h) => phase[h] = "failed" /\ phase'[h] = "done"
      BY <2>1 DEF SendToDlq, Goto
    <3>4. RedeliverEscaped(h) => phase[h] = "escaped" /\ phase'[h] = "idle"
      BY <2>1 DEF RedeliverEscaped, Goto
    <3> QED
      BY <2>3, <3>1, <3>2, <3>3, <3>4 DEF Calm, Handed
  <2>4. CASE s = h /\ (Resolve(h) \/ DropEscaped(h))
    BY <2>1, <2>4 DEF Resolve, DropEscaped, Goto, Calm
  <2> QED
    BY <2>2, <2>3, <2>4
<1> QED
  BY <1>1, <1>2, <1>3, CalmStepCosts

(* order-service is no stage: what it does costs no other event. *)
LEMMA OrderStepCosts ==
    ASSUME LogsOK, PlacesOK, LogsOK', Grows, OrderStep, NEW o \in Orders
    PROVE  Costs(o, 0)
<1>1. PICK h \in OrderHandlers : UpdateOrderStatus(h) \/ UpdateRejects(h)
  BY DEF OrderStep
<1>2. /\ h \in Handlers /\ stock # h /\ notification # h /\ Stages \subseteq Handlers
      /\ stock \in Stages /\ notification \in Stages
  BY StageFacts DEF Stages, OrderHandlers
<1>3. UNCHANGED <<envelopes, log, position>>
  BY <1>1 DEF UpdateOrderStatus, UpdateRejects
<1>4. phase'[stock] = phase[stock] /\ phase'[notification] = phase[notification]
  BY <1>1, <1>2 DEF UpdateOrderStatus, UpdateRejects, Goto, PlacesOK
<1>5. Calm(stock) /\ Calm(notification)
  BY <1>2, <1>3, <1>4, LeftAlone
<1> QED
  BY <1>3, <1>5, CalmStepCosts

(* No envelope is made. *)
LEMMA CausedStays ==
    ASSUME LogsOK, UNCHANGED envelopes, NEW o \in Orders
    PROVE  \A t \in DOMAIN Causes : Caused(o, t)' <= Caused(o, t)
<1>1. \A t \in DOMAIN Causes : Caused(o, t) \in Nat
  BY CountedFinite DEF Countable, Causes, EventTypes
<1> QED
  BY <1>1 DEF Caused

(* A retry replaces the failed record by its copy, or two copies by a fault. *)
LEMMA RetryCosts ==
    ASSUME LogsOK, PlacesOK, LogsOK', Grows, NEW h \in Handlers, phase[h] = "failed",
           UNCHANGED <<envelopes, position>>, Goto(h, "done"),
           NEW n \in {1, 2}, Appended(InHand(h).type, Again(h), n), NEW o \in Orders
    PROVE  Costs(o, n - 1)
<1>1. /\ stock \in Stages /\ notification \in Stages /\ stock # notification
      /\ \A s \in Stages : s = stock \/ s = notification
      /\ Stages \subseteq Handlers
  BY StageFacts DEF Stages
<1>2. phase[h] \in Working /\ phase'[h] = "done" /\ \A s \in Handlers : s # h => phase'[s] = phase[s]
  BY DEF Working, Goto, PlacesOK
<1>3. \A s \in Stages : Gains(s, o, n) /\ (s # h \/ InHand(h).order # o => Gains(s, o, 0))
  BY <1>2, AddsByRepeat
<1>4. \A s \in Stages : Calm(s)
  <2> TAKE s \in Stages
  <2>1. CASE s = h
    BY <1>2, <2>1 DEF Calm
  <2>2. CASE s # h
    BY <1>1, <1>2, <2>2, LeftAlone
  <2> QED
    BY <2>1, <2>2
<1>5. n \in 0..2 /\ 0 \in 0..2 /\ 0 \in Nat /\ n - 1 \in Nat /\ 0 + 0 <= n - 1
  OBVIOUS
<1>6. \A t \in DOMAIN Causes : Caused(o, t)' <= Caused(o, t)
  BY CausedStays
<1>7. CASE h \notin Stages \/ InHand(h).order # o
  <2>1. Gains(stock, o, 0) /\ Gains(notification, o, 0)
    BY <1>1, <1>3, <1>7
  <2>2. Grown(stock, o, 0) /\ Grown(notification, o, 0)
    BY <1>1, <1>4, <1>5, <2>1, CalmGrowth
  <2> QED
    BY <1>5, <1>6, <2>2, CalmCosts
<1>8. CASE h \in Stages /\ InHand(h).order = o
  <2>1. /\ Recorded(h, o)' <= Recorded(h, o) + n
        /\ RetryDue(h, o) = 1 /\ RetryDue(h, o)' = 0
    <3>1. position[h] + 1 \in RecordsOf(h, o)
      BY <1>2, <1>8, HandCounted
    <3>2. Recorded(h, o)' <= Recorded(h, o) + n
      BY <1>3, <1>4, <1>5, <1>8, CalmNumbers
    <3> QED
      BY <1>2, <3>1, <3>2 DEF RetryDue
  <2>2. \A closed \in {DoneOnly, Handed} : OpenAt(h, o, closed)' + 1 <= OpenAt(h, o, closed) + n
    <3> TAKE closed \in {DoneOnly, Handed}
    <3>1. phase[h] \notin closed /\ phase'[h] \in closed
      BY <1>2 DEF DoneOnly, Handed
    <3> QED
      BY <1>2, <1>3, <1>5, <1>8, <3>1, ClosingNumbers
  <2>3. \A s \in Stages : s # h =>
           /\ Recorded(s, o)' <= Recorded(s, o) + 0
           /\ OpenAt(s, o, DoneOnly)' <= OpenAt(s, o, DoneOnly) + 0
           /\ OpenAt(s, o, Handed)' <= OpenAt(s, o, Handed) + 0
           /\ RetryDue(s, o)' <= RetryDue(s, o)
    BY <1>3, <1>4, <1>5, CalmNumbers
  <2>4. /\ Caused(o, "stock.reserved")' <= Caused(o, "stock.reserved")
        /\ Caused(o, "notification.send")' <= Caused(o, "notification.send")
        /\ Caused(o, "notification.sent")' <= Caused(o, "notification.sent")
    BY <1>6 DEF Causes
  <2>5. /\ OpenAt(h, o, DoneOnly)' + 1 <= OpenAt(h, o, DoneOnly) + n
        /\ OpenAt(h, o, Handed)' + 1 <= OpenAt(h, o, Handed) + n
    BY <2>2
  <2>6. CASE h = stock
    <3>1. /\ Recorded(notification, o)' <= Recorded(notification, o)
          /\ OpenAt(notification, o, DoneOnly)' <= OpenAt(notification, o, DoneOnly)
          /\ OpenAt(notification, o, Handed)' <= OpenAt(notification, o, Handed)
          /\ RetryDue(notification, o)' <= RetryDue(notification, o)
      BY <1>1, <2>3, <2>6, PartNumbers
    <3> QED
      BY <1>5, <2>1, <2>4, <2>5, <2>6, <3>1, PartNumbers, CostsOf
  <2>7. CASE h = notification
    <3>1. /\ Recorded(stock, o)' <= Recorded(stock, o)
          /\ OpenAt(stock, o, DoneOnly)' <= OpenAt(stock, o, DoneOnly)
          /\ RetryDue(stock, o)' <= RetryDue(stock, o)
      BY <1>1, <2>3, <2>7, PartNumbers
    <3> QED
      BY <1>5, <2>1, <2>4, <2>5, <2>7, <3>1, PartNumbers, CostsOf
  <2> QED
    BY <1>1, <1>8, <2>6, <2>7
<1> QED
  BY <1>7, <1>8

(* A republish that rejects leaves the record open, with or without its copy. *)
LEMMA RetryRejectsCosts ==
    ASSUME LogsOK, PlacesOK, LogsOK', Grows, NEW h \in Handlers, RetryPublishRejects(h),
           NEW o \in Orders
    PROVE  Costs(o, 1)
<1>1. /\ stock \in Stages /\ notification \in Stages /\ stock # notification
      /\ \A s \in Stages : s = stock \/ s = notification
      /\ Stages \subseteq Handlers
  BY StageFacts DEF Stages
<1>2. /\ phase[h] = "failed" /\ phase[h] \in Working /\ UNCHANGED <<envelopes, position>>
      /\ phase'[h] = "escaped" /\ \A s \in Handlers : s # h => phase'[s] = phase[s]
      /\ log' = log \/ Appended(InHand(h).type, Again(h), 1)
  BY DEF RetryPublishRejects, Working, Goto, PlacesOK
<1>3. \E n \in 0..1 : \A s \in Stages : Gains(s, o, n) /\ (s # h => Gains(s, o, 0))
  <2>1. CASE log' = log
    <3>1. \A s \in Stages : Gains(s, o, 0)
      BY <1>2, <2>1, GainsNothing
    <3> QED
      BY <3>1
  <2>2. CASE Appended(InHand(h).type, Again(h), 1)
    <3>1. 1 \in {1, 2} /\ 1 \in 0..1
      OBVIOUS
    <3>2. \A s \in Stages : Gains(s, o, 1) /\ (s # h => Gains(s, o, 0))
      BY <1>2, <2>2, <3>1, AddsByRepeat
    <3> QED
      BY <3>1, <3>2
  <2> QED
    BY <1>2, <2>1, <2>2
<1>4. \A s \in Stages : Calm(s)
  <2> TAKE s \in Stages
  <2>1. CASE s = h
    BY <1>2, <2>1 DEF Calm
  <2>2. CASE s # h
    BY <1>1, <1>2, <2>2, LeftAlone
  <2> QED
    BY <2>1, <2>2
<1>5. PICK n \in 0..1 : \A s \in Stages : Gains(s, o, n) /\ (s # h => Gains(s, o, 0))
  BY <1>3
<1>6. \A t \in DOMAIN Causes : Caused(o, t)' <= Caused(o, t)
  BY <1>2, CausedStays
<1>7. /\ n \in 0..2 /\ 0 \in 0..2 /\ n \in Nat /\ 0 \in Nat /\ 1 \in Nat
      /\ 0 + n <= 1 /\ n + 0 <= 1
  OBVIOUS
<1>8. CASE h # stock
  <2>1. Gains(stock, o, 0) /\ Gains(notification, o, n)
    BY <1>1, <1>5, <1>8
  <2>2. Grown(stock, o, 0) /\ Grown(notification, o, n)
    BY <1>1, <1>4, <1>7, <2>1, CalmGrowth
  <2> QED
    BY <1>6, <1>7, <2>2, CalmCosts
<1>9. CASE h = stock
  <2>1. Gains(stock, o, n) /\ Gains(notification, o, 0)
    BY <1>1, <1>5, <1>9
  <2>2. Grown(stock, o, n) /\ Grown(notification, o, 0)
    BY <1>1, <1>4, <1>7, <2>1, CalmGrowth
  <2> QED
    BY <1>6, <1>7, <2>2, CalmCosts
<1> QED
  BY <1>8, <1>9

(* A crash opens the records of one stage again: no more than its share allows. *)
LEMMA CrashCosts ==
    ASSUME LogsOK, PlacesOK, LogsOK', PlacesOK', Grows, NEW s \in Services, Crash(s), NEW o \in Orders,
           NEW P \in Nat, \A i \in 1..5 : Shares(o)[i] <= P
    PROVE  Costs(o, P)
<1>1. /\ stock \in Stages /\ notification \in Stages
      /\ stock \in Handlers /\ notification \in Handlers
      /\ stock.service = "stock" /\ notification.service = "notification"
  BY StageFacts DEF Stages, stock, notification
<1>2. /\ UNCHANGED <<envelopes, log>>
      /\ phase' = [h \in Handlers |-> IF h.service = s THEN "idle" ELSE phase[h]]
      /\ \A h \in Handlers : h.service # s => position'[h] = position[h]
  BY DEF Crash
<1>3. 0 \in 0..2 /\ 0 \in Nat
  OBVIOUS
<1>4. Gains(stock, o, 0) /\ Gains(notification, o, 0)
  BY <1>1, <1>2, GainsNothing
<1>5. ASSUME NEW h \in Stages, h.service # s
      PROVE  /\ Recorded(h, o)' <= Recorded(h, o) + 0
             /\ OpenAt(h, o, DoneOnly)' <= OpenAt(h, o, DoneOnly) + 0
             /\ OpenAt(h, o, Handed)' <= OpenAt(h, o, Handed) + 0
             /\ RetryDue(h, o)' <= RetryDue(h, o)
  <2>1. h \in Handlers /\ Gains(h, o, 0)
    BY <1>4, StageFacts DEF Stages
  <2>2. Calm(h)
    BY <1>2, <1>5, <2>1, LeftAlone
  <2> QED
    BY <1>3, <2>1, <2>2, CalmNumbers
<1>6. ASSUME NEW h \in Stages, h.service = s
      PROVE  /\ Recorded(h, o)' <= Recorded(h, o) + 0
             /\ OpenAt(h, o, DoneOnly)' <= Recorded(h, o) + 0
             /\ OpenAt(h, o, Handed)' <= Recorded(h, o) + 0
             /\ RetryDue(h, o)' = 0
  <2>1. h \in Handlers /\ Gains(h, o, 0)
    BY <1>4, StageFacts DEF Stages
  <2>2. position'[h] \in Nat
    BY <2>1 DEF PlacesOK
  <2>3. DoneOnly \in SUBSET Phases /\ Handed \in SUBSET Phases
    BY DEF DoneOnly, Handed, Phases
  <2>4. phase'[h] = "idle"
    BY <1>2, <1>6, <2>1
  <2>5. RetryDue(h, o)' = 0
    BY <2>4 DEF RetryDue
  <2> QED
    BY <1>3, <2>1, <2>2, <2>3, <2>5, OpenAfter DEF Recorded, OpenAt
<1>7. \A t \in DOMAIN Causes : Caused(o, t)' <= Caused(o, t)
  BY <1>2, CausedStays
<1>8. /\ Caused(o, "stock.reserved")' <= Caused(o, "stock.reserved")
      /\ Caused(o, "notification.send")' <= Caused(o, "notification.send")
      /\ Caused(o, "notification.sent")' <= Caused(o, "notification.sent")
  BY <1>7 DEF Causes
<1>9. /\ Recorded(stock, o) + RetryDue(stock, o) <= P
      /\ Recorded(notification, o) + RetryDue(notification, o) + OpenAt(stock, o, DoneOnly) <= P
  BY ShareSums
<1>10. CASE s = "stock"
  <2>1. /\ Recorded(stock, o)' <= Recorded(stock, o) + 0
        /\ OpenAt(stock, o, DoneOnly)' <= Recorded(stock, o) + 0
        /\ RetryDue(stock, o)' = 0
    BY <1>1, <1>6, <1>10
  <2>2. /\ Recorded(notification, o)' <= Recorded(notification, o) + 0
        /\ OpenAt(notification, o, DoneOnly)' <= OpenAt(notification, o, DoneOnly) + 0
        /\ OpenAt(notification, o, Handed)' <= OpenAt(notification, o, Handed) + 0
        /\ RetryDue(notification, o)' <= RetryDue(notification, o)
    BY <1>1, <1>5, <1>10
  <2> QED
    BY <1>8, <1>9, <2>1, <2>2, PartNumbers, CostsOf
<1>11. CASE s # "stock"
  <2>1. /\ Recorded(stock, o)' <= Recorded(stock, o) + 0
        /\ OpenAt(stock, o, DoneOnly)' <= OpenAt(stock, o, DoneOnly) + 0
        /\ RetryDue(stock, o)' <= RetryDue(stock, o)
    BY <1>1, <1>5, <1>11
  <2>2. CASE s = "notification"
    <3>1. /\ Recorded(notification, o)' <= Recorded(notification, o) + 0
          /\ OpenAt(notification, o, DoneOnly)' <= Recorded(notification, o) + 0
          /\ OpenAt(notification, o, Handed)' <= Recorded(notification, o) + 0
          /\ RetryDue(notification, o)' = 0
      BY <1>1, <1>6, <2>2
    <3> QED
      BY <1>8, <1>9, <2>1, <3>1, PartNumbers, CostsOf
  <2>3. CASE s # "notification"
    <3>1. /\ Recorded(notification, o)' <= Recorded(notification, o) + 0
          /\ OpenAt(notification, o, DoneOnly)' <= OpenAt(notification, o, DoneOnly) + 0
          /\ OpenAt(notification, o, Handed)' <= OpenAt(notification, o, Handed) + 0
          /\ RetryDue(notification, o)' <= RetryDue(notification, o)
      BY <1>1, <1>5, <2>3
    <3> QED
      BY <1>8, <2>1, <3>1, PartNumbers, CostsOf
  <2> QED
    BY <2>2, <2>3
<1> QED
  BY <1>10, <1>11

------------------------------------------------------------------------------
(* The verdict that starts it all. *)

(* Only a verdict makes a payment.processed, and only paid orders cause the rest. *)
PaidFirst ==
    \A id \in 1..Len(envelopes) :
        /\ envelopes[id].type = "payment.processed" => envelopes[id].cause = NoEvent
        /\ envelopes[id].type \in DOMAIN Causes => Paid(envelopes[id].order)

(* Before its verdict an order has caused nothing and has no record. *)
LEMMA NothingYet ==
    ASSUME LogsOK, PaidFirst, NEW o \in Orders,
           \A id \in 1..Len(envelopes) :
               envelopes[id] # [type |-> "payment.processed", order |-> o, cause |-> NoEvent]
    PROVE  \A i \in 1..5 : Shares(o)[i] = 0
<1>1. \A id \in 1..Len(envelopes) : envelopes[id] \in Envelope
  BY DEF LogsOK
<1>2. ~Paid(o)
  BY <1>1 DEF PaidFirst, Paid, Envelope
<1>3. \A id \in 1..Len(envelopes) :
         envelopes[id].order = o =>
            envelopes[id].type \notin {"payment.processed", "stock.reserved",
                                       "notification.send", "notification.sent"}
  BY <1>2 DEF PaidFirst, Paid, Causes
<1>4. stock \in Stages /\ notification \in Stages /\ \A h \in Stages : h.topic \in Topics
  BY StageFacts DEF Stages
<1>5. RecordsOf(stock, o) = {} /\ RecordsOf(notification, o) = {}
  BY <1>3, <1>4, StageFacts DEF RecordsOf, LogsOK
<1>6. /\ RetryDue(stock, o) = 0 /\ RetryDue(notification, o) = 0
      /\ Open(stock, o, DoneOnly) = {} /\ Open(notification, o, DoneOnly) = {}
      /\ Open(notification, o, Handed) = {}
  BY <1>5 DEF RetryDue, Open
<1>7. Cardinality({}) = 0
  BY FS_EmptySet
<1>8. /\ Recorded(stock, o) = 0 /\ Recorded(notification, o) = 0
      /\ OpenAt(stock, o, DoneOnly) = 0 /\ OpenAt(notification, o, DoneOnly) = 0
      /\ OpenAt(notification, o, Handed) = 0
  BY <1>5, <1>6, <1>7 DEF Recorded, OpenAt
<1>9. ASSUME NEW t \in {"stock.reserved", "notification.send", "notification.sent"}
      PROVE  Caused(o, t) = 0
  <2>1. {id \in 1..Len(envelopes) : envelopes[id].order = o /\ envelopes[id].type = t} = {}
    BY <1>3
  <2> QED
    BY <1>7, <2>1 DEF Caused
<1>10. \A i \in 1..5 : i = 1 \/ i = 2 \/ i = 3 \/ i = 4 \/ i = 5
  OBVIOUS
<1>11. Shares(o)[1] = 0 /\ Shares(o)[2] = 0 /\ Shares(o)[3] = 0
  BY <1>6, <1>8, <1>9, ShareSums
<1>12. Shares(o)[4] = 0 /\ Shares(o)[5] = 0
  BY <1>6, <1>8, <1>9, ShareSums
<1> QED
  BY <1>10, <1>11, <1>12

(* The verdict puts one record of its order in the flow, or two by a fault. *)
LEMMA VerdictCosts ==
    ASSUME LogsOK, PlacesOK, LogsOK', Grows, PaidFirst, NEW v \in Verdicts, PublishVerdict(v),
           NEW o \in Orders
    PROVE  \/ Costs(o, 0) /\ (UNCHANGED faults \/ NewFault)
           \/ /\ \A i \in 1..5 : Shares(o)[i] = 0
              /\ (Costs(o, 1) /\ UNCHANGED faults) \/ (Costs(o, 2) /\ NewFault)
<1>1. /\ v.type \in {"payment.processed", "payment.failed"} /\ v.order \in Orders
      /\ v.type \in EventTypes /\ ResolveKafkaTopic(v.type) \in Topics /\ NoEvent \in Nat
  BY FulfilmentAssumption DEF EventTypes, ResolveKafkaTopic, Topics, NoEvent
<1>2. /\ AddsEnvelope(v.type, v.order)
      /\ \/ AddsRecords(v.type, v.order, 1) /\ UNCHANGED faults
         \/ AddsRecords(v.type, v.order, 2) /\ NewFault
  BY <1>1, AddsByEmit DEF PublishVerdict
<1>3. /\ stock \in Stages /\ notification \in Stages /\ stock \in Handlers /\ notification \in Handlers
      /\ Takes(stock) = "payment.processed" /\ Takes(notification) = "stock.reserved"
  BY StageFacts DEF Stages
<1>4. Calm(stock) /\ Calm(notification)
  BY <1>3, LeftAlone DEF PublishVerdict, deliveryVars
<1>5. \A t \in DOMAIN Causes : Caused(o, t)' <= Caused(o, t)
  <2>1. \A t \in DOMAIN Causes : t \in EventTypes /\ t # v.type
    BY <1>1 DEF Causes, EventTypes
  <2> QED
    BY <1>2, <2>1 DEF AddsEnvelope
<1>6. ASSUME NEW n \in {1, 2}, AddsRecords(v.type, v.order, n)
      PROVE  /\ v.type # "payment.processed" \/ v.order # o => Costs(o, 0)
             /\ Costs(o, n)
  <2>1. Gains(stock, o, n) /\ Gains(notification, o, 0)
    BY <1>1, <1>3, <1>6 DEF AddsRecords
  <2>2. n \in 0..2 /\ n \in Nat /\ 0 \in 0..2 /\ 0 \in Nat /\ n + 0 <= n /\ 0 + 0 <= 0
    OBVIOUS
  <2>3. Grown(stock, o, n) /\ Grown(notification, o, 0)
    BY <1>3, <1>4, <2>1, <2>2, CalmGrowth
  <2>4. Costs(o, n)
    BY <1>5, <2>2, <2>3, CalmCosts
  <2>5. ASSUME v.type # "payment.processed" \/ v.order # o
        PROVE  Costs(o, 0)
    <3>1. Gains(stock, o, 0)
      BY <1>3, <1>6, <2>5 DEF AddsRecords
    <3>2. Grown(stock, o, 0)
      BY <1>3, <1>4, <2>2, <3>1, CalmGrowth
    <3> QED
      BY <1>5, <2>2, <2>3, <3>2, CalmCosts
  <2> QED
    BY <2>4, <2>5
<1>7. v.type = "payment.processed" /\ v.order = o => \A i \in 1..5 : Shares(o)[i] = 0
  BY NothingYet DEF PublishVerdict
<1>8. 1 \in {1, 2} /\ 2 \in {1, 2}
  OBVIOUS
<1>9. CASE v.type # "payment.processed" \/ v.order # o
  BY <1>2, <1>6, <1>8, <1>9
<1>10. CASE v.type = "payment.processed" /\ v.order = o
  BY <1>2, <1>6, <1>7, <1>8, <1>10
<1> QED
  BY <1>9, <1>10

(* Every event of the chain goes back to a verdict. *)
LEMMA PaidFirstStep ==
    ASSUME LogsOK, PlacesOK, PaidFirst, TopicsStep
    PROVE  PaidFirst'
<1>1. /\ LogsOK' /\ Grows
      /\ Len(envelopes) \in Nat /\ Len(envelopes') \in Nat
      /\ \A old \in 1..Len(envelopes) : envelopes'[old] = envelopes[old]
  BY TopicsStepEffect DEF Grows
<1>2. ASSUME NEW o, Paid(o)
      PROVE  Paid(o)'
  <2>1. PICK id \in 1..Len(envelopes) :
            envelopes[id].order = o /\ envelopes[id].type = "payment.processed"
    BY <1>2 DEF Paid
  <2>2. id \in 1..Len(envelopes') /\ envelopes'[id] = envelopes[id]
    BY <1>1 DEF Grows
  <2> QED
    BY <2>1, <2>2 DEF Paid
<1> SUFFICES ASSUME NEW id \in 1..Len(envelopes')
             PROVE  /\ envelopes'[id].type = "payment.processed" => envelopes'[id].cause = NoEvent
                    /\ envelopes'[id].type \in DOMAIN Causes => Paid(envelopes[id].order)'
  BY Zenon DEF PaidFirst, Paid, Causes, NoEvent
<1>3. CASE id \in 1..Len(envelopes)
  BY <1>1, <1>2, <1>3 DEF PaidFirst
<1>4. CASE id \notin 1..Len(envelopes)
  <2>1. PICK type \in EventTypes, order \in Orders, by \in Nat :
            CreateEnvelope(type, order, by) /\ Justified(type, order, by)
    BY <1>1, <1>4, TopicsStepEffect
  <2> DEFINE e == [type |-> type, order |-> order, cause |-> by]
  <2>2. e \in Envelope /\ e.type = type /\ e.order = order /\ e.cause = by
    BY DEF Envelope
  <2>3. envelopes' = Append(envelopes, e) /\ envelopes \in Seq(Envelope)
    BY <2>1 DEF CreateEnvelope, LogsOK
  <2> HIDE DEF e
  <2>4. id = Len(envelopes) + 1 /\ envelopes'[id] = e
    BY <1>1, <1>4, <2>2, <2>3
  <2>5. type = "payment.processed" => by = NoEvent
    BY <2>1 DEF Justified
  <2>6. ASSUME type \in DOMAIN Causes
        PROVE  Paid(order)
    <3>1. /\ by \in 1..Len(envelopes)
          /\ envelopes[by].type = Causes[type]
          /\ envelopes[by].order = order
      BY <2>1, <2>6 DEF Justified
    <3>2. Causes[type] = "payment.processed" \/ Causes[type] \in DOMAIN Causes
      BY <2>6 DEF Causes
    <3>3. CASE Causes[type] = "payment.processed"
      BY <3>1, <3>3 DEF Paid
    <3>4. CASE Causes[type] \in DOMAIN Causes
      BY <3>1, <3>4 DEF PaidFirst
    <3> QED
      BY <3>2, <3>3, <3>4
  <2> QED
    BY <1>2, <2>2, <2>4, <2>5, <2>6
<1> QED
  BY <1>3, <1>4

------------------------------------------------------------------------------
(* Each fault at most doubles the shares, and nothing else changes them for the worse. *)

(* A step is free, or a fault pays for it, or it is the verdict of the order. *)
LEMMA StepCosts ==
    ASSUME FulfilmentInv, FulfilmentInv', Grows, PaidFirst, [Next]_vars, NEW o \in Orders,
           NEW P \in Nat, P >= 1, \A i \in 1..5 : Shares(o)[i] <= P
    PROVE  \/ Costs(o, 0) /\ (UNCHANGED faults \/ faults' = faults + 1)
           \/ (Costs(o, 1) \/ Costs(o, P)) /\ faults' = faults + 1
           \/ /\ \A i \in 1..5 : Shares(o)[i] = 0
              /\ (Costs(o, 1) /\ UNCHANGED faults) \/ (Costs(o, 2) /\ faults' = faults + 1)
<1>1. LogsOK /\ PlacesOK /\ HeldOK /\ LogsOK' /\ PlacesOK'
  BY DEF FulfilmentInv
<1>2. ASSUME NEW v \in Verdicts, PublishVerdict(v)
      PROVE  \/ Costs(o, 0) /\ (UNCHANGED faults \/ faults' = faults + 1)
             \/ /\ \A i \in 1..5 : Shares(o)[i] = 0
                /\ (Costs(o, 1) /\ UNCHANGED faults) \/ (Costs(o, 2) /\ faults' = faults + 1)
  BY <1>1, <1>2, VerdictCosts DEF NewFault
<1>3. ASSUME ReserveStock
      PROVE  (UNCHANGED faults /\ Costs(o, 0)) \/ (faults' = faults + 1 /\ Costs(o, 1))
  BY <1>1, <1>3, ReserveStockCosts DEF NewFault
<1>4. ASSUME ReserveStockRejects
      PROVE  faults' = faults + 1 /\ Costs(o, 1)
  BY <1>1, <1>4, ReserveStockRejectsCosts DEF NewFault, ReserveStockRejects
<1>5. ASSUME SendNotification \/ NotificationSent
      PROVE  (UNCHANGED faults \/ faults' = faults + 1) /\ Costs(o, 0)
  <2>1. Costs(o, 0)
    BY <1>1, <1>5, SendNotificationCosts, NotificationSentCosts
  <2> QED
    BY <1>5, <2>1 DEF SendNotification, NotificationSent, Emit, NewFault
<1>6. ASSUME SendNotificationRejects \/ NotificationSentRejects
      PROVE  faults' = faults + 1 /\ Costs(o, 1)
  <2>1. Costs(o, 1)
    BY <1>1, <1>6, NotificationRejectsCosts
  <2> QED
    BY <1>6, <2>1 DEF SendNotificationRejects, NotificationSentRejects, NewFault
<1>7. ASSUME OrderStep
      PROVE  (UNCHANGED faults \/ faults' = faults + 1) /\ Costs(o, 0)
  <2>1. Costs(o, 0)
    BY <1>1, <1>7, OrderStepCosts
  <2> QED
    BY <1>7, <2>1 DEF OrderStep, UpdateOrderStatus, UpdateRejects, NewFault
<1>8. ASSUME NEW h \in Handlers, Deliver(h) \/ SendToDlq(h) \/ Finish(h)
      PROVE  UNCHANGED faults /\ Costs(o, 0)
  <2>1. Costs(o, 0)
    BY <1>1, <1>8, DeliveryCosts DEF Finish
  <2> QED
    BY <1>8, <2>1 DEF Deliver, SendToDlq, Finish, Resolve, DropEscaped, RedeliverEscaped
<1>9. ASSUME NEW h \in Handlers, ScheduleRetry(h)
      PROVE  (UNCHANGED faults /\ Costs(o, 0)) \/ (faults' = faults + 1 /\ Costs(o, 1))
  <2>1. /\ phase[h] = "failed" /\ UNCHANGED <<envelopes, position>> /\ Goto(h, "done")
        /\ \/ Appended(InHand(h).type, Again(h), 1) /\ UNCHANGED faults
           \/ Appended(InHand(h).type, Again(h), 2) /\ faults' = faults + 1
    BY <1>9 DEF ScheduleRetry, Emit, NewFault
  <2>2. 1 \in {1, 2} /\ 2 \in {1, 2} /\ 1 - 1 = 0 /\ 2 - 1 = 1
    OBVIOUS
  <2>3. ASSUME NEW n \in {1, 2}, Appended(InHand(h).type, Again(h), n)
        PROVE  Costs(o, n - 1)
    BY <1>1, <2>1, <2>3, RetryCosts
  <2>4. Appended(InHand(h).type, Again(h), 1) => Costs(o, 1 - 1)
    BY <2>2, <2>3
  <2>5. Appended(InHand(h).type, Again(h), 2) => Costs(o, 2 - 1)
    BY <2>2, <2>3
  <2> QED
    BY <2>1, <2>2, <2>4, <2>5
<1>10. ASSUME NEW h \in Handlers, RetryPublishRejects(h)
       PROVE  faults' = faults + 1 /\ Costs(o, 1)
  BY <1>1, <1>10, RetryRejectsCosts DEF RetryPublishRejects, NewFault
<1>11. ASSUME NEW s \in Services, Crash(s)
       PROVE  faults' = faults + 1 /\ Costs(o, P)
  BY <1>1, <1>11, CrashCosts DEF Crash, NewFault
<1>12. CASE UNCHANGED vars
  <2>1. Calm(stock) /\ Calm(notification)
    BY <1>12, LeftAlone DEF vars, deliveryVars, Stages
  <2>2. Costs(o, 0)
    BY <1>1, <1>12, <2>1, CalmStepCosts DEF vars
  <2> QED
    BY <1>12, <2>2 DEF vars
<1> QED
  BY <1>2, <1>3, <1>4, <1>5, <1>6, <1>7, <1>8, <1>9, <1>10, <1>11, <1>12
  DEF Next, StockStep, NotificationStep, Execute

(* The shares are numbers. *)
LEMMA SharesTyped == LogsOK => \A o \in Orders : \A i \in 1..5 : Shares(o)[i] \in Nat
<1> SUFFICES ASSUME LogsOK, NEW o \in Orders
             PROVE  \A i \in 1..5 : Shares(o)[i] \in Nat
  OBVIOUS
<1>1. ShareParts(o) /\ DOMAIN Causes = {"stock.reserved", "notification.send", "notification.sent"}
  BY SharePartsTyped DEF Causes
<1>2. \A i \in 1..5 : i = 1 \/ i = 2 \/ i = 3 \/ i = 4 \/ i = 5
  OBVIOUS
<1>3. Shares(o)[1] \in Nat /\ Shares(o)[2] \in Nat /\ Shares(o)[3] \in Nat
  BY <1>1, ShareSums DEF ShareParts, Stages
<1>4. Shares(o)[4] \in Nat /\ Shares(o)[5] \in Nat
  BY <1>1, ShareSums DEF ShareParts, Stages
<1> QED
  BY <1>2, <1>3, <1>4

(* The same a step later. *)
LEMMA SharesTypedNext == LogsOK' => \A o \in Orders : \A i \in 1..5 : Shares(o)'[i] \in Nat
<1>1. (LogsOK => \A o \in Orders : \A i \in 1..5 : Shares(o)[i] \in Nat)'
  BY SharesTyped, PTL
<1> QED
  BY <1>1

(* No order has anything before the first step. *)
LEMMA DoublingInit == Init => DoublingInv
<1> SUFFICES ASSUME Init PROVE DoublingInv
  OBVIOUS
<1>1. FulfilmentInv /\ LogsOK
  BY InvInit DEF FulfilmentInv
<1>2. Len(envelopes) = 0 /\ faults = 0
  BY DEF Init
<1>3. PaidFirst
  BY <1>2 DEF PaidFirst
<1>4. \A o \in Orders : \A i \in 1..5 : Shares(o)[i] = 0
  BY <1>1, <1>2, <1>3, NothingYet
<1>5. \A o \in Orders : \A i \in 1..5 : Shares(o)[i] <= PowerOfTwo[faults]
  <2>1. PowerOfTwo[faults] = 1
    BY <1>2, PowerOfTwoRule
  <2>2. \A o \in Orders : \A i \in 1..5 : Shares(o)[i] <= 1
    BY <1>4
  <2> QED
    BY <2>1, <2>2, Zenon
<1> QED
  BY <1>3, <1>5 DEF DoublingInv, PaidFirst

(* Whatever the step, the shares stay within the power of the faults. *)
LEMMA DoublingStep == FulfilmentInv /\ DoublingInv /\ [Next]_vars => DoublingInv'
<1> SUFFICES ASSUME FulfilmentInv, DoublingInv, [Next]_vars PROVE DoublingInv'
  OBVIOUS
<1>1. FulfilmentInv'
  BY InvStep
<1>2. /\ LogsOK /\ PlacesOK /\ HeldOK /\ LogsOK'
      /\ faults \in Nat
  BY <1>1 DEF FulfilmentInv, RestOK
<1>3. TopicsStep
  BY <1>2, NextIsTopicsStep
<1>4. Grows
  BY <1>2, <1>3, TopicsStepEffect
<1>5. PaidFirst
  BY DEF DoublingInv, PaidFirst
<1>6. PaidFirst'
  BY <1>2, <1>3, <1>5, PaidFirstStep
<1> DEFINE P == PowerOfTwo[faults]
<1>7. P \in Nat /\ P >= 1 /\ PowerOfTwo[faults + 1] = 2 * P
  BY <1>2, PowerOfTwoPositive, PowerOfTwoRule
<1>8. ASSUME NEW o \in Orders, NEW i \in 1..5
      PROVE  Shares(o)'[i] <= PowerOfTwo[faults']
  <2>1. \A j \in 1..5 : Shares(o)[j] <= P
    BY DEF DoublingInv
  <2>2. Shares(o)[i] \in Nat /\ Shares(o)'[i] \in Nat /\ Shares(o)[i] <= P
    BY <1>2, <2>1, SharesTyped, SharesTypedNext
  <2> HIDE DEF P
  <2>3. \/ Costs(o, 0) /\ (UNCHANGED faults \/ faults' = faults + 1)
        \/ (Costs(o, 1) \/ Costs(o, P)) /\ faults' = faults + 1
        \/ /\ \A j \in 1..5 : Shares(o)[j] = 0
           /\ (Costs(o, 1) /\ UNCHANGED faults) \/ (Costs(o, 2) /\ faults' = faults + 1)
    BY <1>1, <1>4, <1>5, <1>7, <2>1, StepCosts
  <2>4. CASE UNCHANGED faults
    <3>1. Costs(o, 0) \/ (Shares(o)[i] = 0 /\ Costs(o, 1))
      BY <1>2, <2>3, <2>4
    <3>2. Shares(o)'[i] <= P
      BY <1>7, <2>2, <3>1 DEF Costs
    <3> QED
      BY <2>4, <3>2 DEF P
  <2>5. CASE faults' = faults + 1
    <3>1. Costs(o, 0) \/ Costs(o, 1) \/ Costs(o, P) \/ (Shares(o)[i] = 0 /\ Costs(o, 2))
      BY <1>2, <2>3, <2>5
    <3>2. Shares(o)'[i] <= 2 * P
      BY <1>7, <2>2, <3>1 DEF Costs
    <3> QED
      BY <1>7, <2>5, <3>2
  <2> QED
    BY <2>3, <2>4, <2>5
<1>9. \A o \in Orders : \A i \in 1..5 : Shares(o)'[i] <= PowerOfTwo[faults']
  BY <1>8
<1> QED
  <2>1. DoublingInv' <=> /\ \A o \in Orders : \A i \in 1..5 : Shares(o)'[i] <= PowerOfTwo'[faults']
                         /\ PaidFirst'
    BY Zenon DEF DoublingInv, PaidFirst
  <2> QED
    BY <1>6, <1>9, <2>1 DEF PowerOfTwo

(* ... from which the bound on what is caused follows ... *)
LEMMA DoublingBounds == FulfilmentInv /\ DoublingInv => EachFaultAtMostDoubles
<1> SUFFICES ASSUME FulfilmentInv, DoublingInv, NEW o \in Orders, NEW t \in DOMAIN Causes
             PROVE  Caused(o, t) <= PowerOfTwo[faults]
  BY DEF EachFaultAtMostDoubles
<1>1. LogsOK /\ faults \in Nat
  BY DEF FulfilmentInv, RestOK
<1>2. PowerOfTwo[faults] \in Nat /\ ShareParts(o)
  BY <1>1, PowerOfTwoPositive, SharePartsTyped
<1>3. /\ Shares(o)[2] <= PowerOfTwo[faults]
      /\ Shares(o)[4] <= PowerOfTwo[faults]
      /\ Shares(o)[5] <= PowerOfTwo[faults]
  BY DEF DoublingInv
<1>4. t = "stock.reserved" \/ t = "notification.send" \/ t = "notification.sent"
  BY DEF Causes
<1>5. /\ Caused(o, t) \in Nat /\ OpenAt(stock, o, DoneOnly) \in Nat
      /\ OpenAt(notification, o, DoneOnly) \in Nat /\ OpenAt(notification, o, Handed) \in Nat
  BY <1>2 DEF ShareParts, Stages
<1> QED
  BY <1>2, <1>3, <1>4, <1>5, ShareSums

(* stock-service and notification-service detect no duplicates: a crash, a  *)
(* rejected publish or a repeated send may double the stock.reserved,       *)
(* notification.send or notification.sent of a paid order, and the ones     *)
(* before it too, yet f faults never make more than 2^f of each.            *)
THEOREM FaultsAtMostDouble == Spec => []EachFaultAtMostDoubles
<1>1. Init => FulfilmentInv /\ DoublingInv
  BY InvInit, DoublingInit
<1>2. (FulfilmentInv /\ DoublingInv) /\ [Next]_vars => (FulfilmentInv /\ DoublingInv)'
  BY InvStep, DoublingStep
<1> QED
  BY <1>1, <1>2, DoublingBounds, PTL DEF Spec
=============================================================================
