----------------------------- MODULE Fulfilment -----------------------------
(***************************************************************************)
(* The saga after the charge: payment-service's verdicts on payment.events *)
(* make stock-service publish stock.reserved, which makes notification-    *)
(* service publish notification.send and notification.sent, which makes    *)
(* order-service complete the order; payment.failed makes it fail.  None   *)
(* of these handlers detects duplicates or keeps state of its own.         *)
(*                                                                         *)
(* One partition of each topic.  A service's consumer works on one record  *)
(* at a time, whichever of its topics the record is from.  Every handler   *)
(* runs in KafkaRetryExecutor (see RetryExecutor).  autoCommit may have    *)
(* stored any offset up to the resolved one: it is chosen when a crash     *)
(* makes it matter.                                                        *)
(***************************************************************************)
EXTENDS RetryPolicy, Routing, Counting, Sequences, FiniteSets

CONSTANTS Orders,       (* order ids                                             *)
          Verdicts,     (* payment-service's answers: a set of [type, order]     *)
          MaxAttempts,  (* policy.maxAttempts of each service, from its process' *)
                        (* environment                                           *)
          MaxFaults     (* bound on crashes, failed calls and duplicated sends   *)

Services == {"stock", "notification", "order"}

ASSUME FulfilmentAssumption ==
    /\ Verdicts \subseteq [type : {"payment.processed", "payment.failed"}, order : Orders]
    /\ MaxAttempts \in [Services -> Nat]
    /\ MaxFaults \in Nat

VARIABLES
    envelopes,  (* every envelope made: its eventId is its index                 *)
    log,        (* log[t]: the partition of topic t, a sequence of records       *)
    position,   (* position[h]: records of its topic handler h has resolved      *)
    committed,  (* committed[h]: an offset autoCommit is known to have stored    *)
    phase,      (* phase[h]: where h is with record position[h] + 1              *)
    held,       (* held[h]: eventId of the notification.send in h's memory       *)
    status,     (* status[o]: the column of order-service's row                  *)
    dlq,        (* dead letters: a set of [topic, failure]                       *)
    faults

(* History, not part of the system. *)
VARIABLE lost   (* records an escaped error made a service drop: [service, event] *)

deliveryVars == <<position, committed, phase, held>>
vars == <<envelopes, log, position, committed, phase, held, status, dlq, faults, lost>>

Topics == {"payment.events", "stock.reserved", "notification.send", "notification.sent"}
Phases == {"idle", "handling", "sending", "failed", "escaped", "done"}
Statuses == {"pending", "failed", "completed"}
NoEvent == 0

Record == [event : Nat, retryCount : Nat]
Envelope == [type : EventTypes, order : Orders, cause : Nat]

stock == [service |-> "stock", topic |-> "payment.events"]
notification == [service |-> "notification", topic |-> "stock.reserved"]
OrderHandlers == {h \in Handlers : h.service = "order"}
HandlersOf(s) == {h \in Handlers : h.service = s}

(* The record, its eventId and its envelope in the hands of handler h. *)
Current(h) == log[h.topic][position[h] + 1]
EventInHand(h) == Current(h).event
InHand(h) == envelopes[EventInHand(h)]

Goto(h, step) == phase' = [phase EXCEPT ![h] = step]
NewFault == faults < MaxFaults /\ faults' = faults + 1
Fresh(id) == [event |-> id, retryCount |-> 0]

------------------------------------------------------------------------------

Init ==
    /\ envelopes = <<>>
    /\ log = [t \in Topics |-> <<>>]
    /\ position = [h \in Handlers |-> 0]
    /\ committed = [h \in Handlers |-> 0]
    /\ phase = [h \in Handlers |-> "idle"]
    /\ held = [h \in Handlers |-> NoEvent]
    /\ status = [o \in Orders |-> "pending"]
    /\ dlq = {}
    /\ faults = 0
    /\ lost = {}

(* createEventEnvelope: a fresh eventId, the order as correlationId, and the causationId. *)
CreateEnvelope(type, order, cause) ==
    envelopes' = Append(envelopes, [type |-> type, order |-> order, cause |-> cause])
NewEventId == Len(envelopes) + 1

(* The record arrives once, or twice when the client repeats a send it got no answer to. *)
Appended(type, record, copies) ==
    log' = [log EXCEPT ![ResolveKafkaTopic(type)] =
              @ \o (IF copies = 1 THEN <<record>> ELSE <<record, record>>)]
Emit(type, record) ==
    \/ Appended(type, record, 1) /\ UNCHANGED faults
    \/ Appended(type, record, 2) /\ NewFault

(* payment-service publishes a verdict; that it may do so twice is part of Verdicts. *)
PublishVerdict(v) ==
    /\ \A id \in 1..Len(envelopes) : envelopes[id] # [type |-> v.type, order |-> v.order, cause |-> NoEvent]
    /\ CreateEnvelope(v.type, v.order, NoEvent)
    /\ Emit(v.type, Fresh(NewEventId))
    /\ UNCHANGED <<deliveryVars, status, dlq, lost>>

------------------------------------------------------------------------------
(* The handlers. *)

(* The parser acknowledges at once what the handler does not take. *)
Deliver(h) ==
    /\ \A k \in HandlersOf(h.service) : phase[k] = "idle"
    /\ position[h] < Len(log[h.topic])
    /\ Goto(h, IF Accepts(h, InHand(h).type) THEN "handling" ELSE "done")
    /\ UNCHANGED <<envelopes, log, position, committed, held, status, dlq, faults, lost>>

(* StockService.handlePaymentProcessed. *)
ReserveStock ==
    /\ phase[stock] = "handling"
    /\ CreateEnvelope("stock.reserved", InHand(stock).order, EventInHand(stock))
    /\ Emit("stock.reserved", Fresh(NewEventId))
    /\ Goto(stock, "done")
    /\ UNCHANGED <<position, committed, held, status, dlq, lost>>

\* Mutant: the envelope of notification.send is not kept for the one that follows.
SendNotificationForgotten ==
    /\ phase[notification] = "handling"
    /\ CreateEnvelope("notification.send", InHand(notification).order, EventInHand(notification))
    /\ Emit("notification.send", Fresh(NewEventId))
    /\ Goto(notification, "sending")
    /\ UNCHANGED <<position, committed, held, status, dlq, lost>>

(* NotificationService.handleStockReserved up to its first publish ... *)
SendNotification ==
    /\ phase[notification] = "handling"
    /\ CreateEnvelope("notification.send", InHand(notification).order, EventInHand(notification))
    /\ Emit("notification.send", Fresh(NewEventId))
    /\ held' = [held EXCEPT ![notification] = NewEventId]
    /\ Goto(notification, "sending")
    /\ UNCHANGED <<position, committed, status, dlq, lost>>

(* ... and from there to its second, caused by the first. *)
NotificationSent ==
    /\ phase[notification] = "sending"
    /\ CreateEnvelope("notification.sent", InHand(notification).order, held[notification])
    /\ Emit("notification.sent", Fresh(NewEventId))
    /\ held' = [held EXCEPT ![notification] = NoEvent]
    /\ Goto(notification, "done")
    /\ UNCHANGED <<position, committed, status, dlq, lost>>

(* OrderEventsConsumer: the update of the order's row. *)
UpdateOrderStatus(h) ==
    /\ phase[h] = "handling"
    /\ status' = [status EXCEPT ![InHand(h).order] =
                    IF h.topic = "payment.events" THEN "failed" ELSE "completed"]
    /\ Goto(h, "done")
    /\ UNCHANGED <<envelopes, log, position, committed, held, dlq, faults, lost>>

(* A publish of the handler rejects; the broker may have the record all the same. *)
SendRejects(type, order, cause) ==
    \/ UNCHANGED <<envelopes, log>>
    \/ /\ CreateEnvelope(type, order, cause)
       /\ Appended(type, Fresh(NewEventId), 1)

ReserveStockRejects ==
    /\ phase[stock] = "handling"
    /\ NewFault
    /\ SendRejects("stock.reserved", InHand(stock).order, EventInHand(stock))
    /\ Goto(stock, "failed")
    /\ UNCHANGED <<position, committed, held, status, dlq, lost>>

\* Mutant: the rejected notification.send is swallowed, and notification.sent follows.
SendNotificationSwallowed ==
    /\ phase[notification] = "handling"
    /\ NewFault
    /\ CreateEnvelope("notification.send", InHand(notification).order, EventInHand(notification))
    /\ held' = [held EXCEPT ![notification] = NewEventId]
    /\ Goto(notification, "sending")
    /\ UNCHANGED <<log, position, committed, status, dlq, lost>>

SendNotificationRejects ==
    /\ phase[notification] = "handling"
    /\ NewFault
    /\ SendRejects("notification.send", InHand(notification).order, EventInHand(notification))
    /\ Goto(notification, "failed")
    /\ UNCHANGED <<position, committed, held, status, dlq, lost>>

NotificationSentRejects ==
    /\ phase[notification] = "sending"
    /\ NewFault
    /\ SendRejects("notification.sent", InHand(notification).order, held[notification])
    /\ held' = [held EXCEPT ![notification] = NoEvent]
    /\ Goto(notification, "failed")
    /\ UNCHANGED <<position, committed, status, dlq, lost>>

UpdateRejects(h) ==
    /\ phase[h] = "handling"
    /\ NewFault
    /\ Goto(h, "failed")
    /\ UNCHANGED <<envelopes, log, position, committed, held, status, dlq, lost>>

------------------------------------------------------------------------------
(* KafkaRetryExecutor.execute around the handler, and the delivery loop. *)

NextAttempt(h) == Current(h).retryCount + 1
Exhausted(h) == GoesToDlq(NextAttempt(h), MaxAttempts[h.service])
Again(h) == [event |-> EventInHand(h), retryCount |-> NextAttempt(h)]

(* createFailureEnvelope: who gave up on which event. *)
FailureEnvelope(h) == [service |-> h.service, event |-> EventInHand(h)]

(* publishToDlq: to the companion of the topic the event was published to. *)
DeadLetter(h) ==
    dlq' = dlq \cup {[topic |-> ResolveKafkaTopic(InHand(h).type), failure |-> FailureEnvelope(h)]}

\* Mutant: the error is thrown on after the republish, and the record handed out again.
ScheduleRetryAndRethrow(h) ==
    /\ phase[h] = "failed"
    /\ ~Exhausted(h)
    /\ Emit(InHand(h).type, Again(h))
    /\ Goto(h, "idle")
    /\ UNCHANGED <<envelopes, position, committed, held, status, dlq, lost>>

ScheduleRetry(h) ==
    /\ phase[h] = "failed"
    /\ ~Exhausted(h)
    /\ Emit(InHand(h).type, Again(h))
    /\ Goto(h, "done")
    /\ UNCHANGED <<envelopes, position, committed, held, status, dlq, lost>>

\* Mutant: an exhausted record is acknowledged without a dead letter.
SendToDlqForgotten(h) ==
    /\ phase[h] = "failed"
    /\ Exhausted(h)
    /\ Goto(h, "done")
    /\ UNCHANGED <<envelopes, log, position, committed, held, status, dlq, faults, lost>>

SendToDlq(h) ==
    /\ phase[h] = "failed"
    /\ Exhausted(h)
    /\ DeadLetter(h)
    /\ Goto(h, "done")
    /\ UNCHANGED <<envelopes, log, position, committed, held, status, faults, lost>>

RetryPublishRejects(h) ==
    /\ phase[h] = "failed"
    /\ NewFault
    /\ \/ UNCHANGED <<log, dlq>>
       \/ ~Exhausted(h) /\ Appended(InHand(h).type, Again(h), 1) /\ UNCHANGED dlq
       \/ Exhausted(h) /\ DeadLetter(h) /\ UNCHANGED log
    /\ Goto(h, "escaped")
    /\ UNCHANGED <<envelopes, position, committed, held, status, lost>>

Resolve(h) ==
    /\ phase[h] = "done"
    /\ position' = [position EXCEPT ![h] = @ + 1]
    /\ Goto(h, "idle")
    /\ UNCHANGED <<envelopes, log, committed, held, status, dlq, faults, lost>>

DropEscaped(h) ==
    /\ phase[h] = "escaped"
    /\ lost' = lost \cup {[service |-> h.service, event |-> EventInHand(h)]}
    /\ position' = [position EXCEPT ![h] = @ + 1]
    /\ Goto(h, "idle")
    /\ UNCHANGED <<envelopes, log, committed, held, status, dlq, faults>>

RedeliverEscaped(h) ==
    /\ phase[h] = "escaped"
    /\ Goto(h, "idle")
    /\ UNCHANGED <<envelopes, log, position, committed, held, status, dlq, faults, lost>>

(* Service s dies and restarts at what it had committed of each of its topics. *)
Crash(s) ==
    /\ \E h \in HandlersOf(s) : phase[h] # "idle" \/ committed[h] # position[h]
    /\ NewFault
    /\ \E offset \in [HandlersOf(s) -> 0..Len(log["payment.events"]) + Len(log["notification.sent"])
                                          + Len(log["stock.reserved"])] :
          /\ \A h \in HandlersOf(s) : committed[h] <= offset[h] /\ offset[h] <= position[h]
          /\ committed' = [h \in Handlers |-> IF h.service = s THEN offset[h] ELSE committed[h]]
          /\ position' = [h \in Handlers |-> IF h.service = s THEN offset[h] ELSE position[h]]
    /\ phase' = [h \in Handlers |-> IF h.service = s THEN "idle" ELSE phase[h]]
    /\ held' = [h \in Handlers |-> IF h.service = s THEN NoEvent ELSE held[h]]
    /\ UNCHANGED <<envelopes, log, status, dlq, lost>>

StockStep == ReserveStock \/ ReserveStockRejects
NotificationStep ==
    \/ SendNotification \/ NotificationSent
    \/ SendNotificationRejects \/ NotificationSentRejects
OrderStep == \E h \in OrderHandlers : UpdateOrderStatus(h) \/ UpdateRejects(h)
Execute(h) == ScheduleRetry(h) \/ SendToDlq(h) \/ RetryPublishRejects(h)
Finish(h) == Resolve(h) \/ DropEscaped(h) \/ RedeliverEscaped(h)

Next ==
    \/ \E v \in Verdicts : PublishVerdict(v)
    \/ StockStep \/ NotificationStep \/ OrderStep
    \/ \E h \in Handlers : Deliver(h) \/ Execute(h) \/ Finish(h)
    \/ \E s \in Services : Crash(s)

(* Every await ends and the consumers poll each topic; verdicts and faults are not assumed. *)
Fairness ==
    /\ WF_vars(StockStep) /\ WF_vars(NotificationStep) /\ WF_vars(OrderStep)
    /\ \A h \in Handlers : WF_vars(Deliver(h)) /\ WF_vars(Execute(h)) /\ WF_vars(Finish(h))

Spec == Init /\ [][Next]_vars
FairSpec == Spec /\ Fairness

------------------------------------------------------------------------------

(* Type invariant; one handler of a service runs at a time and has a record in hand. *)
TypeOK ==
    /\ envelopes \in Seq(Envelope)
    /\ log \in [Topics -> Seq(Record)]
    /\ position \in [Handlers -> Nat] /\ committed \in [Handlers -> Nat]
    /\ phase \in [Handlers -> Phases]
    /\ held \in [Handlers -> Nat]
    /\ status \in [Orders -> Statuses]
    /\ dlq \subseteq [topic : Topics, failure : [service : Services, event : Nat]]
    /\ faults \in 0..MaxFaults
    /\ lost \subseteq [service : Services, event : Nat]
    /\ \A t \in Topics : \A k \in 1..Len(log[t]) : log[t][k].event \in 1..Len(envelopes)
    /\ \A h \in Handlers :
          /\ committed[h] <= position[h] /\ position[h] <= Len(log[h.topic])
          /\ phase[h] # "idle" => position[h] < Len(log[h.topic])
          /\ phase[h] = "sending" => held[h] \in 1..Len(envelopes)
    /\ \A h, k \in Handlers :
          h.service = k.service /\ phase[h] # "idle" /\ phase[k] # "idle" => h = k

(* The envelope has reached its topic. *)
Published(id) ==
    \E k \in 1..Len(log[ResolveKafkaTopic(envelopes[id].type)]) :
        log[ResolveKafkaTopic(envelopes[id].type)][k].event = id

Causes == [t \in {"stock.reserved", "notification.send", "notification.sent"} |->
              CASE t = "stock.reserved" -> "payment.processed"
                [] t = "notification.send" -> "stock.reserved"
                [] t = "notification.sent" -> "notification.send"]

(***************************************************************************)
(* Causation: an event of the saga is in its topic only if the event its   *)
(* causationId names is in its own, has the type the saga asks for, and    *)
(* belongs to the same order.  In particular no customer is told of an     *)
(* order that was not paid and reserved, and every notification.sent       *)
(* follows a notification.send.                                            *)
(***************************************************************************)
CausalChain ==
    \A id \in 1..Len(envelopes) :
        Published(id) /\ envelopes[id].type \in DOMAIN Causes =>
            LET cause == envelopes[id].cause
            IN  /\ cause \in 1..(id - 1)
                /\ envelopes[cause].type = Causes[envelopes[id].type]
                /\ envelopes[cause].order = envelopes[id].order
                /\ Published(cause)

(***************************************************************************)
(* The row follows the verdicts: an order is completed only if it was      *)
(* paid, and failed only if a payment of it failed, whatever else is in    *)
(* the topics it shares with other orders.                                 *)
(***************************************************************************)
StatusFollowsVerdict ==
    \A o \in Orders :
        status[o] # "pending" =>
            \E id \in 1..Len(envelopes) :
                /\ envelopes[id].order = o
                /\ envelopes[id].type =
                      IF status[o] = "completed" THEN "payment.processed" ELSE "payment.failed"

Paid(o) ==
    \E id \in 1..Len(envelopes) : envelopes[id].order = o /\ envelopes[id].type = "payment.processed"

(***************************************************************************)
(* What the missing duplicate detection costs: each crash, failed call or  *)
(* repeated send at most doubles the events a paid order causes, however   *)
(* the faults are spread over the stages.                                  *)
(***************************************************************************)
Caused(o, type) ==
    Cardinality({id \in 1..Len(envelopes) : envelopes[id].order = o /\ envelopes[id].type = type})
EachFaultAtMostDoubles ==
    \A o \in Orders : \A t \in DOMAIN Causes : Caused(o, t) <= PowerOfTwo[faults]

(***************************************************************************)
(* Why: what an order has caused and what its open records may still cause *)
(* is within 2^faults together, stage by stage, and so is the number of    *)
(* records a crash may open again.  Open records are those a stage has not *)
(* passed or closed; a failed one is about to have one copy more.          *)
(***************************************************************************)
Takes(h) == IF h = stock THEN "payment.processed" ELSE "stock.reserved"

RecordsOf(h, o) ==
    {k \in 1..Len(log[h.topic]) :
        /\ envelopes[log[h.topic][k].event].type = Takes(h)
        /\ envelopes[log[h.topic][k].event].order = o}

Open(h, o, closed) ==
    {k \in RecordsOf(h, o) : position[h] < k /\ (k = position[h] + 1 => phase[h] \notin closed)}

RetryDue(h, o) == IF phase[h] = "failed" /\ position[h] + 1 \in RecordsOf(h, o) THEN 1 ELSE 0

Shares(o) ==
    LET unreserved == Cardinality(Open(stock, o, {"done"}))
    IN  <<Cardinality(RecordsOf(stock, o)) + RetryDue(stock, o),
          Caused(o, "stock.reserved") + unreserved,
          Cardinality(RecordsOf(notification, o)) + RetryDue(notification, o) + unreserved,
          Caused(o, "notification.send") + Cardinality(Open(notification, o, {"sending", "done"})) + unreserved,
          Caused(o, "notification.sent") + Cardinality(Open(notification, o, {"done"})) + unreserved>>

DoublingInv ==
    /\ \A o \in Orders : \A i \in 1..5 : Shares(o)[i] <= PowerOfTwo[faults]
    /\ \A id \in 1..Len(envelopes) :
          /\ envelopes[id].type = "payment.processed" => envelopes[id].cause = NoEvent
          /\ envelopes[id].type \in DOMAIN Causes => Paid(envelopes[id].order)

(***************************************************************************)
(* The saga never stalls unnoticed: once an order is paid, it is completed *)
(* in the end, unless a dead letter or an error that escaped a handler     *)
(* took one of its events out of the flow.                                 *)
(***************************************************************************)
TakenOut(o) ==
    \/ \E d \in dlq : envelopes[d.failure.event].order = o
    \/ \E l \in lost : envelopes[l.event].order = o
EventuallyCompleted == \A o \in Orders : Paid(o) ~> status[o] = "completed" \/ TakenOut(o)

(* What the documentation says of dlq-service: it reads every dead letter. *)
DeadLettersAreRead == \A d \in dlq : d.topic \in DlqSubscriptions
==============================================================================
