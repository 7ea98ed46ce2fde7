------------------------------- MODULE Routing -------------------------------
(***************************************************************************)
(* Which topic an event type is published to, which service's handlers     *)
(* take it there, and where its dead letters go (shared/src/events and the *)
(* @EventPattern decorators of the services).  The companion topic         *)
(* toDlqTopic(t) is named by its base topic t.                             *)
(***************************************************************************)
EventTypes == {"order.created", "order.cancelled",
               "payment.requested", "payment.processed", "payment.failed",
               "stock.reserved", "stock.released", "stock.failed",
               "notification.send", "notification.sent", "notification.failed"}

(* Aggregate topics override the topic of the same name. *)
ResolveKafkaTopic(type) ==
    CASE type = "order.created" -> "order.events"
      [] type \in {"payment.processed", "payment.failed"} -> "payment.events"
      [] OTHER -> type

(***************************************************************************)
(* The handlers that do more than log: what each takes from its topic.     *)
(* On payment.events the parsers skip the other types of the topic; the    *)
(* other topics carry one type.  Handlers of order.cancelled are left out: *)
(* no service publishes that event.                                        *)
(***************************************************************************)
Handlers == {[service |-> "stock", topic |-> "payment.events"],
             [service |-> "order", topic |-> "payment.events"],
             [service |-> "notification", topic |-> "stock.reserved"],
             [service |-> "order", topic |-> "notification.sent"]}

\* Mutant: the handlers of payment.events do not look at the event type.
AcceptsAnyType(h, type) == ResolveKafkaTopic(type) = h.topic

Accepts(h, type) ==
    /\ ResolveKafkaTopic(type) = h.topic
    /\ h.topic = "payment.events" =>
          type = IF h.service = "stock" THEN "payment.processed" ELSE "payment.failed"

(* The base topics of ALL_DLQ_TOPICS, each of which has a handler in dlq-service. *)
DlqSubscriptions == EventTypes
==============================================================================
