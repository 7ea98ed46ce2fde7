-------------------------------- MODULE Catalog --------------------------------
(***************************************************************************)
(* EVENT_CATALOG, the topics derived from it, the topics kafka-init makes, *)
(* and the @EventPattern subscriptions of the services.  They are written  *)
(* down in four places of the repository; this module states how they      *)
(* agree, as seen by who asks a service for its catalog.  As in Routing, a *)
(* companion topic is named by its base topic.                             *)
(***************************************************************************)
EXTENDS Routing

VARIABLE answer   (* the last answer of GET /events/catalog *)

ServiceName == {"order-service", "payment-service", "stock-service",
                "notification-service", "dlq-service"}

Entry(type, topic, producer, consumers) ==
    [eventType |-> type, topic |-> topic, producer |-> producer, consumers |-> consumers]

EVENT_CATALOG ==
    {Entry("order.created", "order.events", "order-service", {"payment-service"}),
     Entry("order.cancelled", "order.cancelled", "order-service",
           {"payment-service", "stock-service", "notification-service"}),
     Entry("payment.requested", "payment.requested", "payment-service", {"payment-service"}),
     Entry("payment.processed", "payment.events", "payment-service", {"stock-service"}),
     Entry("payment.failed", "payment.events", "payment-service",
           {"order-service", "notification-service"}),
     Entry("stock.reserved", "stock.reserved", "stock-service", {"notification-service"}),
     Entry("stock.released", "stock.released", "stock-service", {"order-service"}),
     Entry("stock.failed", "stock.failed", "stock-service",
           {"order-service", "notification-service"}),
     Entry("notification.send", "notification.send", "notification-service", {"notification-service"}),
     Entry("notification.sent", "notification.sent", "notification-service", {"order-service"}),
     Entry("notification.failed", "notification.failed", "notification-service", {"dlq-service"})}

(* The two lists of an answer; the first is also a mutant of the second. *)
GetEventsByProducer(service) == {e \in EVENT_CATALOG : e.producer = service}

GetEventsByConsumer(service) == {e \in EVENT_CATALOG : service \in e.consumers}

GetCatalogEntry(type) == CHOOSE e \in EVENT_CATALOG : e.eventType = type

(* topic-config.ts: the event types and the topics of the catalog. *)
BASE_KAFKA_TOPICS == EventTypes \cup {e.topic : e \in EVENT_CATALOG}

(* The topics create-topics.sh makes, each with its companion. *)
TOPICS == {"order.events", "order.cancelled", "payment.requested", "payment.events",
           "stock.reserved", "stock.released", "stock.failed",
           "notification.send", "notification.sent", "notification.failed"}
(* Routing's short names. *)
ServiceOf == [h \in {"order", "stock", "notification"} |->
                CASE h = "order" -> "order-service" [] h = "stock" -> "stock-service"
                  [] OTHER -> "notification-service"]

(* The decorators of the consumers; those of dlq-service on companions are in Routing. *)
EventPatterns ==
    [s \in ServiceName |->
        CASE s = "payment-service" -> {"order.events", "order.cancelled"}
          [] s = "stock-service" -> {"payment.events", "order.cancelled"}
          [] s = "notification-service" -> {"stock.reserved", "payment.events", "order.cancelled"}
          [] s = "order-service" -> {"payment.events", "stock.released", "stock.failed", "notification.sent"}
          [] s = "dlq-service" -> {"notification.failed"}]

------------------------------------------------------------------------------

NoAnswer == [service |-> "none", produces |-> {}, consumes |-> {}, dlqTopics |-> {}, systemCatalog |-> {}]

(* EventsController.getCatalog of service s; dlq-service adds two fields. *)
GetCatalog(s) ==
    answer' = [service |-> s, produces |-> GetEventsByProducer(s), consumes |-> GetEventsByConsumer(s),
               dlqTopics |-> IF s = "dlq-service" THEN DlqSubscriptions ELSE {},
               systemCatalog |-> IF s = "dlq-service" THEN EVENT_CATALOG ELSE {}]

(* Consumers of the catalog that do not subscribe to the event's topic. *)
Deaf == {<<"payment.requested", "payment-service">>, <<"notification.send", "notification-service">>,
         <<"stock.failed", "notification-service">>}

(***************************************************************************)
(* What a service says it produces it publishes where the catalog says, to *)
(* a topic that kafka-init makes (no topic an event travels on is left to  *)
(* auto-creation with one partition).  A service that says it consumes an  *)
(* event subscribes to its topic, except for the Deaf ones, and it         *)
(* subscribes to no topic on which there would be nothing for it.          *)
(*                                                                         *)
(* Two texts name other routes.  services/payment-service/src/main.ts:25   *)
(* has payment.requested produced on payment.events, and                   *)
(* docs/PROJECT_DETAILS.md (:480, :491, :524, :526) has order.created and  *)
(* payment.processed each on a topic of its own name.  The catalog,        *)
(* docs/EVENT_CATALOG.md and what is published agree: payment.requested is *)
(* on its own topic, order.created on order.events, payment.processed on   *)
(* payment.events.                                                         *)
(***************************************************************************)
AnswersTellTheRoutes ==
    answer # NoAnswer =>
        /\ \A e \in answer.produces \cup answer.systemCatalog :
              e.topic = ResolveKafkaTopic(e.eventType) /\ e.topic \in TOPICS
        /\ \A e \in answer.consumes :
              e.topic \notin EventPatterns[answer.service] <=> <<e.eventType, answer.service>> \in Deaf
        /\ EventPatterns[answer.service] \subseteq {e.topic : e \in answer.consumes}
==============================================================================
