----------------------------- MODULE OrderService -----------------------------
(***************************************************************************)
(* order-service: POST /orders saves a row, stores the eventId of the      *)
(* envelope on it, publishes order.created under two nested retry loops    *)
(* and answers the client; meanwhile the consumers of the feedback topics  *)
(* set the order's status, without looking at the one it has.              *)
(*                                                                         *)
(* Each await of OrdersService.createOrder is a step of its own.  A save   *)
(* of TypeORM writes the columns that differ from the row, so the save in  *)
(* createOrder's catch block writes the status over whatever a consumer    *)
(* wrote in between.                                                       *)
(***************************************************************************)
EXTENDS Integers, Sequences, FiniteSets

CONSTANTS Clients,      (* the purchases clients want to make                  *)
          Orders,       (* the order ids randomUUID may draw, one per request  *)
          Answers,      (* the feedback event types the other services publish *)
          MaxAttempts,  (* maxAttempts of the producer's retry policy          *)
          MaxFaults     (* bound on crashes, failed saves and redeliveries     *)

(* The status each handler of OrderEventsConsumer writes. *)
StatusFor == [t \in {"payment.failed", "stock.failed", "stock.released", "notification.sent"} |->
                CASE t \in {"payment.failed", "stock.failed"} -> "failed"
                  [] t = "stock.released" -> "cancelled"
                  [] t = "notification.sent" -> "completed"]

ASSUME OrderAssumption ==
    /\ Answers \subseteq DOMAIN StatusFor
    /\ MaxAttempts \in Nat
    /\ MaxFaults \in Nat

VARIABLES
    pc,         (* pc[o]: the await the request that drew o is at                 *)
    client,     (* client[o]: the purchase the request is for, or Nobody          *)
    rows,       (* rows[o]: the columns status and eventId of the row             *)
    held,       (* held[o]: the envelope's eventId in the request's memory        *)
    attempt,    (* attempt[o]: of publishWithProducerRetry's loop                 *)
    send,       (* send[o]: of the Kafka client's loop within the attempt         *)
    topic,      (* topic[o]: eventIds of the order.created records of o           *)
    issued,     (* event ids drawn so far                                         *)
    feedback,   (* the feedback events published: a set of [type, order]          *)
    delivered,  (* those order-service is through with at least once              *)
    faults

(* History, not part of the system. *)
VARIABLES
    interrupted, (* orders whose request a crash or a failed save cut short       *)
    dropped      (* feedback events dead-lettered or dropped instead of applied   *)

publishVars == <<attempt, send, topic>>
feedbackVars == <<feedback, delivered, dropped>>
vars == <<pc, client, rows, held, attempt, send, topic, issued, feedback, delivered, faults,
          interrupted, dropped>>

CONSTANT Nobody
NoEventId == 0
NoRow == [status |-> "absent", eventId |-> NoEventId]
Statuses == {"pending", "completed", "failed", "cancelled"}

InFlight == {"saveOrder", "saveEventId", "publish", "markFailed"}
Over == {"created", "error", "dead"}

NewFault == faults < MaxFaults /\ faults' = faults + 1
Goto(o, step) == pc' = [pc EXCEPT ![o] = step]

(* getKafkaClientConfig: retries = max(maxAttempts - 1, 0) on top of the first send. *)
TransportSends == IF MaxAttempts = 0 THEN 1 ELSE MaxAttempts

------------------------------------------------------------------------------

Init ==
    /\ pc = [o \in Orders |-> "unborn"]
    /\ client = [o \in Orders |-> Nobody]
    /\ rows = [o \in Orders |-> NoRow]
    /\ held = [o \in Orders |-> NoEventId]
    /\ attempt = [o \in Orders |-> 0]
    /\ send = [o \in Orders |-> 0]
    /\ topic = [o \in Orders |-> <<>>]
    /\ issued = 0
    /\ feedback = {}
    /\ delivered = {}
    /\ faults = 0
    /\ interrupted = {}
    /\ dropped = {}

(***************************************************************************)
(* A client posts its purchase, and posts it again once every request it   *)
(* made for it has ended without a 201: with a 500, or with the replica    *)
(* that served it.                                                         *)
(***************************************************************************)
Post(c, o) ==
    /\ pc[o] = "unborn"
    /\ \A p \in Orders : client[p] = c => pc[p] \in {"error", "dead"}
    /\ client' = [client EXCEPT ![o] = c]
    /\ Goto(o, "saveOrder")
    /\ UNCHANGED <<rows, held, publishVars, issued, feedbackVars, faults, interrupted>>

(***************************************************************************)
(* The first save.  The guard hasPublishedEventId that follows it never    *)
(* holds: the entity was created with eventId null a few lines above.      *)
(***************************************************************************)
SaveOrder(o) ==
    /\ pc[o] = "saveOrder"
    /\ rows' = [rows EXCEPT ![o] = [status |-> "pending", eventId |-> NoEventId]]
    /\ Goto(o, "saveEventId")
    /\ UNCHANGED <<client, held, publishVars, issued, feedbackVars, faults, interrupted>>

DrawEventId(o) ==
    /\ issued' = issued + 1
    /\ held' = [held EXCEPT ![o] = issued + 1]

\* Mutant: the envelope's eventId is not stored on the row.
SaveEventIdForgotten(o) ==
    /\ pc[o] = "saveEventId"
    /\ DrawEventId(o)
    /\ attempt' = [attempt EXCEPT ![o] = IF MaxAttempts = 0 THEN 0 ELSE 1]
    /\ send' = [send EXCEPT ![o] = IF MaxAttempts = 0 THEN 0 ELSE 1]
    /\ Goto(o, IF MaxAttempts = 0 THEN "markFailed" ELSE "publish")
    /\ UNCHANGED <<client, rows, topic, feedbackVars, faults, interrupted>>

(* The second save; a policy without attempts makes publish throw at once. *)
SaveEventId(o) ==
    /\ pc[o] = "saveEventId"
    /\ DrawEventId(o)
    /\ rows' = [rows EXCEPT ![o].eventId = issued + 1]
    /\ attempt' = [attempt EXCEPT ![o] = IF MaxAttempts = 0 THEN 0 ELSE 1]
    /\ send' = [send EXCEPT ![o] = IF MaxAttempts = 0 THEN 0 ELSE 1]
    /\ Goto(o, IF MaxAttempts = 0 THEN "markFailed" ELSE "publish")
    /\ UNCHANGED <<client, topic, feedbackVars, faults, interrupted>>

------------------------------------------------------------------------------
(* EventPublisher.publish: publishWithProducerRetry around the client's own retries. *)

AppendRecord(o) == topic' = [topic EXCEPT ![o] = Append(@, held[o])]

\* Mutant: after the publish the request saves its (stale) entity once more.
SendAcknowledgedThenSave(o) ==
    /\ pc[o] = "publish"
    /\ AppendRecord(o)
    /\ rows' = [rows EXCEPT ![o].status = "pending"]
    /\ Goto(o, "created")
    /\ UNCHANGED <<client, held, attempt, send, issued, feedbackVars, faults, interrupted>>

SendAcknowledged(o) ==
    /\ pc[o] = "publish"
    /\ AppendRecord(o)
    /\ Goto(o, "created")
    /\ UNCHANGED <<client, rows, held, attempt, send, issued, feedbackVars, faults, interrupted>>

(* A send fails for the producer; the broker may have the record all the same. *)
SendFails(o) ==
    /\ pc[o] = "publish"
    /\ UNCHANGED topic \/ AppendRecord(o)
    /\ UNCHANGED <<client, rows, held, issued, feedbackVars, faults, interrupted>>

SendsLeft(o) == send[o] < TransportSends

\* Mutant: the loop runs once too often.
AttemptsLeftOneMore(o) == attempt[o] <= MaxAttempts
AttemptsLeft(o) == attempt[o] < MaxAttempts

TransportRetry(o) ==
    /\ SendFails(o)
    /\ SendsLeft(o)
    /\ send' = [send EXCEPT ![o] = @ + 1]
    /\ UNCHANGED <<pc, attempt>>

\* Mutant: the client's loop goes on counting in the next attempt.
ApplicationRetryKeepsCount(o) ==
    /\ SendFails(o)
    /\ ~SendsLeft(o) /\ AttemptsLeft(o)
    /\ attempt' = [attempt EXCEPT ![o] = @ + 1]
    /\ send' = [send EXCEPT ![o] = @ + 1]
    /\ UNCHANGED pc

ApplicationRetry(o) ==
    /\ SendFails(o)
    /\ ~SendsLeft(o) /\ AttemptsLeft(o)
    /\ attempt' = [attempt EXCEPT ![o] = @ + 1]
    /\ send' = [send EXCEPT ![o] = 1]
    /\ UNCHANGED pc

\* Mutant: the publish failure is swallowed and the client told 201.
GiveUpSilently(o) ==
    /\ SendFails(o)
    /\ ~SendsLeft(o) /\ ~AttemptsLeft(o)
    /\ Goto(o, "created")
    /\ UNCHANGED <<attempt, send>>

GiveUp(o) ==
    /\ SendFails(o)
    /\ ~SendsLeft(o) /\ ~AttemptsLeft(o)
    /\ Goto(o, "markFailed")
    /\ UNCHANGED <<attempt, send>>

\* Mutant: the catch block answers 500 without marking the row.
MarkFailedForgotten(o) ==
    /\ pc[o] = "markFailed"
    /\ Goto(o, "error")
    /\ UNCHANGED <<client, rows, held, publishVars, issued, feedbackVars, faults, interrupted>>

(* The catch block of createOrder: status failed, save, 500. *)
MarkFailed(o) ==
    /\ pc[o] = "markFailed"
    /\ rows' = [rows EXCEPT ![o].status = "failed"]
    /\ Goto(o, "error")
    /\ UNCHANGED <<client, held, publishVars, issued, feedbackVars, faults, interrupted>>

(* A save rejects, leaving the row as it was: the request ends with 500. *)
SaveRejects(o) ==
    /\ pc[o] \in {"saveOrder", "saveEventId", "markFailed"}
    /\ NewFault
    /\ interrupted' = interrupted \cup {o}
    /\ Goto(o, "error")
    /\ UNCHANGED <<client, rows, held, publishVars, issued, feedbackVars>>

(* The process dies with every request it is serving. *)
Crash ==
    /\ \E o \in Orders : pc[o] \in InFlight
    /\ NewFault
    /\ interrupted' = interrupted \cup {o \in Orders : pc[o] \in InFlight}
    /\ pc' = [o \in Orders |-> IF pc[o] \in InFlight THEN "dead" ELSE pc[o]]
    /\ UNCHANGED <<client, rows, held, publishVars, issued, feedbackVars>>

------------------------------------------------------------------------------
(* Feedback. *)

(***************************************************************************)
(* payment-, stock- or notification-service answers a published order:     *)
(* once, unless a fault made it process the order again.                   *)
(***************************************************************************)
Downstream(o, t) ==
    /\ topic[o] # <<>>
    /\ [type |-> t, order |-> o] \notin feedback
    /\ \/ (\A f \in feedback : f.order # o) /\ UNCHANGED faults
       \/ (\E f \in feedback : f.order = o) /\ NewFault
    /\ feedback' = feedback \cup {[type |-> t, order |-> o]}
    /\ UNCHANGED <<pc, client, rows, held, publishVars, issued, delivered, interrupted, dropped>>

\* Mutant: the update has lost its where clause.
UpdateEveryOrder(o, status) ==
    rows' = [p \in Orders |-> IF rows[p] # NoRow THEN [rows[p] EXCEPT !.status = status]
                                                ELSE rows[p]]

(* repository.update({id}, {status}): one statement, without a look at the old status. *)
UpdateOrderStatus(o, status) ==
    rows' = IF rows[o] # NoRow THEN [rows EXCEPT ![o].status = status] ELSE rows

(***************************************************************************)
(* A handler of OrderEventsConsumer has run, for a first delivery or a     *)
(* redelivery.  Without a row it throws NotFoundException at every attempt *)
(* and the event ends in the companion topic.                              *)
(***************************************************************************)
Apply(f) ==
    /\ \/ f \notin delivered /\ UNCHANGED faults
       \/ f \in delivered /\ NewFault
    /\ UpdateOrderStatus(f.order, StatusFor[f.type])
    /\ delivered' = delivered \cup {f}
    /\ dropped' = IF rows[f.order] # NoRow THEN dropped ELSE dropped \cup {f}
    /\ UNCHANGED <<pc, client, held, publishVars, issued, feedback, interrupted>>

(* The other ends RetryExecutor allows: dead-lettered, or dropped by an escaped error. *)
Drop(f) ==
    /\ f \notin delivered
    /\ NewFault
    /\ delivered' = delivered \cup {f}
    /\ dropped' = dropped \cup {f}
    /\ UNCHANGED <<pc, client, rows, held, publishVars, issued, feedback, interrupted>>

CreateOrder(o) ==
    \/ SaveOrder(o) \/ SaveEventId(o)
    \/ SendAcknowledged(o) \/ TransportRetry(o) \/ ApplicationRetry(o) \/ GiveUp(o)
    \/ MarkFailed(o) \/ SaveRejects(o)

Next ==
    \/ \E o \in Orders :
          \/ \E c \in Clients : Post(c, o)
          \/ CreateOrder(o)
          \/ \E t \in Answers : Downstream(o, t)
    \/ \E f \in feedback : Apply(f) \/ Drop(f)
    \/ Crash

(***************************************************************************)
(* The event loop runs every request on, the consumer keeps polling, and   *)
(* the other services answer what is published.                            *)
(***************************************************************************)
Fairness ==
    \A o \in Orders :
        /\ WF_vars(CreateOrder(o))
        /\ WF_vars(\E t \in Answers : Downstream(o, t))
        /\ WF_vars(\E f \in feedback : f.order = o /\ (Apply(f) \/ Drop(f)))

Spec == Init /\ [][Next]_vars
FairSpec == Spec /\ Fairness

------------------------------------------------------------------------------

(* Type invariant; neither retry loop runs past its bound. *)
TypeOK ==
    /\ pc \in [Orders -> {"unborn"} \cup InFlight \cup Over]
    /\ client \in [Orders -> Clients \cup {Nobody}]
    /\ rows \in [Orders -> [status : Statuses \cup {"absent"}, eventId : Nat]]
    /\ held \in [Orders -> Nat]
    /\ attempt \in [Orders -> 0..MaxAttempts]
    /\ send \in [Orders -> 0..TransportSends]
    /\ topic \in [Orders -> Seq(Nat)]
    /\ issued \in Nat
    /\ delivered \subseteq feedback
    /\ feedback \subseteq [type : Answers, order : Orders]
    /\ faults \in 0..MaxFaults
    /\ interrupted \subseteq Orders
    /\ dropped \subseteq delivered

(***************************************************************************)
(* Every copy of order.created in the topic is backed by a row that        *)
(* carries its eventId: whoever reacts to it finds the order, so no        *)
(* consumer runs into NotFoundException, and all copies of an order are    *)
(* one event for the consumers' duplicate detection.                       *)
(***************************************************************************)
EventsAreBacked ==
    \A o \in Orders : \A k \in 1..Len(topic[o]) :
        rows[o].status # "absent" /\ rows[o].eventId = topic[o][k]

(***************************************************************************)
(* The two retry loops multiply: a request may leave maxAttempts squared   *)
(* copies of its event in the topic, and never more.                       *)
(***************************************************************************)
CopiesAreBounded == \A o \in Orders : Len(topic[o]) <= MaxAttempts * TransportSends

(***************************************************************************)
(* A client that got its 201 has an event in the topic, and an order that  *)
(* stays pending after its request ended has one too, unless a crash or a  *)
(* failed save cut the request short.                                      *)
(***************************************************************************)
PendingMeansUnderway ==
    \A o \in Orders :
        \/ pc[o] = "created"
        \/ pc[o] \in Over /\ rows[o].status = "pending" /\ o \notin interrupted
        => topic[o] # <<>>

(***************************************************************************)
(* A status is earned: an order is completed or cancelled only after the   *)
(* event saying so, and failed only after such an event or when its own    *)
(* request gave up publishing.                                             *)
(***************************************************************************)
StatusIsEarned ==
    \A o \in Orders :
        rows[o].status \notin {"absent", "pending"} =>
            \/ \E f \in delivered : f.order = o /\ StatusFor[f.type] = rows[o].status
            \/ rows[o].status = "failed" /\ pc[o] = "error" /\ attempt[o] = MaxAttempts

(***************************************************************************)
(* The strengthenings that make the invariants above inductive.            *)
(***************************************************************************)
BackedInv ==
    /\ EventsAreBacked
    /\ \A o \in Orders :
          /\ pc[o] \in {"unborn", "saveOrder", "saveEventId"} => topic[o] = <<>>
          /\ pc[o] \in {"saveEventId", "publish"} => rows[o].status # "absent"
          /\ pc[o] = "publish" => rows[o].eventId = held[o]

(* While it publishes, a request has made (attempt - 1) full rounds and send - 1 sends. *)
BoundInv ==
    \A o \in Orders :
        /\ pc[o] \in {"unborn", "saveOrder", "saveEventId"} => topic[o] = <<>>
        /\ pc[o] = "publish" =>
              /\ attempt[o] >= 1 /\ send[o] >= 1
              /\ Len(topic[o]) < (attempt[o] - 1) * TransportSends + send[o]
        /\ Len(topic[o]) <= MaxAttempts * TransportSends

EarnedInv ==
    /\ StatusIsEarned
    /\ \A o \in Orders : pc[o] = "markFailed" => attempt[o] = MaxAttempts

(* No save of a stale entity takes an order back to pending. *)
NeverReopened ==
    [][\A o \in Orders :
          rows[o].status \notin {"absent", "pending"} => rows'[o].status # "pending"]_vars

(***************************************************************************)
(* Every order is decided in the end, unless its request was cut short or  *)
(* its answer dead-lettered or dropped.                                    *)
(***************************************************************************)
OrdersAreDecided ==
    \A o \in Orders :
        pc[o] \in InFlight ~>
            \/ rows[o].status \notin {"absent", "pending"}
            \/ o \in interrupted
            \/ \E f \in dropped : f.order = o

(* What the status enum says of completed: terminal success. *)
TerminalIsFinal ==
    [][\A o \in Orders : rows[o].status = "completed" => rows'[o].status = "completed"]_vars

(* What the service's header promises a client that retries: no duplicate publish. *)
OneEventPerPurchase ==
    \A o, p \in Orders :
        /\ client[o] = client[p] /\ client[o] # Nobody
        /\ topic[o] # <<>> /\ topic[p] # <<>>
        => o = p
==============================================================================
