---------------------------- MODULE PaymentService ----------------------------
(***************************************************************************)
(* payment-service: several replicas in one consumer group read the        *)
(* order.created envelopes of a partition of order.events, ask a shared    *)
(* SQLite table (processed_events) whether the envelope or its order was   *)
(* dealt with, charge through a simulated gateway, publish the outcome and *)
(* then record it.  Each await of PaymentEventsConsumer.handleOrderEvents, *)
(* KafkaRetryExecutor.execute and PaymentService.processPayment is a step  *)
(* of its own, at which the process may die, the call may fail, or the     *)
(* group may give the partition to another replica while this one still    *)
(* runs its handler.                                                       *)
(*                                                                         *)
(* All envelopes of one order have the key orderId, hence one partition:   *)
(* nothing below relates two partitions.                                   *)
(***************************************************************************)
EXTENDS RetryPolicy, Sequences, FiniteSets

CONSTANTS Instances,      (* the replicas of the service                        *)
          Events,         (* order.created envelopes, named by their eventId    *)
          Orders,         (* order ids                                          *)
          OrderOf,        (* OrderOf[e]: payload.orderId of e                   *)
          RuleViolating,  (* envelopes evaluatePaymentRules rejects             *)
          MaxAttempts,    (* policy.maxAttempts of the retry executor           *)
          MaxFaults       (* bound on crashes, rebalances and failed calls      *)

ASSUME PaymentAssumption ==
    /\ Instances # {}
    /\ OrderOf \in [Events -> Orders]
    /\ RuleViolating \subseteq Events
    /\ MaxAttempts \in Nat
    /\ MaxFaults \in Nat

VARIABLES
    log,        (* the partition: a sequence of [event, retryCount]              *)
    committed,  (* the group's offset as stored by autoCommit                    *)
    position,   (* records resolved by the replica that owns the partition       *)
    owner,      (* the replica the partition is assigned to                      *)
    pc,         (* pc[i]: the await replica i is at                              *)
    task,       (* task[i]: its record's offset and the payment it is making     *)
    rows,       (* rows[e]: e's row of processed_events, or NoRow                *)
    out,        (* published: a set of [type, event, payment]                    *)
    issued,     (* payment ids drawn so far                                      *)
    dlq,        (* events dead-lettered to the companion topic                   *)
    faults

(* History, not part of the system. *)
VARIABLES
    lost,       (* events dropped after an error escaped the handler             *)
    exposed     (* orders a fault has hit inside the charge-and-record window    *)

groupVars == <<committed, position, owner>>
ledgerVars == <<rows, out, issued>>
historyVars == <<lost, exposed>>
vars == <<log, committed, position, owner, pc, task, rows, out, issued, dlq, faults,
          lost, exposed>>

Verdicts == {"approved", "failed"}
NoRow == [outcome |-> "none", payment |-> 0]
Row == {NoRow} \cup [outcome : Verdicts \cup {"skipped_duplicate_order"}, payment : Nat]

(* The awaits of one delivery, in the order of the code, and the executor's states. *)
Steps == {"idle", "findByEvent", "findByOrder", "recordSkip", "publishRequested",
          "publishOutcome", "recordOutcome", "failed", "escaped", "done"}

NoTask == [offset |-> 0, payment |-> 0, verdict |-> "none"]
Task == [offset : Nat, payment : Nat, verdict : Verdicts \cup {"none"}]

Record == [event : Events, retryCount : Nat]
Message == [type : {"payment.requested", "payment.processed", "payment.failed"},
            event : Events, payment : Nat]
OutcomeType == [approved |-> "payment.processed", failed |-> "payment.failed"]

Published(e) == \E k \in 1..Len(log) : log[k].event = e

(* The record and the order in the hands of replica i. *)
Current(i) == log[task[i].offset]
OrderInHand(i) == OrderOf[Current(i).event]

Goto(i, step) == pc' = [pc EXCEPT ![i] = step]
NewFault == faults < MaxFaults /\ faults' = faults + 1
Expose(o) == exposed' = exposed \cup {o}

------------------------------------------------------------------------------

Init ==
    /\ log = <<>>
    /\ committed = 0
    /\ position = 0
    /\ owner \in Instances
    /\ pc = [i \in Instances |-> "idle"]
    /\ task = [i \in Instances |-> NoTask]
    /\ rows = [e \in Events |-> NoRow]
    /\ out = {}
    /\ issued = 0
    /\ dlq = {}
    /\ faults = 0
    /\ lost = {}
    /\ exposed = {}

(* order-service publishes e; when an acknowledgement is lost, it publishes e again. *)
Produce(e) ==
    /\ \/ ~Published(e) /\ UNCHANGED faults
       \/ Published(e) /\ NewFault
    /\ log' = Append(log, [event |-> e, retryCount |-> 0])
    /\ UNCHANGED <<groupVars, pc, task, ledgerVars, dlq, historyVars>>

------------------------------------------------------------------------------
(* PaymentEventsConsumer.handleOrderEvents and ProcessedEventsService. *)

HandleOrderEvents(i) ==
    /\ owner = i
    /\ pc[i] = "idle"
    /\ position < Len(log)
    /\ task' = [task EXCEPT ![i] = [NoTask EXCEPT !.offset = position + 1]]
    /\ Goto(i, "findByEvent")
    /\ UNCHANGED <<log, groupVars, ledgerVars, dlq, faults, historyVars>>

\* Mutant: the inbound event id is not looked up.
FindByEventSkipped(i) ==
    /\ pc[i] = "findByEvent"
    /\ Goto(i, "findByOrder")
    /\ UNCHANGED <<log, groupVars, task, ledgerVars, dlq, faults, historyVars>>

(* First query of checkOrderCreated: a row of this event means a duplicate. *)
FindByEvent(i) ==
    /\ pc[i] = "findByEvent"
    /\ Goto(i, IF rows[Current(i).event] # NoRow THEN "done" ELSE "findByOrder")
    /\ UNCHANGED <<log, groupVars, task, ledgerVars, dlq, faults, historyVars>>

ApprovedRows(o) == {e \in Events : OrderOf[e] = o /\ rows[e].outcome = "approved"}

\* Mutant: an approved row of the order does not stop a new charge.
FindByOrderSkipped(i) ==
    /\ pc[i] = "findByOrder"
    /\ Goto(i, "publishRequested")
    /\ UNCHANGED <<log, groupVars, task, ledgerVars, dlq, faults, historyVars>>

(* Second query: an approved row of the order means the order is paid. *)
FindByOrder(i) ==
    /\ pc[i] = "findByOrder"
    /\ \/ /\ ApprovedRows(OrderInHand(i)) = {}
          /\ Goto(i, "publishRequested")
          /\ UNCHANGED task
       \/ \E e \in ApprovedRows(OrderInHand(i)) :
             /\ task' = [task EXCEPT ![i].payment = rows[e].payment]
             /\ Goto(i, "recordSkip")
    /\ UNCHANGED <<log, groupVars, ledgerVars, dlq, faults, historyVars>>

(* repository.save: an upsert on the primary key inbound_event_id. *)
SaveRow(i, outcome) ==
    rows' = [rows EXCEPT ![Current(i).event] = [outcome |-> outcome, payment |-> task[i].payment]]

RecordSkip(i) ==
    /\ pc[i] = "recordSkip"
    /\ SaveRow(i, "skipped_duplicate_order")
    /\ Goto(i, "done")
    /\ UNCHANGED <<log, groupVars, task, out, issued, dlq, faults, historyVars>>

\* Mutant: a database error in front of the executor is swallowed and the record acknowledged.
PrecheckErrorAcknowledged(i) ==
    /\ pc[i] \in {"findByEvent", "findByOrder", "recordSkip"}
    /\ NewFault
    /\ Goto(i, "done")
    /\ UNCHANGED <<log, groupVars, task, ledgerVars, dlq, historyVars>>

(* The database fails in front of the executor: the error leaves the handler. *)
PrecheckThrows(i) ==
    /\ pc[i] \in {"findByEvent", "findByOrder", "recordSkip"}
    /\ NewFault
    /\ Goto(i, "escaped")
    /\ UNCHANGED <<log, groupVars, task, ledgerVars, dlq, historyVars>>

------------------------------------------------------------------------------
(* PaymentService.processPayment, run by the retry executor. *)

(* What replica i sends, with the payment id it drew. *)
Send(i, type, payment) ==
    out' = out \cup {[type |-> type, event |-> Current(i).event, payment |-> payment]}

(***************************************************************************)
(* payment.requested goes out under a fresh payment id; the rules and the  *)
(* gateway then decide without an await in between.                        *)
(***************************************************************************)
PublishRequested(i) ==
    /\ pc[i] = "publishRequested"
    /\ issued' = issued + 1
    /\ Send(i, "payment.requested", issued + 1)
    /\ \E v \in IF Current(i).event \in RuleViolating THEN {"failed"} ELSE Verdicts :
          task' = [task EXCEPT ![i].payment = issued + 1, ![i].verdict = v]
    /\ Goto(i, "publishOutcome")
    /\ UNCHANGED <<log, groupVars, rows, dlq, faults, historyVars>>

(* payment.processed or payment.failed, by the verdict. *)
PublishOutcome(i) ==
    /\ pc[i] = "publishOutcome"
    /\ Send(i, OutcomeType[task[i].verdict], task[i].payment)
    /\ Goto(i, "recordOutcome")
    /\ UNCHANGED <<log, groupVars, task, rows, issued, dlq, faults, historyVars>>

RecordOutcome(i) ==
    /\ pc[i] = "recordOutcome"
    /\ SaveRow(i, task[i].verdict)
    /\ Goto(i, "done")
    /\ UNCHANGED <<log, groupVars, task, out, issued, dlq, faults, historyVars>>

\* Mutant: the rejected publish is swallowed and the charge goes on unannounced.
RequestRejectionSwallowed(i) ==
    /\ pc[i] = "publishRequested"
    /\ NewFault
    /\ issued' = issued + 1
    /\ task' = [task EXCEPT ![i].payment = issued + 1, ![i].verdict = "failed"]
    /\ Goto(i, "publishOutcome")
    /\ UNCHANGED <<log, groupVars, rows, out, dlq, historyVars>>

(***************************************************************************)
(* A publish inside the handler rejects, although the broker may have the  *)
(* record: an acknowledgement can be lost.  Or the save rejects, because   *)
(* the database fails or two replicas insert the row of one envelope.      *)
(***************************************************************************)
RequestRejects(i) ==
    /\ pc[i] = "publishRequested"
    /\ NewFault
    /\ issued' = issued + 1
    /\ UNCHANGED out \/ Send(i, "payment.requested", issued + 1)
    /\ Goto(i, "failed")
    /\ UNCHANGED <<log, groupVars, task, rows, dlq, historyVars>>

\* Mutant: the rejected publish is swallowed and the outcome recorded.
OutcomeRejectionSwallowed(i) ==
    /\ pc[i] = "publishOutcome"
    /\ NewFault
    /\ Goto(i, "recordOutcome")
    /\ UNCHANGED <<log, groupVars, task, ledgerVars, dlq, historyVars>>

OutcomeRejects(i) ==
    /\ pc[i] = "publishOutcome"
    /\ NewFault
    /\ \/ UNCHANGED <<out, exposed>>
       \/ /\ Send(i, OutcomeType[task[i].verdict], task[i].payment)
          /\ Expose(OrderInHand(i))
    /\ Goto(i, "failed")
    /\ UNCHANGED <<log, groupVars, task, rows, issued, dlq, lost>>

RecordRejects(i) ==
    /\ pc[i] = "recordOutcome"
    /\ NewFault
    /\ Expose(OrderInHand(i))
    /\ Goto(i, "failed")
    /\ UNCHANGED <<log, groupVars, task, ledgerVars, dlq, lost>>

------------------------------------------------------------------------------
(* KafkaRetryExecutor.execute around the handler, and the delivery loop. *)

NextAttempt(i) == Current(i).retryCount + 1
Exhausted(i) == GoesToDlq(NextAttempt(i), MaxAttempts)

Republish(i) ==
    /\ log' = Append(log, [event |-> Current(i).event, retryCount |-> NextAttempt(i)])
    /\ UNCHANGED dlq

DeadLetter(i) ==
    /\ dlq' = dlq \cup {Current(i).event}
    /\ UNCHANGED log

ScheduleRetry(i) ==
    /\ pc[i] = "failed"
    /\ ~Exhausted(i)
    /\ Republish(i)
    /\ Goto(i, "done")
    /\ UNCHANGED <<groupVars, task, ledgerVars, faults, historyVars>>

SendToDlq(i) ==
    /\ pc[i] = "failed"
    /\ Exhausted(i)
    /\ DeadLetter(i)
    /\ Goto(i, "done")
    /\ UNCHANGED <<groupVars, task, ledgerVars, faults, historyVars>>

RetryPublishRejects(i) ==
    /\ pc[i] = "failed"
    /\ NewFault
    /\ \/ UNCHANGED <<log, dlq>>
       \/ ~Exhausted(i) /\ Republish(i)
       \/ Exhausted(i) /\ DeadLetter(i)
    /\ Goto(i, "escaped")
    /\ UNCHANGED <<groupVars, task, ledgerVars, historyVars>>

(* Back to the poll loop; only the partition's owner moves the group's position. *)
Release(i, resolve) ==
    /\ position' = IF resolve /\ owner = i THEN task[i].offset ELSE position
    /\ task' = [task EXCEPT ![i] = NoTask]
    /\ Goto(i, "idle")
    /\ UNCHANGED <<log, committed, owner, ledgerVars, dlq>>

Resolve(i) ==
    /\ pc[i] = "done"
    /\ Release(i, TRUE)
    /\ UNCHANGED <<faults, historyVars>>

(* The framework logs an escaped error and resolves, or redelivers the record. *)
DropEscaped(i) ==
    /\ pc[i] = "escaped"
    /\ Release(i, TRUE)
    /\ lost' = IF owner = i THEN lost \cup {Current(i).event} ELSE lost
    /\ UNCHANGED <<faults, exposed>>

RedeliverEscaped(i) ==
    /\ pc[i] = "escaped"
    /\ Release(i, FALSE)
    /\ UNCHANGED <<faults, historyVars>>

\* Mutant: the record is committed when it is handed out, before its handler is through.
CommitOnReceipt ==
    /\ pc[owner] # "idle"
    /\ committed <= position
    /\ committed' = position + 1
    /\ UNCHANGED <<log, position, owner, pc, task, ledgerVars, dlq, faults, historyVars>>

AutoCommit ==
    /\ committed # position
    /\ committed' = position
    /\ UNCHANGED <<log, position, owner, pc, task, ledgerVars, dlq, faults, historyVars>>

(* Replica i dies and restarts; if it owns the partition, the group starts over at the offset. *)
Crash(i) ==
    /\ \/ pc[i] # "idle"
       \/ owner = i /\ position # committed
    /\ NewFault
    /\ position' = IF owner = i THEN committed ELSE position
    /\ task' = [task EXCEPT ![i] = NoTask]
    /\ Goto(i, "idle")
    /\ IF pc[i] = "recordOutcome" THEN Expose(OrderInHand(i)) ELSE UNCHANGED exposed
    /\ UNCHANGED <<log, committed, owner, ledgerVars, dlq, lost>>

(***************************************************************************)
(* The owner missed its session timeout (a handler may sleep in a backoff  *)
(* or in the simulated gateway, and heartbeats only between records): the  *)
(* group gives the partition to j while the old owner keeps running.  A    *)
(* replica still in an old handler does not poll, and is given nothing.    *)
(***************************************************************************)
ChargeWindow == {"findByEvent", "findByOrder", "publishRequested", "publishOutcome", "recordOutcome"}

Rebalance(j) ==
    /\ j # owner
    /\ pc[j] = "idle"
    /\ NewFault
    /\ owner' = j
    /\ position' = committed
    /\ IF pc[owner] \in ChargeWindow THEN Expose(OrderInHand(owner)) ELSE UNCHANGED exposed
    /\ UNCHANGED <<log, committed, pc, task, ledgerVars, dlq, lost>>

Precheck(i) == FindByEvent(i) \/ FindByOrder(i) \/ RecordSkip(i) \/ PrecheckThrows(i)
ProcessPayment(i) ==
    \/ PublishRequested(i) \/ PublishOutcome(i) \/ RecordOutcome(i)
    \/ RequestRejects(i) \/ OutcomeRejects(i) \/ RecordRejects(i)
Execute(i) == ScheduleRetry(i) \/ SendToDlq(i) \/ RetryPublishRejects(i)
Finish(i) == Resolve(i) \/ DropEscaped(i) \/ RedeliverEscaped(i)
Work(i) == Precheck(i) \/ ProcessPayment(i) \/ Execute(i) \/ Finish(i)

Next ==
    \/ \E e \in Events : Produce(e)
    \/ \E i \in Instances : HandleOrderEvents(i) \/ Work(i) \/ Crash(i) \/ Rebalance(i)
    \/ AutoCommit

(* Every await ends and the owner polls; faults, new orders and autoCommit are not assumed. *)
Fairness == \A i \in Instances : WF_vars(HandleOrderEvents(i)) /\ WF_vars(Work(i))

Spec == Init /\ [][Next]_vars
FairSpec == Spec /\ Fairness

------------------------------------------------------------------------------

(* Type invariant; the partition's owner works on the record after the group's position. *)
TypeOK ==
    /\ log \in Seq(Record)
    /\ committed \in Nat /\ position \in Nat
    /\ committed <= position /\ position <= Len(log)
    /\ owner \in Instances
    /\ pc \in [Instances -> Steps]
    /\ task \in [Instances -> Task]
    /\ rows \in [Events -> Row]
    /\ out \subseteq Message
    /\ issued \in Nat
    /\ dlq \subseteq Events
    /\ faults \in 0..MaxFaults
    /\ lost \subseteq Events
    /\ exposed \subseteq Orders
    /\ \A i \in Instances : pc[i] # "idle" => task[i].offset \in 1..Len(log)
    /\ \A i \in Instances :
          pc[i] \in {"publishOutcome", "recordOutcome"} => task[i].verdict \in Verdicts
    /\ pc[owner] # "idle" => task[owner].offset = position + 1

(***************************************************************************)
(* The table never claims what did not happen: the payment of a row was    *)
(* published with the row's outcome for that very envelope, and a skip     *)
(* points at a payment the order was really charged with.                  *)
(***************************************************************************)
LedgerIsHonest ==
    \A e \in Events :
        /\ rows[e].outcome \in Verdicts =>
              [type |-> OutcomeType[rows[e].outcome], event |-> e, payment |-> rows[e].payment] \in out
        /\ rows[e].outcome = "skipped_duplicate_order" =>
              \E f \in Events :
                 /\ OrderOf[f] = OrderOf[e]
                 /\ [type |-> "payment.processed", event |-> f, payment |-> rows[e].payment] \in out

(***************************************************************************)
(* A payment id tells one story: its outcome was announced by              *)
(* payment.requested for the same envelope, and it never has two outcomes. *)
(***************************************************************************)
Outcomes == {m \in out : m.type # "payment.requested"}
PaymentIdsAreUnambiguous ==
    /\ \A m \in Outcomes :
          [type |-> "payment.requested", event |-> m.event, payment |-> m.payment] \in out
    /\ \A m, n \in out : m.payment = n.payment =>
          m.event = n.event /\ (m \in Outcomes /\ n \in Outcomes => m = n)

(***************************************************************************)
(* What the idempotency table is for: unless a fault hit the order between *)
(* publishing an outcome and recording it, or two replicas ran at once in  *)
(* it, an envelope gets one verdict and an order one approved payment.     *)
(***************************************************************************)
OneVerdict ==
    \A m, n \in Outcomes :
        OrderOf[m.event] = OrderOf[n.event] /\ OrderOf[m.event] \notin exposed =>
            /\ m.event = n.event => m = n
            /\ m.type = "payment.processed" /\ n.type = "payment.processed" => m = n

(* The same promise without the condition, as the service's comments make it. *)
NoDoubleCharge ==
    \A m, n \in Outcomes :
        /\ OrderOf[m.event] = OrderOf[n.event]
        /\ m.type = "payment.processed" /\ n.type = "payment.processed"
        => m = n

(***************************************************************************)
(* An envelope the group has moved past has a row, is dead-lettered, was   *)
(* dropped by an escaped error, or comes again.                            *)
(***************************************************************************)
Answered(e) == rows[e] # NoRow \/ e \in dlq \/ e \in lost
Ahead(e, n) == \E k \in (n + 1)..Len(log) : log[k].event = e
NothingVanishes ==
    \A e \in Events :
        Published(e) => Answered(e) \/ Ahead(e, position)

(***************************************************************************)
(* payment-service is an AtLeastOnce consumer of order.created, replicas,  *)
(* zombies and upstream duplicates included: the group's position passes   *)
(* an envelope only when it is answered, and nothing is answered that was  *)
(* not lying ahead of the group, not even by a replica that lost the       *)
(* partition.                                                              *)
(***************************************************************************)
Group == "payment-service"
AheadPairs == {<<Group, e>> : e \in {f \in Events : Ahead(f, position)}}
AnsweredPairs == {<<Group, e>> : e \in {f \in Events : Answered(f)}}

Delivery == INSTANCE AtLeastOnce WITH
    Consumers <- {Group}, Messages <- Events, Wanted <- [g \in {Group} |-> Events],
    ahead <- AheadPairs, settled <- AnsweredPairs

ImplementsAtLeastOnce == Delivery!Spec

(***************************************************************************)
(* The strengthenings that make LedgerIsHonest and NothingVanishes         *)
(* inductive: what a replica is about to record was published, and what it *)
(* is about to resolve is answered or comes again.                         *)
(***************************************************************************)
HonestInv ==
    /\ LedgerIsHonest
    /\ \A i \in Instances :
          pc[i] = "recordOutcome" =>
             [type |-> OutcomeType[task[i].verdict], event |-> Current(i).event,
              payment |-> task[i].payment] \in out
    /\ \A i \in Instances :
          pc[i] = "recordSkip" =>
             \E f \in Events :
                /\ OrderOf[f] = OrderInHand(i)
                /\ [type |-> "payment.processed", event |-> f, payment |-> task[i].payment] \in out

VanishInv ==
    /\ NothingVanishes
    /\ \A i \in Instances :
          pc[i] = "done" => Answered(Current(i).event) \/ Ahead(Current(i).event, task[i].offset)

(***************************************************************************)
(* What a fault costs: however crashes, rebalances and rejected calls are  *)
(* spread over the replicas and the copies of an order's envelopes, the    *)
(* idempotency table holds an order to one charge plus at most one more    *)
(* for each fault.                                                         *)
(***************************************************************************)
Charges(o) == {m.payment : m \in {n \in out : n.type = "payment.processed" /\ OrderOf[n.event] = o}}
OneChargePerFault == \A o \in Orders : Cardinality(Charges(o)) <= 1 + faults

(***************************************************************************)
(* The inductive form.  Every fault pays for one hazard, and so does the   *)
(* order itself: a charge made, a replica that lost the partition and may  *)
(* still charge the order or overwrite its approved row, and the charge    *)
(* the partition's owner may make as long as no approved row is settled.   *)
(***************************************************************************)
ApprovedInHand(i) == pc[i] = "recordOutcome" /\ task[i].verdict = "approved"
MayHarm(i, o) ==
    /\ pc[i] \in ChargeWindow \cup {"recordSkip"}
    /\ OrderInHand(i) = o
    /\ ~ApprovedInHand(i)
Zombies(o) == {i \in Instances : i # owner /\ MayHarm(i, o)}

(* An approved row stands that the owner is not about to overwrite, or it writes one. *)
AtGateway(i, o) == pc[i] \in {"publishRequested", "publishOutcome"} /\ OrderInHand(i) = o
Overwriting(i, e) ==
    pc[i] \in {"findByOrder", "recordSkip", "recordOutcome"} /\ Current(i).event = e
SettledOrder(o) ==
    \/ ApprovedInHand(owner) /\ OrderInHand(owner) = o
    \/ ~AtGateway(owner, o) /\ \E e \in ApprovedRows(o) : ~Overwriting(owner, e)

Unsettled(o) == IF SettledOrder(o) THEN 0 ELSE 1

WithinBudget(o) ==
    /\ IsFiniteSet(Charges(o)) /\ IsFiniteSet(Zombies(o))
    /\ Cardinality(Charges(o)) + Cardinality(Zombies(o)) + Unsettled(o) <= 1 + faults

ChargeInv == \A o \in Orders : WithinBudget(o)

(***************************************************************************)
(* An approved row of an order no fault has exposed is never overwritten,  *)
(* although save is an upsert that would.                                  *)
(***************************************************************************)
ApprovalStands ==
    [][\A e \in Events :
          rows[e].outcome = "approved" /\ OrderOf[e] \notin exposed' => rows'[e] = rows[e]]_vars

(* Every order.created that reaches the topic is answered in the end. *)
EventuallyAnswered == \A e \in Events : Published(e) ~> Answered(e)
==============================================================================
