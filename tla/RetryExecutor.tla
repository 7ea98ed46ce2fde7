---------------------------- MODULE RetryExecutor ----------------------------
(***************************************************************************)
(* One partition of a Kafka topic, the consumer groups subscribed to it    *)
(* and KafkaRetryExecutor.execute, which every @EventPattern handler of    *)
(* the services runs its domain logic in                                   *)
(* (shared/src/kafka/retry/kafka-retry.executor.ts).                       *)
(*                                                                         *)
(* The executor keeps no state of its own between two deliveries: the      *)
(* attempt count travels in the x-retry-count header of the record it      *)
(* republishes to the SAME topic, which every group subscribed to that     *)
(* topic then receives.  Records of one order have one key and so stay in  *)
(* one partition; partitions do not interact.                              *)
(***************************************************************************)
EXTENDS RetryPolicy, Counting, Sequences, FiniteSets

CONSTANTS Groups,       (* the consumer groups subscribed to the topic           *)
          Events,       (* the envelopes, named by their eventId                 *)
          Interest,     (* Interest[g]: the events group g's parser does not skip *)
          Fallible,     (* Fallible[g]: those it can throw on; it only logs the others *)
          MaxAttempts,  (* policy.maxAttempts                                    *)
          MaxFaults     (* bound on crashes, failed publishes and failed prechecks *)

ASSUME RetryAssumption ==
    /\ Interest \in [Groups -> SUBSET Events]
    /\ Fallible \in [Groups -> SUBSET Events]
    /\ MaxAttempts \in Nat
    /\ MaxFaults \in Nat

(***************************************************************************)
(* An event of this system has at most one group whose handler can throw   *)
(* on it.  On payment.events these are stock-service for payment.processed *)
(* (it publishes the reservation) and order-service for payment.failed (it *)
(* writes its database), while notification-service only logs; on          *)
(* order.cancelled only stock-service publishes.  The other topics have    *)
(* one group each.                                                         *)
(***************************************************************************)
OneFallibleGroupPerEvent ==
    \A g, h \in Groups : \A e \in Fallible[g] \cap Fallible[h] : g = h

VARIABLES
    log,        (* the partition: a sequence of [event, retryCount]              *)
    position,   (* position[g]: number of records the group's member resolved    *)
    committed,  (* committed[g]: the offset stored by autoCommit                 *)
    phase,      (* phase[g]: where the member is with record position[g] + 1     *)
    dlq,        (* the companion topic: a set of [group, event, attempt]         *)
    faults      (* the faults so far                                             *)

(* History, not part of the system. *)
VARIABLES
    handled,    (* pairs <<g, e>>: a handler run of g for e returned             *)
    failed,     (* triples <<g, e, c>>: g's handler threw on e at header count c *)
    lost        (* pairs <<g, e>>: an error escaped execute and e was committed  *)

brokerVars == <<log, committed, dlq>>
historyVars == <<handled, failed, lost>>
vars == <<log, position, committed, phase, dlq, faults, handled, failed, lost>>

Phases == {"idle", "handling", "failed", "escaped", "done"}
Record == [event : Events, retryCount : Nat]

(* The record in the hands of group g's member. *)
Current(g) == log[position[g] + 1]

(* An envelope of the event has reached the topic. *)
Published(e) == \E k \in 1..Len(log) : log[k].event = e

------------------------------------------------------------------------------

Init ==
    /\ log = <<>>
    /\ position = [g \in Groups |-> 0]
    /\ committed = [g \in Groups |-> 0]
    /\ phase = [g \in Groups |-> "idle"]
    /\ dlq = {}
    /\ faults = 0
    /\ handled = {}
    /\ failed = {}
    /\ lost = {}

(* A producer publishes a new event, without retry headers. *)
Produce(e) ==
    /\ ~Published(e)
    /\ log' = Append(log, [event |-> e, retryCount |-> 0])
    /\ UNCHANGED <<position, committed, phase, dlq, faults, historyVars>>

(***************************************************************************)
(* The member is handed its next record.  The parsers of consume-*-        *)
(* events.ts acknowledge at once what is invalid or of another type.       *)
(***************************************************************************)
Deliver(g) ==
    /\ phase[g] = "idle"
    /\ position[g] < Len(log)
    /\ phase' = [phase EXCEPT ![g] =
                   IF Current(g).event \in Interest[g] THEN "handling" ELSE "done"]
    /\ UNCHANGED <<brokerVars, position, faults, historyVars>>

(* await params.handler() returned: 'success'. *)
HandlerReturns(g) ==
    /\ phase[g] = "handling"
    /\ phase' = [phase EXCEPT ![g] = "done"]
    /\ handled' = handled \cup {<<g, Current(g).event>>}
    /\ UNCHANGED <<brokerVars, position, faults, failed, lost>>

(* await params.handler() threw; the catch block counts from the header. *)
HandlerThrows(g) ==
    /\ phase[g] = "handling"
    /\ Current(g).event \in Fallible[g]
    /\ phase' = [phase EXCEPT ![g] = "failed"]
    /\ failed' = failed \cup {<<g, Current(g).event, Current(g).retryCount>>}
    /\ UNCHANGED <<brokerVars, position, faults, handled, lost>>

(***************************************************************************)
(* The code in front of execute threw: payment-service asks its            *)
(* idempotency table outside the executor, so a database error there is    *)
(* neither retried nor dead-lettered.                                      *)
(***************************************************************************)
PrecheckThrows(g) ==
    /\ phase[g] = "handling"
    /\ Current(g).event \in Fallible[g]
    /\ faults < MaxFaults
    /\ phase' = [phase EXCEPT ![g] = "escaped"]
    /\ faults' = faults + 1
    /\ UNCHANGED <<brokerVars, position, historyVars>>

NextAttempt(g) == Current(g).retryCount + 1
Exhausted(g) == GoesToDlq(NextAttempt(g), MaxAttempts)

\* Mutant: the republished envelope never reaches the topic.
RepublishNothing(g) == UNCHANGED <<log, dlq>>

(* transport.publish of the same envelope with x-retry-count = nextAttempt. *)
Republish(g) ==
    /\ log' = Append(log, [event |-> Current(g).event, retryCount |-> NextAttempt(g)])
    /\ UNCHANGED dlq

(* transport.publishToDlq of the failure envelope. *)
PublishToDlq(g) ==
    /\ dlq' = dlq \cup {[group |-> g, event |-> Current(g).event, attempt |-> NextAttempt(g)]}
    /\ UNCHANGED log

\* Mutant: the handler is run again in place, without counting the attempt.
RetryInPlace(g) ==
    /\ phase[g] = "failed"
    /\ ~Exhausted(g)
    /\ phase' = [phase EXCEPT ![g] = "handling"]
    /\ UNCHANGED <<brokerVars, position, faults, historyVars>>

(* The attempt budget allows another try: back off, republish, 'retry'. *)
ScheduleRetry(g) ==
    /\ phase[g] = "failed"
    /\ ~Exhausted(g)
    /\ Republish(g)
    /\ phase' = [phase EXCEPT ![g] = "done"]
    /\ UNCHANGED <<position, committed, faults, historyVars>>

(* The attempt budget is used up: publish to the companion topic, 'dlq'. *)
SendToDlq(g) ==
    /\ phase[g] = "failed"
    /\ Exhausted(g)
    /\ PublishToDlq(g)
    /\ phase' = [phase EXCEPT ![g] = "done"]
    /\ UNCHANGED <<position, committed, faults, historyVars>>

(***************************************************************************)
(* The publish of scheduleRetry or sendToDlq rejects, and with it execute: *)
(* nothing catches the error in the handler.  A send whose acknowledgement *)
(* is lost rejects although the broker has the record.                     *)
(***************************************************************************)
PublishRejects(g) ==
    /\ phase[g] = "failed"
    /\ faults < MaxFaults
    /\ \/ UNCHANGED <<log, dlq>>
       \/ ~Exhausted(g) /\ Republish(g)
       \/ Exhausted(g) /\ PublishToDlq(g)
    /\ phase' = [phase EXCEPT ![g] = "escaped"]
    /\ faults' = faults + 1
    /\ UNCHANGED <<position, committed, historyVars>>

(* The member resolves the offset of the record it is done with. *)
Resolve(g) ==
    /\ phase[g] = "done"
    /\ position' = [position EXCEPT ![g] = @ + 1]
    /\ phase' = [phase EXCEPT ![g] = "idle"]
    /\ UNCHANGED <<brokerVars, faults, historyVars>>

(***************************************************************************)
(* An error that escaped the @EventPattern handler: the framework logs it  *)
(* and resolves the offset, or hands the record out again.                 *)
(***************************************************************************)
DropEscaped(g) ==
    /\ phase[g] = "escaped"
    /\ lost' = lost \cup {<<g, Current(g).event>>}
    /\ position' = [position EXCEPT ![g] = @ + 1]
    /\ phase' = [phase EXCEPT ![g] = "idle"]
    /\ UNCHANGED <<brokerVars, faults, handled, failed>>

RedeliverEscaped(g) ==
    /\ phase[g] = "escaped"
    /\ phase' = [phase EXCEPT ![g] = "idle"]
    /\ UNCHANGED <<brokerVars, position, faults, historyVars>>

\* Mutant: the record is committed when it is handed out, before its handler is through.
CommitOnReceipt(g) ==
    /\ phase[g] # "idle"
    /\ committed[g] <= position[g]
    /\ committed' = [committed EXCEPT ![g] = position[g] + 1]
    /\ UNCHANGED <<log, position, phase, dlq, faults, historyVars>>

(* run.autoCommit: kafkajs stores the resolved offset now and then. *)
AutoCommit(g) ==
    /\ committed[g] # position[g]
    /\ committed' = [committed EXCEPT ![g] = position[g]]
    /\ UNCHANGED <<log, position, phase, dlq, faults, historyVars>>

(* The member dies or leaves; its successor starts at the committed offset. *)
Crash(g) ==
    /\ phase[g] # "idle" \/ committed[g] # position[g]
    /\ faults < MaxFaults
    /\ faults' = faults + 1
    /\ position' = [position EXCEPT ![g] = committed[g]]
    /\ phase' = [phase EXCEPT ![g] = "idle"]
    /\ UNCHANGED <<brokerVars, historyVars>>

Publish(g) == ScheduleRetry(g) \/ SendToDlq(g) \/ PublishRejects(g)
RunHandler(g) == HandlerReturns(g) \/ HandlerThrows(g) \/ PrecheckThrows(g)
Rejected(g) == DropEscaped(g) \/ RedeliverEscaped(g)

Next ==
    \/ \E e \in Events : Produce(e)
    \/ \E g \in Groups :
          \/ Deliver(g)
          \/ RunHandler(g)
          \/ Publish(g)
          \/ Resolve(g)
          \/ Rejected(g)
          \/ AutoCommit(g)
          \/ Crash(g)

(***************************************************************************)
(* Every await of the executor ends (handlers and publishes are bounded by *)
(* client timeouts, the backoff by policy.maxDelayMs) and the client keeps *)
(* polling.  New events, autoCommit and crashes are not assumed.           *)
(***************************************************************************)
Fairness ==
    \A g \in Groups :
        /\ WF_vars(Deliver(g))
        /\ WF_vars(RunHandler(g))
        /\ WF_vars(Publish(g))
        /\ WF_vars(Resolve(g))
        /\ WF_vars(Rejected(g))

Spec == Init /\ [][Next]_vars
FairSpec == Spec /\ Fairness

------------------------------------------------------------------------------

(* Type invariant; no group resolves past the end, and a busy member has a record. *)
TypeOK ==
    /\ log \in Seq(Record)
    /\ position \in [Groups -> Nat]
    /\ committed \in [Groups -> Nat]
    /\ phase \in [Groups -> Phases]
    /\ dlq \subseteq [group : Groups, event : Events, attempt : Nat]
    /\ faults \in 0..MaxFaults
    /\ handled \subseteq Groups \X Events
    /\ failed \subseteq Groups \X Events \X Nat
    /\ lost \subseteq Groups \X Events
    /\ \A g \in Groups : committed[g] <= position[g] /\ position[g] <= Len(log)
    /\ \A g \in Groups : phase[g] # "idle" => position[g] < Len(log)

(* Group g is through with e: handled, dead-lettered, or dropped by an escaped error. *)
DeadLettered(g, e) == \E d \in dlq : d.group = g /\ d.event = e
Settled(g, e) == <<g, e>> \in handled \/ DeadLettered(g, e) \/ <<g, e>> \in lost

(* A record of e waits for group g after offset n. *)
Ahead(e, n) == \E k \in (n + 1)..Len(log) : log[k].event = e

(***************************************************************************)
(* Whatever a group has to handle and has moved past was handled, dead-    *)
(* lettered or dropped by an error that escaped execute, or a copy of it   *)
(* still lies ahead in the topic: no order of failures, republishes,       *)
(* commits and crashes makes an event vanish any other way.  About the     *)
(* order publish-then-commit in execute.                                   *)
(***************************************************************************)
NothingVanishes ==
    \A g \in Groups : \A e \in Interest[g] :
        Published(e) => Settled(g, e) \/ Ahead(e, position[g])

(***************************************************************************)
(* A dead letter of a group means that this group's own handler failed the *)
(* event at every attempt of the budget, first delivery included.          *)
(***************************************************************************)
DeadLetterMeansExhausted ==
    \A d \in dlq : \A c \in 0..(MaxAttempts - 1) : <<d.group, d.event, c>> \in failed

(***************************************************************************)
(* The strengthenings that make the two invariants inductive: a member     *)
(* says "done" only once its record is settled or republished behind it,   *)
(* and every count a header or a failing handler shows was failed before.  *)
(***************************************************************************)
DoneIsSettled ==
    \A g \in Groups :
        phase[g] = "done" /\ Current(g).event \in Interest[g] =>
            \/ Settled(g, Current(g).event)
            \/ Ahead(Current(g).event, position[g] + 1)

VanishInv == NothingVanishes /\ DoneIsSettled

RetryTrail ==
    \A k \in 1..Len(log) : \A c \in 0..(log[k].retryCount - 1) :
        \E g \in Groups : log[k].event \in Fallible[g] /\ <<g, log[k].event, c>> \in failed

FailedAttempt ==
    \A g \in Groups :
        phase[g] = "failed" =>
            /\ Current(g).event \in Fallible[g]
            /\ <<g, Current(g).event, Current(g).retryCount>> \in failed

ExhaustedInv == RetryTrail /\ FailedAttempt /\ DeadLetterMeansExhausted

(***************************************************************************)
(* The storm a retry policy can cause is bounded, however the crashes and  *)
(* the failures fall.  Without faults an event has one record per attempt  *)
(* of the budget.  A crash makes the group replay its uncommitted records, *)
(* each of which may fail and be republished again, so that after f faults *)
(* there are up to Pascal[f][c] ("c + f choose f") records with header     *)
(* count c, which add up to the bound.  MaxAttempts = 0 leaves the first   *)
(* delivery.  About the header the executor counts from: it is the only    *)
(* state a retry keeps.                                                    *)
(***************************************************************************)
Attempts == IF MaxAttempts = 0 THEN 1 ELSE MaxAttempts
Copies(e) == Cardinality({k \in 1..Len(log) : log[k].event = e})
RetriesAreBounded == \A e \in Events : Copies(e) <= Pascal[faults + 1][Attempts - 1]

(***************************************************************************)
(* Its strengthening, per header count.  The copies at count c + 1 were    *)
(* each republished from one at count c that the group was through with    *)
(* then; a fault lets it have ReplaysOf(c) of them once more.              *)
(***************************************************************************)
CopiesAt(e, c) == {k \in 1..Len(log) : log[k].event = e /\ log[k].retryCount = c}
Waiting(g, e, c) ==
    {k \in CopiesAt(e, c) : k > position[g] /\ ~(k = position[g] + 1 /\ phase[g] = "done")}
ReplaysOf(c) == IF faults = 0 THEN 0 ELSE Pascal[faults - 1][c + 1]

CountsWithinBudget == \A k \in 1..Len(log) : log[k].retryCount < Attempts
ProducedOnce == \A e \in Events : Cardinality(CopiesAt(e, 0)) <= 1
CopiesBounded ==
    \A e \in Events : \A c \in 0..Attempts :
        Cardinality(CopiesAt(e, c)) <= Pascal[faults][c]
RetriedFromWaiting ==
    \A g \in Groups : \A e \in Fallible[g] : \A c \in 0..(Attempts - 1) :
        Cardinality(CopiesAt(e, c + 1)) + Cardinality(Waiting(g, e, c))
            <= Cardinality(CopiesAt(e, c)) + ReplaysOf(c)

StormInv == CountsWithinBudget /\ ProducedOnce /\ CopiesBounded /\ RetriedFromWaiting

(***************************************************************************)
(* The executor, its retries, dead letters and crashes included, is an     *)
(* implementation of AtLeastOnce: whatever step it takes, a pair leaves    *)
(* "ahead" only when it is settled, nothing is settled that does not lie   *)
(* ahead, and a crash brings back only what was settled.                   *)
(***************************************************************************)
Owed == {p \in Groups \X Events : p[2] \in Interest[p[1]]}
AheadPairs == {p \in Owed : Ahead(p[2], position[p[1]])}
SettledPairs == {p \in Owed : Settled(p[1], p[2])}

Delivery == INSTANCE AtLeastOnce WITH
    Consumers <- Groups, Messages <- Events, Wanted <- Interest,
    ahead <- AheadPairs, settled <- SettledPairs

ImplementsAtLeastOnce == Delivery!Spec

(***************************************************************************)
(* Retrying comes to an end: every group catches up with the topic for     *)
(* good.  By NothingVanishes every published event is settled then.        *)
(***************************************************************************)
EventuallyDrained ==
    <>[](\A g \in Groups : position[g] = Len(log))
==============================================================================
