---------------------------- MODULE ConsumerGroup ----------------------------
(***************************************************************************)
(* A topic, its partitions and the replicas of a service that share a      *)
(* consumer group: what kafka-init and kafka-set-topic-partitions.sh do to *)
(* the topic, which partition a record's key gives it, how the coordinator *)
(* deals partitions out, where a new owner starts reading, and how long a  *)
(* handler may keep a replica from heartbeating.  The other modules look   *)
(* at one partition and take its delivery for granted; this one is about   *)
(* the conditions under which they may.                                    *)
(*                                                                         *)
(* The broker and kafkajs are not in the repository; they are modelled     *)
(* from the options kafka-config.ts and consumer-config.ts give them.      *)
(***************************************************************************)
EXTENDS RetryConfig, FiniteSets, Sequences

CONSTANTS Members,          (* the replicas of the service                         *)
          GroupEnv,         (* GroupEnv[m]: the variables m's groupId comes from   *)
          Orders, Hash,     (* order ids, and the partitioner's hash of each       *)
          Environments,     (* the environments a deployment may have              *)
          TargetPartitions, (* KAFKA_TOPIC_PARTITIONS                              *)
          MaxRecords,       (* bound on the records producers publish              *)
          MaxThrows,        (* bound on the handler runs that throw                *)
          MaxFaults,        (* bound on the replicas that die                      *)
          NoOne

ASSUME GroupAssumption ==
    /\ Hash \in [Orders -> Nat]
    /\ TargetPartitions \in Nat \ {0}
    /\ MaxRecords \in Nat /\ MaxThrows \in Nat /\ MaxFaults \in Nat
    /\ NoOne \notin Members

Partitions == 1..TargetPartitions
OrderServiceProducer == "order-service"
Producers == Members \cup {OrderServiceProducer}
Offsets == 1..(MaxRecords + MaxThrows)

\* Mutant: the suffix is appended to an explicit group id as well.
SuffixAlways(env) ==
    IF env.explicit \in {"unset", "blank"}
    THEN <<"eventflow.payment-service", env.suffix>>
    ELSE <<env.explicit, env.suffix>>

(* An explicit group id wins over the default with a suffix. *)
ResolveConsumerGroup(env) ==
    IF env.explicit \in {"unset", "blank"}
    THEN <<"eventflow.payment-service", IF env.suffix = "unset" THEN "blank" ELSE env.suffix>>
    ELSE <<env.explicit>>

GroupOf(m) == ResolveConsumerGroup(GroupEnv[m])
Groups == {GroupOf(m) : m \in Members}
MembersOf(g) == {m \in Members : GroupOf(m) = g}

VARIABLES
    env,        (* the environment all replicas were started with              *)
    partitions, (* how many partitions the topic has; 0 while it does not exist *)
    known,      (* known[pr]: the count in pr's cached metadata; 0 if none      *)
    log,        (* log[p]: the records [order, retryCount] of partition p      *)
    member,     (* member[m]: "new", "in" the group, "expelled" or "out"       *)
    rebalance,  (* the groups whose members changed since partitions were dealt *)
    owner,      (* owner[g][p]: the replica partition p is assigned to         *)
    position,   (* position[g][p]: the last offset its owner is through with   *)
    resolved,   (* pairs <<g, p>>: the owner has resolved an offset            *)
    committed,  (* committed[g][p]: the offset stored, or NoOffset             *)
    phase,      (* phase[m]: where replica m is with the record in hand        *)
    holding,    (* holding[m]: its partition and offset                        *)
    silent,     (* silent[m]: ms of configured waits since m's last heartbeat  *)
    throws, faults

(* History: triples <<g, p, k>>, a member of g was through with record k of p. *)
VARIABLE finished

topicVars == <<partitions, known, log>>
groupVars == <<member, rebalance, owner, position, resolved>>
handVars == <<phase, holding, silent>>
vars == <<env, topicVars, groupVars, committed, handVars, throws, faults, finished>>

NoOffset == -1
Nothing == [partition |-> 0, offset |-> 0]
Record == [order : Orders, retryCount : Nat]
Current(m) == log[holding[m].partition][holding[m].offset]

Policy == ResolveConsumerRetryPolicy(env)
NumberOr(raw, default) == IF raw.kind = "unset" THEN default ELSE raw.value
SessionTimeoutMs == NumberOr(env.sessionTimeoutMs, 30000)
HeartbeatIntervalMs == NumberOr(env.heartbeatIntervalMs, 3000)

(* The simulated gateway answers at once, or sleeps in its "timeout" scenario. *)
GatewayDelays == {0, NumberOr(env.paymentTimeoutDelayMs, 3000)}

(* A publish waits between the transport retries of the producer's policy. *)
SendDelays == PublishDelays(ResolveProducerRetryPolicy(env))

(* processPayment publishes payment.requested, asks the gateway and publishes the verdict. *)
HandlerWaits == {p + d + q : p, q \in SendDelays, d \in GatewayDelays}

------------------------------------------------------------------------------

Init ==
    /\ env \in Environments
    /\ partitions = 0
    /\ known = [pr \in Producers |-> 0]
    /\ log = [p \in Partitions |-> <<>>]
    /\ member = [m \in Members |-> "new"]
    /\ rebalance = {}
    /\ owner = [g \in Groups |-> [p \in Partitions |-> NoOne]]
    /\ position = [g \in Groups |-> [p \in Partitions |-> 0]]
    /\ resolved = {}
    /\ committed = [g \in Groups |-> [p \in Partitions |-> NoOffset]]
    /\ phase = [m \in Members |-> "idle"]
    /\ holding = [m \in Members |-> Nothing]
    /\ silent = [m \in Members |-> 0]
    /\ throws = 0
    /\ faults = 0
    /\ finished = {}

------------------------------------------------------------------------------
(* The topic: provisioning and producers. *)

(* create-topics.sh: create if it does not exist, then alter to the target count. *)
KafkaInit ==
    /\ partitions < TargetPartitions
    /\ partitions' = TargetPartitions
    /\ UNCHANGED <<env, known, log, groupVars, committed, handVars, throws, faults, finished>>

(* kafka-set-topic-partitions.sh: alter a topic that exists. *)
SetTopicPartitions ==
    /\ partitions \in 1..(TargetPartitions - 1)
    /\ partitions' = TargetPartitions
    /\ UNCHANGED <<env, known, log, groupVars, committed, handVars, throws, faults, finished>>

(* allowAutoTopicCreation: whoever asks for a topic that does not exist creates it. *)
Created == IF partitions = 0 THEN 1 ELSE partitions

(* A client refreshes its metadata now and then. *)
RefreshMetadata(pr) ==
    /\ known[pr] \notin {0, partitions}
    /\ known' = [known EXCEPT ![pr] = partitions]
    /\ UNCHANGED <<env, partitions, log, groupVars, committed, handVars, throws, faults, finished>>

(***************************************************************************)
(* The record's key is its orderId (resolvePartitionKey) and its partition *)
(* the hash of the key modulo the count the producer believes in.          *)
(***************************************************************************)
PartitionFor(order, count) == (Hash[order] % count) + 1

Send(pr, record) ==
    LET count == IF known[pr] = 0 THEN Created ELSE known[pr]
    IN  /\ log' = [log EXCEPT ![PartitionFor(record.order, count)] = Append(@, record)]
        /\ known' = [known EXCEPT ![pr] = count]
        /\ partitions' = Created

FirstCopies == {r \in Partitions \X Offsets :
                  r[2] <= Len(log[r[1]]) /\ log[r[1]][r[2]].retryCount = 0}

PublishOrder(o) ==
    /\ Cardinality(FirstCopies) < MaxRecords
    /\ Send(OrderServiceProducer, [order |-> o, retryCount |-> 0])
    /\ UNCHANGED <<env, groupVars, committed, handVars, throws, faults, finished>>

------------------------------------------------------------------------------
(* The group. *)

(* A replica starts, creating the topic if need be, and asks to join its group. *)
Start(m) ==
    /\ member[m] = "new"
    /\ partitions' = Created
    /\ member' = [member EXCEPT ![m] = "in"]
    /\ rebalance' = rebalance \cup {GroupOf(m)}
    /\ UNCHANGED <<env, known, log, owner, position, resolved, committed, handVars, throws, faults, finished>>

(* Somebody starts a replica that died. *)
Restart(m) ==
    /\ member[m] = "out"
    /\ member' = [member EXCEPT ![m] = "in"]
    /\ rebalance' = rebalance \cup {GroupOf(m)}
    /\ UNCHANGED <<env, topicVars, owner, position, resolved, committed, handVars, throws, faults, finished>>

Joined(g) == {m \in MembersOf(g) : member[m] = "in"}
Share(a, m) == Cardinality({p \in DOMAIN a : a[p] = m})
Balanced(a, members) == \A m, n \in members : Share(a, m) <= Share(a, n) + 1

\* Mutant: a new owner reads from the end of the partition, whatever was committed.
StartAtEnd(g, p) == Len(log[p])

(* subscribe.fromBeginning decides where a partition without an offset starts. *)
StartingOffset(g, p) ==
    IF committed[g][p] # NoOffset THEN committed[g][p]
    ELSE IF env.fromBeginning THEN 0 ELSE Len(log[p])

\* Mutant: nobody notices that the topic has new partitions.
OnlyMembersCount(g) == g \in rebalance

NeedsRebalance(g) == g \in rebalance \/ \E p \in 1..partitions : owner[g][p] = NoOne

(***************************************************************************)
(* The coordinator deals the partitions out again once every member that   *)
(* is still in the group has come back from its handler: after a member    *)
(* joined, left or was expelled, or when the topic has new partitions.     *)
(***************************************************************************)
Rebalance(g) ==
    /\ Joined(g) # {}
    /\ \A m \in Joined(g) : phase[m] = "idle"
    /\ NeedsRebalance(g)
    /\ \E a \in [1..partitions -> Joined(g)] :
          /\ Balanced(a, Joined(g))
          /\ owner' = [owner EXCEPT ![g] = [p \in Partitions |-> IF p \in DOMAIN a THEN a[p] ELSE NoOne]]
    /\ position' = [position EXCEPT ![g] =
                      [p \in Partitions |-> IF p <= partitions THEN StartingOffset(g, p) ELSE 0]]
    /\ rebalance' = rebalance \ {g}
    /\ resolved' = resolved \ ({g} \X Partitions)
    /\ UNCHANGED <<env, topicVars, member, committed, handVars, throws, faults, finished>>

(* run.autoCommit stores an offset only once its owner has resolved one. *)
AutoCommit(g, p) ==
    /\ <<g, p>> \in resolved
    /\ committed[g][p] # position[g][p]
    /\ committed' = [committed EXCEPT ![g][p] = position[g][p]]
    /\ UNCHANGED <<env, topicVars, groupVars, handVars, throws, faults, finished>>

Disown(m) == owner' = [owner EXCEPT ![GroupOf(m)] =
                         [p \in Partitions |-> IF @[p] = m THEN NoOne ELSE @[p]]]

(* The coordinator has not heard of m for a session timeout; m's handler runs on. *)
Expel(m) ==
    /\ member[m] = "in"
    /\ silent[m] >= SessionTimeoutMs
    /\ member' = [member EXCEPT ![m] = "expelled"]
    /\ Disown(m)
    /\ rebalance' = rebalance \cup {GroupOf(m)}
    /\ UNCHANGED <<env, topicVars, position, resolved, committed, handVars, throws, faults, finished>>

(* A replica dies with what it has in hand and in memory. *)
Crash(m) ==
    /\ member[m] \in {"in", "expelled"}
    /\ faults < MaxFaults
    /\ faults' = faults + 1
    /\ member' = [member EXCEPT ![m] = "out"]
    /\ Disown(m)
    /\ rebalance' = rebalance \cup {GroupOf(m)}
    /\ phase' = [phase EXCEPT ![m] = "idle"]
    /\ holding' = [holding EXCEPT ![m] = Nothing]
    /\ silent' = [silent EXCEPT ![m] = 0]
    /\ known' = [known EXCEPT ![m] = 0]
    /\ UNCHANGED <<env, partitions, log, position, resolved, committed, throws, finished>>

------------------------------------------------------------------------------
(* A replica at work: one record at a time, no heartbeat until it is done. *)

Wait(m, ms) == silent' = [silent EXCEPT ![m] = @ + ms]

(* The owner's next record; the last heartbeat was just now, or the next one is due. *)
Take(m, p) ==
    LET g == GroupOf(m)
    IN  /\ member[m] = "in" /\ phase[m] = "idle"
        /\ owner[g][p] = m
        /\ position[g][p] < Len(log[p])
        /\ holding' = [holding EXCEPT ![m] = [partition |-> p, offset |-> position[g][p] + 1]]
        /\ phase' = [phase EXCEPT ![m] = "handling"]
        /\ \E ms \in {0, HeartbeatIntervalMs} : silent' = [silent EXCEPT ![m] = ms]
        /\ UNCHANGED <<env, topicVars, groupVars, committed, throws, faults, finished>>

HandlerReturns(m) ==
    /\ phase[m] = "handling"
    /\ \E h \in HandlerWaits : Wait(m, h)
    /\ phase' = [phase EXCEPT ![m] = "done"]
    /\ UNCHANGED <<env, topicVars, groupVars, committed, holding, throws, faults, finished>>

NextAttempt(m) == Current(m).retryCount + 1

(* The failure uses up the budget: the dead letter is published without a backoff. *)
HandlerThrowsLast(m) ==
    /\ phase[m] = "handling"
    /\ throws < MaxThrows
    /\ GoesToDlq(NextAttempt(m), Policy.maxAttempts)
    /\ throws' = throws + 1
    /\ \E h \in HandlerWaits, r \in SendDelays : Wait(m, h + r)
    /\ phase' = [phase EXCEPT ![m] = "done"]
    /\ UNCHANGED <<env, topicVars, groupVars, committed, holding, faults, finished>>

\* Mutant: the wait is that of the attempt after the next.
BackoffOneAhead(m) == CalculateBackoffMs(NextAttempt(m) + 1, Policy)

Backoff(m) == CalculateBackoffMs(NextAttempt(m), Policy)

(* Another attempt: the executor sleeps, in the handler, before it republishes. *)
HandlerThrows(m) ==
    /\ phase[m] = "handling"
    /\ throws < MaxThrows
    /\ ~GoesToDlq(NextAttempt(m), Policy.maxAttempts)
    /\ throws' = throws + 1
    /\ \E h \in HandlerWaits : Wait(m, h + Backoff(m))
    /\ phase' = [phase EXCEPT ![m] = "sleeping"]
    /\ UNCHANGED <<env, topicVars, groupVars, committed, holding, faults, finished>>

Republish(m) ==
    /\ phase[m] = "sleeping"
    /\ Send(m, [order |-> Current(m).order, retryCount |-> NextAttempt(m)])
    /\ \E r \in SendDelays : Wait(m, r)
    /\ phase' = [phase EXCEPT ![m] = "done"]
    /\ UNCHANGED <<env, groupVars, committed, holding, throws, faults, finished>>

\* Mutant: the interval since the last heartbeat goes on.
HeartbeatForgotten(m) == UNCHANGED silent

(* kafkajs heartbeats after a record only if the heartbeat interval has elapsed. *)
Heartbeat(m) ==
    silent' = [silent EXCEPT ![m] = IF @ >= HeartbeatIntervalMs THEN 0 ELSE @]

(***************************************************************************)
(* The member resolves the record and heartbeats.  One that was expelled   *)
(* learns so now: it resolves nothing and joins the group again.           *)
(***************************************************************************)
Finish(m) ==
    LET g == GroupOf(m)  p == holding[m].partition  k == holding[m].offset
    IN  /\ phase[m] = "done"
        /\ IF member[m] = "in"
           THEN /\ position' = [position EXCEPT ![g][p] = k]
                /\ resolved' = resolved \cup {<<g, p>>}
                /\ UNCHANGED <<member, rebalance>>
           ELSE /\ member' = [member EXCEPT ![m] = "in"]
                /\ rebalance' = rebalance \cup {g}
                /\ UNCHANGED <<position, resolved>>
        /\ phase' = [phase EXCEPT ![m] = "idle"]
        /\ holding' = [holding EXCEPT ![m] = Nothing]
        /\ Heartbeat(m)
        /\ finished' = finished \cup {<<g, p, k>>}
        /\ UNCHANGED <<env, topicVars, owner, committed, throws, faults>>

Work(m) ==
    \/ \E p \in Partitions : Take(m, p)
    \/ HandlerReturns(m) \/ HandlerThrowsLast(m) \/ HandlerThrows(m)
    \/ Republish(m)
    \/ Finish(m)

Next ==
    \/ KafkaInit
    \/ SetTopicPartitions
    \/ \E pr \in Producers : RefreshMetadata(pr)
    \/ \E o \in Orders : PublishOrder(o)
    \/ \E m \in Members : Start(m) \/ Restart(m) \/ Expel(m) \/ Crash(m) \/ Work(m)
    \/ \E g \in Groups : Rebalance(g) \/ \E p \in Partitions : AutoCommit(g, p)

(***************************************************************************)
(* Replicas are started once (compose has no restart policy), every await  *)
(* of a handler ends, and the coordinator completes a rebalance that can   *)
(* be.  Producers, provisioning, autoCommit, restarts are not assumed.     *)
(***************************************************************************)
Fairness ==
    /\ \A m \in Members : WF_vars(Start(m)) /\ WF_vars(Work(m))
    /\ \A g \in Groups : WF_vars(Rebalance(g))

Spec == Init /\ [][Next]_vars
FairSpec == Spec /\ Fairness

------------------------------------------------------------------------------

(* Type invariant; a busy replica has a record in hand, an expelled one is busy. *)
TypeOK ==
    /\ env \in Environments
    /\ partitions \in 0..TargetPartitions
    /\ known \in [Producers -> 0..TargetPartitions]
    /\ log \in [Partitions -> Seq(Record)]
    /\ member \in [Members -> {"new", "in", "expelled", "out"}]
    /\ rebalance \subseteq Groups
    /\ owner \in [Groups -> [Partitions -> Members \cup {NoOne}]]
    /\ position \in [Groups -> [Partitions -> Nat]]
    /\ resolved \subseteq Groups \X Partitions
    /\ committed \in [Groups -> [Partitions -> Nat \cup {NoOffset}]]
    /\ phase \in [Members -> {"idle", "handling", "sleeping", "done"}]
    /\ holding \in [Members -> [partition : 0..TargetPartitions, offset : Nat]]
    /\ silent \in [Members -> Nat]
    /\ throws \in 0..MaxThrows /\ faults \in 0..MaxFaults
    /\ finished \subseteq Groups \X Partitions \X Nat
    /\ \A m \in Members :
          phase[m] # "idle" =>
             /\ holding[m].partition \in Partitions
             /\ holding[m].offset \in 1..Len(log[holding[m].partition])
    /\ \A m \in Members : member[m] = "expelled" => phase[m] # "idle"

(***************************************************************************)
(* Whether a handler can outlive its session can be told from the settings *)
(* alone: no replica is expelled unless the waits of one record, one       *)
(* backoff of the announced schedule among them, reach the session timeout *)
(* after a heartbeat interval.  The waits are the transport retries of the *)
(* handler's publishes, the gateway's delay, the backoff, and the retries  *)
(* of the republish or of the dead letter; waits of different records      *)
(* never add up, nor do two backoffs.  The schedule that retry-policy.ts   *)
(* logs does not tell by itself: with one attempt it is empty, and the     *)
(* transport retries can still outlast the session.  What requests,        *)
(* connections and the database take is not a setting and not counted.     *)
(***************************************************************************)
SettingsTellExpulsion ==
    (\E m \in Members : member[m] = "expelled") =>
        LET schedule == GetRetryBackoffSchedule(Policy)
        IN  \E h \in HandlerWaits, w \in {0} \cup {schedule[a] : a \in DOMAIN schedule},
               r \in SendDelays :
              HeartbeatIntervalMs + h + w + r >= SessionTimeoutMs

(***************************************************************************)
(* Replicas never work on one order at the same time, unless the order's   *)
(* records are spread over partitions (the topic was altered under it), or *)
(* a replica was silent for a session timeout and lost its partition.      *)
(***************************************************************************)
InHand(m) == Current(m).order
HasRecordOf(p, o) == \E k \in 1..Len(log[p]) : log[p][k].order = o
SpreadOut(o) == \E p, q \in Partitions : p # q /\ HasRecordOf(p, o) /\ HasRecordOf(q, o)
Overstayed(m) == silent[m] >= SessionTimeoutMs

OneReplicaPerOrder ==
    \A m, n \in Members :
        m # n /\ phase[m] # "idle" /\ phase[n] # "idle" /\ InHand(m) = InHand(n) =>
            SpreadOut(InHand(m)) \/ Overstayed(m) \/ Overstayed(n)

(***************************************************************************)
(* A record is lost to a group when the group's position has passed it and *)
(* no member was ever through with it.  That happens only in partitions    *)
(* that have no committed offset, and never with KAFKA_FROM_BEGINNING.     *)
(***************************************************************************)
Lost(g) == {r \in {g} \X Partitions \X Offsets : r[3] <= position[g][r[2]]} \ finished

NoLossOnceCommitted ==
    [][\A g \in Groups : \A r \in Lost(g)' \ Lost(g) :
          ~env.fromBeginning /\ committed[g][r[2]] = NoOffset]_vars

(* At-least-once delivery, without the condition. *)
EveryRecordIsDelivered == \A g \in Groups : Lost(g) = {}

(***************************************************************************)
(* The group catches up, again and again: every record, in whichever       *)
(* partition it is and whenever that partition was added, is in the end    *)
(* finished or lost.  Partitions do not stay without a reader as long as   *)
(* one replica lives, and an expelled replica takes part again.            *)
(***************************************************************************)
Settled(g, p, k) == <<g, p, k>> \in finished \cup Lost(g)
CaughtUp(g) == \A p \in Partitions : \A k \in 1..Len(log[p]) : Settled(g, p, k)

EventuallyConsumed == \A g \in Groups : []<>CaughtUp(g)
==============================================================================
