------------------------- MODULE ConsumerGroupProofs -------------------------
(***************************************************************************)
(* Proofs about ConsumerGroup, for any number of replicas, groups, orders, *)
(* partitions and faults, and for every environment whose waits are        *)
(* natural numbers and whose heartbeat interval is shorter than a session. *)
(***************************************************************************)
EXTENDS ConsumerGroup, TLAPS

(* What the code takes for granted of the numbers in its environment. *)
WaitsAreNatural ==
    \A e \in Environments :
        /\ NumberOr(e.sessionTimeoutMs, 30000) \in Nat
        /\ NumberOr(e.heartbeatIntervalMs, 3000) \in Nat
        /\ NumberOr(e.heartbeatIntervalMs, 3000) < NumberOr(e.sessionTimeoutMs, 30000)
        /\ NumberOr(e.paymentTimeoutDelayMs, 3000) \in Nat
        /\ PublishDelays(ResolveProducerRetryPolicy(e)) \subseteq Nat
        /\ \A attempt \in Nat : CalculateBackoffMs(attempt, ResolveConsumerRetryPolicy(e)) \in Nat

(* The parts of TypeOK: the topic, ... *)
TopicOK ==
    /\ env \in Environments
    /\ partitions \in 0..TargetPartitions
    /\ known \in [Producers -> 0..TargetPartitions]
    /\ log \in [Partitions -> Seq(Record)]

(* ... the coordinator's view of the groups, ... *)
MembersOK ==
    /\ member \in [Members -> {"new", "in", "expelled", "out"}]
    /\ rebalance \subseteq Groups
    /\ owner \in [Groups -> [Partitions -> Members \cup {NoOne}]]
    /\ position \in [Groups -> [Partitions -> Nat]]
    /\ resolved \subseteq Groups \X Partitions
    /\ committed \in [Groups -> [Partitions -> Nat \cup {NoOffset}]]

(* ... and the replicas at work. *)
HandsOK ==
    /\ phase \in [Members -> {"idle", "handling", "sleeping", "done"}]
    /\ holding \in [Members -> [partition : 0..TargetPartitions, offset : Nat]]
    /\ silent \in [Members -> Nat]
    /\ throws \in 0..MaxThrows /\ faults \in 0..MaxFaults
    /\ finished \subseteq Groups \X Partitions \X Nat
    /\ \A m \in Members :
          phase[m] # "idle" =>
             /\ holding[m].partition \in Partitions
             /\ holding[m].offset \in 1..Len(log[holding[m].partition])

(***************************************************************************)
(* A replica's session: silent for at most a heartbeat interval before its *)
(* handler waits, expelled only after a session timeout of silence, and,   *)
(* while it is in the group and busy, the owner of its record's partition  *)
(* at that very offset.                                                    *)
(***************************************************************************)
Session(m) ==
    /\ phase[m] \in {"idle", "handling"} => silent[m] <= HeartbeatIntervalMs
    /\ member[m] = "expelled" => Overstayed(m)
    /\ member[m] \in {"new", "out"} => phase[m] = "idle"
    /\ member[m] = "in" /\ phase[m] # "idle" =>
          /\ owner[GroupOf(m)][holding[m].partition] = m
          /\ holding[m].offset = position[GroupOf(m)][holding[m].partition] + 1

(* A partition's offsets: committed behind the position, and nothing before it exists. *)
OffsetsKept(g, p) ==
    /\ committed[g][p] # NoOffset => committed[g][p] <= position[g][p]
    /\ p > partitions =>
          committed[g][p] = NoOffset /\ owner[g][p] = NoOne /\ <<g, p>> \notin resolved

GroupInv ==
    /\ TopicOK /\ MembersOK /\ HandsOK
    /\ \A m \in Members : Session(m)
    /\ \A g \in Groups : \A p \in Partitions : OffsetsKept(g, p)

------------------------------------------------------------------------------

(* Replicas have a group. *)
LEMMA GroupOfType == \A m \in Members : GroupOf(m) \in Groups
BY DEF Groups

(* The waits of the environment in force. *)
LEMMA WaitTypes ==
    ASSUME WaitsAreNatural, TopicOK
    PROVE  /\ SessionTimeoutMs \in Nat /\ HeartbeatIntervalMs \in Nat
           /\ HeartbeatIntervalMs < SessionTimeoutMs
           /\ SendDelays \subseteq Nat /\ HandlerWaits \subseteq Nat
           /\ \A attempt \in Nat : CalculateBackoffMs(attempt, Policy) \in Nat
<1>1. env \in Environments
  BY DEF TopicOK
<1>2. /\ SessionTimeoutMs \in Nat /\ HeartbeatIntervalMs \in Nat
      /\ HeartbeatIntervalMs < SessionTimeoutMs
  BY <1>1 DEF WaitsAreNatural, SessionTimeoutMs, HeartbeatIntervalMs
<1>3. SendDelays \subseteq Nat /\ HandlerWaits \subseteq Nat
  <2>1. GatewayDelays \subseteq Nat
    BY <1>1 DEF WaitsAreNatural, GatewayDelays
  <2>2. SendDelays \subseteq Nat
    BY <1>1 DEF WaitsAreNatural, SendDelays
  <2>3. \A p, q \in SendDelays, d \in GatewayDelays : p + d + q \in Nat
    BY <2>1, <2>2
  <2> QED
    BY <2>2, <2>3 DEF HandlerWaits
<1>4. \A attempt \in Nat : CalculateBackoffMs(attempt, Policy) \in Nat
  <2>1. ASSUME NEW attempt \in Nat
        PROVE  CalculateBackoffMs(attempt, ResolveConsumerRetryPolicy(env)) \in Nat
    BY <1>1, <2>1 DEF WaitsAreNatural
  <2> QED
    BY <2>1 DEF Policy
<1> QED
  BY <1>2, <1>3, <1>4

(* The environment is read at start-up and stays. *)
LEMMA EnvStays ==
    ASSUME [Next]_vars
    PROVE  env' = env
<1>1. ASSUME NEW m \in Members, Start(m) \/ Restart(m) \/ Expel(m) \/ Crash(m) PROVE env' = env
  BY <1>1 DEF Start, Restart, Expel, Crash
<1>2. ASSUME NEW m \in Members, Work(m) PROVE env' = env
  BY <1>2, Zenon DEF Work, Take, HandlerReturns, HandlerThrowsLast, HandlerThrows, Republish, Finish
<1>3. ASSUME NEW g \in Groups, NEW p \in Partitions, Rebalance(g) \/ AutoCommit(g, p) PROVE env' = env
  BY <1>3 DEF Rebalance, AutoCommit
<1>4. ASSUME NEW g \in Groups, Rebalance(g) PROVE env' = env
  BY <1>4 DEF Rebalance
<1>5. KafkaInit \/ SetTopicPartitions => env' = env
  BY DEF KafkaInit, SetTopicPartitions
<1>6. (\E pr \in Producers : RefreshMetadata(pr)) \/ (\E o \in Orders : PublishOrder(o)) => env' = env
  BY DEF RefreshMetadata, PublishOrder
<1>7. UNCHANGED vars => env' = env
  BY DEF vars
<1> QED
  BY <1>1, <1>2, <1>3, <1>4, <1>5, <1>6, <1>7 DEF Next

(* The topic after a step: never fewer partitions, never fewer records. *)
TopicGrows ==
    /\ TopicOK'
    /\ partitions <= partitions'
    /\ \A p \in Partitions : /\ Len(log[p]) \in Nat /\ Len(log[p]) <= Len(log'[p])
                             /\ \A k \in 1..Len(log[p]) : log'[p][k] = log[p][k]

(* A topic that is left alone has grown as well. *)
LEMMA TopicLeftAlone ==
    ASSUME TopicOK, env' = env, UNCHANGED <<partitions, log>>,
           known' \in [Producers -> 0..TargetPartitions]
    PROVE  TopicGrows
BY DEF TopicOK, TopicGrows

(* Altering or creating the topic. *)
LEMMA TopicAltered ==
    ASSUME TopicOK, env' = env, UNCHANGED <<known, log>>,
           partitions' \in {Created, TargetPartitions}
    PROVE  TopicGrows
<1>1. TargetPartitions \in Nat \ {0} /\ partitions \in 0..TargetPartitions
  BY GroupAssumption DEF TopicOK
<1> QED
  BY <1>1 DEF TopicOK, TopicGrows, Created

(* A hash modulo a count is a partition of that count. *)
LEMMA PartitionInRange ==
    ASSUME NEW o \in Orders, NEW count \in 1..TargetPartitions
    PROVE  PartitionFor(o, count) \in Partitions
<1>1. Hash[o] \in Nat /\ TargetPartitions \in Nat
  BY GroupAssumption
<1> QED
  BY <1>1 DEF PartitionFor, Partitions

(* A send appends a record somewhere, creating the topic if need be. *)
LEMMA SendGrows ==
    ASSUME TopicOK, env' = env, NEW pr \in Producers, NEW r \in Record, Send(pr, r)
    PROVE  TopicGrows
<1>1. TargetPartitions \in Nat \ {0} /\ partitions \in 0..TargetPartitions
      /\ known[pr] \in 0..TargetPartitions
  BY GroupAssumption DEF TopicOK
<1>2. Created \in 1..TargetPartitions /\ partitions <= Created
  BY <1>1 DEF Created
<1> DEFINE count == IF known[pr] = 0 THEN Created ELSE known[pr]
<1>3. /\ log' = [log EXCEPT ![PartitionFor(r.order, count)] = Append(@, r)]
      /\ known' = [known EXCEPT ![pr] = count]
      /\ partitions' = Created
      /\ count \in 1..TargetPartitions
  BY <1>1, <1>2 DEF Send
<1> HIDE DEF count
<1>4. PICK p \in Partitions : p = PartitionFor(r.order, count)
  BY <1>3, PartitionInRange DEF Record
<1>5. log' = [log EXCEPT ![p] = Append(@, r)]
  BY <1>3, <1>4
<1>6. \A q \in Partitions : log[q] \in Seq(Record) /\ Len(log[q]) \in Nat
  BY DEF TopicOK
<1>7. /\ Append(log[p], r) \in Seq(Record)
      /\ Len(Append(log[p], r)) = Len(log[p]) + 1
      /\ \A k \in 1..Len(log[p]) : Append(log[p], r)[k] = log[p][k]
  BY <1>6
<1>8. \A q \in Partitions : log'[q] = IF q = p THEN Append(log[p], r) ELSE log[q]
  BY <1>5 DEF TopicOK
<1>9. log' \in [Partitions -> Seq(Record)]
  BY <1>5, <1>7 DEF TopicOK
<1>10. known' \in [Producers -> 0..TargetPartitions]
  BY <1>1, <1>3 DEF TopicOK
<1>11. TopicOK'
  BY <1>1, <1>2, <1>3, <1>9, <1>10 DEF TopicOK
<1> QED
  BY <1>1, <1>2, <1>3, <1>6, <1>7, <1>8, <1>11 DEF TopicGrows

------------------------------------------------------------------------------

(* What a step leaves alone in a replica's session. *)
LEMMA SessionFrame ==
    ASSUME NEW m \in Members, Session(m), env' = env,
           member'[m] = member[m], phase'[m] = phase[m], silent'[m] = silent[m],
           holding'[m] = holding[m],
           member[m] = "in" /\ phase[m] # "idle" =>
              /\ owner'[GroupOf(m)][holding[m].partition] = owner[GroupOf(m)][holding[m].partition]
              /\ position'[GroupOf(m)][holding[m].partition] = position[GroupOf(m)][holding[m].partition]
    PROVE  Session(m)'
BY DEF Session, Overstayed, SessionTimeoutMs, HeartbeatIntervalMs

(* A step of producers and provisioning concerns nobody in the groups. *)
LEMMA OnlyTheTopic ==
    ASSUME GroupInv, env' = env, TopicGrows,
           UNCHANGED <<groupVars, committed, handVars, throws, faults, finished>>
    PROVE  GroupInv'
<1> USE DEF groupVars, handVars
<1>1. MembersOK'
  BY DEF GroupInv, MembersOK
<1>2. HandsOK'
  <2>1. \A m \in Members : phase[m] # "idle" =>
           /\ holding[m].partition \in Partitions
           /\ holding[m].offset \in 1..Len(log'[holding[m].partition])
    BY DEF GroupInv, HandsOK, TopicGrows, TopicOK
  <2> QED
    BY <2>1 DEF GroupInv, HandsOK
<1>3. ASSUME NEW m \in Members PROVE Session(m)'
  BY SessionFrame DEF GroupInv
<1>4. ASSUME NEW g \in Groups, NEW p \in Partitions PROVE OffsetsKept(g, p)'
  <2>1. OffsetsKept(g, p) /\ partitions \in Nat /\ partitions' \in Nat /\ partitions <= partitions' /\ p \in Nat
    BY GroupAssumption DEF GroupInv, TopicGrows, TopicOK, Partitions
  <2> QED
    BY <2>1 DEF OffsetsKept
<1> QED
  BY <1>1, <1>2, <1>3, <1>4 DEF GroupInv, TopicGrows
(* Offsets nobody touches are kept while the topic grows. *)
LEMMA OffsetsFrame ==
    ASSUME GroupInv, TopicGrows, UNCHANGED <<owner, position, resolved, committed>>,
           NEW g \in Groups, NEW p \in Partitions
    PROVE  OffsetsKept(g, p)'
<1>1. OffsetsKept(g, p) /\ partitions \in Nat /\ partitions' \in Nat /\ partitions <= partitions' /\ p \in Nat
  BY GroupAssumption DEF GroupInv, TopicGrows, TopicOK, Partitions
<1> QED
  BY <1>1 DEF OffsetsKept

(* A step of one replica: what has to be said of it, when the others stay as they are. *)
OthersStay(m) ==
    \A n \in Members \ {m} :
        /\ member'[n] = member[n] /\ phase'[n] = phase[n]
        /\ silent'[n] = silent[n] /\ holding'[n] = holding[n]
        /\ member[n] = "in" /\ phase[n] # "idle" =>
              /\ owner'[GroupOf(n)][holding[n].partition] = owner[GroupOf(n)][holding[n].partition]
              /\ position'[GroupOf(n)][holding[n].partition] = position[GroupOf(n)][holding[n].partition]

(* The part of TypeOK a replica at work can disturb. *)
HandsTyped ==
    /\ phase' \in [Members -> {"idle", "handling", "sleeping", "done"}]
    /\ holding' \in [Members -> [partition : 0..TargetPartitions, offset : Nat]]
    /\ silent' \in [Members -> Nat]
    /\ throws' \in 0..MaxThrows /\ faults' \in 0..MaxFaults
    /\ finished' \subseteq Groups \X Partitions \X Nat

(* A replica that is not idle has a record of the topic in hand. *)
HoldsRecord(m) ==
    phase'[m] # "idle" =>
       /\ holding'[m].partition \in Partitions
       /\ holding'[m].offset \in 1..Len(log'[holding'[m].partition])

(* ... and then the invariant is kept. *)
LEMMA OneReplicaStep ==
    ASSUME GroupInv, env' = env, TopicGrows, NEW m \in Members, OthersStay(m),
           MembersOK', HandsTyped, HoldsRecord(m), Session(m)',
           \A g \in Groups : \A p \in Partitions : OffsetsKept(g, p)'
    PROVE  GroupInv'
<1>1. ASSUME NEW n \in Members, phase'[n] # "idle"
      PROVE  /\ holding'[n].partition \in Partitions
             /\ holding'[n].offset \in 1..Len(log'[holding'[n].partition])
  <2>1. CASE n = m
    BY <1>1, <2>1 DEF HoldsRecord
  <2>2. CASE n # m
    <3>1. phase[n] # "idle" /\ holding'[n] = holding[n]
      BY <1>1, <2>2 DEF OthersStay
    <3>2. holding[n].partition \in Partitions /\ holding[n].offset \in 1..Len(log[holding[n].partition])
      BY <3>1 DEF GroupInv, HandsOK
    <3> QED
      BY <3>1, <3>2 DEF TopicGrows, TopicOK
  <2> QED
    BY <2>1, <2>2
<1>2. HandsOK'
  BY <1>1 DEF HandsOK, HandsTyped
<1>3. ASSUME NEW n \in Members PROVE Session(n)'
  <2>1. CASE n # m
    BY <2>1, SessionFrame DEF OthersStay, GroupInv
  <2> QED
    BY <2>1
<1> QED
  BY <1>2, <1>3 DEF GroupInv, TopicGrows

(* A step within a delivery that neither moves offsets nor sends. *)
LEMMA HandStep ==
    ASSUME GroupInv, env' = env, NEW m \in Members,
           UNCHANGED <<topicVars, groupVars, committed, faults, finished>>, throws' \in 0..MaxThrows,
           NEW ph \in {"handling", "sleeping", "done"}, phase' = [phase EXCEPT ![m] = ph],
           NEW t \in Nat, silent' = [silent EXCEPT ![m] = t],
           NEW h \in [partition : 0..TargetPartitions, offset : Nat],
           holding' = [holding EXCEPT ![m] = h],
           h.partition \in Partitions, h.offset \in 1..Len(log[h.partition]),
           Session(m)'
    PROVE  GroupInv'
<1> USE DEF topicVars, groupVars
<1>1. TopicGrows
  BY TopicLeftAlone DEF GroupInv, TopicOK
<1>2. OthersStay(m)
  BY DEF OthersStay, GroupInv, HandsOK
<1>3. MembersOK'
  BY DEF GroupInv, MembersOK
<1>4. HandsTyped
  BY DEF GroupInv, HandsOK, HandsTyped
<1>5. HoldsRecord(m)
  BY DEF GroupInv, HandsOK, HoldsRecord
<1> QED
  BY <1>1, <1>2, <1>3, <1>4, <1>5, OffsetsFrame, OneReplicaStep

(* Leaving a group's partitions: nobody else's ownership changes. *)
LEMMA DisownKeeps ==
    ASSUME MembersOK, NEW m \in Members, Disown(m)
    PROVE  /\ owner' \in [Groups -> [Partitions -> Members \cup {NoOne}]]
           /\ \A g \in Groups : \A p \in Partitions :
                 /\ owner[g][p] # m => owner'[g][p] = owner[g][p]
                 /\ owner[g][p] = NoOne => owner'[g][p] = NoOne
<1>1. PICK g \in Groups : g = GroupOf(m)
  BY GroupOfType
<1> DEFINE f == [p \in Partitions |-> IF owner[g][p] = m THEN NoOne ELSE owner[g][p]]
<1>2. owner' = [owner EXCEPT ![g] = f]
  BY <1>1 DEF Disown, MembersOK
<1>3. owner[g] \in [Partitions -> Members \cup {NoOne}]
  BY DEF MembersOK
<1>4. f \in [Partitions -> Members \cup {NoOne}]
  BY <1>3
<1>5. \A p \in Partitions : f[p] = IF owner[g][p] = m THEN NoOne ELSE owner[g][p]
  OBVIOUS
<1> HIDE DEF f
<1>6. owner' \in [Groups -> [Partitions -> Members \cup {NoOne}]]
  BY <1>2, <1>4 DEF MembersOK
<1>7. \A h \in Groups : owner'[h] = IF h = g THEN f ELSE owner[h]
  BY <1>2 DEF MembersOK
<1>8. m # NoOne
  BY GroupAssumption
<1> QED
  BY <1>5, <1>6, <1>7, <1>8
------------------------------------------------------------------------------
(* The steps, one by one. *)

(* A replica starts or is restarted: it comes in with empty hands. *)
LEMMA JoinStep ==
    ASSUME GroupInv, env' = env, NEW m \in Members, Start(m) \/ Restart(m)
    PROVE  GroupInv'
<1>1. /\ UNCHANGED <<known, log, owner, position, resolved, committed, handVars, throws, faults, finished>>
      /\ member[m] \in {"new", "out"} /\ member' = [member EXCEPT ![m] = "in"]
      /\ rebalance' = rebalance \cup {GroupOf(m)}
      /\ partitions' = partitions \/ partitions' = Created
  BY DEF Start, Restart, topicVars
<1>2. TopicGrows
  BY <1>1, TopicLeftAlone, TopicAltered DEF GroupInv, TopicOK
<1>3. MembersOK'
  BY <1>1, GroupOfType DEF GroupInv, MembersOK
<1>4. phase[m] = "idle" /\ silent[m] <= HeartbeatIntervalMs
  BY <1>1 DEF GroupInv, Session
<1>5. Session(m)'
  BY <1>1, <1>4 DEF Session, HeartbeatIntervalMs, handVars, GroupInv, MembersOK
<1>6. OthersStay(m)
  BY <1>1 DEF OthersStay, handVars, GroupInv, MembersOK
<1>7. HandsTyped /\ HoldsRecord(m)
  BY <1>1, <1>4 DEF GroupInv, HandsOK, HandsTyped, HoldsRecord, handVars
<1> QED
  BY <1>1, <1>2, <1>3, <1>5, <1>6, <1>7, OffsetsFrame, OneReplicaStep

(* What expulsion and death have in common: the others keep their partitions. *)
LEMMA LeaveStep ==
    ASSUME GroupInv, env' = env, NEW m \in Members, Disown(m),
           NEW to \in {"expelled", "out"}, member' = [member EXCEPT ![m] = to],
           rebalance' = rebalance \cup {GroupOf(m)},
           UNCHANGED <<partitions, log, position, resolved, committed>>,
           known' \in [Producers -> 0..TargetPartitions],
           HandsTyped, HoldsRecord(m), Session(m)',
           \A n \in Members \ {m} :
              phase'[n] = phase[n] /\ silent'[n] = silent[n] /\ holding'[n] = holding[n]
    PROVE  GroupInv'
<1>1. TopicGrows
  BY TopicLeftAlone DEF GroupInv
<1>2. MembersOK'
  BY DisownKeeps, GroupOfType DEF GroupInv, MembersOK
<1>3. ASSUME NEW n \in Members \ {m}, member[n] = "in", phase[n] # "idle"
      PROVE  owner'[GroupOf(n)][holding[n].partition] = owner[GroupOf(n)][holding[n].partition]
  <2>1. PICK g \in Groups, p \in Partitions : g = GroupOf(n) /\ p = holding[n].partition
    BY <1>3, GroupOfType DEF GroupInv, HandsOK
  <2>2. owner[g][p] = n
    BY <1>3, <2>1 DEF GroupInv, Session
  <2> QED
    BY <2>1, <2>2, DisownKeeps DEF GroupInv
<1>4. OthersStay(m)
  BY <1>3 DEF OthersStay, GroupInv, MembersOK
<1>5. ASSUME NEW g \in Groups, NEW p \in Partitions PROVE OffsetsKept(g, p)'
  BY DisownKeeps DEF GroupInv, OffsetsKept
<1> QED
  BY <1>1, <1>2, <1>4, <1>5, OneReplicaStep

(* The coordinator expels a replica that has been silent for a session timeout. *)
LEMMA ExpelStep ==
    ASSUME GroupInv, env' = env, NEW m \in Members, Expel(m)
    PROVE  GroupInv'
<1> USE DEF topicVars, handVars
<1>1. HandsTyped
  BY DEF Expel, GroupInv, HandsOK, HandsTyped
<1>2. HoldsRecord(m)
  BY DEF Expel, GroupInv, HandsOK, HoldsRecord
<1>3. member'[m] = "expelled" /\ silent' = silent /\ phase' = phase
  BY DEF Expel, GroupInv, MembersOK
<1>4. Overstayed(m)'
  BY <1>3 DEF Expel, Overstayed, SessionTimeoutMs
<1>5. Session(m)'
  BY <1>3, <1>4 DEF GroupInv, Session, HeartbeatIntervalMs
<1>6. known' \in [Producers -> 0..TargetPartitions]
  BY DEF Expel, GroupInv, TopicOK
<1> QED
  BY <1>1, <1>2, <1>5, <1>6, LeaveStep DEF Expel

(* A replica dies with what it has in hand. *)
LEMMA CrashStep ==
    ASSUME WaitsAreNatural, GroupInv, env' = env, NEW m \in Members, Crash(m)
    PROVE  GroupInv'
<1>0. phase \in [Members -> {"idle", "handling", "sleeping", "done"}] /\ silent \in [Members -> Nat]
      /\ holding \in [Members -> [partition : 0..TargetPartitions, offset : Nat]]
      /\ Nothing \in [partition : 0..TargetPartitions, offset : Nat]
      /\ member \in [Members -> {"new", "in", "expelled", "out"}]
  BY GroupAssumption DEF GroupInv, HandsOK, MembersOK, Nothing
<1>1. HandsTyped
  BY <1>0, GroupAssumption DEF Crash, GroupInv, HandsOK, HandsTyped
<1>2. /\ phase'[m] = "idle" /\ silent'[m] = 0 /\ member'[m] = "out"
      /\ \A n \in Members \ {m} :
            phase'[n] = phase[n] /\ silent'[n] = silent[n] /\ holding'[n] = holding[n]
  BY <1>0 DEF Crash
<1>3. HoldsRecord(m) /\ Session(m)'
  BY <1>2, WaitTypes DEF HoldsRecord, Session, HeartbeatIntervalMs, GroupInv
<1>4. known' \in [Producers -> 0..TargetPartitions]
  BY GroupAssumption DEF Crash, GroupInv, TopicOK, Producers
<1> QED
  BY <1>1, <1>2, <1>3, <1>4, LeaveStep DEF Crash

(* The owner takes up the record after its position. *)
LEMMA TakeStep ==
    ASSUME WaitsAreNatural, GroupInv, env' = env, NEW m \in Members, NEW p \in Partitions, Take(m, p)
    PROVE  GroupInv'
<1> DEFINE g == GroupOf(m)
           h == [partition |-> p, offset |-> position[g][p] + 1]
<1>0. g \in Groups /\ position[g][p] \in Nat /\ Len(log[p]) \in Nat /\ p \in 0..TargetPartitions
  BY GroupOfType, GroupAssumption DEF GroupInv, MembersOK, TopicOK, Partitions
<1>1. h \in [partition : 0..TargetPartitions, offset : Nat] /\ h.partition = p
      /\ h.offset = position[g][p] + 1
  BY <1>0
<1>2. /\ member[m] = "in" /\ phase[m] = "idle" /\ owner[g][p] = m
      /\ position[g][p] < Len(log[p])
      /\ holding' = [holding EXCEPT ![m] = h]
      /\ phase' = [phase EXCEPT ![m] = "handling"]
      /\ UNCHANGED <<topicVars, groupVars, committed, throws, faults, finished>>
  BY DEF Take
<1> HIDE DEF h, g
<1>3. PICK t \in Nat : t <= HeartbeatIntervalMs /\ silent' = [silent EXCEPT ![m] = t]
  <2>1. PICK ms \in {0, HeartbeatIntervalMs} : silent' = [silent EXCEPT ![m] = ms]
    BY DEF Take
  <2>2. ms \in Nat /\ ms <= HeartbeatIntervalMs
    BY WaitTypes DEF GroupInv
  <2> QED
    BY <2>1, <2>2
<1>4. holding'[m] = h /\ phase'[m] = "handling" /\ silent'[m] = t /\ UNCHANGED <<owner, position, member>>
  BY <1>2, <1>3 DEF GroupInv, HandsOK, groupVars
<1>5. Session(m)'
  BY <1>1, <1>2, <1>3, <1>4 DEF Session, HeartbeatIntervalMs, g
<1>6. throws' \in 0..MaxThrows
  BY <1>2 DEF GroupInv, HandsOK
<1>7. h.partition \in Partitions /\ h.offset \in 1..Len(log[h.partition])
  BY <1>0, <1>1, <1>2
<1>8. PICK ph \in {"handling", "sleeping", "done"} : ph = "handling"
  OBVIOUS
<1>9. phase' = [phase EXCEPT ![m] = ph]
  BY <1>2, <1>8
<1>10. UNCHANGED <<topicVars, groupVars, committed, faults, finished>>
  BY <1>2
<1> QED
  BY <1>1, <1>2, <1>3, <1>5, <1>6, <1>7, <1>9, <1>10, HandStep

(* The handler is through or fails: it was silent for as long as it took. *)
LEMMA HandlerStep ==
    ASSUME WaitsAreNatural, GroupInv, env' = env, NEW m \in Members,
           HandlerReturns(m) \/ HandlerThrowsLast(m) \/ HandlerThrows(m)
    PROVE  GroupInv'
<1>0. /\ SessionTimeoutMs \in Nat /\ HeartbeatIntervalMs \in Nat
      /\ HeartbeatIntervalMs < SessionTimeoutMs
      /\ SendDelays \subseteq Nat /\ HandlerWaits \subseteq Nat
      /\ \A attempt \in Nat : CalculateBackoffMs(attempt, Policy) \in Nat
  BY WaitTypes DEF GroupInv
<1>1. /\ phase[m] = "handling" /\ UNCHANGED <<topicVars, groupVars, committed, holding, faults, finished>>
      /\ throws' = throws \/ (throws < MaxThrows /\ throws' = throws + 1)
  BY DEF HandlerReturns, HandlerThrowsLast, HandlerThrows
<1>2. /\ holding[m].partition \in Partitions
      /\ holding[m].offset \in 1..Len(log[holding[m].partition])
      /\ holding[m] \in [partition : 0..TargetPartitions, offset : Nat]
      /\ holding' = [holding EXCEPT ![m] = holding[m]]
  BY <1>1 DEF GroupInv, HandsOK
<1>3. Backoff(m) \in Nat
  <2>1. Current(m) \in Record
    BY <1>2 DEF GroupInv, TopicOK, Current
  <2>2. NextAttempt(m) \in Nat
    BY <2>1 DEF Record, NextAttempt
  <2> QED
    BY <1>0, <2>2 DEF Backoff
<1>4. PICK ph \in {"sleeping", "done"}, t \in Nat :
         phase' = [phase EXCEPT ![m] = ph] /\ silent' = [silent EXCEPT ![m] = t]
  <2>0. silent[m] \in Nat
    BY DEF GroupInv, HandsOK
  <2>1. CASE HandlerReturns(m)
    <3>1. PICK h \in HandlerWaits : silent' = [silent EXCEPT ![m] = @ + h]
      BY <2>1 DEF HandlerReturns, Wait
    <3>2. silent[m] + h \in Nat
      BY <1>0, <2>0, <3>1
    <3> QED
      BY <2>1, <3>1, <3>2 DEF HandlerReturns
  <2>2. CASE HandlerThrowsLast(m)
    <3>1. PICK h \in HandlerWaits, r \in SendDelays : silent' = [silent EXCEPT ![m] = @ + (h + r)]
      BY <2>2 DEF HandlerThrowsLast, Wait
    <3>2. silent[m] + (h + r) \in Nat
      BY <1>0, <2>0, <3>1
    <3> QED
      BY <2>2, <3>1, <3>2 DEF HandlerThrowsLast
  <2>3. CASE HandlerThrows(m)
    <3>1. PICK h \in HandlerWaits : silent' = [silent EXCEPT ![m] = @ + (h + Backoff(m))]
      BY <2>3 DEF HandlerThrows, Wait
    <3>2. silent[m] + (h + Backoff(m)) \in Nat
      BY <1>0, <1>3, <2>0, <3>1
    <3> QED
      BY <2>3, <3>1, <3>2 DEF HandlerThrows
  <2> QED
    BY <2>1, <2>2, <2>3
<1>5. throws' \in 0..MaxThrows
  BY <1>1, GroupAssumption DEF GroupInv, HandsOK
<1>6. member[m] # "expelled"
  <2>1. silent[m] <= HeartbeatIntervalMs /\ silent[m] \in Nat
    BY <1>1 DEF GroupInv, Session, HandsOK
  <2>2. ~Overstayed(m)
    BY <1>0, <2>1 DEF Overstayed
  <2> QED
    BY <2>2 DEF GroupInv, Session
<1>7. phase'[m] = ph /\ UNCHANGED <<member, owner, position, holding>>
  BY <1>1, <1>4 DEF GroupInv, HandsOK, groupVars
<1>8. Session(m)'
  BY <1>1, <1>6, <1>7 DEF GroupInv, Session
<1>9. PICK h \in [partition : 0..TargetPartitions, offset : Nat] : h = holding[m]
  BY <1>2
<1> QED
  BY <1>1, <1>2, <1>4, <1>5, <1>8, <1>9, HandStep
(* After its backoff the executor republishes the record, to whichever partition the key gives. *)
LEMMA RepublishStep ==
    ASSUME WaitsAreNatural, GroupInv, env' = env, NEW m \in Members, Republish(m)
    PROVE  GroupInv'
<1>1. /\ phase[m] = "sleeping" /\ phase' = [phase EXCEPT ![m] = "done"]
      /\ UNCHANGED <<groupVars, committed, holding, throws, faults, finished>>
  BY DEF Republish
<1>0. PICK t \in Nat : silent[m] <= t /\ silent' = [silent EXCEPT ![m] = t]
  <2>1. PICK d \in SendDelays : silent' = [silent EXCEPT ![m] = @ + d]
    BY DEF Republish, Wait
  <2>2. silent[m] \in Nat /\ d \in Nat
    BY WaitTypes DEF GroupInv, HandsOK
  <2>3. silent[m] + d \in Nat /\ silent[m] <= silent[m] + d
    BY <2>2
  <2> QED
    BY <2>1, <2>3
<1>2. PICK r \in Record : Send(m, r)
  <2>1. Current(m) \in Record
    BY <1>1 DEF GroupInv, HandsOK, TopicOK, Current
  <2>2. [order |-> Current(m).order, retryCount |-> NextAttempt(m)] \in Record
    BY <2>1 DEF Record, NextAttempt
  <2> QED
    BY <2>2 DEF Republish
<1>3. TopicGrows
  BY <1>2, SendGrows DEF GroupInv, Producers
<1>4. MembersOK'
  BY <1>1 DEF groupVars, GroupInv, MembersOK
<1>5. HandsTyped /\ phase'[m] = "done" /\ silent'[m] = t
  BY <1>0, <1>1 DEF GroupInv, HandsOK, HandsTyped
<1>6. HoldsRecord(m)
  BY <1>1, <1>3 DEF GroupInv, HandsOK, HoldsRecord, TopicGrows, TopicOK
<1>7. OthersStay(m)
  BY <1>0, <1>1 DEF OthersStay, groupVars, GroupInv, HandsOK
<1>8. Session(m)'
  <2>1. Overstayed(m) => Overstayed(m)'
    BY <1>0, <1>5, WaitTypes DEF Overstayed, SessionTimeoutMs, GroupInv, HandsOK
  <2> QED
    BY <1>1, <1>5, <2>1 DEF groupVars, GroupInv, Session
<1> QED
  BY <1>1, <1>3, <1>4, <1>5, <1>6, <1>7, <1>8, OffsetsFrame, OneReplicaStep DEF groupVars

(* Two busy members of the group are never on one partition. *)
LEMMA OneOwner ==
    ASSUME GroupInv, NEW m \in Members, NEW n \in Members, m # n,
           member[m] = "in", member[n] = "in", phase[m] # "idle", phase[n] # "idle"
    PROVE  GroupOf(m) # GroupOf(n) \/ holding[m].partition # holding[n].partition
BY DEF GroupInv, Session

(* The position of a record its owner resolves moves by one. *)
LEMMA ResolvedPosition ==
    ASSUME GroupInv, NEW m \in Members, member[m] = "in", phase[m] # "idle",
           NEW g, NEW p, g = GroupOf(m), p = holding[m].partition,
           position' = [position EXCEPT ![g][p] = holding[m].offset]
    PROVE  /\ g \in Groups /\ p \in Partitions
           /\ owner[g][p] = m
           /\ position' \in [Groups -> [Partitions -> Nat]]
           /\ position[g][p] \in Nat /\ holding[m].offset = position[g][p] + 1
           /\ \A h \in Groups : \A q \in Partitions :
                 position'[h][q] = IF h = g /\ q = p THEN position[g][p] + 1 ELSE position[h][q]
<1>1. g \in Groups /\ p \in Partitions /\ owner[g][p] = m /\ holding[m].offset = position[g][p] + 1
  BY GroupOfType DEF GroupInv, Session, HandsOK
<1>2. position \in [Groups -> [Partitions -> Nat]] /\ position[g][p] \in Nat
  BY <1>1 DEF GroupInv, MembersOK
<1>3. PICK k \in Nat : k = position[g][p] + 1
  BY <1>2
<1>4. position' = [position EXCEPT ![g][p] = k]
  BY <1>1, <1>3
<1> QED
  BY <1>1, <1>2, <1>3, <1>4

(* A replica is through with its record: it resolves it, or learns that it was expelled. *)
LEMMA FinishStep ==
    ASSUME WaitsAreNatural, GroupInv, env' = env, NEW m \in Members, Finish(m)
    PROVE  GroupInv'
<1>0. PICK g \in Groups, p \in Partitions, k \in Nat :
         g = GroupOf(m) /\ p = holding[m].partition /\ k = holding[m].offset
  BY GroupOfType DEF Finish, GroupInv, HandsOK
<1>1. /\ phase[m] = "done" /\ phase' = [phase EXCEPT ![m] = "idle"]
      /\ holding' = [holding EXCEPT ![m] = Nothing]
      /\ finished' = finished \cup {<<g, p, k>>}
      /\ UNCHANGED <<topicVars, owner, committed, throws, faults>>
  BY <1>0 DEF Finish
<1>10. PICK t \in Nat : t <= HeartbeatIntervalMs /\ silent' = [silent EXCEPT ![m] = t]
  <2>1. HeartbeatIntervalMs \in Nat /\ silent[m] \in Nat
    BY WaitTypes DEF GroupInv, HandsOK
  <2>2. silent' = [silent EXCEPT ![m] = IF silent[m] >= HeartbeatIntervalMs THEN 0 ELSE silent[m]]
    BY DEF Finish, Heartbeat
  <2>3. \E n \in Nat : /\ n <= HeartbeatIntervalMs
                       /\ n = IF silent[m] >= HeartbeatIntervalMs THEN 0 ELSE silent[m]
    BY <2>1
  <2>4. PICK n : /\ n \in Nat /\ n <= HeartbeatIntervalMs
                 /\ n = IF silent[m] >= HeartbeatIntervalMs THEN 0 ELSE silent[m]
    BY <2>3
  <2>5. silent' = [silent EXCEPT ![m] = n]
    BY <2>2, <2>4
  <2> QED
    BY <2>4, <2>5
<1>2. \/ /\ member[m] = "in" /\ position' = [position EXCEPT ![g][p] = k]
         /\ resolved' = resolved \cup {<<g, p>>} /\ UNCHANGED <<member, rebalance>>
      \/ /\ member[m] # "in" /\ member' = [member EXCEPT ![m] = "in"]
         /\ rebalance' = rebalance \cup {g} /\ UNCHANGED <<position, resolved>>
  BY <1>0 DEF Finish
<1>3. TopicGrows
  BY <1>1, TopicLeftAlone DEF topicVars, GroupInv, TopicOK
<1>4. Nothing \in [partition : 0..TargetPartitions, offset : Nat]
  BY GroupAssumption DEF Nothing
<1>5. HandsTyped /\ phase'[m] = "idle" /\ (silent[m] <= HeartbeatIntervalMs)'
  BY <1>1, <1>4, <1>10 DEF GroupInv, HandsOK, HandsTyped, HeartbeatIntervalMs
<1>6. HoldsRecord(m)
  BY <1>5 DEF HoldsRecord
<1>7. \A n \in Members \ {m} :
         phase'[n] = phase[n] /\ silent'[n] = silent[n] /\ holding'[n] = holding[n]
  BY <1>1, <1>10 DEF GroupInv, HandsOK
<1>8. CASE member[m] = "in"
  <2>1. /\ owner[g][p] = m /\ position' \in [Groups -> [Partitions -> Nat]]
        /\ position[g][p] \in Nat
        /\ \A h \in Groups : \A q \in Partitions :
              position'[h][q] = IF h = g /\ q = p THEN position[g][p] + 1 ELSE position[h][q]
    BY <1>0, <1>1, <1>2, <1>8, ResolvedPosition
  <2>2. MembersOK'
    BY <1>1, <1>2, <1>8, <2>1 DEF GroupInv, MembersOK
  <2>3. Session(m)'
    BY <1>2, <1>5, <1>8 DEF Session
  <2>4. ASSUME NEW n \in Members \ {m}, member[n] = "in", phase[n] # "idle"
        PROVE  position'[GroupOf(n)][holding[n].partition] = position[GroupOf(n)][holding[n].partition]
    <3>1. PICK h \in Groups, q \in Partitions : h = GroupOf(n) /\ q = holding[n].partition
      BY <2>4, GroupOfType DEF GroupInv, HandsOK
    <3>2. ~(h = g /\ q = p)
      BY <1>0, <1>1, <1>8, <2>4, <3>1, OneOwner
    <3> QED
      BY <2>1, <3>1, <3>2
  <2>5. OthersStay(m)
    BY <1>1, <1>2, <1>7, <1>8, <2>4 DEF OthersStay
  <2>6. ASSUME NEW h \in Groups, NEW q \in Partitions PROVE OffsetsKept(h, q)'
    <3>1. OffsetsKept(h, q)
      BY DEF GroupInv
    <3>2. h = g /\ q = p => q <= partitions
      BY <2>1, <3>1, GroupAssumption DEF OffsetsKept, Partitions, GroupInv, TopicOK
    <3>3. committed[h][q] # NoOffset => committed[h][q] \in Nat
      BY DEF GroupInv, MembersOK
    <3>4. resolved' = resolved \cup {<<g, p>>} /\ UNCHANGED <<committed, owner, partitions>>
      BY <1>1, <1>2, <1>8 DEF topicVars
    <3>5. position[h][q] \in Nat
      BY DEF GroupInv, MembersOK
    <3>6. committed[h][q] # NoOffset => committed[h][q] <= position'[h][q]
      BY <2>1, <3>1, <3>3, <3>5 DEF OffsetsKept
    <3>7. q > partitions => ~(h = g /\ q = p)
      BY <3>2, GroupAssumption DEF Partitions, GroupInv, TopicOK
    <3> QED
      BY <3>1, <3>4, <3>6, <3>7 DEF OffsetsKept
  <2> QED
    BY <1>3, <1>5, <1>6, <2>2, <2>3, <2>5, <2>6, OneReplicaStep
<1>9. CASE member[m] # "in"
  <2>1. MembersOK' /\ member'[m] = "in" /\ \A n \in Members \ {m} : member'[n] = member[n]
    BY <1>1, <1>2, <1>9 DEF GroupInv, MembersOK
  <2>2. Session(m)'
    BY <1>5, <2>1 DEF Session
  <2>3. OthersStay(m)
    BY <1>1, <1>2, <1>7, <1>9, <2>1 DEF OthersStay
  <2> QED
    BY <1>1, <1>2, <1>3, <1>5, <1>6, <1>9, <2>1, <2>2, <2>3, OffsetsFrame, OneReplicaStep
<1> QED
  BY <1>8, <1>9

(* Where a partition's new owner starts is an offset, and not behind the committed one. *)
LEMMA StartingOffsetType ==
    ASSUME GroupInv, NEW g \in Groups, NEW p \in Partitions
    PROVE  /\ StartingOffset(g, p) \in Nat
           /\ committed[g][p] # NoOffset => StartingOffset(g, p) = committed[g][p]
<1>1. Len(log[p]) \in Nat /\ committed[g][p] \in Nat \cup {NoOffset}
  BY DEF GroupInv, TopicOK, MembersOK
<1> QED
  BY <1>1 DEF StartingOffset

(* What a rebalance deals out. *)
LEMMA RebalanceDeals ==
    ASSUME GroupInv, NEW g \in Groups, Rebalance(g)
    PROVE  /\ MembersOK'
           /\ \A h \in Groups \ {g} : owner'[h] = owner[h] /\ position'[h] = position[h]
           /\ \A p \in Partitions :
                 /\ p > partitions => owner'[g][p] = NoOne
                 /\ p <= partitions => position'[g][p] = StartingOffset(g, p)
                 /\ p > partitions => position'[g][p] = 0
           /\ resolved' \subseteq resolved
           /\ \A m \in MembersOf(g) : member[m] = "in" => phase[m] = "idle"
<1> DEFINE pos == [p \in Partitions |-> IF p <= partitions THEN StartingOffset(g, p) ELSE 0]
<1>1. PICK a \in [1..partitions -> Joined(g)] :
         owner' = [owner EXCEPT ![g] = [p \in Partitions |-> IF p \in DOMAIN a THEN a[p] ELSE NoOne]]
  BY DEF Rebalance
<1> DEFINE own == [p \in Partitions |-> IF p \in DOMAIN a THEN a[p] ELSE NoOne]
<1>2. position' = [position EXCEPT ![g] = pos] /\ owner' = [owner EXCEPT ![g] = own]
  BY <1>1 DEF Rebalance
<1>3. partitions \in Nat /\ TargetPartitions \in Nat /\ DOMAIN a = 1..partitions
      /\ Joined(g) \subseteq Members
  BY <1>1, GroupAssumption DEF GroupInv, TopicOK, Joined, MembersOf
<1>4. /\ pos \in [Partitions -> Nat]
      /\ \A p \in Partitions : /\ p <= partitions => pos[p] = StartingOffset(g, p)
                               /\ p > partitions => pos[p] = 0
  BY <1>3, StartingOffsetType DEF Partitions
<1>5. own \in [Partitions -> Members \cup {NoOne}] /\ \A p \in Partitions : p > partitions => own[p] = NoOne
  BY <1>3 DEF Partitions
<1> HIDE DEF pos, own
<1>6. /\ owner' \in [Groups -> [Partitions -> Members \cup {NoOne}]]
      /\ position' \in [Groups -> [Partitions -> Nat]]
      /\ owner'[g] = own /\ position'[g] = pos
      /\ \A h \in Groups \ {g} : owner'[h] = owner[h] /\ position'[h] = position[h]
  BY <1>2, <1>4, <1>5 DEF GroupInv, MembersOK
<1>7. MembersOK' /\ resolved' \subseteq resolved
  BY <1>6 DEF GroupInv, MembersOK, Rebalance
<1>8. \A m \in MembersOf(g) : member[m] = "in" => phase[m] = "idle"
  BY DEF Rebalance, Joined
<1> QED
  BY <1>4, <1>5, <1>6, <1>7, <1>8

(* A rebalance disturbs nobody at work: the members still in the group are all idle. *)
LEMMA RebalanceStep ==
    ASSUME GroupInv, env' = env, NEW g \in Groups, Rebalance(g)
    PROVE  GroupInv'
<1>1. UNCHANGED <<topicVars, member, committed, handVars, throws, faults, finished>>
  BY DEF Rebalance
<1>2. TopicGrows
  BY <1>1, TopicLeftAlone DEF topicVars, GroupInv, TopicOK
<1>3. HandsOK'
  BY <1>1 DEF topicVars, handVars, GroupInv, HandsOK
<1>4. ASSUME NEW m \in Members PROVE Session(m)'
  <2>1. member[m] = "in" /\ phase[m] # "idle" => GroupOf(m) # g
    BY RebalanceDeals DEF MembersOf
  <2>2. Session(m) /\ GroupOf(m) \in Groups
    BY GroupOfType DEF GroupInv
  <2> QED
    BY <1>1, <2>1, <2>2, RebalanceDeals, SessionFrame DEF handVars
<1>5. ASSUME NEW h \in Groups, NEW p \in Partitions PROVE OffsetsKept(h, p)'
  <2>0. OffsetsKept(h, p) /\ UNCHANGED <<committed, partitions>> /\ resolved' \subseteq resolved
    BY <1>1, RebalanceDeals DEF GroupInv, topicVars
  <2>1. CASE h # g
    <3>1. owner'[h] = owner[h] /\ position'[h] = position[h]
      BY <2>1, RebalanceDeals
    <3> QED
      BY <2>0, <3>1 DEF OffsetsKept
  <2>2. CASE h = g
    <3>1. partitions \in Nat /\ p \in Nat
      BY GroupAssumption DEF GroupInv, TopicOK, Partitions
    <3>2. CASE p <= partitions
      <4>1. committed[h][p] # NoOffset => position'[h][p] = committed[h][p] /\ committed[h][p] \in Nat
        BY <2>2, <3>2, RebalanceDeals, StartingOffsetType DEF GroupInv, MembersOK
      <4> QED
        BY <2>0, <3>1, <3>2, <4>1 DEF OffsetsKept
    <3>3. CASE p > partitions
      <4>1. owner'[h][p] = NoOne
        BY <2>2, <3>3, RebalanceDeals
      <4> QED
        BY <2>0, <3>3, <4>1 DEF OffsetsKept
    <3> QED
      BY <3>1, <3>2, <3>3
  <2> QED
    BY <2>1, <2>2
<1> QED
  BY <1>2, <1>3, <1>4, <1>5, RebalanceDeals DEF GroupInv, TopicGrows

(* autoCommit stores the position of a partition the group has resolved a record of. *)
LEMMA AutoCommitStep ==
    ASSUME GroupInv, env' = env, NEW g \in Groups, NEW p \in Partitions, AutoCommit(g, p)
    PROVE  GroupInv'
<1>1. UNCHANGED <<topicVars, groupVars, handVars, throws, faults, finished>> /\ <<g, p>> \in resolved
  BY DEF AutoCommit
<1>2. PICK k \in Nat : k = position[g][p]
  BY DEF GroupInv, MembersOK
<1>3. committed' = [committed EXCEPT ![g][p] = k]
  BY <1>2 DEF AutoCommit
<1>4. /\ committed' \in [Groups -> [Partitions -> Nat \cup {NoOffset}]]
      /\ \A h \in Groups : \A q \in Partitions :
            committed'[h][q] = IF h = g /\ q = p THEN k ELSE committed[h][q]
  BY <1>3 DEF GroupInv, MembersOK
<1>5. TopicGrows
  BY <1>1, TopicLeftAlone DEF topicVars, GroupInv, TopicOK
<1>6. MembersOK' /\ HandsOK'
  BY <1>1, <1>4 DEF topicVars, groupVars, handVars, GroupInv, MembersOK, HandsOK
<1>7. ASSUME NEW m \in Members PROVE Session(m)'
  BY <1>1, SessionFrame DEF groupVars, handVars, GroupInv
<1>8. ASSUME NEW h \in Groups, NEW q \in Partitions PROVE OffsetsKept(h, q)'
  BY <1>1, <1>2, <1>4 DEF topicVars, groupVars, GroupInv, OffsetsKept
<1> QED
  BY <1>5, <1>6, <1>7, <1>8 DEF GroupInv, TopicGrows
------------------------------------------------------------------------------
(* The invariant and the theorems. *)

(* Provisioning and producers touch the topic and nothing else. *)
LEMMA TopicStep ==
    ASSUME GroupInv, env' = env,
           \/ KafkaInit \/ SetTopicPartitions
           \/ \E pr \in Producers : RefreshMetadata(pr)
           \/ \E o \in Orders : PublishOrder(o)
    PROVE  GroupInv'
<1>1. CASE KafkaInit \/ SetTopicPartitions
  <2>1. /\ UNCHANGED <<known, log, groupVars, committed, handVars, throws, faults, finished>>
        /\ partitions' = TargetPartitions
    BY <1>1 DEF KafkaInit, SetTopicPartitions
  <2>2. TopicGrows
    BY <2>1, TopicAltered DEF GroupInv
  <2> QED
    BY <2>1, <2>2, OnlyTheTopic
<1>2. ASSUME NEW pr \in Producers, RefreshMetadata(pr) PROVE GroupInv'
  <2>1. known' \in [Producers -> 0..TargetPartitions]
    BY <1>2 DEF RefreshMetadata, GroupInv, TopicOK
  <2>2. UNCHANGED <<partitions, log, groupVars, committed, handVars, throws, faults, finished>>
    BY <1>2 DEF RefreshMetadata
  <2>3. TopicGrows
    BY <2>1, <2>2, TopicLeftAlone DEF GroupInv
  <2> QED
    BY <2>2, <2>3, OnlyTheTopic
<1>3. ASSUME NEW o \in Orders, PublishOrder(o) PROVE GroupInv'
  <2>1. PICK r \in Record : Send(OrderServiceProducer, r)
    <3>1. [order |-> o, retryCount |-> 0] \in Record
      BY DEF Record
    <3> QED
      BY <1>3, <3>1 DEF PublishOrder
  <2>2. TopicGrows
    BY <2>1, SendGrows DEF GroupInv, Producers
  <2> QED
    BY <1>3, <2>2, OnlyTheTopic DEF PublishOrder
<1> QED
  BY <1>1, <1>2, <1>3

(* GroupInv holds at the start ... *)
LEMMA GroupInvInit == WaitsAreNatural /\ Init => GroupInv
<1> SUFFICES ASSUME WaitsAreNatural, Init PROVE GroupInv
  OBVIOUS
<1>1. /\ TargetPartitions \in Nat \ {0} /\ MaxThrows \in Nat /\ MaxFaults \in Nat
      /\ Nothing \in [partition : 0..TargetPartitions, offset : Nat]
  BY GroupAssumption DEF Nothing
<1>2. TopicOK
  BY <1>1 DEF Init, TopicOK
<1>3. MembersOK
  BY DEF Init, MembersOK, NoOffset
<1>4. HandsOK
  BY <1>1 DEF Init, HandsOK
<1>5. ASSUME NEW m \in Members PROVE Session(m)
  BY <1>2, WaitTypes DEF Init, Session
<1>6. ASSUME NEW g \in Groups, NEW p \in Partitions PROVE OffsetsKept(g, p)
  BY DEF Init, OffsetsKept
<1> QED
  BY <1>2, <1>3, <1>4, <1>5, <1>6 DEF GroupInv

(* ... and is kept by every step. *)
LEMMA GroupInvStep == WaitsAreNatural /\ GroupInv /\ [Next]_vars => GroupInv'
<1> SUFFICES ASSUME WaitsAreNatural, GroupInv, [Next]_vars PROVE GroupInv'
  OBVIOUS
<1>0. env' = env
  BY EnvStays
<1>1. ASSUME NEW m \in Members, Start(m) \/ Restart(m) \/ Expel(m) \/ Crash(m) PROVE GroupInv'
  BY <1>0, <1>1, JoinStep, ExpelStep, CrashStep
<1>2. ASSUME NEW m \in Members, Work(m) PROVE GroupInv'
  BY <1>0, <1>2, TakeStep, HandlerStep, RepublishStep, FinishStep DEF Work
<1>3. ASSUME NEW g \in Groups, Rebalance(g) \/ \E p \in Partitions : AutoCommit(g, p) PROVE GroupInv'
  BY <1>0, <1>3, RebalanceStep, AutoCommitStep
<1>4. ASSUME UNCHANGED vars PROVE GroupInv'
  <2>1. UNCHANGED <<topicVars, groupVars, committed, handVars, throws, faults, finished>>
    BY <1>4 DEF vars
  <2>2. TopicGrows
    BY <1>0, <2>1, TopicLeftAlone DEF topicVars, GroupInv, TopicOK
  <2> QED
    BY <1>0, <2>1, <2>2, OnlyTheTopic
<1> QED
  BY <1>0, <1>1, <1>2, <1>3, <1>4, TopicStep DEF Next

(***************************************************************************)
(* Topics, offsets, assignments and replicas stay well formed, and a       *)
(* replica that was expelled is one that is busy.                          *)
(***************************************************************************)
THEOREM TypeCorrect ==
    ASSUME WaitsAreNatural
    PROVE  Spec => []TypeOK
<1>1. WaitsAreNatural /\ GroupInv => TypeOK
  <2> SUFFICES ASSUME WaitsAreNatural, GroupInv PROVE TypeOK
    OBVIOUS
  <2>1. ASSUME NEW m \in Members, member[m] = "expelled" PROVE phase[m] # "idle"
    <3>1. HeartbeatIntervalMs < SessionTimeoutMs /\ silent[m] \in Nat
          /\ HeartbeatIntervalMs \in Nat /\ SessionTimeoutMs \in Nat
      BY WaitTypes DEF GroupInv, HandsOK
    <3> QED
      BY <2>1, <3>1 DEF GroupInv, Session, Overstayed
  <2> QED
    BY <2>1 DEF GroupInv, TopicOK, MembersOK, HandsOK, TypeOK
<1> QED
  BY <1>1, GroupInvInit, GroupInvStep, PTL DEF Spec

(***************************************************************************)
(* Two replicas of one group never work on one order at the same time,     *)
(* unless the order's records are spread over partitions or one of them    *)
(* was silent for a session timeout.                                       *)
(***************************************************************************)
THEOREM OrdersHaveOneReplica ==
    ASSUME WaitsAreNatural, \A m, n \in Members : GroupOf(m) = GroupOf(n)
    PROVE  Spec => []OneReplicaPerOrder
<1>1. GroupInv => OneReplicaPerOrder
  <2> SUFFICES ASSUME GroupInv, NEW m \in Members, NEW n \in Members, m # n,
                      phase[m] # "idle", phase[n] # "idle", InHand(m) = InHand(n),
                      ~Overstayed(m), ~Overstayed(n)
               PROVE  SpreadOut(InHand(m))
    BY DEF OneReplicaPerOrder
  <2>1. member[m] = "in" /\ member[n] = "in"
    BY DEF GroupInv, MembersOK, Session
  <2>2. holding[m].partition # holding[n].partition
    BY <2>1, OneOwner
  <2>3. ASSUME NEW i \in {m, n}
        PROVE  holding[i].partition \in Partitions /\ HasRecordOf(holding[i].partition, InHand(i))
    BY DEF GroupInv, HandsOK, HasRecordOf, InHand, Current
  <2> QED
    BY <2>2, <2>3 DEF SpreadOut
<1> QED
  BY <1>1, GroupInvInit, GroupInvStep, PTL DEF Spec

------------------------------------------------------------------------------

(* The waits the schedule announces. *)
Waits == {0} \cup {GetRetryBackoffSchedule(Policy)[a] : a \in DOMAIN GetRetryBackoffSchedule(Policy)}

(* What the code takes for granted of the budgets in its environment. *)
BudgetsAreIntegers == \A e \in Environments : ResolveConsumerRetryPolicy(e).maxAttempts \in Int

(***************************************************************************)
(* What the settings let expect of a replica that has left the poll loop:  *)
(* while it sleeps, the heartbeat interval, the handler's own waits and a  *)
(* backoff; when it is done, the republish or the dead letter as well.     *)
(***************************************************************************)
Foreseen(m) ==
    /\ phase[m] = "sleeping" =>
          \E h \in HandlerWaits, w \in Waits : silent[m] <= HeartbeatIntervalMs + h + w
    /\ phase[m] = "done" =>
          \E h \in HandlerWaits, w \in Waits, r \in SendDelays :
             silent[m] <= HeartbeatIntervalMs + h + w + r

(* The announced waits are numbers. *)
LEMMA WaitsType ==
    ASSUME WaitsAreNatural, BudgetsAreIntegers, TopicOK
    PROVE  Waits \subseteq Nat /\ 0 \in Waits
<1>1. Policy.maxAttempts \in Int
  BY DEF BudgetsAreIntegers, Policy, TopicOK
<1>2. \A a \in DOMAIN GetRetryBackoffSchedule(Policy) : GetRetryBackoffSchedule(Policy)[a] \in Nat
  BY <1>1, WaitTypes DEF GetRetryBackoffSchedule
<1> QED
  BY <1>2 DEF Waits

(* A replica at work knows how often its record was tried. *)
LEMMA CountInHand ==
    ASSUME GroupInv, NEW m \in Members, phase[m] # "idle"
    PROVE  Current(m).retryCount \in Nat
<1>1. /\ holding[m].partition \in Partitions
      /\ holding[m].offset \in 1..Len(log[holding[m].partition])
  BY DEF GroupInv, HandsOK
<1>2. log[holding[m].partition] \in Seq(Record)
  BY <1>1 DEF GroupInv, TopicOK
<1>3. Current(m) \in Record
  BY <1>1, <1>2 DEF Current
<1> QED
  BY <1>3 DEF Record

(* The wait before another attempt is in the schedule: there is an attempt left. *)
LEMMA BackoffAnnounced ==
    ASSUME BudgetsAreIntegers, GroupInv, NEW m \in Members, HandlerThrows(m)
    PROVE  Backoff(m) \in Waits
<1>1. Current(m).retryCount \in Nat
  BY CountInHand DEF HandlerThrows
<1>2. NextAttempt(m) \in Nat \ {0}
  BY <1>1 DEF NextAttempt
<1>3. NextAttempt(m) < Policy.maxAttempts /\ Policy.maxAttempts \in Int
  BY DEF HandlerThrows, GoesToDlq, ShouldRetry, BudgetsAreIntegers, Policy, GroupInv, TopicOK
<1>4. NextAttempt(m) \in 1..(Policy.maxAttempts - 1)
  BY <1>2, <1>3
<1>5. Backoff(m) = GetRetryBackoffSchedule(Policy)[NextAttempt(m)]
      /\ NextAttempt(m) \in DOMAIN GetRetryBackoffSchedule(Policy)
  BY <1>4 DEF Backoff, GetRetryBackoffSchedule
<1> QED
  BY <1>5 DEF Waits

(* The settings are those of the environment, which stays. *)
LEMMA SettingsStay ==
    ASSUME env' = env
    PROVE  /\ Waits' = Waits /\ HandlerWaits' = HandlerWaits /\ SendDelays' = SendDelays
           /\ HeartbeatIntervalMs' = HeartbeatIntervalMs
BY DEF Waits, HandlerWaits, SendDelays, GatewayDelays, Policy, HeartbeatIntervalMs

(* What a step can be to a replica: it passes it by, ends or begins a record, or waits. *)
LEMMA WhoWaits ==
    ASSUME HandsOK, [Next]_vars, NEW m \in Members
    PROVE  \/ phase'[m] = phase[m] /\ silent'[m] = silent[m]
           \/ phase'[m] \in {"idle", "handling"}
           \/ HandlerReturns(m) \/ HandlerThrowsLast(m) \/ HandlerThrows(m) \/ Republish(m)
<1> DEFINE Passed == phase'[m] = phase[m] /\ silent'[m] = silent[m]
           Between == phase'[m] \in {"idle", "handling"}
<1>0. /\ phase \in [Members -> {"idle", "handling", "sleeping", "done"}]
      /\ silent \in [Members -> Nat]
  BY DEF HandsOK
<1>1. ASSUME NEW n \in Members, Crash(n) PROVE Passed \/ Between
  BY <1>0, <1>1 DEF Crash
<1>2. ASSUME NEW n \in Members, NEW p \in Partitions, Take(n, p) PROVE Passed \/ Between
  BY <1>0, <1>2 DEF Take
<1>3. ASSUME NEW n \in Members, Finish(n) PROVE Passed \/ Between
  BY <1>0, <1>3 DEF Finish, Heartbeat
<1>4. ASSUME NEW n \in Members,
             HandlerReturns(n) \/ HandlerThrowsLast(n) \/ HandlerThrows(n) \/ Republish(n)
      PROVE  n = m \/ Passed
  <2>1. \E ph, t : phase' = [phase EXCEPT ![n] = ph] /\ silent' = [silent EXCEPT ![n] = t]
    BY <1>4 DEF HandlerReturns, HandlerThrowsLast, HandlerThrows, Republish, Wait
  <2> QED
    BY <1>0, <2>1
<1>5. ASSUME NEW n \in Members, Start(n) \/ Restart(n) \/ Expel(n) PROVE Passed
  BY <1>5 DEF Start, Restart, Expel, handVars
<1>6. ASSUME NEW g \in Groups, Rebalance(g) \/ \E p \in Partitions : AutoCommit(g, p) PROVE Passed
  BY <1>6 DEF Rebalance, AutoCommit, handVars
<1>7. KafkaInit \/ SetTopicPartitions => Passed
  BY DEF KafkaInit, SetTopicPartitions, handVars
<1>8. (\E pr \in Producers : RefreshMetadata(pr)) \/ (\E o \in Orders : PublishOrder(o)) => Passed
  BY DEF RefreshMetadata, PublishOrder, handVars
<1>9. UNCHANGED vars => Passed
  BY DEF vars, handVars
<1>10. ASSUME NEW n \in Members, Start(n) \/ Restart(n) \/ Expel(n) \/ Crash(n) \/ Work(n)
       PROVE  \/ Passed \/ Between
              \/ HandlerReturns(m) \/ HandlerThrowsLast(m) \/ HandlerThrows(m) \/ Republish(m)
  BY <1>1, <1>2, <1>3, <1>4, <1>5, <1>10 DEF Work
<1> HIDE DEF Passed, Between
<1>11. \/ Passed \/ Between
       \/ HandlerReturns(m) \/ HandlerThrowsLast(m) \/ HandlerThrows(m) \/ Republish(m)
  BY <1>6, <1>7, <1>8, <1>9, <1>10 DEF Next
<1> QED
  BY <1>11 DEF Passed, Between

(* Whatever a replica does, the settings let expect its silence. *)
LEMMA ForeseenStep ==
    ASSUME WaitsAreNatural, BudgetsAreIntegers, GroupInv, [Next]_vars,
           NEW m \in Members, Foreseen(m)
    PROVE  Foreseen(m)'
<1>0. /\ HeartbeatIntervalMs \in Nat /\ HandlerWaits \subseteq Nat /\ SendDelays \subseteq Nat
      /\ Waits \subseteq Nat /\ 0 \in Waits
  BY WaitTypes, WaitsType DEF GroupInv
<1>1. /\ phase \in [Members -> {"idle", "handling", "sleeping", "done"}]
      /\ silent \in [Members -> Nat] /\ silent[m] \in Nat
  BY DEF GroupInv, HandsOK
<1>2. /\ Waits' = Waits /\ HandlerWaits' = HandlerWaits /\ SendDelays' = SendDelays
      /\ HeartbeatIntervalMs' = HeartbeatIntervalMs
  BY EnvStays, SettingsStay
<1>3. phase[m] = "handling" => silent[m] <= HeartbeatIntervalMs
  BY DEF GroupInv, Session
<1>4. CASE phase'[m] = phase[m] /\ silent'[m] = silent[m]
  BY <1>2, <1>4 DEF Foreseen
<1>5. CASE phase'[m] \in {"idle", "handling"}
  BY <1>5 DEF Foreseen
<1>6. CASE HandlerReturns(m)
  <2>1. PICK h \in HandlerWaits : silent'[m] = silent[m] + h
    BY <1>1, <1>6 DEF HandlerReturns, Wait
  <2>2. PICK r \in SendDelays : TRUE
    BY <2>1 DEF HandlerWaits
  <2>3. phase[m] = "handling" /\ phase'[m] = "done"
    BY <1>1, <1>6 DEF HandlerReturns
  <2>4. silent'[m] <= HeartbeatIntervalMs + h + 0 + r
    BY <1>0, <1>1, <1>3, <2>1, <2>2, <2>3
  <2> QED
    BY <1>0, <1>2, <2>3, <2>4 DEF Foreseen
<1>7. CASE HandlerThrowsLast(m)
  <2>1. PICK h \in HandlerWaits, r \in SendDelays : silent'[m] = silent[m] + (h + r)
    BY <1>1, <1>7 DEF HandlerThrowsLast, Wait
  <2>2. phase[m] = "handling" /\ phase'[m] = "done"
    BY <1>1, <1>7 DEF HandlerThrowsLast
  <2>3. silent'[m] <= HeartbeatIntervalMs + h + 0 + r
    BY <1>0, <1>1, <1>3, <2>1, <2>2
  <2> QED
    BY <1>0, <1>2, <2>2, <2>3 DEF Foreseen
<1>8. CASE HandlerThrows(m)
  <2>1. PICK h \in HandlerWaits : silent'[m] = silent[m] + (h + Backoff(m))
    BY <1>1, <1>8 DEF HandlerThrows, Wait
  <2>2. PICK w \in Waits : w = Backoff(m)
    BY <1>8, BackoffAnnounced
  <2>3. phase[m] = "handling" /\ phase'[m] = "sleeping"
    BY <1>1, <1>8 DEF HandlerThrows
  <2>4. silent'[m] <= HeartbeatIntervalMs + h + w
    BY <1>0, <1>1, <1>3, <2>1, <2>2, <2>3
  <2> QED
    BY <1>2, <2>3, <2>4 DEF Foreseen
<1>9. CASE Republish(m)
  <2>1. PICK r \in SendDelays : silent'[m] = silent[m] + r
    BY <1>1, <1>9 DEF Republish, Wait
  <2>2. phase[m] = "sleeping" /\ phase'[m] = "done"
    BY <1>1, <1>9 DEF Republish
  <2>3. PICK h \in HandlerWaits, w \in Waits : silent[m] <= HeartbeatIntervalMs + h + w
    BY <2>2 DEF Foreseen
  <2>4. silent'[m] <= HeartbeatIntervalMs + h + w + r
    BY <1>0, <1>1, <2>1, <2>3
  <2> QED
    BY <1>2, <2>2, <2>4 DEF Foreseen
<1> QED
  BY <1>4, <1>5, <1>6, <1>7, <1>8, <1>9, WhoWaits DEF GroupInv

(***************************************************************************)
(* No replica is expelled unless the settings of its retry policies, of    *)
(* the gateway and of the heartbeat let one record's waits reach the       *)
(* session timeout: silences do not add up over records or backoffs.       *)
(***************************************************************************)
THEOREM ExpulsionIsForeseeable ==
    ASSUME WaitsAreNatural, BudgetsAreIntegers
    PROVE  Spec => []SettingsTellExpulsion
<1> DEFINE Said == \A m \in Members : Foreseen(m)
<1>1. Init => Said
  BY DEF Init, Foreseen
<1>2. WaitsAreNatural /\ BudgetsAreIntegers /\ GroupInv /\ Said /\ [Next]_vars => Said'
  BY ForeseenStep
<1>3. WaitsAreNatural /\ BudgetsAreIntegers /\ GroupInv /\ Said => SettingsTellExpulsion
  <2> SUFFICES ASSUME WaitsAreNatural, BudgetsAreIntegers, GroupInv, Said,
                      NEW m \in Members, member[m] = "expelled"
               PROVE  \E h \in HandlerWaits, w \in Waits, r \in SendDelays :
                         HeartbeatIntervalMs + h + w + r >= SessionTimeoutMs
    BY DEF SettingsTellExpulsion, Waits
  <2>0. /\ HeartbeatIntervalMs \in Nat /\ HandlerWaits \subseteq Nat /\ SendDelays \subseteq Nat
        /\ Waits \subseteq Nat /\ silent[m] \in Nat
        /\ SessionTimeoutMs \in Nat /\ HeartbeatIntervalMs < SessionTimeoutMs
    BY WaitTypes, WaitsType DEF GroupInv, HandsOK
  <2>1. silent[m] >= SessionTimeoutMs
    BY DEF GroupInv, Session, Overstayed
  <2>2. phase[m] \in {"sleeping", "done"}
    BY <2>0, <2>1 DEF GroupInv, Session, HandsOK
  <2>3. CASE phase[m] = "sleeping"
    <3>1. PICK h \in HandlerWaits, w \in Waits : silent[m] <= HeartbeatIntervalMs + h + w
      BY <2>3 DEF Foreseen
    <3>2. PICK r \in SendDelays : TRUE
      BY <3>1 DEF HandlerWaits
    <3>3. HeartbeatIntervalMs + h + w + r >= SessionTimeoutMs
      BY <2>0, <2>1, <3>1, <3>2
    <3> QED
      BY <3>3
  <2>4. CASE phase[m] = "done"
    <3>1. PICK h \in HandlerWaits, w \in Waits, r \in SendDelays :
             silent[m] <= HeartbeatIntervalMs + h + w + r
      BY <2>4 DEF Foreseen
    <3>2. HeartbeatIntervalMs + h + w + r >= SessionTimeoutMs
      BY <2>0, <2>1, <3>1
    <3> QED
      BY <3>2
  <2> QED
    BY <2>2, <2>3, <2>4
<1> HIDE DEF Said
<1> QED
  BY <1>1, <1>2, <1>3, GroupInvInit, GroupInvStep, PTL DEF Spec

(* Being through with a record is never forgotten. *)
LEMMA FinishedGrows ==
    ASSUME [Next]_vars
    PROVE  finished \subseteq finished'
<1>1. ASSUME NEW m \in Members, Start(m) \/ Restart(m) \/ Expel(m) \/ Crash(m) PROVE finished' = finished
  BY <1>1 DEF Start, Restart, Expel, Crash
<1>2. ASSUME NEW m \in Members, Work(m) PROVE finished \subseteq finished'
  <2>1. CASE Finish(m)
    BY <2>1 DEF Finish
  <2>2. CASE ~Finish(m)
    BY <1>2, <2>2, Zenon DEF Work, Take, HandlerReturns, HandlerThrowsLast, HandlerThrows, Republish
  <2> QED
    BY <2>1, <2>2
<1>3. ASSUME NEW g \in Groups, Rebalance(g) \/ \E p \in Partitions : AutoCommit(g, p)
      PROVE  finished' = finished
  BY <1>3 DEF Rebalance, AutoCommit
<1>4. KafkaInit \/ SetTopicPartitions => finished' = finished
  BY DEF KafkaInit, SetTopicPartitions
<1>5. (\E pr \in Producers : RefreshMetadata(pr)) \/ (\E o \in Orders : PublishOrder(o)) => finished' = finished
  BY DEF RefreshMetadata, PublishOrder
<1>6. UNCHANGED vars => finished' = finished
  BY DEF vars
<1> QED
  BY <1>1, <1>2, <1>3, <1>4, <1>5, <1>6 DEF Next

(* Only a resolved record or a new owner moves a position. *)
LEMMA WhoMovesPositions ==
    ASSUME [Next]_vars, position' # position
    PROVE  (\E m \in Members : Finish(m)) \/ (\E g \in Groups : Rebalance(g))
<1> USE DEF groupVars
<1>1. ASSUME NEW m \in Members, Start(m) \/ Restart(m) \/ Expel(m) \/ Crash(m) PROVE position' = position
  BY <1>1 DEF Start, Restart, Expel, Crash
<1>2. ASSUME NEW m \in Members, Work(m), ~Finish(m) PROVE position' = position
  BY <1>2, Zenon DEF Work, Take, HandlerReturns, HandlerThrowsLast, HandlerThrows, Republish
<1>3. ASSUME NEW g \in Groups, NEW p \in Partitions, AutoCommit(g, p) PROVE position' = position
  BY <1>3 DEF AutoCommit
<1>4. KafkaInit \/ SetTopicPartitions => position' = position
  BY DEF KafkaInit, SetTopicPartitions
<1>5. (\E pr \in Producers : RefreshMetadata(pr)) \/ (\E o \in Orders : PublishOrder(o)) => position' = position
  BY DEF RefreshMetadata, PublishOrder
<1>6. UNCHANGED vars => position' = position
  BY DEF vars
<1> QED
  BY <1>1, <1>2, <1>3, <1>4, <1>5, <1>6 DEF Next

(* What may be lost in a step, and where. *)
LEMMA LossNeedsNoOffset ==
    ASSUME GroupInv, [Next]_vars, NEW g \in Groups, NEW p \in Partitions, NEW k \in Offsets,
           <<g, p, k>> \in Lost(g)', <<g, p, k>> \notin Lost(g)
    PROVE  ~env.fromBeginning /\ committed[g][p] = NoOffset
<1>0. k \in Nat /\ position[g][p] \in Nat /\ partitions \in Nat /\ p \in Nat
  BY GroupAssumption DEF GroupInv, MembersOK, TopicOK, Offsets, Partitions
<1>1. k <= position'[g][p] /\ <<g, p, k>> \notin finished'
  BY DEF Lost
<1>2. ~(k <= position[g][p])
  BY <1>1, FinishedGrows DEF Lost
<1>3. CASE \E m \in Members : Finish(m)
  <2>1. PICK m \in Members : Finish(m)
    BY <1>3
  <2>2. phase[m] = "done" /\ member[m] = "in"
        /\ position' = [position EXCEPT ![GroupOf(m)][holding[m].partition] = holding[m].offset]
    <3>1. CASE member[m] # "in"
      <4>1. position' = position
        BY <2>1, <3>1 DEF Finish
      <4> QED
        BY <1>1, <1>2, <4>1
    <3> QED
      BY <2>1, <3>1 DEF Finish
  <2>3. /\ holding[m].offset = position[GroupOf(m)][holding[m].partition] + 1
        /\ position'[g][p] = IF g = GroupOf(m) /\ p = holding[m].partition
                             THEN position[g][p] + 1 ELSE position[g][p]
    <3>1. PICK h \in Groups, q \in Partitions, n \in Nat :
             h = GroupOf(m) /\ q = holding[m].partition /\ n = holding[m].offset
      BY <2>2, GroupOfType DEF GroupInv, HandsOK
    <3>2. phase[m] # "idle" /\ member[m] = "in" /\ position' = [position EXCEPT ![h][q] = n]
      BY <2>2, <3>1
    <3>3. /\ holding[m].offset = position[h][q] + 1
          /\ \A i \in Groups : \A j \in Partitions :
                position'[i][j] = IF i = h /\ j = q THEN position[h][q] + 1 ELSE position[i][j]
      <4>1. n = position[h][q] + 1 /\ position \in [Groups -> [Partitions -> Nat]]
        BY <2>2, <3>1, <3>2 DEF GroupInv, MembersOK, HandsOK, Session
      <4> QED
        BY <3>1, <3>2, <4>1
    <3>4. position'[g][p] = IF g = h /\ p = q THEN position[g][p] + 1 ELSE position[g][p]
      BY <3>3
    <3> QED
      BY <3>1, <3>3, <3>4
  <2>4. g = GroupOf(m) /\ p = holding[m].partition /\ k = holding[m].offset
    BY <1>0, <1>1, <1>2, <2>3
  <2> QED
    BY <1>1, <2>1, <2>4 DEF Finish
<1>4. CASE \E h \in Groups : Rebalance(h)
  <2>1. PICK h \in Groups : Rebalance(h)
    BY <1>4
  <2>2. h = g /\ p <= partitions /\ position'[g][p] = StartingOffset(g, p)
    BY <1>0, <1>1, <1>2, <2>1, RebalanceDeals
  <2>3. committed[g][p] # NoOffset => committed[g][p] <= position[g][p]
    BY DEF GroupInv, OffsetsKept
  <2>4. committed[g][p] = NoOffset
    BY <1>0, <1>1, <1>2, <2>2, <2>3, StartingOffsetType
  <2>5. ~env.fromBeginning
    BY <1>0, <1>1, <1>2, <2>2, <2>4 DEF StartingOffset
  <2> QED
    BY <2>4, <2>5
<1> QED
  BY <1>1, <1>2, <1>3, <1>4, WhoMovesPositions

(***************************************************************************)
(* A record is lost to a group only in a partition without a committed     *)
(* offset, and never when the group subscribed from the beginning: crash,  *)
(* expulsion, rebalance and growth of the topic lose nothing committed.    *)
(***************************************************************************)
THEOREM NothingCommittedIsLost ==
    ASSUME WaitsAreNatural
    PROVE  Spec => NoLossOnceCommitted
<1> DEFINE Kept == \A g \in Groups : \A r \in Lost(g)' \ Lost(g) :
              ~env.fromBeginning /\ committed[g][r[2]] = NoOffset
<1>1. GroupInv /\ [Next]_vars => [Kept]_vars
  <2> SUFFICES ASSUME GroupInv, [Next]_vars, NEW g \in Groups, NEW r \in Lost(g)' \ Lost(g)
               PROVE  ~env.fromBeginning /\ committed[g][r[2]] = NoOffset
    OBVIOUS
  <2>1. r \in {g} \X Partitions \X Offsets
    BY DEF Lost
  <2>2. PICK p \in Partitions, k \in Offsets : r = <<g, p, k>>
    BY <2>1
  <2> QED
    BY <2>2, LossNeedsNoOffset
<1> HIDE DEF Kept
<1>2. Spec => [][Kept]_vars
  BY <1>1, GroupInvInit, GroupInvStep, PTL DEF Spec
<1> QED
  BY <1>2 DEF NoLossOnceCommitted, Kept
==============================================================================
