------------------------- MODULE RetryExecutorProofs -------------------------
(***************************************************************************)
(* Proofs about RetryExecutor, for any set of groups and events, any       *)
(* attempt budget and any number of faults.                                *)
(***************************************************************************)
EXTENDS RetryExecutor, CountingProofs, FiniteSetTheorems, TLAPS

(* What appending one record changes: nothing before it, one record after. *)
LEMMA AppendRecord ==
    ASSUME NEW s \in Seq(Record), NEW r \in Record
    PROVE  /\ Append(s, r) \in Seq(Record)
           /\ Len(Append(s, r)) = Len(s) + 1
           /\ \A k \in 1..Len(s) : Append(s, r)[k] = s[k]
           /\ Append(s, r)[Len(s) + 1] = r
OBVIOUS

(* A member that is not idle has a record in its hands. *)
LEMMA CurrentIsRecord ==
    ASSUME TypeOK, NEW g \in Groups, phase[g] # "idle"
    PROVE  /\ position[g] \in Nat
           /\ position[g] + 1 \in 1..Len(log)
           /\ Current(g) \in Record
           /\ Current(g).event \in Events
           /\ Current(g).retryCount \in Nat
           /\ NextAttempt(g) \in Nat
           /\ [event |-> Current(g).event, retryCount |-> NextAttempt(g)] \in Record
<1>1. position[g] \in Nat /\ position[g] < Len(log) /\ Len(log) \in Nat
  BY DEF TypeOK
<1>2. position[g] + 1 \in 1..Len(log)
  BY <1>1
<1>3. Current(g) \in Record
  BY <1>2 DEF TypeOK, Current
<1> QED
  BY <1>1, <1>2, <1>3 DEF Record, NextAttempt

(* The set of republished records and dead letters a failed attempt may leave behind. *)
LEMMA RepublishType ==
    ASSUME TypeOK, NEW g \in Groups, phase[g] # "idle", Republish(g)
    PROVE  /\ log' \in Seq(Record)
           /\ Len(log') = Len(log) + 1
           /\ \A k \in 1..Len(log) : log'[k] = log[k]
           /\ log'[Len(log) + 1].event = Current(g).event
           /\ log'[Len(log) + 1].retryCount = Current(g).retryCount + 1
           /\ dlq' = dlq
<1> DEFINE r == [event |-> Current(g).event, retryCount |-> NextAttempt(g)]
<1>1. r \in Record
  BY CurrentIsRecord
<1>2. log' = Append(log, r) /\ dlq' = dlq
  BY DEF Republish
<1>3. log \in Seq(Record)
  BY DEF TypeOK
<1>4. r.event = Current(g).event /\ r.retryCount = Current(g).retryCount + 1
  BY DEF NextAttempt
<1> HIDE DEF r
<1> QED
  BY <1>1, <1>2, <1>3, <1>4, AppendRecord

(***************************************************************************)
(* Type correctness: no step leaves the declared ranges, no group resolves *)
(* past the end of the topic, and a busy member has a record in hand.      *)
(***************************************************************************)
THEOREM TypeCorrect == Spec => []TypeOK
<1> USE RetryAssumption
<1>1. Init => TypeOK
  BY DEF Init, TypeOK, Record, Phases
<1>2. TypeOK /\ [Next]_vars => TypeOK'
  <2> SUFFICES ASSUME TypeOK, [Next]_vars PROVE TypeOK'
    OBVIOUS
  <2>1. ASSUME NEW e \in Events, Produce(e) PROVE TypeOK'
    <3> DEFINE r == [event |-> e, retryCount |-> 0]
    <3>1. r \in Record
      BY DEF Record
    <3>2. log' = Append(log, r) /\ log \in Seq(Record)
      BY <2>1 DEF Produce, TypeOK
    <3> HIDE DEF r
    <3>3. log' \in Seq(Record) /\ Len(log') = Len(log) + 1 /\ Len(log) \in Nat
      BY <3>1, <3>2, AppendRecord
    <3> QED
      BY <2>1, <3>3 DEF Produce, TypeOK, historyVars
  <2>2. ASSUME NEW g \in Groups, Deliver(g) PROVE TypeOK'
    BY <2>2 DEF Deliver, TypeOK, brokerVars, historyVars, Phases
  <2>3. ASSUME NEW g \in Groups, HandlerReturns(g) PROVE TypeOK'
    <3>1. Current(g).event \in Events
      BY <2>3, CurrentIsRecord DEF HandlerReturns
    <3> QED
      BY <2>3, <3>1 DEF HandlerReturns, TypeOK, brokerVars, Phases
  <2>4. ASSUME NEW g \in Groups, HandlerThrows(g) PROVE TypeOK'
    <3>1. Current(g).event \in Events /\ Current(g).retryCount \in Nat
      BY <2>4, CurrentIsRecord DEF HandlerThrows
    <3> QED
      BY <2>4, <3>1 DEF HandlerThrows, TypeOK, brokerVars, Phases
  <2>16. ASSUME NEW g \in Groups, PrecheckThrows(g) PROVE TypeOK'
    BY <2>16 DEF PrecheckThrows, TypeOK, brokerVars, historyVars, Phases
  <2>5. ASSUME NEW g \in Groups, phase[g] = "failed", Republish(g)
        PROVE  /\ log' \in Seq(Record) /\ Len(log') >= Len(log) /\ Len(log) \in Nat
               /\ dlq' \subseteq [group : Groups, event : Events, attempt : Nat]
    <3>1. log' \in Seq(Record) /\ Len(log') = Len(log) + 1 /\ dlq' = dlq
      BY <2>5, RepublishType
    <3>2. /\ Len(log) \in Nat
          /\ dlq \subseteq [group : Groups, event : Events, attempt : Nat]
      BY DEF TypeOK
    <3> QED
      BY <3>1, <3>2
  <2>6. ASSUME NEW g \in Groups, phase[g] = "failed", PublishToDlq(g)
        PROVE  /\ log' = log
               /\ dlq' \subseteq [group : Groups, event : Events, attempt : Nat]
    <3>1. Current(g).event \in Events /\ NextAttempt(g) \in Nat
      BY <2>6, CurrentIsRecord
    <3>2. dlq \subseteq [group : Groups, event : Events, attempt : Nat]
      BY DEF TypeOK
    <3> QED
      BY <2>6, <3>1, <3>2 DEF PublishToDlq
  <2>7. ASSUME NEW g \in Groups, ScheduleRetry(g) PROVE TypeOK'
    <3>1. /\ log' \in Seq(Record) /\ Len(log') >= Len(log) /\ Len(log) \in Nat
          /\ dlq' \subseteq [group : Groups, event : Events, attempt : Nat]
      BY <2>7, <2>5 DEF ScheduleRetry
    <3> QED
      BY <2>7, <3>1 DEF ScheduleRetry, TypeOK, historyVars, Phases
  <2>8. ASSUME NEW g \in Groups, SendToDlq(g) PROVE TypeOK'
    BY <2>8, <2>6 DEF SendToDlq, TypeOK, historyVars, Phases
  <2>9. ASSUME NEW g \in Groups, PublishRejects(g) PROVE TypeOK'
    <3>1. /\ log' \in Seq(Record) /\ Len(log') >= Len(log) /\ Len(log) \in Nat
          /\ dlq' \subseteq [group : Groups, event : Events, attempt : Nat]
      BY <2>9, <2>5, <2>6 DEF PublishRejects, TypeOK
    <3> QED
      BY <2>9, <3>1 DEF PublishRejects, TypeOK, historyVars, Phases
  <2>10. ASSUME NEW g \in Groups, Resolve(g) PROVE TypeOK'
    <3>1. /\ position[g] \in Nat /\ position[g] < Len(log) /\ Len(log) \in Nat
      BY <2>10, CurrentIsRecord DEF Resolve, TypeOK
    <3>2. /\ position' \in [Groups -> Nat] /\ phase' \in [Groups -> Phases]
          /\ \A h \in Groups : committed[h] <= position'[h] /\ position'[h] <= Len(log)
          /\ \A h \in Groups : phase'[h] # "idle" => position'[h] < Len(log)
      BY <2>10, <3>1 DEF Resolve, TypeOK, Phases
    <3> QED
      BY <2>10, <3>2 DEF Resolve, TypeOK, brokerVars, historyVars
  <2>11. ASSUME NEW g \in Groups, DropEscaped(g) PROVE TypeOK'
    <3>1. Current(g).event \in Events
      BY <2>11, CurrentIsRecord DEF DropEscaped
    <3> QED
      BY <2>11, <3>1 DEF DropEscaped, TypeOK, brokerVars, Phases
  <2>12. ASSUME NEW g \in Groups, RedeliverEscaped(g) PROVE TypeOK'
    BY <2>12 DEF RedeliverEscaped, TypeOK, brokerVars, historyVars, Phases
  <2>13. ASSUME NEW g \in Groups, AutoCommit(g) PROVE TypeOK'
    BY <2>13 DEF AutoCommit, TypeOK, historyVars
  <2>14. ASSUME NEW g \in Groups, Crash(g) PROVE TypeOK'
    BY <2>14 DEF Crash, TypeOK, brokerVars, historyVars, Phases
  <2>15. CASE UNCHANGED vars
    BY <2>15 DEF TypeOK, vars
  <2> QED
    BY <2>1, <2>2, <2>3, <2>4, <2>7, <2>8, <2>9, <2>10, <2>11, <2>12, <2>13, <2>14, <2>15, <2>16
    DEF Next, RunHandler, Publish, Rejected
<1> QED
  BY <1>1, <1>2, PTL DEF Spec

------------------------------------------------------------------------------

(***************************************************************************)
(* What every step preserves: the topic only grows, and only by events     *)
(* that were there or that a producer adds; the histories only grow.       *)
(***************************************************************************)
LogGrows ==
    /\ Len(log') \in Nat
    /\ Len(log) <= Len(log')
    /\ \A k \in 1..Len(log) : log'[k] = log[k]
HistoryGrows ==
    /\ handled \subseteq handled'
    /\ lost \subseteq lost'
    /\ failed \subseteq failed'
    /\ dlq \subseteq dlq'

(* Records, dead letters and history are never taken back. *)
LEMMA StepGrows ==
    ASSUME TypeOK, [Next]_vars
    PROVE  LogGrows /\ HistoryGrows
<1>0. log \in Seq(Record) /\ Len(log) \in Nat
  BY DEF TypeOK
<1>1. log' = log => LogGrows
  BY <1>0 DEF LogGrows
<1>2. ASSUME NEW e \in Events, Produce(e) PROVE LogGrows /\ HistoryGrows
  <2>1. [event |-> e, retryCount |-> 0] \in Record
    BY DEF Record
  <2> QED
    BY <1>2, <2>1, <1>0, AppendRecord DEF Produce, LogGrows, HistoryGrows, historyVars
<1>3. ASSUME NEW g \in Groups, phase[g] = "failed", Republish(g)
      PROVE LogGrows /\ dlq' = dlq
  BY <1>3, <1>0, RepublishType DEF LogGrows
<1>4. ASSUME NEW g \in Groups, Publish(g) PROVE LogGrows /\ HistoryGrows
  BY <1>4, <1>3, <1>1 DEF Publish, ScheduleRetry, SendToDlq, PublishRejects, PublishToDlq,
     HistoryGrows, historyVars
<1>5. ASSUME NEW g \in Groups,
             \/ Deliver(g) \/ RunHandler(g) \/ Resolve(g)
             \/ Rejected(g) \/ AutoCommit(g) \/ Crash(g)
      PROVE  LogGrows /\ HistoryGrows
  BY <1>5, <1>1 DEF Deliver, RunHandler, HandlerReturns, HandlerThrows, PrecheckThrows, Resolve, Rejected,
     DropEscaped, RedeliverEscaped, AutoCommit, Crash, HistoryGrows, historyVars, brokerVars
<1>6. CASE UNCHANGED vars
  BY <1>6, <1>1 DEF vars, HistoryGrows
<1> QED
  BY <1>2, <1>4, <1>5, <1>6 DEF Next

(* What is settled stays settled, and a record ahead of an offset stays ahead of it. *)
LEMMA SettledStays ==
    ASSUME TypeOK, [Next]_vars, NEW g \in Groups, NEW e \in Events
    PROVE  /\ Settled(g, e) => Settled(g, e)'
           /\ Published(e) => Published(e)'
           /\ \A n, m \in Nat : Ahead(e, n) /\ m <= n => Ahead(e, m)'
<1>0. Len(log) \in Nat
  <2>1. log \in Seq(Record)
    BY DEF TypeOK
  <2> QED
    BY <2>1
<1>1. LogGrows /\ HistoryGrows /\ Len(log) \in Nat
  BY <1>0, StepGrows
<1>2. Settled(g, e) => Settled(g, e)'
  BY <1>1 DEF HistoryGrows, Settled, DeadLettered
<1>3. Published(e) => Published(e)'
  BY <1>1 DEF LogGrows, Published
<1>4. ASSUME NEW n \in Nat, NEW m \in Nat, Ahead(e, n), m <= n
      PROVE  Ahead(e, m)'
  <2>1. PICK k \in (n + 1)..Len(log) : log[k].event = e
    BY <1>4 DEF Ahead
  <2>2. k \in (m + 1)..Len(log') /\ log'[k] = log[k]
    BY <1>1, <1>4, <2>1 DEF LogGrows
  <2> QED
    BY <2>1, <2>2 DEF Ahead
<1> QED
  BY <1>2, <1>3, <1>4

(* The record in a member's hands does not change under it. *)
LEMMA CurrentStays ==
    ASSUME TypeOK, [Next]_vars, NEW g \in Groups, phase[g] # "idle",
           position'[g] = position[g]
    PROVE  Current(g)' = Current(g)
<1>1. position[g] + 1 \in 1..Len(log)
  BY CurrentIsRecord
<1> QED
  BY <1>1, StepGrows DEF LogGrows, Current

(* An event that a step publishes for the first time lies ahead of every offset. *)
LEMMA NewIsAhead ==
    ASSUME TypeOK, [Next]_vars, NEW e \in Events, Published(e)', ~Published(e)
    PROVE  \A n \in Nat : n <= Len(log) => Ahead(e, n)'
<1>1. LogGrows /\ Len(log) \in Nat
  BY StepGrows DEF TypeOK
<1>2. PICK k \in 1..Len(log') : log'[k].event = e
  BY DEF Published
<1>3. k \notin 1..Len(log)
  BY <1>1, <1>2 DEF LogGrows, Published
<1>4. ASSUME NEW n \in Nat, n <= Len(log) PROVE Ahead(e, n)'
  <2>1. k \in (n + 1)..Len(log')
    BY <1>1, <1>2, <1>3, <1>4 DEF LogGrows
  <2> QED
    BY <1>2, <2>1 DEF Ahead
<1> QED
  BY <1>4

------------------------------------------------------------------------------

(* A step that moves no member forward keeps NothingVanishes. *)
LEMMA StandingStillVanishesNothing ==
    ASSUME TypeOK, [Next]_vars, NothingVanishes,
           NEW g \in Groups, position'[g] \in Nat, position'[g] <= position[g]
    PROVE  \A e \in Interest[g] : Published(e)' => Settled(g, e)' \/ Ahead(e, position[g])'
<1> SUFFICES ASSUME NEW e \in Interest[g], Published(e)'
             PROVE  Settled(g, e)' \/ Ahead(e, position[g])'
  OBVIOUS
<1>1. e \in Events /\ position[g] \in Nat /\ position[g] <= Len(log)
  BY RetryAssumption DEF TypeOK
<1>2. CASE Published(e)
  <2>1. Settled(g, e) \/ Ahead(e, position[g])
    BY <1>2 DEF NothingVanishes
  <2> QED
    BY <1>1, <2>1, SettledStays
<1>3. CASE ~Published(e)
  <2>1. \A n \in Nat : n <= Len(log) => Ahead(e, n)'
    BY <1>1, <1>3, NewIsAhead
  <2>2. Len(log) \in Nat
    BY DEF TypeOK
  <2>3. position'[g] <= Len(log)
    BY <1>1, <2>2
  <2> QED
    BY <2>1, <2>3
<1> QED
  BY <1>2, <1>3

(* Moving past a record that is settled, or republished behind, keeps it too. *)
LEMMA MovingOnVanishesNothing ==
    ASSUME TypeOK, [Next]_vars, NothingVanishes, NEW g \in Groups,
           position[g] < Len(log), position'[g] = position[g] + 1, log' = log,
           NEW CONSTANT c, Current(g).event = c,
           c \in Interest[g] => Settled(g, c)' \/ Ahead(c, position[g] + 1)
    PROVE  \A e \in Interest[g] : Published(e)' => Settled(g, e)' \/ Ahead(e, position[g])'
<1> SUFFICES ASSUME NEW e \in Interest[g], Published(e)'
             PROVE  Settled(g, e)' \/ Ahead(e, position[g])'
  OBVIOUS
<1>1. e \in Events /\ position[g] \in Nat /\ Len(log) \in Nat
  BY RetryAssumption DEF TypeOK
<1>2. Published(e)
  BY DEF Published
<1>3. CASE Settled(g, e)
  BY <1>1, <1>3, SettledStays
<1>4. CASE Ahead(e, position[g])
  <2>1. PICK k \in (position[g] + 1)..Len(log) : log[k].event = e
    BY <1>4 DEF Ahead
  <2>2. CASE k = position[g] + 1
    <3>1. c = e
      BY <2>1, <2>2 DEF Current
    <3>2. Settled(g, e)' \/ Ahead(e, position[g] + 1)
      BY <3>1
    <3>3. ASSUME Ahead(e, position[g] + 1) PROVE Ahead(e, position[g])'
      <4>1. position[g] + 1 \in Nat /\ position'[g] \in Nat
        BY <1>1
      <4> QED
        BY <1>1, <3>3, <4>1, SettledStays
    <3> QED
      BY <3>2, <3>3
  <2>3. CASE k # position[g] + 1
    <3>1. k \in (position[g] + 1 + 1)..Len(log)
      BY <1>1, <2>1, <2>3
    <3>2. Ahead(e, position[g] + 1)
      BY <2>1, <3>1 DEF Ahead
    <3>3. position[g] + 1 \in Nat /\ position'[g] \in Nat
      BY <1>1
    <3> QED
      BY <1>1, <3>2, <3>3, SettledStays
  <2> QED
    BY <2>2, <2>3
<1>5. Settled(g, e) \/ Ahead(e, position[g])
  BY <1>2 DEF NothingVanishes
<1> QED
  BY <1>3, <1>4, <1>5

(* How far one step may move a member, and what it must have done before moving on. *)
LEMMA StepMoves ==
    ASSUME TypeOK, [Next]_vars, NEW g \in Groups
    PROVE  /\ position'[g] \in Nat
           /\ \/ position'[g] <= position[g]
              \/ Resolve(g)
              \/ DropEscaped(g)
<1>1. /\ position \in [Groups -> Nat] /\ committed \in [Groups -> Nat]
      /\ \A h \in Groups : committed[h] <= position[h]
  BY DEF TypeOK
<1>2. CASE position' = position
  BY <1>1, <1>2
<1>3. ASSUME NEW h \in Groups, Resolve(h) \/ DropEscaped(h)
      PROVE  /\ position'[g] \in Nat
             /\ position'[g] <= position[g] \/ Resolve(g) \/ DropEscaped(g)
  BY <1>1, <1>3 DEF Resolve, DropEscaped
<1>4. ASSUME NEW h \in Groups, Crash(h)
      PROVE  position'[g] \in Nat /\ position'[g] <= position[g]
  BY <1>1, <1>4 DEF Crash
<1>5. \/ position' = position
      \/ \E h \in Groups : Resolve(h) \/ DropEscaped(h) \/ Crash(h)
  BY DEF Next, vars, Produce, Deliver, RunHandler, HandlerReturns, HandlerThrows, PrecheckThrows, Publish,
     ScheduleRetry, SendToDlq, PublishRejects, Rejected, RedeliverEscaped, AutoCommit
<1> QED
  BY <1>2, <1>3, <1>4, <1>5

(* A step keeps NothingVanishes ... *)
LEMMA NothingVanishesStep ==
    ASSUME TypeOK, [Next]_vars, VanishInv
    PROVE  NothingVanishes'
<1> SUFFICES ASSUME NEW g \in Groups
             PROVE  \A e \in Interest[g] :
                        Published(e)' => Settled(g, e)' \/ Ahead(e, position[g])'
  BY DEF NothingVanishes
<1>0. position \in [Groups -> Nat] /\ position'[g] \in Nat /\ NothingVanishes
  BY StepMoves DEF TypeOK, VanishInv
<1>1. CASE position'[g] <= position[g]
  BY <1>0, <1>1, StandingStillVanishesNothing
<1>2. CASE Resolve(g)
  <2>1. /\ position'[g] = position[g] + 1 /\ log' = log
        /\ phase[g] = "done" /\ position[g] < Len(log)
    BY <1>0, <1>2 DEF Resolve, TypeOK, brokerVars
  <2>2. PICK c : Current(g).event = c
    OBVIOUS
  <2>3. ASSUME c \in Interest[g]
        PROVE  Settled(g, c)' \/ Ahead(c, position[g] + 1)
    <3>1. Settled(g, c) \/ Ahead(c, position[g] + 1)
      BY <2>1, <2>2, <2>3 DEF VanishInv, DoneIsSettled
    <3>2. c \in Events
      BY <2>3, RetryAssumption
    <3> QED
      BY <3>1, <3>2, SettledStays
  <2> QED
    BY <1>0, <2>1, <2>2, <2>3, MovingOnVanishesNothing
<1>3. CASE DropEscaped(g)
  <2>1. /\ position'[g] = position[g] + 1 /\ log' = log
        /\ position[g] < Len(log)
    BY <1>0, <1>3 DEF DropEscaped, TypeOK, brokerVars
  <2>2. PICK c : Current(g).event = c
    OBVIOUS
  <2>3. Settled(g, c)'
    BY <1>3, <2>2 DEF DropEscaped, Settled
  <2> QED
    BY <1>0, <2>1, <2>2, <2>3, MovingOnVanishesNothing
<1> QED
  BY <1>1, <1>2, <1>3, StepMoves

(* A member that was done keeps its right to move on. *)
LEMMA StillDone ==
    ASSUME TypeOK, [Next]_vars, DoneIsSettled, NEW g \in Groups,
           phase[g] = "done", position'[g] = position[g], NEW c,
           Current(g)' = Current(g), Current(g).event = c, c \in Interest[g]
    PROVE  Settled(g, c)' \/ Ahead(c, position[g] + 1)'
<1>1. c \in Events /\ position[g] \in Nat
  BY RetryAssumption DEF TypeOK
<1>2. Settled(g, c) \/ Ahead(c, position[g] + 1)
  BY DEF DoneIsSettled
<1>3. position[g] + 1 \in Nat
  BY <1>1
<1>4. ASSUME Ahead(c, position[g] + 1) PROVE Ahead(c, position[g] + 1)'
  <2>1. PICK n \in Nat : n = position[g] + 1
    BY <1>3
  <2>2. Ahead(c, n)'
    BY <1>1, <1>4, <2>1, SettledStays
  <2> QED
    BY <2>1, <2>2
<1> QED
  BY <1>1, <1>2, <1>4, SettledStays

(* A member becomes done only with its record skipped, handled, dead-lettered or republished. *)
LEMMA BecomesDone ==
    ASSUME TypeOK, [Next]_vars, NEW g \in Groups,
           phase[g] # "done", phase'[g] = "done", NEW c, Current(g).event = c
    PROVE  /\ position'[g] = position[g]
           /\ position[g] < Len(log)
           /\ Current(g)' = Current(g)
           /\ c \in Interest[g] => Settled(g, c)' \/ Ahead(c, position[g] + 1)'
<1>0. /\ log \in Seq(Record) /\ Len(log) \in Nat
      /\ position \in [Groups -> Nat] /\ phase \in [Groups -> Phases]
      /\ phase[g] # "idle" => position[g] < Len(log)
  BY DEF TypeOK
<1>1. \/ Deliver(g)
      \/ HandlerReturns(g)
      \/ ScheduleRetry(g)
      \/ SendToDlq(g)
  <2>1. ASSUME NEW h \in Groups, phase' = [phase EXCEPT ![h] = "done"] PROVE h = g
    BY <1>0, <2>1
  <2>2. ASSUME NEW h \in Groups, NEW q, q # "done", phase' = [phase EXCEPT ![h] = q]
        PROVE FALSE
    BY <1>0, <2>2
  <2>3. phase' # phase
    OBVIOUS
  <2>4. ASSUME NEW h \in Groups, HandlerThrows(h) \/ PrecheckThrows(h) \/ PublishRejects(h) \/ Resolve(h)
                                 \/ Rejected(h) \/ Crash(h) \/ AutoCommit(h)
        PROVE  FALSE
    BY <2>2, <2>3, <2>4 DEF HandlerThrows, PrecheckThrows, PublishRejects, Resolve, Rejected, DropEscaped,
       RedeliverEscaped, Crash, AutoCommit
  <2>5. ASSUME NEW h \in Groups, Deliver(h) PROVE h = g
    BY <1>0, <2>5 DEF Deliver
  <2>6. ASSUME NEW h \in Groups, HandlerReturns(h) \/ ScheduleRetry(h) \/ SendToDlq(h)
        PROVE  h = g
    BY <2>1, <2>6 DEF HandlerReturns, ScheduleRetry, SendToDlq
  <2>7. \/ \E h \in Groups : \/ HandlerThrows(h) \/ PrecheckThrows(h) \/ PublishRejects(h) \/ Resolve(h)
                             \/ Rejected(h) \/ Crash(h) \/ AutoCommit(h)
        \/ \E h \in Groups : Deliver(h) \/ HandlerReturns(h) \/ ScheduleRetry(h) \/ SendToDlq(h)
    BY <2>3 DEF Next, vars, Produce, RunHandler, Publish
  <2> QED
    BY <2>4, <2>5, <2>6, <2>7
<1>2. position' = position /\ position[g] < Len(log)
  BY <1>0, <1>1 DEF Deliver, HandlerReturns, ScheduleRetry, SendToDlq
<1>3. Current(g)' = Current(g)
  <2>1. LogGrows
    BY StepGrows
  <2> QED
    BY <1>0, <1>2, <2>1 DEF LogGrows, Current
<1>4. CASE Deliver(g)
  <2>1. c \notin Interest[g]
    BY <1>0, <1>4 DEF Deliver
  <2> QED
    BY <1>2, <1>3, <2>1
<1>5. CASE HandlerReturns(g)
  <2>1. Settled(g, c)'
    BY <1>5 DEF HandlerReturns, Settled
  <2> QED
    BY <1>2, <1>3, <2>1
<1>6. CASE SendToDlq(g)
  <2>1. DeadLettered(g, c)'
    <3> DEFINE d == [group |-> g, event |-> Current(g).event, attempt |-> NextAttempt(g)]
    <3>1. d \in dlq' /\ d.group = g /\ d.event = c
      BY <1>6 DEF SendToDlq, PublishToDlq
    <3> QED
      BY <3>1 DEF DeadLettered
  <2> QED
    BY <1>2, <1>3, <2>1 DEF Settled
<1>7. CASE ScheduleRetry(g)
  <2>1. /\ Len(log') = Len(log) + 1
        /\ log'[Len(log) + 1].event = c
    BY <1>7, RepublishType DEF ScheduleRetry
  <2>2. Len(log) + 1 \in (position[g] + 1 + 1)..Len(log')
    BY <1>0, <1>2, <2>1
  <2>3. Ahead(c, position[g] + 1)'
    BY <1>2, <2>1, <2>2 DEF Ahead
  <2> QED
    BY <1>2, <1>3, <2>3
<1> QED
  BY <1>1, <1>4, <1>5, <1>6, <1>7

(* ... and keeps every member that is done entitled to move on. *)
LEMMA DoneIsSettledStep ==
    ASSUME TypeOK, [Next]_vars, VanishInv
    PROVE  DoneIsSettled'
<1> SUFFICES ASSUME NEW g \in Groups, phase'[g] = "done", Current(g)'.event \in Interest[g]
             PROVE  \/ Settled(g, Current(g).event)'
                    \/ Ahead(Current(g).event, position[g] + 1)'
  BY DEF DoneIsSettled
<1>1. PICK c : Current(g).event = c
  OBVIOUS
<1>2. CASE phase[g] = "done"
  <2>1. position'[g] = position[g]
    <3>1. phase \in [Groups -> Phases] /\ position \in [Groups -> Nat]
      BY DEF TypeOK
    <3> QED
      BY <1>2, <3>1 DEF Next, vars, Produce, Deliver, RunHandler, HandlerReturns, HandlerThrows, PrecheckThrows,
         Publish, ScheduleRetry, SendToDlq, PublishRejects, Resolve, Rejected, DropEscaped,
         RedeliverEscaped, AutoCommit, Crash
  <2>2. Current(g)' = Current(g)
    BY <1>2, <2>1, CurrentStays
  <2>3. Settled(g, c)' \/ Ahead(c, position[g] + 1)'
    BY <1>1, <1>2, <2>1, <2>2, StillDone DEF VanishInv
  <2>4. Current(g)'.event = c
    BY <1>1, <2>2
  <2> QED
    BY <2>3, <2>4
<1>3. CASE phase[g] # "done"
  <2>1. /\ Current(g)' = Current(g)
        /\ c \in Interest[g] => Settled(g, c)' \/ Ahead(c, position[g] + 1)'
    BY <1>1, <1>3, BecomesDone
  <2>2. Current(g)'.event = c
    BY <1>1, <2>1
  <2> QED
    BY <2>1, <2>2
<1> QED
  BY <1>2, <1>3

(***************************************************************************)
(* No event vanishes: what a group has moved past is handled, dead-        *)
(* lettered, dropped by an escaped error, or still ahead as a copy.        *)
(***************************************************************************)
THEOREM VanishingNothing == Spec => []NothingVanishes
<1>1. Init => VanishInv
  BY DEF Init, VanishInv, NothingVanishes, DoneIsSettled, Published
<1>2. TypeOK /\ VanishInv /\ [Next]_vars => VanishInv'
  BY NothingVanishesStep, DoneIsSettledStep DEF VanishInv
<1>3. VanishInv => NothingVanishes
  BY DEF VanishInv
<1> QED
  BY <1>1, <1>2, <1>3, TypeCorrect, PTL DEF Spec

------------------------------------------------------------------------------

(* The records of the next topic are those of this one, a new event, or one republished. *)
LEMMA NextRecords ==
    ASSUME TypeOK, [Next]_vars, NEW k \in 1..Len(log')
    PROVE  \/ k \in 1..Len(log) /\ log'[k] = log[k]
           \/ log'[k].retryCount = 0
           \/ \E g \in Groups : /\ phase[g] = "failed"
                               /\ log'[k].event = Current(g).event
                               /\ log'[k].retryCount = Current(g).retryCount + 1
<1>0. log \in Seq(Record) /\ Len(log) \in Nat
  BY DEF TypeOK
<1>1. CASE log' = log
  BY <1>1
<1>2. ASSUME NEW e \in Events, Produce(e)
      PROVE  \/ k \in 1..Len(log) /\ log'[k] = log[k]
             \/ log'[k].retryCount = 0
  <2> DEFINE r == [event |-> e, retryCount |-> 0]
  <2>1. r \in Record /\ r.retryCount = 0
    BY DEF Record
  <2>2. log' = Append(log, r)
    BY <1>2 DEF Produce
  <2> HIDE DEF r
  <2>3. /\ Len(log') = Len(log) + 1
        /\ \A n \in 1..Len(log) : log'[n] = log[n]
        /\ log'[Len(log) + 1] = r
    BY <1>0, <2>1, <2>2, AppendRecord
  <2> QED
    BY <1>0, <2>1, <2>3
<1>3. ASSUME NEW g \in Groups, phase[g] = "failed", Republish(g)
      PROVE  \/ k \in 1..Len(log) /\ log'[k] = log[k]
             \/ /\ log'[k].event = Current(g).event
                /\ log'[k].retryCount = Current(g).retryCount + 1
  <2>1. /\ Len(log') = Len(log) + 1
        /\ \A n \in 1..Len(log) : log'[n] = log[n]
        /\ log'[Len(log) + 1].event = Current(g).event
        /\ log'[Len(log) + 1].retryCount = Current(g).retryCount + 1
    BY <1>3, RepublishType
  <2> QED
    BY <1>0, <2>1
<1>4. \/ log' = log
      \/ \E e \in Events : Produce(e)
      \/ \E g \in Groups : phase[g] = "failed" /\ Republish(g)
  BY DEF Next, vars, Deliver, RunHandler, HandlerReturns, HandlerThrows, PrecheckThrows, Publish,
     ScheduleRetry, SendToDlq, PublishRejects, PublishToDlq, Resolve, Rejected, DropEscaped,
     RedeliverEscaped, AutoCommit, Crash, brokerVars
<1> QED
  BY <1>1, <1>2, <1>3, <1>4

(* A step keeps the trail of failures behind every header count ... *)
LEMMA RetryTrailStep ==
    ASSUME TypeOK, [Next]_vars, ExhaustedInv
    PROVE  RetryTrail'
<1> SUFFICES ASSUME NEW k \in 1..Len(log'), NEW c \in 0..(log'[k].retryCount - 1)
             PROVE  \E g \in Groups :
                        log'[k].event \in Fallible[g] /\ <<g, log'[k].event, c>> \in failed'
  BY DEF RetryTrail
<1>0. failed \subseteq failed'
  BY StepGrows DEF HistoryGrows
<1>1. CASE k \in 1..Len(log) /\ log'[k] = log[k]
  BY <1>0, <1>1 DEF ExhaustedInv, RetryTrail
<1>2. CASE log'[k].retryCount = 0
  BY <1>2
<1>3. ASSUME NEW g \in Groups, phase[g] = "failed",
             log'[k].event = Current(g).event,
             log'[k].retryCount = Current(g).retryCount + 1
      PROVE  \E h \in Groups :
                 log'[k].event \in Fallible[h] /\ <<h, log'[k].event, c>> \in failed'
  <2>1. /\ Current(g).event \in Fallible[g]
        /\ <<g, Current(g).event, Current(g).retryCount>> \in failed
    BY <1>3 DEF ExhaustedInv, FailedAttempt
  <2>2. position[g] + 1 \in 1..Len(log) /\ Current(g).retryCount \in Nat
    BY <1>3, CurrentIsRecord
  <2>3. CASE c = Current(g).retryCount
    BY <1>0, <1>3, <2>1, <2>3
  <2>4. CASE c # Current(g).retryCount
    <3>1. c \in 0..(Current(g).retryCount - 1)
      BY <1>3, <2>2, <2>4
    <3>2. \E h \in Groups :
             Current(g).event \in Fallible[h] /\ <<h, Current(g).event, c>> \in failed
      BY <2>2, <3>1 DEF ExhaustedInv, RetryTrail, Current
    <3> QED
      BY <1>0, <1>3, <3>2
  <2> QED
    BY <2>3, <2>4
<1> QED
  BY <1>1, <1>2, <1>3, NextRecords

(* ... records the attempt that has just failed ... *)
LEMMA FailedAttemptStep ==
    ASSUME TypeOK, [Next]_vars, FailedAttempt
    PROVE  FailedAttempt'
<1> SUFFICES ASSUME NEW g \in Groups, phase'[g] = "failed"
             PROVE  /\ Current(g)'.event \in Fallible[g]
                    /\ <<g, Current(g)'.event, Current(g)'.retryCount>> \in failed'
  BY DEF FailedAttempt
<1>0. /\ phase \in [Groups -> Phases] /\ position \in [Groups -> Nat]
      /\ failed \subseteq failed'
  BY StepGrows DEF TypeOK, HistoryGrows
<1>1. CASE phase[g] = "failed"
  <2>1. position'[g] = position[g]
    BY <1>0, <1>1 DEF Next, vars, Produce, Deliver, RunHandler, HandlerReturns, HandlerThrows, PrecheckThrows,
       Publish, ScheduleRetry, SendToDlq, PublishRejects, Resolve, Rejected, DropEscaped,
       RedeliverEscaped, AutoCommit, Crash
  <2>2. Current(g)' = Current(g)
    BY <1>1, <2>1, CurrentStays
  <2> QED
    BY <1>0, <1>1, <2>2 DEF FailedAttempt
<1>2. CASE phase[g] # "failed"
  <2>1. ASSUME NEW h \in Groups, NEW q, q # "failed", phase' = [phase EXCEPT ![h] = q]
        PROVE FALSE
    BY <1>0, <1>2, <2>1
  <2>2. phase' # phase
    BY <1>2
  <2>3. PICK h \in Groups : HandlerThrows(h)
    <3>1. ASSUME NEW h \in Groups, Deliver(h) PROVE FALSE
      BY <1>0, <1>2, <3>1 DEF Deliver
    <3>2. ASSUME NEW h \in Groups,
                 HandlerReturns(h) \/ PrecheckThrows(h) \/ Publish(h) \/ Resolve(h) \/ Rejected(h)
                    \/ AutoCommit(h) \/ Crash(h)
          PROVE FALSE
      BY <2>1, <2>2, <3>2 DEF HandlerReturns, PrecheckThrows, Publish, ScheduleRetry, SendToDlq,
         PublishRejects, Resolve, Rejected, DropEscaped, RedeliverEscaped, AutoCommit, Crash
    <3> QED
      BY <2>2, <3>1, <3>2 DEF Next, vars, RunHandler, Produce
  <2>4. h = g
    BY <1>0, <1>2, <2>3 DEF HandlerThrows
  <2>5. Current(g)' = Current(g)
    BY <2>3, <2>4 DEF HandlerThrows, Current, brokerVars
  <2> QED
    BY <2>3, <2>4, <2>5 DEF HandlerThrows
<1> QED
  BY <1>1, <1>2

(* ... and dead-letters only at the end of the trail, which one group has left. *)
LEMMA DeadLetterStep ==
    ASSUME TypeOK, [Next]_vars, ExhaustedInv, OneFallibleGroupPerEvent
    PROVE  DeadLetterMeansExhausted'
<1> SUFFICES ASSUME NEW d \in dlq', NEW c \in 0..(MaxAttempts - 1)
             PROVE  <<d.group, d.event, c>> \in failed'
  BY DEF DeadLetterMeansExhausted
<1>0. failed \subseteq failed'
  BY StepGrows DEF HistoryGrows
<1>1. CASE d \in dlq
  BY <1>0, <1>1 DEF ExhaustedInv, DeadLetterMeansExhausted
<1>2. ASSUME NEW g \in Groups, phase[g] = "failed", Exhausted(g), PublishToDlq(g), d \notin dlq
      PROVE  <<d.group, d.event, c>> \in failed
  <2>1. d.group = g /\ d.event = Current(g).event
    BY <1>2 DEF PublishToDlq
  <2>2. position[g] + 1 \in 1..Len(log) /\ Current(g).retryCount \in Nat
    BY <1>2, CurrentIsRecord
  <2>3. c \in 0..Current(g).retryCount
    BY <1>2, <2>2, RetryAssumption
       DEF Exhausted, GoesToDlq, ShouldSendToDlq, ShouldRetry, NextAttempt
  <2>4. /\ Current(g).event \in Fallible[g]
        /\ <<g, Current(g).event, Current(g).retryCount>> \in failed
    BY <1>2 DEF ExhaustedInv, FailedAttempt
  <2>5. CASE c = Current(g).retryCount
    BY <2>1, <2>4, <2>5
  <2>6. CASE c # Current(g).retryCount
    <3>1. c \in 0..(Current(g).retryCount - 1)
      BY <2>2, <2>3, <2>6
    <3>2. PICK h \in Groups :
             Current(g).event \in Fallible[h] /\ <<h, Current(g).event, c>> \in failed
      BY <2>2, <3>1 DEF ExhaustedInv, RetryTrail, Current
    <3> QED
      BY <2>1, <2>4, <3>2 DEF OneFallibleGroupPerEvent
  <2> QED
    BY <2>5, <2>6
<1>3. \/ dlq' = dlq
      \/ \E g \in Groups : phase[g] = "failed" /\ Exhausted(g) /\ PublishToDlq(g)
  BY DEF Next, vars, Produce, Deliver, RunHandler, HandlerReturns, HandlerThrows, PrecheckThrows, Publish,
     ScheduleRetry, SendToDlq, PublishRejects, Republish, Resolve, Rejected, DropEscaped,
     RedeliverEscaped, AutoCommit, Crash, brokerVars
<1> QED
  BY <1>0, <1>1, <1>2, <1>3

(***************************************************************************)
(* Where one group can fail on an event, a dead letter was earned: its own *)
(* handler threw on the event at every attempt of the budget.              *)
(***************************************************************************)
THEOREM DeadLettersAreEarned ==
    ASSUME OneFallibleGroupPerEvent
    PROVE  Spec => []DeadLetterMeansExhausted
<1>1. Init => ExhaustedInv
  BY DEF Init, ExhaustedInv, RetryTrail, FailedAttempt, DeadLetterMeansExhausted
<1>2. TypeOK /\ ExhaustedInv /\ [Next]_vars => ExhaustedInv'
  BY RetryTrailStep, FailedAttemptStep, DeadLetterStep DEF ExhaustedInv
<1>3. ExhaustedInv => DeadLetterMeansExhausted
  BY DEF ExhaustedInv
<1> QED
  BY <1>1, <1>2, <1>3, TypeCorrect, PTL DEF Spec

------------------------------------------------------------------------------
(***************************************************************************)
(* The retry storm is bounded.  The argument counts the copies of an event *)
(* per header count and, for the one group that can fail on it, those the  *)
(* group still has in front of it.                                         *)
(***************************************************************************)

(* How the budget grows with a header count, and with a fault. *)
LEMMA Budget ==
    ASSUME faults \in Nat, NEW c \in Nat
    PROVE  /\ Pascal[faults][c] \in Nat /\ ReplaysOf(c) \in Nat
           /\ Pascal[faults][0] = 1
           /\ Pascal[faults][c] + ReplaysOf(c) = Pascal[faults][c + 1]
           /\ Pascal[faults][c] <= Pascal[faults + 1][c]
           /\ ReplaysOf(c) + 1 <= Pascal[faults][c + 1]
<1>1. c + 1 \in Nat /\ faults + 1 \in Nat
  OBVIOUS
<1>2. /\ Pascal[faults][c] \in Nat /\ Pascal[faults][c] >= 1 /\ Pascal[faults][c + 1] \in Nat
      /\ Pascal[faults][c] <= Pascal[faults + 1][c]
  BY <1>1, PascalPositive, PascalGrows
<1>3. Pascal[faults][0] = 1
  BY PascalRule
<1>4. CASE faults = 0
  <2>1. Pascal[0][c] = 1 /\ Pascal[0][c + 1] = 1
    BY <1>1, PascalRule
  <2>2. ReplaysOf(c) = 0
    BY <1>4 DEF ReplaysOf
  <2> QED
    BY <1>2, <1>3, <1>4, <2>1, <2>2
<1>5. CASE faults # 0
  <2>1. faults - 1 \in Nat /\ (faults - 1) + 1 = faults
    BY <1>5
  <2>2. PICK i \in Nat : i = faults - 1 /\ i + 1 = faults
    BY <2>1
  <2>3. Pascal[i + 1][c + 1] = Pascal[i + 1][c] + Pascal[i][c + 1]
    BY <2>2, PascalRule
  <2>4. Pascal[i][c + 1] \in Nat
    BY <1>1, <2>2, PascalPositive
  <2>5. ReplaysOf(c) = Pascal[i][c + 1]
    BY <1>5, <2>2 DEF ReplaysOf
  <2> QED
    BY <1>2, <1>3, <2>2, <2>3, <2>4, <2>5
<1> QED
  BY <1>4, <1>5

(* The same seen from the next state. *)
LEMMA BudgetNext ==
    ASSUME faults \in Nat, faults' \in {faults, faults + 1}, NEW c \in Nat
    PROVE  /\ Pascal[faults'][c] \in Nat /\ ReplaysOf(c)' \in Nat
           /\ Pascal[faults][c] <= Pascal[faults'][c]
           /\ ReplaysOf(c) <= ReplaysOf(c)'
           /\ faults' = faults + 1 => ReplaysOf(c)' = Pascal[faults][c + 1]
<1>1. CASE faults' = faults
  <2>1. Pascal[faults'][c] = Pascal[faults][c] /\ ReplaysOf(c)' = ReplaysOf(c)
    BY <1>1 DEF ReplaysOf
  <2> QED
    BY <1>1, <2>1, Budget
<1>2. CASE faults' = faults + 1
  <2>1. ReplaysOf(c)' = Pascal[faults][c + 1]
    BY <1>2 DEF ReplaysOf
  <2>2. Pascal[faults + 1][c] \in Nat /\ Pascal[faults][c + 1] \in Nat
    BY PascalPositive
  <2> QED
    BY <1>2, <2>1, <2>2, Budget
<1> QED
  BY <1>1, <1>2

(* The copies of an event in a topic of finite length can be counted. *)
LEMMA CountedTo ==
    ASSUME NEW n \in Nat, NEW S \in SUBSET (1..n)
    PROVE  IsFiniteSet(S) /\ Cardinality(S) \in Nat
<1>1. IsFiniteSet(1..n)
  BY FS_Interval
<1>2. IsFiniteSet(S)
  BY <1>1, FS_Subset
<1> QED
  BY <1>2, FS_CardinalityType

(* So can those in front of a group, which are no more. *)
LEMMA CopiesCounted ==
    ASSUME log \in Seq(Record), NEW g, NEW e, NEW c
    PROVE  /\ IsFiniteSet(CopiesAt(e, c)) /\ Cardinality(CopiesAt(e, c)) \in Nat
           /\ IsFiniteSet(Waiting(g, e, c)) /\ Cardinality(Waiting(g, e, c)) \in Nat
           /\ Cardinality(Waiting(g, e, c)) <= Cardinality(CopiesAt(e, c))
<1>1. Len(log) \in Nat /\ CopiesAt(e, c) \in SUBSET (1..Len(log))
  BY DEF CopiesAt
<1>2. Waiting(g, e, c) \in SUBSET CopiesAt(e, c)
  BY DEF Waiting
<1>3. IsFiniteSet(CopiesAt(e, c)) /\ Cardinality(CopiesAt(e, c)) \in Nat
  BY <1>1, CountedTo
<1> QED
  BY <1>2, <1>3, FS_Subset, FS_CardinalityType

(* The same in the next state. *)
LEMMA CopiesCountedNext ==
    ASSUME log' \in Seq(Record), NEW g, NEW e, NEW c
    PROVE  /\ IsFiniteSet(CopiesAt(e, c)') /\ Cardinality(CopiesAt(e, c)') \in Nat
           /\ IsFiniteSet(Waiting(g, e, c)') /\ Cardinality(Waiting(g, e, c)') \in Nat
           /\ Cardinality(Waiting(g, e, c)') <= Cardinality(CopiesAt(e, c)')
<1>1. Len(log') \in Nat /\ CopiesAt(e, c)' \in SUBSET (1..Len(log'))
  BY DEF CopiesAt
<1>2. Waiting(g, e, c)' \in SUBSET CopiesAt(e, c)'
  BY DEF Waiting
<1>3. IsFiniteSet(CopiesAt(e, c)') /\ Cardinality(CopiesAt(e, c)') \in Nat
  BY <1>1, CountedTo
<1> QED
  BY <1>2, <1>3, FS_Subset, FS_CardinalityType

(* No record more: the copies stay, and those in front of a group that moves on shrink. *)
LEMMA StillWaiting ==
    ASSUME TypeOK, NEW g \in Groups, NEW e, NEW c, log' = log,
           \/ position'[g] = position[g] /\ (phase[g] = "done" => phase'[g] = "done")
           \/ position'[g] = position[g] + 1
    PROVE  /\ CopiesAt(e, c)' = CopiesAt(e, c)
           /\ Cardinality(Waiting(g, e, c)') <= Cardinality(Waiting(g, e, c))
<1>1. CopiesAt(e, c)' = CopiesAt(e, c)
  BY DEF CopiesAt
<1>2. position[g] \in Nat /\ log \in Seq(Record) /\ Len(log) \in Nat
  BY DEF TypeOK
<1>3. ASSUME NEW k \in Waiting(g, e, c)' PROVE k \in Waiting(g, e, c)
  <2>1. /\ k \in CopiesAt(e, c) /\ k > position'[g]
        /\ ~(k = position'[g] + 1 /\ phase'[g] = "done")
    BY <1>1, <1>3 DEF Waiting
  <2>2. k \in Nat
    BY <1>2, <2>1 DEF CopiesAt
  <2> QED
    BY <1>2, <2>1, <2>2 DEF Waiting
<1>4. IsFiniteSet(Waiting(g, e, c)) /\ Waiting(g, e, c)' \in SUBSET Waiting(g, e, c)
  BY <1>2, <1>3, CopiesCounted
<1> QED
  BY <1>1, <1>4, FS_Subset

(* One record more is one copy more at its event and count, and none anywhere else. *)
LEMMA OneMoreCopy ==
    ASSUME TypeOK, NEW r \in Record, log' = Append(log, r), NEW e, NEW c
    PROVE  /\ IF r.event = e /\ r.retryCount = c
                THEN CopiesAt(e, c)' = CopiesAt(e, c) \cup {Len(log) + 1}
                ELSE CopiesAt(e, c)' = CopiesAt(e, c)
           /\ Cardinality(CopiesAt(e, c)')
                = IF r.event = e /\ r.retryCount = c
                    THEN Cardinality(CopiesAt(e, c)) + 1 ELSE Cardinality(CopiesAt(e, c))
<1> DEFINE n == Len(log)
<1>1. log \in Seq(Record) /\ n \in Nat
  BY DEF TypeOK
<1>2. Len(log') = n + 1 /\ (\A k \in 1..n : log'[k] = log[k]) /\ log'[n + 1] = r
  BY <1>1, AppendRecord
<1> HIDE DEF n
<1>3. CopiesAt(e, c) = {k \in 1..n : log[k].event = e /\ log[k].retryCount = c}
  BY DEF CopiesAt, n
<1>4. CopiesAt(e, c)' = {k \in 1..(n + 1) : log'[k].event = e /\ log'[k].retryCount = c}
  BY <1>2 DEF CopiesAt
<1>5. \A k : k \in 1..(n + 1) <=> k \in 1..n \/ k = n + 1
  BY <1>1
<1>6. n + 1 \notin CopiesAt(e, c) /\ IsFiniteSet(CopiesAt(e, c))
  <2>1. n + 1 \notin CopiesAt(e, c)
    BY <1>1, <1>3
  <2> QED
    BY <1>1, <2>1, CopiesCounted
<1>7. CASE r.event = e /\ r.retryCount = c
  <2>1. CopiesAt(e, c)' = CopiesAt(e, c) \cup {n + 1}
    <3>1. n + 1 \in CopiesAt(e, c)'
      BY <1>2, <1>4, <1>5, <1>7
    <3>2. \A k \in 1..n : k \in CopiesAt(e, c)' <=> k \in CopiesAt(e, c)
      BY <1>2, <1>3, <1>4, <1>5
    <3>3. CopiesAt(e, c) \subseteq 1..n /\ CopiesAt(e, c)' \subseteq 1..(n + 1)
      BY <1>3, <1>4
    <3> QED
      BY <1>5, <3>1, <3>2, <3>3
  <2>2. Cardinality(CopiesAt(e, c) \cup {n + 1}) = Cardinality(CopiesAt(e, c)) + 1
    BY <1>6, FS_AddElement
  <2> QED
    BY <1>7, <2>1, <2>2 DEF n
<1>8. CASE ~(r.event = e /\ r.retryCount = c)
  <2>1. CopiesAt(e, c)' = CopiesAt(e, c)
    BY <1>2, <1>3, <1>4, <1>5, <1>8
  <2> QED
    BY <1>8, <2>1
<1> QED
  BY <1>7, <1>8

(* It lies in front of every group that stays where it is. *)
LEMMA OneMoreWaiting ==
    ASSUME TypeOK, NEW r \in Record, log' = Append(log, r), NEW e, NEW c, NEW g \in Groups,
           position'[g] = position[g], phase[g] = "done" => phase'[g] = "done"
    PROVE  Cardinality(Waiting(g, e, c)')
             <= IF r.event = e /\ r.retryCount = c
                  THEN Cardinality(Waiting(g, e, c)) + 1 ELSE Cardinality(Waiting(g, e, c))
<1> DEFINE W == Waiting(g, e, c)
           n == Len(log)
<1>1. log \in Seq(Record) /\ n \in Nat /\ position[g] \in Nat
  BY DEF TypeOK
<1>2. IsFiniteSet(W) /\ Cardinality(W) \in Nat
  BY <1>1, CopiesCounted
<1>3. \A k \in CopiesAt(e, c) : k \in W' => k \in W
  BY DEF Waiting
<1>4. W' \in SUBSET CopiesAt(e, c)'
  BY DEF Waiting
<1>5. CASE r.event = e /\ r.retryCount = c
  <2>1. CopiesAt(e, c)' = CopiesAt(e, c) \cup {n + 1}
    BY <1>5, OneMoreCopy
  <2>2. W' \in SUBSET (W \cup {n + 1})
    <3> HIDE DEF W
    <3> QED
      BY <1>3, <1>4, <2>1
  <2> HIDE DEF W, n
  <2>3. /\ IsFiniteSet(W \cup {n + 1})
        /\ Cardinality(W \cup {n + 1}) = IF n + 1 \in W THEN Cardinality(W) ELSE Cardinality(W) + 1
    BY <1>2, FS_AddElement
  <2>4. /\ IsFiniteSet(W') /\ Cardinality(W') <= Cardinality(W \cup {n + 1})
    BY <2>2, <2>3, FS_Subset
  <2>5. Cardinality(W') \in Nat
    BY <2>4, FS_CardinalityType
  <2>6. Cardinality(W') <= Cardinality(W) + 1
    BY <1>2, <2>3, <2>4, <2>5
  <2> QED
    BY <1>5, <2>6 DEF W
<1>6. CASE ~(r.event = e /\ r.retryCount = c)
  <2>1. CopiesAt(e, c)' = CopiesAt(e, c)
    BY <1>6, OneMoreCopy
  <2>2. W' \in SUBSET W
    <3> HIDE DEF W
    <3> QED
      BY <1>3, <1>4, <2>1
  <2> HIDE DEF W
  <2>3. Cardinality(W') <= Cardinality(W)
    BY <1>2, <2>2, FS_Subset
  <2> QED
    BY <1>6, <2>3 DEF W
<1> QED
  BY <1>5, <1>6

(* The group that republished the record in its hands has one less in front of it. *)
LEMMA OneLessWaiting ==
    ASSUME TypeOK, NEW r \in Record, log' = Append(log, r), NEW h \in Groups,
           position'[h] = position[h], phase[h] = "failed", phase'[h] = "done",
           NEW e, NEW c, e = Current(h).event, c = Current(h).retryCount,
           r.event = e, r.retryCount = c + 1
    PROVE  Cardinality(Waiting(h, e, c)') + 1 <= Cardinality(Waiting(h, e, c))
<1>1. /\ c \in Nat /\ position[h] \in Nat /\ position[h] + 1 \in 1..Len(log)
      /\ log \in Seq(Record)
  BY CurrentIsRecord DEF TypeOK
<1>2. PICK x : x = position[h] + 1
  OBVIOUS
<1>3. x \in Waiting(h, e, c)
  BY <1>1, <1>2 DEF Waiting, CopiesAt, Current
<1>4. CopiesAt(e, c)' = CopiesAt(e, c)
  <2>1. r.retryCount # c
    BY <1>1
  <2> QED
    BY <2>1, OneMoreCopy
<1>5. Waiting(h, e, c)' \in SUBSET (Waiting(h, e, c) \ {x})
  BY <1>2, <1>4 DEF Waiting
<1>6. IsFiniteSet(Waiting(h, e, c)) /\ Cardinality(Waiting(h, e, c)) \in Nat
  BY <1>1, CopiesCounted
<1> DEFINE W == Waiting(h, e, c)
           V == Waiting(h, e, c)'
<1> HIDE DEF W, V
<1>7. IsFiniteSet(W \ {x}) /\ Cardinality(W \ {x}) = Cardinality(W) - 1
  BY <1>3, <1>6, FS_RemoveElement DEF W
<1>8. IsFiniteSet(V) /\ Cardinality(V) <= Cardinality(W \ {x})
  BY <1>5, <1>7, FS_Subset DEF W, V
<1>9. Cardinality(V) \in Nat /\ Cardinality(W) \in Nat
  BY <1>6, <1>8, FS_CardinalityType DEF W
<1>10. Cardinality(V) + 1 <= Cardinality(W)
  BY <1>7, <1>8, <1>9
<1> QED
  BY <1>10 DEF V, W

(***************************************************************************)
(* The steps as the copies see them: a new event, a republish that ends    *)
(* with the record or with an escaped error, a crash, and the rest, which  *)
(* leave the topic as it is.                                               *)
(***************************************************************************)
Retried(h) ==
    /\ Current(h).event \in Fallible[h]
    /\ phase[h] = "failed"
    /\ ~Exhausted(h)
    /\ Republish(h)
    /\ position' = position
    /\ \/ phase' = [phase EXCEPT ![h] = "done"] /\ faults' = faults
       \/ phase' = [phase EXCEPT ![h] = "escaped"] /\ faults' = faults + 1

Quiet ==
    /\ log' = log
    /\ faults' \in {faults, faults + 1}
    /\ \A g \in Groups :
          \/ position'[g] = position[g] /\ (phase[g] = "done" => phase'[g] = "done")
          \/ position'[g] = position[g] + 1

(* Every step is one of them. *)
LEMMA StormSteps ==
    ASSUME TypeOK, FailedAttempt, [Next]_vars
    PROVE  \/ \E e \in Events : Produce(e)
           \/ \E h \in Groups : Retried(h)
           \/ \E h \in Groups : Crash(h)
           \/ Quiet
<1>1. /\ position \in [Groups -> Nat] /\ phase \in [Groups -> Phases]
      /\ faults \in Nat
  BY DEF TypeOK
<1>2. ASSUME NEW g \in Groups, Deliver(g) PROVE Quiet
  BY <1>1, <1>2 DEF Deliver, Quiet, brokerVars
<1>3. ASSUME NEW g \in Groups, RunHandler(g) PROVE Quiet
  BY <1>1, <1>3 DEF RunHandler, HandlerReturns, HandlerThrows, PrecheckThrows, Quiet, brokerVars, historyVars
<1>4. ASSUME NEW g \in Groups, ScheduleRetry(g) PROVE Retried(g)
  BY <1>4 DEF ScheduleRetry, Retried, FailedAttempt
<1>5. ASSUME NEW g \in Groups, SendToDlq(g) PROVE Quiet
  BY <1>1, <1>5 DEF SendToDlq, PublishToDlq, Quiet
<1>6. ASSUME NEW g \in Groups, PublishRejects(g) PROVE Quiet \/ Retried(g)
  <2>1. CASE log' = log
    BY <1>1, <1>6, <2>1 DEF PublishRejects, Quiet
  <2>2. CASE ~Exhausted(g) /\ Republish(g)
    BY <1>6, <2>2 DEF PublishRejects, Retried, FailedAttempt
  <2> QED
    BY <1>6, <2>1, <2>2 DEF PublishRejects, PublishToDlq
<1>7. ASSUME NEW g \in Groups, Resolve(g) PROVE Quiet
  BY <1>1, <1>7 DEF Resolve, Quiet, brokerVars
<1>8. ASSUME NEW g \in Groups, DropEscaped(g) \/ RedeliverEscaped(g) PROVE Quiet
  BY <1>1, <1>8 DEF DropEscaped, RedeliverEscaped, Quiet, brokerVars
<1>9. ASSUME NEW g \in Groups, AutoCommit(g) PROVE Quiet
  BY <1>1, <1>9 DEF AutoCommit, Quiet
<1>10. CASE UNCHANGED vars
  BY <1>1, <1>10 DEF Quiet, vars
<1> QED
  BY <1>2, <1>3, <1>4, <1>5, <1>6, <1>7, <1>8, <1>9, <1>10 DEF Next, Publish, Rejected

(* A step that leaves the topic alone leaves every count of copies within its budget. *)
LEMMA SameTopicStorm ==
    ASSUME TypeOK, StormInv, log' = log, faults' \in {faults, faults + 1}
    PROVE  CountsWithinBudget' /\ ProducedOnce' /\ CopiesBounded'
<1>1. \A e, c : CopiesAt(e, c)' = CopiesAt(e, c)
  BY DEF CopiesAt
<1>2. log \in Seq(Record) /\ faults \in Nat
  BY DEF TypeOK
<1>3. CountsWithinBudget'
  BY DEF StormInv, CountsWithinBudget, Attempts
<1>4. ProducedOnce'
  BY <1>1 DEF StormInv, ProducedOnce
<1>5. ASSUME NEW e \in Events, NEW c \in 0..Attempts
      PROVE  Cardinality(CopiesAt(e, c)') <= Pascal[faults'][c]
  <2>1. c \in Nat
    BY RetryAssumption DEF Attempts
  <2>2. Cardinality(CopiesAt(e, c)) <= Pascal[faults][c]
    BY DEF StormInv, CopiesBounded
  <2>3. Cardinality(CopiesAt(e, c)) \in Nat
    BY <1>2, CopiesCounted
  <2>4. /\ Pascal[faults][c] \in Nat /\ Pascal[faults'][c] \in Nat
        /\ Pascal[faults][c] <= Pascal[faults'][c]
    BY <1>2, <2>1, Budget, BudgetNext
  <2> QED
    BY <1>1, <2>2, <2>3, <2>4
<1>6. CopiesBounded'
  BY <1>5 DEF CopiesBounded, Attempts
<1> QED
  BY <1>3, <1>4, <1>6

(* Steps that leave the topic alone and lead nobody back. *)
LEMMA QuietStorm ==
    ASSUME TypeOK, TypeOK', StormInv, Quiet
    PROVE  StormInv'
<1>1. /\ log \in Seq(Record) /\ log' \in Seq(Record) /\ faults \in Nat
      /\ log' = log /\ faults' \in {faults, faults + 1}
  BY DEF TypeOK, Quiet
<1>2. ASSUME NEW g \in Groups, NEW e \in Fallible[g], NEW c \in 0..(Attempts - 1)
      PROVE  Cardinality(CopiesAt(e, c + 1)') + Cardinality(Waiting(g, e, c)')
               <= Cardinality(CopiesAt(e, c)') + ReplaysOf(c)'
  <2>1. c \in Nat /\ c + 1 \in Nat /\ e \in Events
    BY RetryAssumption DEF Attempts
  <2>2. Cardinality(CopiesAt(e, c + 1)) + Cardinality(Waiting(g, e, c))
          <= Cardinality(CopiesAt(e, c)) + ReplaysOf(c)
    BY DEF StormInv, RetriedFromWaiting
  <2>3. /\ CopiesAt(e, c + 1)' = CopiesAt(e, c + 1) /\ CopiesAt(e, c)' = CopiesAt(e, c)
        /\ Cardinality(Waiting(g, e, c)') <= Cardinality(Waiting(g, e, c))
    BY <2>1, StillWaiting DEF Quiet
  <2>4. /\ Cardinality(CopiesAt(e, c + 1)) \in Nat /\ Cardinality(CopiesAt(e, c)) \in Nat
        /\ Cardinality(Waiting(g, e, c)) \in Nat /\ Cardinality(Waiting(g, e, c)') \in Nat
    BY <1>1, CopiesCounted, CopiesCountedNext
  <2>5. ReplaysOf(c) \in Nat /\ ReplaysOf(c)' \in Nat /\ ReplaysOf(c) <= ReplaysOf(c)'
    BY <1>1, <2>1, Budget, BudgetNext
  <2> QED
    BY <2>2, <2>3, <2>4, <2>5
<1>3. RetriedFromWaiting'
  BY <1>2 DEF RetriedFromWaiting, Attempts
<1> QED
  BY <1>1, <1>3, SameTopicStorm DEF StormInv

(* A crash: whatever its group has in front of it now, the fault pays for. *)
LEMMA CrashStorm ==
    ASSUME TypeOK, TypeOK', StormInv, NEW h \in Groups, Crash(h)
    PROVE  StormInv'
<1>1. /\ log \in Seq(Record) /\ log' \in Seq(Record) /\ faults \in Nat
      /\ log' = log /\ faults' = faults + 1
  BY DEF TypeOK, Crash, brokerVars
<1>2. ASSUME NEW g \in Groups, NEW e \in Fallible[g], NEW c \in 0..(Attempts - 1)
      PROVE  Cardinality(CopiesAt(e, c + 1)') + Cardinality(Waiting(g, e, c)')
               <= Cardinality(CopiesAt(e, c)') + ReplaysOf(c)'
  <2>1. c \in Nat /\ c + 1 \in Nat /\ c + 1 \in 0..Attempts /\ e \in Events
    BY RetryAssumption DEF Attempts
  <2>2. Cardinality(CopiesAt(e, c + 1)) <= Pascal[faults][c + 1]
    BY <2>1 DEF StormInv, CopiesBounded
  <2>3. CopiesAt(e, c + 1)' = CopiesAt(e, c + 1) /\ CopiesAt(e, c)' = CopiesAt(e, c)
    BY <1>1 DEF CopiesAt
  <2>4. /\ Cardinality(CopiesAt(e, c + 1)) \in Nat /\ Cardinality(CopiesAt(e, c)) \in Nat
        /\ Cardinality(Waiting(g, e, c)') \in Nat
        /\ Cardinality(Waiting(g, e, c)') <= Cardinality(CopiesAt(e, c)')
    BY <1>1, CopiesCounted, CopiesCountedNext
  <2>5. ReplaysOf(c)' = Pascal[faults][c + 1] /\ Pascal[faults][c + 1] \in Nat
    BY <1>1, <2>1, Budget, BudgetNext
  <2> QED
    BY <2>2, <2>3, <2>4, <2>5
<1>3. RetriedFromWaiting'
  BY <1>2 DEF RetriedFromWaiting, Attempts
<1> QED
  BY <1>1, <1>3, SameTopicStorm DEF StormInv

(* Nothing of an event that was not produced yet is in the topic. *)
LEMMA NoCopyBefore ==
    ASSUME NEW e, ~Published(e), NEW c
    PROVE  CopiesAt(e, c) = {} /\ Cardinality(CopiesAt(e, c)) = 0
<1>1. CopiesAt(e, c) = {}
  BY DEF CopiesAt, Published
<1> QED
  BY <1>1, FS_EmptySet

(* A new event: its first copy, which waits for every group. *)
LEMMA ProduceStorm ==
    ASSUME TypeOK, TypeOK', StormInv, NEW e0 \in Events, Produce(e0)
    PROVE  StormInv'
<1> DEFINE r == [event |-> e0, retryCount |-> 0]
<1>0. r \in Record /\ r.event = e0 /\ r.retryCount = 0
  BY DEF Record
<1>1. /\ log \in Seq(Record) /\ log' \in Seq(Record) /\ faults \in Nat
      /\ log' = Append(log, r) /\ faults' = faults
      /\ position' = position /\ phase' = phase /\ ~Published(e0)
  BY DEF TypeOK, Produce
<1> HIDE DEF r
<1>2. ASSUME NEW e, NEW c \in Nat
      PROVE  /\ Cardinality(CopiesAt(e, c)) \in Nat
             /\ IF e = e0 /\ c = 0
                  THEN Cardinality(CopiesAt(e, c)) = 0 /\ Cardinality(CopiesAt(e, c)') = 1
                  ELSE Cardinality(CopiesAt(e, c)') = Cardinality(CopiesAt(e, c))
  <2>1. Cardinality(CopiesAt(e, c))  \in Nat
    BY <1>1, CopiesCounted
  <2>2. Cardinality(CopiesAt(e, c)')
          = IF e0 = e /\ 0 = c THEN Cardinality(CopiesAt(e, c)) + 1 ELSE Cardinality(CopiesAt(e, c))
    BY <1>0, <1>1, OneMoreCopy
  <2>3. e = e0 => Cardinality(CopiesAt(e, c)) = 0
    BY <1>1, NoCopyBefore
  <2> QED
    BY <2>1, <2>2, <2>3
<1>3. CountsWithinBudget'
  <2>1. ASSUME NEW k \in 1..Len(log') PROVE log'[k].retryCount < Attempts
    <3>1. Len(log') = Len(log) + 1 /\ Len(log) \in Nat /\ log'[Len(log) + 1] = r
      BY <1>0, <1>1, AppendRecord
    <3>2. \A i \in 1..Len(log) : log'[i] = log[i]
      BY <1>0, <1>1, AppendRecord
    <3>3. CASE k = Len(log) + 1
      BY <1>0, <3>1, <3>3, RetryAssumption DEF Attempts
    <3>4. CASE k \in 1..Len(log)
      BY <3>2, <3>4 DEF StormInv, CountsWithinBudget
    <3> QED
      BY <3>1, <3>3, <3>4
  <2> QED
    BY <2>1 DEF CountsWithinBudget, Attempts
<1>4. ProducedOnce'
  <2>1. ASSUME NEW e \in Events PROVE Cardinality(CopiesAt(e, 0)') <= 1
    <3>1. Cardinality(CopiesAt(e, 0)) <= 1
      BY DEF StormInv, ProducedOnce
    <3> QED
      BY <1>2, <3>1
  <2> QED
    BY <2>1 DEF ProducedOnce
<1>5. CopiesBounded'
  <2>1. ASSUME NEW e \in Events, NEW c \in 0..Attempts
        PROVE  Cardinality(CopiesAt(e, c)') <= Pascal[faults][c]
    <3>1. c \in Nat
      BY RetryAssumption DEF Attempts
    <3>2. Cardinality(CopiesAt(e, c)) <= Pascal[faults][c]
      BY DEF StormInv, CopiesBounded
    <3>3. Pascal[faults][0] = 1
      BY <1>1, PascalRule
    <3> QED
      BY <1>2, <3>1, <3>2, <3>3
  <2> QED
    BY <1>1, <2>1 DEF CopiesBounded, Attempts
<1>6. RetriedFromWaiting'
  <2>1. ASSUME NEW g \in Groups, NEW e \in Fallible[g], NEW c \in 0..(Attempts - 1)
        PROVE  Cardinality(CopiesAt(e, c + 1)') + Cardinality(Waiting(g, e, c)')
                 <= Cardinality(CopiesAt(e, c)') + ReplaysOf(c)
    <3>1. c \in Nat /\ c + 1 \in Nat /\ c + 1 # 0 /\ g \in Groups
      BY RetryAssumption DEF Attempts
    <3>2. Cardinality(CopiesAt(e, c + 1)) + Cardinality(Waiting(g, e, c))
            <= Cardinality(CopiesAt(e, c)) + ReplaysOf(c)
      BY DEF StormInv, RetriedFromWaiting
    <3>3. Cardinality(Waiting(g, e, c)')
            <= IF e0 = e /\ 0 = c
                 THEN Cardinality(Waiting(g, e, c)) + 1 ELSE Cardinality(Waiting(g, e, c))
      BY <1>0, <1>1, <3>1, OneMoreWaiting
    <3>4. Cardinality(CopiesAt(e, c + 1)') = Cardinality(CopiesAt(e, c + 1))
      BY <1>2, <3>1
    <3>5. Cardinality(CopiesAt(e, c)')
            = IF e0 = e /\ 0 = c THEN Cardinality(CopiesAt(e, c)) + 1 ELSE Cardinality(CopiesAt(e, c))
      BY <1>2, <3>1
    <3>6. /\ Cardinality(CopiesAt(e, c + 1)) \in Nat /\ Cardinality(CopiesAt(e, c)) \in Nat
          /\ Cardinality(Waiting(g, e, c)) \in Nat /\ Cardinality(Waiting(g, e, c)') \in Nat
          /\ ReplaysOf(c) \in Nat
      BY <1>1, <3>1, CopiesCounted, CopiesCountedNext, Budget
    <3> QED
      BY <3>2, <3>3, <3>4, <3>5, <3>6
  <2> QED
    BY <1>1, <2>1 DEF RetriedFromWaiting, Attempts, ReplaysOf
<1> QED
  BY <1>3, <1>4, <1>5, <1>6 DEF StormInv

(* A republish: one copy more at the next count, paid for by the one it was made from. *)
LEMMA RetriedStorm ==
    ASSUME TypeOK, TypeOK', StormInv, OneFallibleGroupPerEvent, NEW h \in Groups, Retried(h)
    PROVE  StormInv'
<1>0. PICK e0, c0 : e0 = Current(h).event /\ c0 = Current(h).retryCount
  OBVIOUS
<1> DEFINE r == [event |-> e0, retryCount |-> c0 + 1]
<1>1. /\ r \in Record /\ r.event = e0 /\ r.retryCount = c0 + 1 /\ c0 \in Nat
      /\ log' = Append(log, r) /\ e0 \in Fallible[h] /\ phase[h] = "failed"
  BY <1>0, CurrentIsRecord DEF Retried, Republish, NextAttempt
<1>2. c0 + 1 < Attempts
  BY <1>0, <1>1, RetryAssumption
     DEF Retried, Exhausted, NextAttempt, GoesToDlq, ShouldRetry, ShouldSendToDlq, Attempts
<1> HIDE DEF r
<1>3. /\ log \in Seq(Record) /\ log' \in Seq(Record) /\ faults \in Nat /\ position' = position
      /\ \/ phase'[h] = "done" /\ faults' = faults
         \/ phase'[h] = "escaped" /\ faults' = faults + 1
      /\ \A g \in Groups : phase[g] = "done" => phase'[g] = "done"
  BY <1>1 DEF TypeOK, Retried
<1>4. ASSUME NEW e, NEW c \in Nat
      PROVE  /\ Cardinality(CopiesAt(e, c)) \in Nat
             /\ Cardinality(CopiesAt(e, c)')
                  = IF e0 = e /\ c0 + 1 = c
                      THEN Cardinality(CopiesAt(e, c)) + 1 ELSE Cardinality(CopiesAt(e, c))
  <2>1. Cardinality(CopiesAt(e, c)) \in Nat
    BY <1>3, CopiesCounted
  <2>2. Cardinality(CopiesAt(e, c)')
          = IF r.event = e /\ r.retryCount = c
              THEN Cardinality(CopiesAt(e, c)) + 1 ELSE Cardinality(CopiesAt(e, c))
    BY <1>1, OneMoreCopy
  <2> QED
    BY <1>1, <2>1, <2>2
<1>5. ASSUME NEW g \in Groups, NEW e \in Fallible[g], NEW c \in 0..(Attempts - 1)
      PROVE  Cardinality(CopiesAt(e, c + 1)') + Cardinality(Waiting(g, e, c)')
               <= Cardinality(CopiesAt(e, c)') + ReplaysOf(c)'
  <2>1. c \in Nat /\ c + 1 \in Nat /\ e \in Events
    BY RetryAssumption DEF Attempts
  <2>2. Cardinality(CopiesAt(e, c + 1)) + Cardinality(Waiting(g, e, c))
          <= Cardinality(CopiesAt(e, c)) + ReplaysOf(c)
    BY DEF StormInv, RetriedFromWaiting
  <2>3. Cardinality(Waiting(g, e, c)')
          <= IF e0 = e /\ c0 + 1 = c
               THEN Cardinality(Waiting(g, e, c)) + 1 ELSE Cardinality(Waiting(g, e, c))
    BY <1>1, <1>3, <2>1, OneMoreWaiting
  <2>4. /\ Cardinality(CopiesAt(e, c + 1)')
             = IF e0 = e /\ c0 = c
                 THEN Cardinality(CopiesAt(e, c + 1)) + 1 ELSE Cardinality(CopiesAt(e, c + 1))
        /\ Cardinality(CopiesAt(e, c)')
             = IF e0 = e /\ c0 + 1 = c
                 THEN Cardinality(CopiesAt(e, c)) + 1 ELSE Cardinality(CopiesAt(e, c))
    BY <1>1, <1>4, <2>1
  <2>5. /\ Cardinality(CopiesAt(e, c + 1)) \in Nat /\ Cardinality(CopiesAt(e, c)) \in Nat
        /\ Cardinality(Waiting(g, e, c)) \in Nat /\ Cardinality(Waiting(g, e, c)') \in Nat
    BY <1>3, CopiesCounted, CopiesCountedNext
  <2>6. /\ ReplaysOf(c) \in Nat /\ ReplaysOf(c)' \in Nat /\ ReplaysOf(c) <= ReplaysOf(c)'
        /\ faults' = faults + 1 => ReplaysOf(c) + 1 <= ReplaysOf(c)'
    BY <1>3, <2>1, Budget, BudgetNext
  <2>7. CASE e0 = e /\ c0 = c
    <3>1. CASE phase'[h] = "done"
      <4>1. Cardinality(Waiting(h, e, c)') + 1 <= Cardinality(Waiting(h, e, c))
        BY <1>0, <1>1, <1>3, <2>7, <3>1, OneLessWaiting
      <4>2. g = h
        BY <1>1, <2>7 DEF OneFallibleGroupPerEvent
      <4> QED
        BY <1>1, <2>1, <2>2, <2>4, <2>5, <2>6, <2>7, <4>1, <4>2
    <3>2. CASE faults' = faults + 1
      BY <1>1, <2>2, <2>3, <2>4, <2>5, <2>6, <2>7, <3>2
    <3> QED
      BY <1>3, <3>1, <3>2
  <2>8. CASE ~(e0 = e /\ c0 = c)
    BY <2>2, <2>3, <2>4, <2>5, <2>6, <2>8
  <2> QED
    BY <2>7, <2>8
<1>6. RetriedFromWaiting'
  BY <1>5 DEF RetriedFromWaiting, Attempts
<1>7. CountsWithinBudget'
  <2>1. ASSUME NEW k \in 1..Len(log') PROVE log'[k].retryCount < Attempts
    <3>1. Len(log') = Len(log) + 1 /\ Len(log) \in Nat /\ log'[Len(log) + 1] = r
      BY <1>1, <1>3, AppendRecord
    <3>2. \A i \in 1..Len(log) : log'[i] = log[i]
      BY <1>1, <1>3, AppendRecord
    <3>3. CASE k = Len(log) + 1
      BY <1>1, <1>2, <3>1, <3>3
    <3>4. CASE k \in 1..Len(log)
      BY <3>2, <3>4 DEF StormInv, CountsWithinBudget
    <3> QED
      BY <3>1, <3>3, <3>4
  <2> QED
    BY <2>1 DEF CountsWithinBudget, Attempts
<1>8. ProducedOnce'
  <2>1. ASSUME NEW e \in Events PROVE Cardinality(CopiesAt(e, 0)') <= 1
    <3>1. Cardinality(CopiesAt(e, 0)) <= 1
      BY DEF StormInv, ProducedOnce
    <3>2. c0 + 1 # 0
      BY <1>1
    <3> QED
      BY <1>4, <3>1, <3>2
  <2> QED
    BY <2>1 DEF ProducedOnce
<1>9. ASSUME NEW e \in Events, NEW c \in 0..Attempts
      PROVE  Cardinality(CopiesAt(e, c)') <= Pascal[faults'][c]
  <2>1. c \in Nat
    BY RetryAssumption DEF Attempts
  <2>2. /\ Cardinality(CopiesAt(e, c)) <= Pascal[faults][c]
        /\ Cardinality(CopiesAt(e, c)) \in Nat
    BY <1>4, <2>1 DEF StormInv, CopiesBounded
  <2>3. /\ Pascal[faults][c] \in Nat /\ Pascal[faults'][c] \in Nat
        /\ Pascal[faults][c] <= Pascal[faults'][c]
    BY <1>3, <2>1, Budget, BudgetNext
  <2>4. CASE e0 = e /\ c0 + 1 = c
    \* The copy it was made from is in front of the group, so less than the budget is used.
    <3>1. c0 \in 0..(Attempts - 1) /\ c0 \in 0..Attempts
      BY <1>1, <1>2, RetryAssumption DEF Attempts
    <3>2. /\ Cardinality(CopiesAt(e, c0 + 1)) + Cardinality(Waiting(h, e, c0))
               <= Cardinality(CopiesAt(e, c0)) + ReplaysOf(c0)
          /\ Cardinality(CopiesAt(e, c0)) <= Pascal[faults][c0]
      BY <1>1, <2>4, <3>1 DEF StormInv, RetriedFromWaiting, CopiesBounded
    <3>3. /\ Pascal[faults][c0] \in Nat /\ ReplaysOf(c0) \in Nat
          /\ Pascal[faults][c0] + ReplaysOf(c0) = Pascal[faults][c0 + 1]
      BY <1>1, <1>3, Budget
    <3>4. Cardinality(Waiting(h, e, c0)) >= 1
      <4>1. Cardinality(Waiting(h, e, c0)) \in Nat /\ IsFiniteSet(Waiting(h, e, c0))
        BY <1>3, CopiesCounted
      <4>2. position[h] + 1 \in 1..Len(log) /\ position[h] \in Nat
        BY <1>1, CurrentIsRecord
      <4>3. position[h] + 1 \in Waiting(h, e, c0)
        <5>1. PICK x : x = position[h] + 1
          OBVIOUS
        <5>2. log[x].event = e /\ log[x].retryCount = c0
          BY <1>0, <2>4, <5>1 DEF Current
        <5>3. x \in CopiesAt(e, c0)
          BY <4>2, <5>1, <5>2 DEF CopiesAt
        <5> QED
          BY <1>1, <4>2, <5>1, <5>3 DEF Waiting
      <4>4. Cardinality(Waiting(h, e, c0)) # 0
        BY <4>1, <4>3, FS_EmptySet
      <4> QED
        BY <4>1, <4>4
    <3>5. Cardinality(CopiesAt(e, c0)) \in Nat /\ Cardinality(Waiting(h, e, c0)) \in Nat
      BY <1>3, CopiesCounted
    <3>6. Cardinality(CopiesAt(e, c)') = Cardinality(CopiesAt(e, c)) + 1
      BY <1>4, <2>1, <2>4
    <3>7. Cardinality(CopiesAt(e, c)) + 1 <= Pascal[faults][c]
      BY <2>2, <2>4, <3>2, <3>3, <3>4, <3>5
    <3> QED
      BY <2>2, <2>3, <3>6, <3>7
  <2>5. CASE ~(e0 = e /\ c0 + 1 = c)
    BY <1>4, <2>1, <2>2, <2>3, <2>5
  <2> QED
    BY <2>4, <2>5
<1>10. CopiesBounded'
  BY <1>9 DEF CopiesBounded, Attempts
<1> QED
  BY <1>6, <1>7, <1>8, <1>10 DEF StormInv

(***************************************************************************)
(* The copies of an event at every count below n + 1 add up to what the    *)
(* next row of the triangle allows, so all of them do.                     *)
(***************************************************************************)
LEMMA StormBounds ==
    ASSUME TypeOK, StormInv
    PROVE  RetriesAreBounded
<1> SUFFICES ASSUME NEW e \in Events PROVE Copies(e) <= Pascal[faults + 1][Attempts - 1]
  BY DEF RetriesAreBounded
<1> DEFINE Below(n) == {k \in 1..Len(log) : log[k].event = e /\ log[k].retryCount < n + 1}
           Fits(n) == n < Attempts => Cardinality(Below(n)) <= Pascal[faults + 1][n]
           T == {n \in Nat : Fits(n)}
<1>1. log \in Seq(Record) /\ faults \in Nat /\ faults + 1 \in Nat /\ Len(log) \in Nat
  BY DEF TypeOK
<1>2. ASSUME NEW k \in 1..Len(log) PROVE log[k].retryCount \in Nat
  <2>1. log[k] \in Record
    BY <1>1
  <2> QED
    BY <2>1 DEF Record
<1>3. ASSUME NEW n \in Nat
      PROVE  IsFiniteSet(Below(n)) /\ Cardinality(Below(n)) \in Nat
  BY <1>1, CountedTo
<1>4. Fits(0)
  <2>1. Below(0) = CopiesAt(e, 0)
    BY <1>2 DEF CopiesAt
  <2>2. Pascal[faults + 1][0] = 1
    BY <1>1, PascalRule
  <2> HIDE DEF Below
  <2> QED
    BY <2>1, <2>2 DEF StormInv, ProducedOnce
<1>5. ASSUME NEW n \in Nat, Fits(n) PROVE Fits(n + 1)
  <2> SUFFICES ASSUME n + 1 < Attempts
               PROVE  Cardinality(Below(n + 1)) <= Pascal[faults + 1][n + 1]
    OBVIOUS
  <2>1. n < Attempts /\ n + 1 \in Nat /\ n + 1 \in 0..Attempts
    BY RetryAssumption DEF Attempts
  <2>2. Below(n + 1) = Below(n) \cup CopiesAt(e, n + 1) /\ Below(n) \cap CopiesAt(e, n + 1) = {}
    BY <1>2 DEF CopiesAt
  <2> HIDE DEF Below
  <2>3. Cardinality(Below(n + 1)) = Cardinality(Below(n)) + Cardinality(CopiesAt(e, n + 1))
    <3>1. IsFiniteSet(Below(n)) /\ IsFiniteSet(CopiesAt(e, n + 1))
      BY <1>1, <1>3, CopiesCounted
    <3>2. Cardinality(Below(n) \cup CopiesAt(e, n + 1))
            = Cardinality(Below(n)) + Cardinality(CopiesAt(e, n + 1))
              - Cardinality(Below(n) \cap CopiesAt(e, n + 1))
      BY <3>1, FS_Union
    <3>3. Cardinality(Below(n) \cap CopiesAt(e, n + 1)) = 0
      BY <2>2, FS_EmptySet
    <3>4. Cardinality(Below(n)) \in Nat /\ Cardinality(CopiesAt(e, n + 1)) \in Nat
      BY <1>1, <1>3, CopiesCounted
    <3>5. Cardinality(Below(n + 1)) = Cardinality(Below(n) \cup CopiesAt(e, n + 1))
      BY <2>2
    <3> QED
      BY <3>2, <3>3, <3>4, <3>5
  <2>4. Cardinality(Below(n)) <= Pascal[faults + 1][n]
    BY <1>5, <2>1
  <2>5. Cardinality(CopiesAt(e, n + 1)) <= Pascal[faults][n + 1]
    BY <2>1 DEF StormInv, CopiesBounded
  <2>6. Pascal[faults + 1][n + 1] = Pascal[faults + 1][n] + Pascal[faults][n + 1]
    BY <1>1, PascalRule
  <2>7. /\ Cardinality(Below(n)) \in Nat /\ Cardinality(CopiesAt(e, n + 1)) \in Nat
        /\ Pascal[faults + 1][n] \in Nat /\ Pascal[faults][n + 1] \in Nat
    BY <1>1, <1>3, <2>1, CopiesCounted, PascalPositive
  <2> QED
    BY <2>3, <2>4, <2>5, <2>6, <2>7
<1>6. Attempts - 1 \in Nat /\ Attempts - 1 < Attempts /\ (Attempts - 1) + 1 = Attempts
  BY RetryAssumption DEF Attempts
<1>7. Fits(Attempts - 1)
  <2> HIDE DEF Fits
  <2>1. 0 \in T /\ \A n \in T : n + 1 \in T
    BY <1>4, <1>5
  <2>2. \A n \in Nat : n \in T
    <3>1. T \in SUBSET Nat
      OBVIOUS
    <3> HIDE DEF T
    <3> QED
      BY <2>1, <3>1, Induction
  <2> QED
    BY <1>6, <2>2
<1>8. {k \in 1..Len(log) : log[k].event = e} = Below(Attempts - 1)
  BY <1>2, <1>6 DEF StormInv, CountsWithinBudget
<1> QED
  BY <1>6, <1>7, <1>8 DEF Copies

(***************************************************************************)
(* Where one group can fail on an event, its retries never put more copies *)
(* of the event into the topic than the budget and the faults allow.       *)
(***************************************************************************)
THEOREM RetryStormIsBounded ==
    ASSUME OneFallibleGroupPerEvent
    PROVE  Spec => []RetriesAreBounded
<1>1. Init => StormInv /\ FailedAttempt
  <2> SUFFICES ASSUME Init PROVE StormInv /\ FailedAttempt
    OBVIOUS
  <2>1. log = <<>> /\ Len(log) = 0 /\ faults = 0 /\ log \in Seq(Record)
    BY DEF Init
  <2>2. \A e, c : CopiesAt(e, c) = {}
    BY <2>1 DEF CopiesAt
  <2>3. \A e, c : Cardinality(CopiesAt(e, c)) = 0
    BY <2>2, FS_EmptySet
  <2>4. \A g, e, c : Cardinality(Waiting(g, e, c)) = 0
    BY <2>2, FS_EmptySet DEF Waiting
  <2>5. \A c \in 0..Attempts : c \in Nat /\ Pascal[faults][c] >= 1 /\ ReplaysOf(c) = 0
    BY <2>1, PascalPositive, RetryAssumption DEF ReplaysOf, Attempts
  <2>6. CountsWithinBudget /\ ProducedOnce /\ CopiesBounded
    BY <2>1, <2>3, <2>5, PascalPositive DEF CountsWithinBudget, ProducedOnce, CopiesBounded
  <2>7. RetriedFromWaiting
    BY <2>3, <2>4, <2>5, RetryAssumption DEF RetriedFromWaiting, Attempts
  <2>8. FailedAttempt
    BY DEF Init, FailedAttempt
  <2> QED
    BY <2>6, <2>7, <2>8 DEF StormInv
<1>2. TypeOK /\ TypeOK' /\ FailedAttempt /\ StormInv /\ [Next]_vars => StormInv' /\ FailedAttempt'
  <2> SUFFICES ASSUME TypeOK, TypeOK', FailedAttempt, StormInv, [Next]_vars
               PROVE  StormInv' /\ FailedAttempt'
    OBVIOUS
  <2>1. FailedAttempt'
    BY FailedAttemptStep
  <2>2. StormInv'
    BY StormSteps, ProduceStorm, RetriedStorm, CrashStorm, QuietStorm
  <2> QED
    BY <2>1, <2>2
<1>3. TypeOK /\ StormInv => RetriesAreBounded
  BY StormBounds
<1> QED
  BY <1>1, <1>2, <1>3, TypeCorrect, PTL DEF Spec

------------------------------------------------------------------------------
(***************************************************************************)
(* RetryExecutor implements AtLeastOnce, for any set of groups and events, *)
(* any attempt budget and any number of faults: every step of the executor *)
(* is a step of the abstract consumer, or a stutter.                       *)
(***************************************************************************)

(* Only what the group wants gets past the parser, so a retry is of something owed. *)
OwedInHand ==
    \A g \in Groups :
        phase[g] \in {"handling", "failed", "escaped"} => Current(g).event \in Interest[g]

(* OwedInHand is kept by every step: only Deliver takes a record up. *)
LEMMA OwedInHandStep ==
    ASSUME TypeOK, [Next]_vars, OwedInHand
    PROVE  OwedInHand'
<1> SUFFICES ASSUME NEW g \in Groups, phase'[g] \in {"handling", "failed", "escaped"}
             PROVE  Current(g)'.event \in Interest[g]
  BY DEF OwedInHand
<1>0. /\ phase \in [Groups -> Phases] /\ position \in [Groups -> Nat]
      /\ log \in Seq(Record) /\ Len(log) \in Nat
  BY DEF TypeOK
<1>1. CASE phase[g] \in {"handling", "failed", "escaped"}
  <2>1. position'[g] = position[g]
    BY <1>0, <1>1 DEF Next, vars, Produce, Deliver, RunHandler, HandlerReturns, HandlerThrows,
       PrecheckThrows, Publish, ScheduleRetry, SendToDlq, PublishRejects, Resolve, Rejected,
       DropEscaped, RedeliverEscaped, AutoCommit, Crash
  <2>2. Current(g)' = Current(g)
    BY <1>1, <2>1, CurrentStays
  <2> QED
    BY <1>1, <2>2 DEF OwedInHand
<1>2. CASE phase[g] \notin {"handling", "failed", "escaped"}
  <2>1. Deliver(g)
    BY <1>0, <1>2 DEF Next, vars, Produce, Deliver, RunHandler, HandlerReturns, HandlerThrows,
       PrecheckThrows, Publish, ScheduleRetry, SendToDlq, PublishRejects, Resolve, Rejected,
       DropEscaped, RedeliverEscaped, AutoCommit, Crash
  <2>2. phase'[g] = "handling" /\ Current(g).event \in Interest[g]
    BY <1>0, <2>1 DEF Deliver
  <2>3. Current(g)' = Current(g)
    BY <2>1 DEF Deliver, brokerVars, Current
  <2> QED
    BY <2>2, <2>3
<1> QED
  BY <1>1, <1>2

------------------------------------------------------------------------------

(* The two abstract variables, pair by pair. *)
LEMMA PairsMean ==
    /\ AheadPairs \subseteq Groups \X Events
    /\ SettledPairs \subseteq Groups \X Events
    /\ \A g \in Groups : \A e \in Events :
          /\ <<g, e>> \in AheadPairs <=> e \in Interest[g] /\ Ahead(e, position[g])
          /\ <<g, e>> \in SettledPairs <=> e \in Interest[g] /\ Settled(g, e)
BY DEF AheadPairs, SettledPairs, Owed

(* The same of the next state. *)
LEMMA PairsMeanNext ==
    /\ AheadPairs' \subseteq Groups \X Events
    /\ SettledPairs' \subseteq Groups \X Events
    /\ \A g \in Groups : \A e \in Events :
          /\ <<g, e>> \in AheadPairs' <=> e \in Interest[g] /\ Ahead(e, position[g])'
          /\ <<g, e>> \in SettledPairs' <=> e \in Interest[g] /\ Settled(g, e)'
BY DEF AheadPairs, SettledPairs, Owed

(* Sets of pairs are equal when they have the same pairs. *)
LEMMA SamePairs ==
    ASSUME NEW A \in SUBSET (Groups \X Events), NEW B \in SUBSET (Groups \X Events),
           \A g \in Groups : \A e \in Events : <<g, e>> \in A <=> <<g, e>> \in B
    PROVE  A = B
<1>1. ASSUME NEW p \in Groups \X Events PROVE p \in A <=> p \in B
  <2>1. p[1] \in Groups /\ p[2] \in Events /\ p = <<p[1], p[2]>>
    BY <1>1
  <2> QED
    BY <2>1
<1> QED
  BY <1>1

(* Nothing the topic or a position changes: the same pairs lie ahead. *)
LEMMA AheadUnmoved ==
    ASSUME UNCHANGED <<log, position>>
    PROVE  AheadPairs' = AheadPairs
BY DEF AheadPairs, Owed, Ahead

(* Nothing handled, dead-lettered or lost: the same pairs are settled. *)
LEMMA SettledUnmoved ==
    ASSUME UNCHANGED <<handled, dlq, lost>>
    PROVE  SettledPairs' = SettledPairs
BY DEF SettledPairs, Owed, Settled, DeadLettered

(* A record appended to the topic lies ahead of every group that wants its event. *)
LEMMA AppendedIsPublish ==
    ASSUME TypeOK, NEW e \in Events, position' = position,
           Len(log') = Len(log) + 1, \A k \in 1..Len(log) : log'[k] = log[k],
           log'[Len(log) + 1].event = e, UNCHANGED <<handled, dlq, lost>>
    PROVE  Delivery!Publish(e)
<1>0. /\ Len(log) \in Nat
      /\ \A g \in Groups : position[g] \in Nat /\ position[g] <= Len(log)
  BY DEF TypeOK
<1> DEFINE new == {<<c, e>> : c \in {d \in Groups : e \in Interest[d]}}
<1>1. ASSUME NEW g \in Groups, NEW f \in Events
      PROVE  <<g, f>> \in AheadPairs' <=> <<g, f>> \in AheadPairs \cup new
  <2>1. Ahead(f, position[g])' <=> Ahead(f, position[g]) \/ f = e
    <3>1. (position[g] + 1)..Len(log') = ((position[g] + 1)..Len(log)) \cup {Len(log) + 1}
      BY <1>0
    <3>2. \A k \in (position[g] + 1)..Len(log) : log'[k] = log[k]
      BY <1>0
    <3> QED
      BY <3>1, <3>2 DEF Ahead
  <2>2. <<g, f>> \in new <=> f = e /\ e \in Interest[g]
    OBVIOUS
  <2> QED
    BY <2>1, <2>2, PairsMean, PairsMeanNext
<1>2. new \subseteq Groups \X Events
  OBVIOUS
<1>3. AheadPairs' = AheadPairs \cup new
  <2> HIDE DEF new
  <2> QED
    BY <1>1, <1>2, PairsMean, PairsMeanNext, SamePairs
<1> QED
  BY <1>3, SettledUnmoved DEF Delivery!Publish

(* A handler's return, or a dead letter, settles the event in hand. *)
LEMMA SettlingIsSettle ==
    ASSUME TypeOK, OwedInHand, NEW g \in Groups, UNCHANGED <<log, position>>,
           phase[g] \in {"handling", "failed"}, NEW e, e = Current(g).event,
           \A h \in Groups : \A f \in Events :
              Settled(h, f)' <=> Settled(h, f) \/ (h = g /\ f = e)
    PROVE  e \in Events /\ Delivery!Settle(g, e)
<1>1. e \in Events /\ e \in Interest[g] /\ position[g] + 1 \in 1..Len(log) /\ position[g] \in Nat
  BY CurrentIsRecord DEF OwedInHand
<1>2. Ahead(e, position[g])
  BY <1>1 DEF Ahead, Current
<1>3. <<g, e>> \in AheadPairs
  BY <1>1, <1>2, PairsMean
<1>4. SettledPairs' = SettledPairs \cup {<<g, e>>}
  <2>1. \A h \in Groups : \A f \in Events :
           <<h, f>> \in SettledPairs' <=> <<h, f>> \in SettledPairs \cup {<<g, e>>}
    BY <1>1, PairsMean, PairsMeanNext
  <2> QED
    BY <1>1, <2>1, PairsMean, PairsMeanNext, SamePairs
<1> QED
  BY <1>1, <1>3, <1>4, AheadUnmoved DEF Delivery!Settle

(* Moving past one record takes at most that record's event out of a group's future. *)
LEMMA PassingOne ==
    ASSUME TypeOK, NEW g \in Groups, NEW c \in Events, Current(g).event = c,
           position[g] < Len(log), log' = log,
           position' = [position EXCEPT ![g] = @ + 1]
    PROVE  /\ Ahead(c, position[g]) /\ Ahead(c, position[g])' => AheadPairs' = AheadPairs
           /\ ~Ahead(c, position[g])' => AheadPairs' = AheadPairs \ {<<g, c>>}
<1>0. position \in [Groups -> Nat] /\ Len(log) \in Nat
  BY DEF TypeOK
<1>1. (position[g] + 1)..Len(log) = {position[g] + 1} \cup (position[g] + 1 + 1)..Len(log)
  BY <1>0
<1>2. \A f \in Events : Ahead(f, position[g]) <=> f = c \/ Ahead(f, position[g])'
  BY <1>0, <1>1 DEF Ahead, Current
<1>3. \A h \in Groups : \A f \in Events : h # g => (Ahead(f, position[h])' <=> Ahead(f, position[h]))
  BY <1>0 DEF Ahead
<1>4. \A h \in Groups : \A f \in Events :
         ~(h = g /\ f = c) => (<<h, f>> \in AheadPairs' <=> <<h, f>> \in AheadPairs)
  BY <1>2, <1>3, PairsMean, PairsMeanNext
<1>5. CASE Ahead(c, position[g]) /\ Ahead(c, position[g])'
  <2>1. <<g, c>> \in AheadPairs' <=> <<g, c>> \in AheadPairs
    BY <1>5, PairsMean, PairsMeanNext
  <2>2. \A h \in Groups : \A f \in Events : <<h, f>> \in AheadPairs' <=> <<h, f>> \in AheadPairs
    BY <1>4, <2>1
  <2> QED
    BY <1>5, <2>2, PairsMean, PairsMeanNext, SamePairs
<1>6. CASE ~Ahead(c, position[g])'
  <2>1. <<g, c>> \notin AheadPairs'
    BY <1>6, PairsMeanNext
  <2>2. \A h \in Groups : \A f \in Events :
           <<h, f>> \in AheadPairs' <=> <<h, f>> \in AheadPairs \ {<<g, c>>}
    BY <1>4, <2>1
  <2>3. AheadPairs \ {<<g, c>>} \in SUBSET (Groups \X Events) /\ AheadPairs' \in SUBSET (Groups \X Events)
    BY PairsMean, PairsMeanNext
  <2>4. AheadPairs' = AheadPairs \ {<<g, c>>}
    BY <2>2, <2>3, SamePairs
  <2> QED
    BY <1>6, <2>4
<1> QED
  BY <1>5, <1>6

(* A crash takes a group back to records of events it has settled already. *)
LEMMA CrashIsStartOver ==
    ASSUME TypeOK, NothingVanishes, NEW g \in Groups, Crash(g)
    PROVE  Delivery!StartOver(g)
<1>0. /\ position \in [Groups -> Nat] /\ committed \in [Groups -> Nat] /\ Len(log) \in Nat
      /\ \A h \in Groups : committed[h] <= position[h]
  BY DEF TypeOK
<1>1. log' = log /\ position' = [position EXCEPT ![g] = committed[g]]
  BY DEF Crash, brokerVars
<1>2. ASSUME NEW h \in Groups, NEW f \in Events
      PROVE  /\ Ahead(f, position[h]) => Ahead(f, position[h])'
             /\ h # g /\ Ahead(f, position[h])' => Ahead(f, position[h])
             /\ Ahead(f, position[h])' => Published(f)
  <2>1. position'[h] \in Nat /\ position'[h] <= position[h]
    BY <1>0, <1>1
  <2>2. h # g => position'[h] = position[h]
    BY <1>0, <1>1
  <2>3. (position[h] + 1)..Len(log) \subseteq (position'[h] + 1)..Len(log)
    BY <1>0, <2>1
  <2>4. (position'[h] + 1)..Len(log) \subseteq 1..Len(log)
    BY <1>0, <2>1
  <2> QED
    BY <1>1, <2>2, <2>3, <2>4 DEF Ahead, Published
<1>3. SettledPairs' = SettledPairs
  BY SettledUnmoved DEF Crash, brokerVars, historyVars
<1>4. ASSUME NEW p \in AheadPairs PROVE p \in AheadPairs'
  <2>1. PICK h \in Groups, f \in Events : p = <<h, f>>
    BY PairsMean
  <2> QED
    BY <1>2, <2>1, PairsMean, PairsMeanNext
<1>5. ASSUME NEW p \in AheadPairs' \ AheadPairs PROVE p \in SettledPairs \cap ({g} \X Events)
  <2>1. PICK h \in Groups, f \in Events : p = <<h, f>>
    BY PairsMeanNext
  <2>2. f \in Interest[h] /\ Ahead(f, position[h])' /\ ~Ahead(f, position[h])
    BY <2>1, PairsMean, PairsMeanNext
  <2>3. h = g /\ Published(f)
    BY <1>2, <2>2
  <2>4. Settled(h, f)
    BY <2>2, <2>3 DEF NothingVanishes
  <2> QED
    BY <2>1, <2>2, <2>3, <2>4, PairsMean
<1> QED
  BY <1>3, <1>4, <1>5 DEF Delivery!StartOver

(* Resolving the record of a member that is done. *)
LEMMA ResolveRefines ==
    ASSUME TypeOK, DoneIsSettled, NEW g \in Groups, Resolve(g)
    PROVE  Delivery!Next \/ UNCHANGED <<AheadPairs, SettledPairs>>
<1>0. /\ position \in [Groups -> Nat] /\ Len(log) \in Nat
      /\ position[g] + 1 \in 1..Len(log) /\ Current(g).event \in Events
  <2>1. phase[g] # "idle"
    BY DEF Resolve
  <2>2. position \in [Groups -> Nat] /\ Len(log) \in Nat
    BY DEF TypeOK
  <2> QED
    BY <2>1, <2>2, CurrentIsRecord
<1>1. PICK c \in Events : Current(g).event = c
  BY <1>0
<1>2. /\ log' = log /\ position' = [position EXCEPT ![g] = @ + 1]
      /\ position[g] < Len(log) /\ phase[g] = "done"
  BY <1>0 DEF Resolve, brokerVars
<1>3. SettledPairs' = SettledPairs
  BY SettledUnmoved DEF Resolve, brokerVars, historyVars
<1>4. Ahead(c, position[g])
  BY <1>0, <1>1 DEF Ahead, Current
<1>5. CASE Ahead(c, position[g])'
  <2>1. AheadPairs' = AheadPairs
    BY <1>1, <1>2, <1>4, <1>5, PassingOne
  <2> QED
    BY <1>3, <2>1
<1>6. CASE ~Ahead(c, position[g])'
  <2>1. AheadPairs' = AheadPairs \ {<<g, c>>}
    BY <1>1, <1>2, <1>6, PassingOne
  <2>2. CASE c \in Interest[g]
    <3>1. position'[g] = position[g] + 1
      BY <1>0, <1>2
    <3>2. ~Ahead(c, position[g] + 1)
      BY <1>2, <1>6, <3>1 DEF Ahead
    <3>3. Settled(g, c)
      BY <1>1, <1>2, <2>2, <3>2 DEF DoneIsSettled
    <3>4. <<g, c>> \in AheadPairs /\ <<g, c>> \in SettledPairs
      BY <1>4, <2>2, <3>3, PairsMean
    <3>5. Delivery!MoveOn(g, c)
      BY <1>3, <2>1, <3>4 DEF Delivery!MoveOn
    <3> QED
      BY <3>5 DEF Delivery!Next
  <2>3. CASE c \notin Interest[g]
    <3>1. <<g, c>> \notin AheadPairs
      BY <2>3, PairsMean
    <3>2. AheadPairs' = AheadPairs
      BY <2>1, <3>1
    <3> QED
      BY <1>3, <3>2
  <2> QED
    BY <2>2, <2>3
<1> QED
  BY <1>5, <1>6

(* Dropping a record whose error escaped execute settles it and moves on at once. *)
LEMMA DropRefines ==
    ASSUME TypeOK, OwedInHand, NEW g \in Groups, DropEscaped(g)
    PROVE  Delivery!Next
<1>0. /\ position \in [Groups -> Nat] /\ Len(log) \in Nat
      /\ position[g] + 1 \in 1..Len(log) /\ Current(g).event \in Events
      /\ Current(g).event \in Interest[g]
  <2>1. phase[g] = "escaped"
    BY DEF DropEscaped
  <2>2. position \in [Groups -> Nat] /\ Len(log) \in Nat
    BY DEF TypeOK
  <2> QED
    BY <2>1, <2>2, CurrentIsRecord DEF OwedInHand
<1>1. PICK c \in Events : Current(g).event = c
  BY <1>0
<1>2. /\ log' = log /\ position' = [position EXCEPT ![g] = @ + 1]
      /\ position[g] < Len(log)
      /\ handled' = handled /\ dlq' = dlq /\ lost' = lost \cup {<<g, c>>}
  BY <1>0, <1>1 DEF DropEscaped, brokerVars
<1>3. SettledPairs' = SettledPairs \cup {<<g, c>>}
  <2>1. \A h \in Groups : \A f \in Events :
           Settled(h, f)' <=> Settled(h, f) \/ (h = g /\ f = c)
    BY <1>2 DEF Settled, DeadLettered
  <2>2. \A h \in Groups : \A f \in Events :
           <<h, f>> \in SettledPairs' <=> <<h, f>> \in SettledPairs \cup {<<g, c>>}
    BY <1>0, <1>1, <2>1, PairsMean, PairsMeanNext
  <2>3. /\ SettledPairs \cup {<<g, c>>} \in SUBSET (Groups \X Events)
        /\ SettledPairs' \in SUBSET (Groups \X Events)
    BY PairsMean, PairsMeanNext
  <2> QED
    BY <2>2, <2>3, SamePairs
<1>4. <<g, c>> \in AheadPairs /\ Ahead(c, position[g])
  BY <1>0, <1>1, PairsMean DEF Ahead, Current
<1>5. CASE Ahead(c, position[g])'
  <2>1. AheadPairs' = AheadPairs
    BY <1>1, <1>2, <1>4, <1>5, PassingOne
  <2>2. Delivery!Settle(g, c)
    BY <1>3, <1>4, <2>1 DEF Delivery!Settle
  <2> QED
    BY <2>2 DEF Delivery!Next
<1>6. CASE ~Ahead(c, position[g])'
  <2>1. AheadPairs' = AheadPairs \ {<<g, c>>}
    BY <1>1, <1>2, <1>6, PassingOne
  <2>2. Delivery!MoveOn(g, c)
    BY <1>3, <1>4, <2>1 DEF Delivery!MoveOn
  <2> QED
    BY <2>2 DEF Delivery!Next
<1> QED
  BY <1>5, <1>6

(* A copy republished by a group that failed the event. *)
LEMMA RepublishRefines ==
    ASSUME TypeOK, NEW g \in Groups, phase[g] = "failed", Republish(g),
           UNCHANGED <<position, handled, lost>>
    PROVE  Delivery!Next
<1>1. /\ Len(log') = Len(log) + 1
      /\ \A k \in 1..Len(log) : log'[k] = log[k]
      /\ log'[Len(log) + 1].event = Current(g).event
      /\ dlq' = dlq
  BY RepublishType
<1>2. PICK c \in Events : Current(g).event = c
  BY CurrentIsRecord
<1>3. Delivery!Publish(c)
  BY <1>1, <1>2, AppendedIsPublish
<1> QED
  BY <1>3 DEF Delivery!Next

(* A dead letter settles the event for the group that sent it. *)
LEMMA DeadLetterRefines ==
    ASSUME TypeOK, OwedInHand, NEW g \in Groups, phase[g] = "failed", PublishToDlq(g),
           UNCHANGED <<position, handled, lost>>
    PROVE  Delivery!Next
<1>1. PICK c : Current(g).event = c
  OBVIOUS
<1> DEFINE d == [group |-> g, event |-> Current(g).event, attempt |-> NextAttempt(g)]
<1>2. dlq' = dlq \cup {d} /\ d.group = g /\ d.event = c /\ log' = log
  BY <1>1 DEF PublishToDlq
<1>3. \A h \in Groups : \A f \in Events :
         Settled(h, f)' <=> Settled(h, f) \/ (h = g /\ f = c)
  <2> HIDE DEF d
  <2> QED
    BY <1>2 DEF Settled, DeadLettered
<1>4. c \in Events /\ Delivery!Settle(g, c)
  BY <1>1, <1>2, <1>3, SettlingIsSettle
<1> QED
  BY <1>4 DEF Delivery!Next

(* Every step of the executor is a step of the abstract consumer, or a stutter. *)
LEMMA StepRefines ==
    ASSUME TypeOK, VanishInv, OwedInHand, [Next]_vars
    PROVE  [Delivery!Next]_<<AheadPairs, SettledPairs>>
<1> DEFINE Still == UNCHANGED <<log, position, handled, dlq, lost>>
<1>0. Still => UNCHANGED <<AheadPairs, SettledPairs>>
  BY AheadUnmoved, SettledUnmoved
<1>1. ASSUME NEW e \in Events, Produce(e) PROVE Delivery!Next
  <2> DEFINE r == [event |-> e, retryCount |-> 0]
  <2>1. r \in Record /\ r.event = e
    BY DEF Record
  <2>2. log' = Append(log, r) /\ log \in Seq(Record) /\ UNCHANGED <<position, handled, dlq, lost>>
    BY <1>1 DEF Produce, TypeOK, historyVars
  <2> HIDE DEF r
  <2>3. Delivery!Publish(e)
    BY <2>1, <2>2, AppendRecord, AppendedIsPublish
  <2> QED
    BY <2>3 DEF Delivery!Next
<1>2. ASSUME NEW g \in Groups, HandlerReturns(g) PROVE Delivery!Next
  <2>1. PICK c : Current(g).event = c
    OBVIOUS
  <2>2. \A h \in Groups : \A f \in Events :
           Settled(h, f)' <=> Settled(h, f) \/ (h = g /\ f = c)
    BY <1>2, <2>1 DEF HandlerReturns, brokerVars, Settled, DeadLettered
  <2>3. c \in Events /\ Delivery!Settle(g, c)
    BY <1>2, <2>1, <2>2, SettlingIsSettle DEF HandlerReturns, brokerVars
  <2> QED
    BY <2>3 DEF Delivery!Next
<1>3. ASSUME NEW g \in Groups, Publish(g) PROVE Delivery!Next \/ Still
  BY <1>3, RepublishRefines, DeadLetterRefines
     DEF Publish, ScheduleRetry, SendToDlq, PublishRejects, historyVars
<1>4. ASSUME NEW g \in Groups,
             Deliver(g) \/ HandlerThrows(g) \/ PrecheckThrows(g) \/ RedeliverEscaped(g) \/ AutoCommit(g)
      PROVE  Still
  BY <1>4 DEF Deliver, HandlerThrows, PrecheckThrows, RedeliverEscaped, AutoCommit, brokerVars, historyVars
<1>5. ASSUME NEW g \in Groups, Crash(g) PROVE Delivery!Next
  BY <1>5, CrashIsStartOver DEF Delivery!Next, VanishInv
<1>6. ASSUME NEW g \in Groups, Resolve(g)
      PROVE  Delivery!Next \/ UNCHANGED <<AheadPairs, SettledPairs>>
  BY <1>6, ResolveRefines DEF VanishInv
<1>7. ASSUME NEW g \in Groups, DropEscaped(g) PROVE Delivery!Next
  BY <1>7, DropRefines
<1>8. CASE UNCHANGED vars
  BY <1>0, <1>8 DEF vars
<1> HIDE DEF Still
<1>9. CASE Next
  BY <1>0, <1>1, <1>2, <1>3, <1>4, <1>5, <1>6, <1>7, <1>9 DEF Next, RunHandler, Rejected
<1> QED
  BY <1>8, <1>9

(***************************************************************************)
(* The executor implements the abstract at-least-once consumer: under any  *)
(* interleaving of retries, dead letters, rejected publishes and crashes,  *)
(* what a group wants of its topic stays ahead of it until it is settled.  *)
(***************************************************************************)
THEOREM ExecutorImplementsAtLeastOnce == Spec => ImplementsAtLeastOnce
<1>1. Init => VanishInv /\ OwedInHand
  BY DEF Init, VanishInv, NothingVanishes, DoneIsSettled, Published, OwedInHand
<1>2. Init => Delivery!Init
  BY DEF Init, Delivery!Init, AheadPairs, SettledPairs, Owed, Ahead, Settled, DeadLettered
<1>3. TypeOK /\ VanishInv /\ OwedInHand /\ [Next]_vars => (VanishInv /\ OwedInHand)'
  BY NothingVanishesStep, DoneIsSettledStep, OwedInHandStep DEF VanishInv
<1>4. TypeOK /\ VanishInv /\ OwedInHand /\ [Next]_vars => [Delivery!Next]_(Delivery!vars)
  BY StepRefines DEF Delivery!vars
<1> QED
  BY <1>1, <1>2, <1>3, <1>4, TypeCorrect, PTL DEF Spec, ImplementsAtLeastOnce, Delivery!Spec
==============================================================================
