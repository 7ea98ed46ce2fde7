------------------------- MODULE PaymentServiceProofs -------------------------
(***************************************************************************)
(* Proofs about PaymentService, for any set of replicas, envelopes and     *)
(* orders, any attempt budget and any number of faults.                    *)
(***************************************************************************)
EXTENDS PaymentService, TLAPS

(* What appending one record changes: nothing before it, one record after. *)
LEMMA AppendOne ==
    ASSUME NEW s \in Seq(Record), NEW r \in Record
    PROVE  /\ Append(s, r) \in Seq(Record)
           /\ Len(Append(s, r)) = Len(s) + 1
           /\ \A k \in 1..Len(s) : Append(s, r)[k] = s[k]
           /\ Append(s, r)[Len(s) + 1] = r
OBVIOUS

(* A replica that is not idle has a record in its hands. *)
LEMMA InHand ==
    ASSUME TypeOK, NEW i \in Instances, pc[i] # "idle"
    PROVE  /\ task[i].offset \in 1..Len(log)
           /\ Current(i) \in Record
           /\ Current(i).event \in Events
           /\ Current(i).retryCount \in Nat
           /\ OrderInHand(i) \in Orders
<1>1. task[i].offset \in 1..Len(log)
  BY DEF TypeOK
<1>2. Current(i) \in Record
  BY <1>1 DEF TypeOK, Current
<1>3. Current(i).event \in Events /\ Current(i).retryCount \in Nat
  BY <1>2 DEF Record
<1> QED
  BY <1>1, <1>2, <1>3, PaymentAssumption DEF OrderInHand

(* The topic after one more record of an event: it only grows. *)
Grows(e) ==
    /\ log' \in Seq(Record)
    /\ Len(log) \in Nat
    /\ Len(log') = Len(log) + 1
    /\ \A k \in 1..Len(log) : log'[k] = log[k]
    /\ log'[Len(log) + 1].event = e

(* A new envelope is appended to the topic. *)
LEMMA ProduceGrows ==
    ASSUME TypeOK, NEW e \in Events, Produce(e)
    PROVE  Grows(e)
<1> DEFINE r == [event |-> e, retryCount |-> 0]
<1>1. r \in Record /\ r.event = e
  BY DEF Record
<1>2. log' = Append(log, r) /\ log \in Seq(Record)
  BY DEF Produce, TypeOK
<1> HIDE DEF r
<1> QED
  BY <1>1, <1>2, AppendOne DEF Grows

(* A republished envelope is appended to the topic. *)
LEMMA RepublishGrows ==
    ASSUME TypeOK, NEW i \in Instances, pc[i] # "idle", Republish(i)
    PROVE  Grows(Current(i).event) /\ dlq' = dlq
<1> DEFINE r == [event |-> Current(i).event, retryCount |-> NextAttempt(i)]
<1>1. r \in Record /\ r.event = Current(i).event
  BY InHand DEF Record, NextAttempt
<1>2. log' = Append(log, r) /\ log \in Seq(Record) /\ dlq' = dlq
  BY DEF Republish, TypeOK
<1> HIDE DEF r
<1> QED
  BY <1>1, <1>2, AppendOne DEF Grows

(* Type correctness splits into what concerns the topic and the group ... *)
GroupOK ==
    /\ log \in Seq(Record)
    /\ committed \in Nat /\ position \in Nat
    /\ committed <= position /\ position <= Len(log)
    /\ owner \in Instances
    /\ \A i \in Instances : pc[i] # "idle" => task[i].offset \in 1..Len(log)
    /\ pc[owner] # "idle" => task[owner].offset = position + 1

(* ... what concerns the replicas ... *)
ReplicasOK ==
    /\ pc \in [Instances -> Steps]
    /\ task \in [Instances -> Task]
    /\ \A i \in Instances :
          pc[i] \in {"publishOutcome", "recordOutcome"} => task[i].verdict \in Verdicts

(* ... and what the replicas leave behind. *)
LedgerOK ==
    /\ rows \in [Events -> Row]
    /\ out \subseteq Message
    /\ issued \in Nat
    /\ dlq \subseteq Events
    /\ faults \in 0..MaxFaults
    /\ lost \subseteq Events
    /\ exposed \subseteq Orders

(* TypeOK in the three parts its proof treats apart. *)
LEMMA TypeSplits == TypeOK <=> GroupOK /\ ReplicasOK /\ LedgerOK
  BY DEF TypeOK, GroupOK, ReplicasOK, LedgerOK

(* A replica takes one step within its delivery. *)
LEMMA StepKeepsReplicas ==
    ASSUME TypeOK, NEW i \in Instances, NEW step \in Steps, Goto(i, step), task' = task,
           step = "recordOutcome" => pc[i] = "publishOutcome",
           step # "publishOutcome"
    PROVE  ReplicasOK'
<1>1. pc' \in [Instances -> Steps] /\ \A j \in Instances : pc'[j] = IF j = i THEN step ELSE pc[j]
  BY DEF Goto, TypeOK
<1> QED
  BY <1>1 DEF TypeOK, ReplicasOK

(* ... and leaves the group's offsets and the owner's record as they were. *)
LEMMA StepKeepsGroup ==
    ASSUME TypeOK, NEW i \in Instances, NEW step, Goto(i, step), pc[i] # "idle",
           \A j \in Instances : task'[j].offset = task[j].offset,
           UNCHANGED groupVars,
           log' \in Seq(Record), Len(log) <= Len(log')
    PROVE  GroupOK'
<1>1. \A j \in Instances : pc'[j] # "idle" => pc[j] # "idle"
  BY DEF Goto, TypeOK
<1>2. Len(log) \in Nat /\ Len(log') \in Nat
  BY DEF TypeOK
<1> QED
  BY <1>1, <1>2 DEF TypeOK, GroupOK, groupVars

(* A saved row is a row. *)
LEMMA SaveRowType ==
    ASSUME TypeOK, NEW i \in Instances, pc[i] # "idle",
           NEW outcome \in Verdicts \cup {"skipped_duplicate_order"}, SaveRow(i, outcome)
    PROVE  rows' \in [Events -> Row]
<1> DEFINE row == [outcome |-> outcome, payment |-> task[i].payment]
<1>1. task[i].payment \in Nat
  BY DEF TypeOK, Task
<1>2. row \in Row
  BY <1>1 DEF Row
<1>3. rows' = [rows EXCEPT ![Current(i).event] = row]
  BY DEF SaveRow
<1> HIDE DEF row
<1> QED
  BY <1>2, <1>3 DEF TypeOK

(* A sent message is a message. *)
LEMMA SendType ==
    ASSUME TypeOK, NEW i \in Instances, pc[i] # "idle",
           NEW type \in {"payment.requested", "payment.processed", "payment.failed"},
           NEW payment \in Nat, Send(i, type, payment)
    PROVE  out' \subseteq Message
<1>1. [type |-> type, event |-> Current(i).event, payment |-> payment] \in Message
  BY InHand DEF Message
<1> QED
  BY <1>1 DEF Send, TypeOK

(* A replica goes back to its poll loop, as the partition's owner or not. *)
LEMMA ReleaseType ==
    ASSUME TypeOK, NEW i \in Instances, NEW resolve \in BOOLEAN, pc[i] # "idle", Release(i, resolve)
    PROVE  GroupOK' /\ ReplicasOK'
<1>1. pc' \in [Instances -> Steps] /\ \A j \in Instances : pc'[j] = IF j = i THEN "idle" ELSE pc[j]
  BY DEF Release, Goto, TypeOK, Steps
<1>2. /\ task' \in [Instances -> Task]
      /\ \A j \in Instances : j # i => task'[j] = task[j]
  BY DEF Release, TypeOK, Task, NoTask
<1>3. ReplicasOK'
  BY <1>1, <1>2 DEF TypeOK, ReplicasOK
<1>4. /\ position' \in Nat /\ committed <= position' /\ position' <= Len(log)
      /\ owner # i => position' = position
  BY DEF Release, TypeOK
<1> QED
  BY <1>1, <1>2, <1>3, <1>4 DEF Release, TypeOK, GroupOK

(***************************************************************************)
(* Type correctness: the offsets stay in order, the partition's owner      *)
(* works on the record after the group's position, and a replica that      *)
(* announces or records an outcome has one.                                *)
(***************************************************************************)
LEMMA TypeStep == TypeOK /\ [Next]_vars => TypeOK'
<1> SUFFICES ASSUME TypeOK, [Next]_vars PROVE GroupOK' /\ ReplicasOK' /\ LedgerOK'
  BY TypeSplits DEF TypeOK, GroupOK, ReplicasOK, LedgerOK
<1>0. log \in Seq(Record) /\ Len(log) \in Nat /\ Len(log) <= Len(log)
  BY DEF TypeOK
<1> USE PaymentAssumption DEF groupVars, ledgerVars, historyVars, NewFault
<1>1. ASSUME NEW e \in Events, Produce(e) PROVE GroupOK' /\ ReplicasOK' /\ LedgerOK'
  <2>1. Grows(e) /\ UNCHANGED <<groupVars, pc, task, ledgerVars, dlq, historyVars>>
    BY <1>1, ProduceGrows DEF Produce
  <2>2. GroupOK'
    BY <2>1 DEF Grows, TypeOK, GroupOK
  <2>3. ReplicasOK'
    BY <2>1 DEF TypeOK, ReplicasOK
  <2>4. LedgerOK'
    BY <1>1, <2>1 DEF Produce, TypeOK, LedgerOK
  <2> QED
    BY <2>2, <2>3, <2>4
<1>2. ASSUME NEW i \in Instances, HandleOrderEvents(i) PROVE GroupOK' /\ ReplicasOK' /\ LedgerOK'
  <2>1. [NoTask EXCEPT !.offset = position + 1] \in Task
    <3>1. position + 1 \in Nat
      BY DEF TypeOK
    <3> QED
      BY <3>1 DEF NoTask, Task
  <2>2. /\ task' \in [Instances -> Task] /\ pc' \in [Instances -> Steps]
        /\ task'[i].offset = position + 1 /\ pc'[i] = "findByEvent"
        /\ \A j \in Instances : j # i => task'[j] = task[j] /\ pc'[j] = pc[j]
    BY <1>2, <2>1 DEF HandleOrderEvents, Goto, TypeOK, Steps, NoTask
  <2>3. GroupOK'
    BY <1>2, <2>2 DEF HandleOrderEvents, TypeOK, GroupOK
  <2>4. ReplicasOK'
    BY <2>2 DEF TypeOK, ReplicasOK
  <2>5. LedgerOK'
    BY <1>2 DEF HandleOrderEvents, TypeOK, LedgerOK
  <2> QED
    BY <2>3, <2>4, <2>5
<1>3. ASSUME NEW i \in Instances, FindByEvent(i) PROVE GroupOK' /\ ReplicasOK' /\ LedgerOK'
  <2> DEFINE step == IF rows[Current(i).event] # NoRow THEN "done" ELSE "findByOrder"
  <2>1. step \in Steps /\ step \notin {"recordOutcome", "publishOutcome"} /\ Goto(i, step)
    BY <1>3 DEF FindByEvent, Steps
  <2> HIDE DEF step
  <2>2. GroupOK' /\ ReplicasOK'
    BY <1>0, <1>3, <2>1, StepKeepsGroup, StepKeepsReplicas DEF FindByEvent
  <2>3. LedgerOK'
    BY <1>3 DEF FindByEvent, TypeOK, LedgerOK
  <2> QED
    BY <2>2, <2>3
<1>4. ASSUME NEW i \in Instances, FindByOrder(i) PROVE GroupOK' /\ ReplicasOK' /\ LedgerOK'
  <2>1. PICK step \in {"publishRequested", "recordSkip"} : Goto(i, step)
    BY <1>4 DEF FindByOrder
  <2>2. /\ task' \in [Instances -> Task]
        /\ \A j \in Instances : /\ task'[j].offset = task[j].offset
                                /\ task'[j].verdict = task[j].verdict
    <3>1. CASE task' = task
      BY <3>1 DEF TypeOK
    <3>2. ASSUME NEW e \in ApprovedRows(OrderInHand(i)),
                 task' = [task EXCEPT ![i].payment = rows[e].payment]
          PROVE  /\ task' \in [Instances -> Task]
                 /\ \A j \in Instances : /\ task'[j].offset = task[j].offset
                                         /\ task'[j].verdict = task[j].verdict
      <4> DEFINE n == rows[e].payment
      <4>1. n \in Nat
        BY DEF ApprovedRows, TypeOK, Row, NoRow
      <4> HIDE DEF n
      <4>2. task' = [task EXCEPT ![i].payment = n]
        BY <3>2 DEF n
      <4> QED
        BY <4>1, <4>2 DEF TypeOK, Task
    <3> QED
      BY <1>4, <3>1, <3>2 DEF FindByOrder
  <2>3. GroupOK'
    BY <1>0, <1>4, <2>1, <2>2, StepKeepsGroup DEF FindByOrder
  <2>4. ReplicasOK'
    BY <2>1, <2>2 DEF Goto, TypeOK, ReplicasOK, Steps
  <2>5. LedgerOK'
    BY <1>4 DEF FindByOrder, TypeOK, LedgerOK
  <2> QED
    BY <2>3, <2>4, <2>5
<1>5. ASSUME NEW i \in Instances, RecordSkip(i) PROVE GroupOK' /\ ReplicasOK' /\ LedgerOK'
  <2>1. Goto(i, "done") /\ "done" \in Steps
    BY <1>5 DEF RecordSkip, Steps
  <2>2. GroupOK' /\ ReplicasOK'
    BY <1>0, <1>5, <2>1, StepKeepsGroup, StepKeepsReplicas DEF RecordSkip
  <2>3. rows' \in [Events -> Row]
    BY <1>5, SaveRowType DEF RecordSkip
  <2>4. LedgerOK'
    BY <1>5, <2>3 DEF RecordSkip, TypeOK, LedgerOK
  <2> QED
    BY <2>2, <2>4
<1>6. ASSUME NEW i \in Instances, PrecheckThrows(i) PROVE GroupOK' /\ ReplicasOK' /\ LedgerOK'
  <2>1. Goto(i, "escaped") /\ "escaped" \in Steps
    BY <1>6 DEF PrecheckThrows, Steps
  <2>2. GroupOK' /\ ReplicasOK'
    BY <1>0, <1>6, <2>1, StepKeepsGroup, StepKeepsReplicas DEF PrecheckThrows
  <2>3. LedgerOK'
    BY <1>6 DEF PrecheckThrows, TypeOK, LedgerOK
  <2> QED
    BY <2>2, <2>3
<1>7. ASSUME NEW i \in Instances, PublishRequested(i) PROVE GroupOK' /\ ReplicasOK' /\ LedgerOK'
  <2>0. issued + 1 \in Nat
    BY DEF TypeOK
  <2>1. PICK v \in Verdicts : task' = [task EXCEPT ![i].payment = issued + 1, ![i].verdict = v]
    BY <1>7 DEF PublishRequested, Verdicts
  <2>2. /\ task' \in [Instances -> Task]
        /\ task'[i].verdict \in Verdicts
        /\ \A j \in Instances : task'[j].offset = task[j].offset
        /\ \A j \in Instances : j # i => task'[j] = task[j]
    BY <2>0, <2>1 DEF TypeOK, Task
  <2>3. GroupOK'
    BY <1>0, <1>7, <2>2, StepKeepsGroup DEF PublishRequested
  <2>4. ReplicasOK'
    BY <1>7, <2>2 DEF PublishRequested, Goto, TypeOK, ReplicasOK, Steps
  <2>5. out' \subseteq Message
    BY <1>7, <2>0, SendType DEF PublishRequested
  <2>6. LedgerOK'
    BY <1>7, <2>0, <2>5 DEF PublishRequested, TypeOK, LedgerOK
  <2> QED
    BY <2>3, <2>4, <2>6
<1>8. ASSUME NEW i \in Instances, pc[i] = "publishOutcome", Send(i, OutcomeType[task[i].verdict], task[i].payment)
      PROVE  out' \subseteq Message
  <2>1. task[i].verdict \in Verdicts /\ task[i].payment \in Nat
    BY <1>8 DEF TypeOK, Task
  <2> DEFINE type == OutcomeType[task[i].verdict]
  <2>2. type \in {"payment.requested", "payment.processed", "payment.failed"}
    BY <2>1 DEF OutcomeType, Verdicts
  <2> HIDE DEF type
  <2>3. Send(i, type, task[i].payment)
    BY <1>8 DEF type
  <2> QED
    BY <1>8, <2>1, <2>2, <2>3, SendType
<1>9. ASSUME NEW i \in Instances, PublishOutcome(i) PROVE GroupOK' /\ ReplicasOK' /\ LedgerOK'
  <2>1. Goto(i, "recordOutcome") /\ "recordOutcome" \in Steps
    BY <1>9 DEF PublishOutcome, Steps
  <2>2. GroupOK' /\ ReplicasOK'
    BY <1>0, <1>9, <2>1, StepKeepsGroup, StepKeepsReplicas DEF PublishOutcome
  <2>3. LedgerOK'
    BY <1>8, <1>9 DEF PublishOutcome, TypeOK, LedgerOK
  <2> QED
    BY <2>2, <2>3
<1>10. ASSUME NEW i \in Instances, RecordOutcome(i) PROVE GroupOK' /\ ReplicasOK' /\ LedgerOK'
  <2>1. Goto(i, "done") /\ "done" \in Steps
    BY <1>10 DEF RecordOutcome, Steps
  <2>2. GroupOK' /\ ReplicasOK'
    BY <1>0, <1>10, <2>1, StepKeepsGroup, StepKeepsReplicas DEF RecordOutcome
  <2> DEFINE v == task[i].verdict
  <2>3. v \in Verdicts \cup {"skipped_duplicate_order"} /\ pc[i] # "idle" /\ SaveRow(i, v)
    BY <1>10 DEF RecordOutcome, TypeOK
  <2> HIDE DEF v
  <2>4. rows' \in [Events -> Row]
    BY <2>3, SaveRowType
  <2>5. LedgerOK'
    BY <1>10, <2>4 DEF RecordOutcome, TypeOK, LedgerOK
  <2> QED
    BY <2>2, <2>5
<1>11. ASSUME NEW i \in Instances, RequestRejects(i) \/ OutcomeRejects(i) \/ RecordRejects(i)
       PROVE  GroupOK' /\ ReplicasOK' /\ LedgerOK'
  <2>1. Goto(i, "failed") /\ "failed" \in Steps /\ pc[i] # "idle" /\ UNCHANGED <<log, groupVars, task>>
    BY <1>11 DEF RequestRejects, OutcomeRejects, RecordRejects, Steps
  <2>2. GroupOK' /\ ReplicasOK'
    BY <1>0, <2>1, StepKeepsGroup, StepKeepsReplicas
  <2>3. OrderInHand(i) \in Orders
    BY <2>1, InHand
  <2>4. CASE RequestRejects(i)
    <3>1. issued + 1 \in Nat
      BY DEF TypeOK
    <3>2. out' \subseteq Message
      BY <2>1, <2>4, <3>1, SendType DEF RequestRejects, TypeOK
    <3> QED
      BY <2>2, <2>4, <3>1, <3>2 DEF RequestRejects, TypeOK, LedgerOK
  <2>5. CASE OutcomeRejects(i)
    <3>1. out' \subseteq Message
      BY <1>8, <2>5 DEF OutcomeRejects, TypeOK
    <3> QED
      BY <2>2, <2>3, <2>5, <3>1 DEF OutcomeRejects, TypeOK, LedgerOK, Expose
  <2>6. CASE RecordRejects(i)
    BY <2>2, <2>3, <2>6 DEF RecordRejects, TypeOK, LedgerOK, Expose
  <2> QED
    BY <1>11, <2>4, <2>5, <2>6
<1>12. ASSUME NEW i \in Instances, ScheduleRetry(i) \/ SendToDlq(i) \/ RetryPublishRejects(i)
       PROVE  GroupOK' /\ ReplicasOK' /\ LedgerOK'
  <2>1. PICK step \in {"done", "escaped"} : Goto(i, step)
    BY <1>12 DEF ScheduleRetry, SendToDlq, RetryPublishRejects
  <2>2. pc[i] # "idle" /\ UNCHANGED <<groupVars, task, ledgerVars, historyVars>>
    BY <1>12 DEF ScheduleRetry, SendToDlq, RetryPublishRejects
  <2>3. log' \in Seq(Record) /\ Len(log) <= Len(log') /\ dlq' \subseteq Events
    <3>1. CASE Republish(i)
      BY <2>2, <3>1, RepublishGrows DEF Grows, TypeOK
    <3>2. CASE DeadLetter(i)
      <4>1. Current(i).event \in Events
        BY <2>2, InHand
      <4> QED
        BY <1>0, <3>2, <4>1 DEF DeadLetter, TypeOK
    <3>3. CASE UNCHANGED <<log, dlq>>
      BY <1>0, <3>3 DEF TypeOK
    <3> QED
      BY <1>12, <3>1, <3>2, <3>3 DEF ScheduleRetry, SendToDlq, RetryPublishRejects
  <2>4. step \in Steps /\ step \notin {"recordOutcome", "publishOutcome"}
    BY DEF Steps
  <2>5. GroupOK' /\ ReplicasOK'
    BY <2>1, <2>2, <2>3, <2>4, StepKeepsGroup, StepKeepsReplicas
  <2>6. faults' \in 0..MaxFaults
    BY <1>12 DEF ScheduleRetry, SendToDlq, RetryPublishRejects, TypeOK
  <2> QED
    BY <2>2, <2>3, <2>5, <2>6 DEF TypeOK, LedgerOK
<1>13. ASSUME NEW i \in Instances, Finish(i) PROVE GroupOK' /\ ReplicasOK' /\ LedgerOK'
  <2>1. PICK resolve \in BOOLEAN : Release(i, resolve)
    BY <1>13 DEF Finish, Resolve, DropEscaped, RedeliverEscaped
  <2>2. pc[i] # "idle"
    BY <1>13 DEF Finish, Resolve, DropEscaped, RedeliverEscaped
  <2>3. GroupOK' /\ ReplicasOK'
    BY <2>1, <2>2, ReleaseType
  <2>4. UNCHANGED <<faults, exposed>>
    BY <1>13 DEF Finish, Resolve, DropEscaped, RedeliverEscaped
  <2>5. lost' \subseteq Events
    <3>1. Current(i).event \in Events
      BY <2>2, InHand
    <3>2. lost' = lost \/ lost' = lost \cup {Current(i).event}
      BY <1>13 DEF Finish, Resolve, DropEscaped, RedeliverEscaped
    <3> QED
      BY <3>1, <3>2 DEF TypeOK
  <2> QED
    BY <2>1, <2>3, <2>4, <2>5 DEF Release, TypeOK, LedgerOK
<1>14. ASSUME AutoCommit PROVE GroupOK' /\ ReplicasOK' /\ LedgerOK'
  BY <1>14 DEF AutoCommit, TypeOK, GroupOK, ReplicasOK, LedgerOK
<1>15. ASSUME NEW i \in Instances, Crash(i) PROVE GroupOK' /\ ReplicasOK' /\ LedgerOK'
  <2>1. /\ pc' \in [Instances -> Steps] /\ pc'[i] = "idle"
        /\ task' \in [Instances -> Task]
        /\ \A j \in Instances : j # i => pc'[j] = pc[j] /\ task'[j] = task[j]
    BY <1>15 DEF Crash, Goto, TypeOK, Steps, Task, NoTask
  <2>2. GroupOK'
    BY <1>15, <2>1 DEF Crash, TypeOK, GroupOK
  <2>3. ReplicasOK'
    BY <2>1 DEF TypeOK, ReplicasOK
  <2>4. exposed' \subseteq Orders
    BY <1>15, InHand DEF Crash, Expose, TypeOK
  <2> QED
    BY <1>15, <2>2, <2>3, <2>4 DEF Crash, TypeOK, LedgerOK
<1>16. ASSUME NEW j \in Instances, Rebalance(j) PROVE GroupOK' /\ ReplicasOK' /\ LedgerOK'
  <2>1. exposed' \subseteq Orders
    BY <1>16, InHand DEF Rebalance, Expose, ChargeWindow, TypeOK
  <2>2. GroupOK' /\ ReplicasOK'
    BY <1>16 DEF Rebalance, TypeOK, GroupOK, ReplicasOK
  <2> QED
    BY <1>16, <2>1, <2>2 DEF Rebalance, TypeOK, LedgerOK
<1>17. ASSUME UNCHANGED vars PROVE GroupOK' /\ ReplicasOK' /\ LedgerOK'
  BY <1>17 DEF vars, TypeOK, GroupOK, ReplicasOK, LedgerOK
<1> QED
  BY <1>1, <1>2, <1>3, <1>4, <1>5, <1>6, <1>7, <1>9, <1>10, <1>11, <1>12, <1>13, <1>14, <1>15,
     <1>16, <1>17
  DEF Next, Work, Precheck, ProcessPayment, Execute

(* TypeOK holds in every reachable state. *)
THEOREM TypeCorrect == Spec => []TypeOK
<1>1. Init => TypeOK
  BY PaymentAssumption DEF Init, TypeOK, NoRow, Row, NoTask, Task, Steps, Verdicts
<1> QED
  BY <1>1, TypeStep, PTL DEF Spec

(* A step leaves the topic alone or appends one record. *)
LEMMA LogStep ==
    ASSUME TypeOK, [Next]_vars
    PROVE  UNCHANGED log \/ \E e \in Events : Grows(e)
<1>1. ASSUME NEW e \in Events, Produce(e) PROVE Grows(e)
  BY <1>1, ProduceGrows
<1>2. ASSUME NEW j \in Instances, ScheduleRetry(j) \/ SendToDlq(j) \/ RetryPublishRejects(j)
      PROVE  UNCHANGED log \/ \E e \in Events : Grows(e)
  <2>1. CASE Republish(j)
    <3>1. pc[j] # "idle"
      BY <1>2 DEF ScheduleRetry, SendToDlq, RetryPublishRejects
    <3> QED
      BY <2>1, <3>1, RepublishGrows, InHand
  <2>2. CASE ~Republish(j)
    BY <1>2, <2>2 DEF ScheduleRetry, SendToDlq, RetryPublishRejects, DeadLetter
  <2> QED
    BY <2>1, <2>2
<1>3. ASSUME NEW j \in Instances, Precheck(j) \/ ProcessPayment(j) \/ Finish(j) PROVE UNCHANGED log
  BY <1>3 DEF Precheck, FindByEvent, FindByOrder, RecordSkip, PrecheckThrows, ProcessPayment,
              PublishRequested, PublishOutcome, RecordOutcome, RequestRejects, OutcomeRejects,
              RecordRejects, Finish, Resolve, DropEscaped, RedeliverEscaped, Release
<1>4. ASSUME NEW j \in Instances, HandleOrderEvents(j) \/ Crash(j) \/ Rebalance(j)
      PROVE  UNCHANGED log
  BY <1>4 DEF HandleOrderEvents, Crash, Rebalance
<1>5. AutoCommit \/ UNCHANGED vars => UNCHANGED log
  BY DEF AutoCommit, vars
<1> QED
  BY <1>1, <1>2, <1>3, <1>4, <1>5 DEF Next, Work, Execute

(* Whatever a step does, a replica that keeps its record keeps the event in its hands. *)
LEMMA HandKeepsEvent ==
    ASSUME TypeOK, [Next]_vars, NEW i \in Instances, pc[i] # "idle",
           task'[i].offset = task[i].offset
    PROVE  Current(i)'.event = Current(i).event
<1>1. task[i].offset \in 1..Len(log) /\ Len(log) \in Nat
  BY DEF TypeOK
<1>2. UNCHANGED log \/ \E e \in Events : Grows(e)
  BY LogStep
<1> QED
  BY <1>1, <1>2 DEF Grows, Current

(* The parts of HonestInv, for one row and for one replica. *)
Paid(o, payment) ==
    \E f \in Events :
       /\ OrderOf[f] = o
       /\ [type |-> "payment.processed", event |-> f, payment |-> payment] \in out
Announced(e, outcome, payment) ==
    [type |-> OutcomeType[outcome], event |-> e, payment |-> payment] \in out
RowHonest(e) ==
    /\ rows[e].outcome \in Verdicts => Announced(e, rows[e].outcome, rows[e].payment)
    /\ rows[e].outcome = "skipped_duplicate_order" => Paid(OrderOf[e], rows[e].payment)
ReplicaHonest(i) ==
    /\ pc[i] = "recordOutcome" => Announced(Current(i).event, task[i].verdict, task[i].payment)
    /\ pc[i] = "recordSkip" => Paid(OrderInHand(i), task[i].payment)

(* HonestInv, row by row and replica by replica. *)
LEMMA HonestSplits ==
    HonestInv <=> /\ \A e \in Events : RowHonest(e)
                  /\ \A i \in Instances : ReplicaHonest(i)
  BY DEF HonestInv, LedgerIsHonest, RowHonest, ReplicaHonest, Paid, Announced

(* Messages are never taken back. *)
LEMMA HonestFrame ==
    ASSUME TypeOK, HonestInv, [Next]_vars, out \subseteq out'
    PROVE  /\ \A e \in Events : rows'[e] = rows[e] => RowHonest(e)'
           /\ \A i \in Instances :
                 \/ pc'[i] = pc[i] /\ task'[i] = task[i]
                 \/ pc'[i] \notin {"recordOutcome", "recordSkip"}
                 => ReplicaHonest(i)'
<1>1. \A o, n : Paid(o, n) => Paid(o, n)'
  BY DEF Paid
<1>2. \A e, v, n : Announced(e, v, n) => Announced(e, v, n)'
  BY DEF Announced
<1>3. \A e \in Events : rows'[e] = rows[e] => RowHonest(e)'
  BY <1>1, <1>2, HonestSplits DEF RowHonest
<1>4. ASSUME NEW i \in Instances, pc'[i] = pc[i], task'[i] = task[i],
             pc[i] \in {"recordOutcome", "recordSkip"}
      PROVE  ReplicaHonest(i)'
  <2>1. Current(i)'.event = Current(i).event
    BY <1>4, HandKeepsEvent
  <2>2. OrderInHand(i)' = OrderInHand(i)
    BY <2>1 DEF OrderInHand
  <2> QED
    BY <1>1, <1>2, <1>4, <2>1, <2>2, HonestSplits DEF ReplicaHonest
<1>5. ASSUME NEW i \in Instances, pc'[i] \notin {"recordOutcome", "recordSkip"}
      PROVE  ReplicaHonest(i)'
  BY <1>5 DEF ReplicaHonest
<1> QED
  BY <1>3, <1>4, <1>5

(***************************************************************************)
(* The idempotency table never claims what was not published: the outcome  *)
(* is announced before it is recorded, and a rejected announcement is not  *)
(* recorded.                                                               *)
(***************************************************************************)
LEMMA HonestStep == TypeOK /\ HonestInv /\ [Next]_vars => HonestInv'
<1> SUFFICES ASSUME TypeOK, HonestInv, [Next]_vars
             PROVE  /\ \A e \in Events : RowHonest(e)'
                    /\ \A i \in Instances : ReplicaHonest(i)'
  BY HonestSplits, TypeStep DEF HonestInv, LedgerIsHonest, RowHonest, ReplicaHonest, Paid, Announced
<1> DEFINE Honest == /\ \A e \in Events : RowHonest(e)
                     /\ \A i \in Instances : ReplicaHonest(i)
<1> HIDE DEF Honest
<1> USE DEF groupVars, ledgerVars, historyVars
<1>1. ASSUME rows' = rows, out \subseteq out',
             \A j \in Instances : \/ pc'[j] = pc[j] /\ task'[j] = task[j]
                                  \/ pc'[j] \notin {"recordOutcome", "recordSkip"}
      PROVE  Honest'
  BY <1>1, HonestFrame DEF Honest
<1>2. ASSUME NEW e \in Events, Produce(e) PROVE Honest'
  BY <1>1, <1>2 DEF Produce
<1>3. ASSUME NEW i \in Instances, HandleOrderEvents(i) PROVE Honest'
  <2>1. /\ pc'[i] = "findByEvent"
        /\ \A j \in Instances : j # i => pc'[j] = pc[j] /\ task'[j] = task[j]
    BY <1>3 DEF HandleOrderEvents, Goto, TypeOK
  <2> QED
    BY <1>1, <1>3, <2>1 DEF HandleOrderEvents
<1>4. ASSUME NEW i \in Instances,
             NEW step \in Steps \ {"recordOutcome", "recordSkip"},
             Goto(i, step), rows' = rows, out \subseteq out',
             \A j \in Instances : j # i => task'[j] = task[j]
      PROVE  Honest'
  <2>1. pc'[i] = step /\ \A j \in Instances : j # i => pc'[j] = pc[j]
    BY <1>4 DEF Goto, TypeOK
  <2> QED
    BY <1>1, <1>4, <2>1
<1>5. ASSUME NEW i \in Instances, FindByEvent(i) PROVE Honest'
  <2>1. PICK step \in {"done", "findByOrder"} : Goto(i, step)
    BY <1>5 DEF FindByEvent
  <2> QED
    BY <1>4, <1>5, <2>1 DEF FindByEvent, Steps
<1>6. ASSUME NEW i \in Instances, FindByOrder(i) PROVE Honest'
  <2>1. CASE Goto(i, "publishRequested") /\ UNCHANGED task
    BY <1>4, <1>6, <2>1 DEF FindByOrder, Steps
  <2>2. ASSUME NEW e \in ApprovedRows(OrderInHand(i)),
               task' = [task EXCEPT ![i].payment = rows[e].payment],
               Goto(i, "recordSkip")
        PROVE  Honest'
    <3>1. UNCHANGED <<rows, out, log>> /\ pc[i] # "idle" /\ Current(i)' = log[task'[i].offset]
      BY <1>6 DEF FindByOrder, Current
    <3> DEFINE n == rows[e].payment
    <3>2. e \in Events /\ OrderOf[e] = OrderInHand(i) /\ rows[e].outcome = "approved"
      BY DEF ApprovedRows
    <3>3. Paid(OrderInHand(i), n)
      <4>1. Announced(e, "approved", n) /\ OutcomeType["approved"] = "payment.processed"
        BY <3>2, HonestSplits DEF RowHonest, Verdicts, OutcomeType
      <4> QED
        BY <3>2, <4>1 DEF Paid, Announced
    <3> HIDE DEF n
    <3>4. task' = [task EXCEPT ![i].payment = n]
      BY <2>2 DEF n
    <3>5. /\ task'[i].payment = n /\ task'[i].offset = task[i].offset
          /\ \A j \in Instances : j # i => task'[j] = task[j] /\ pc'[j] = pc[j]
          /\ pc'[i] = "recordSkip"
      BY <2>2, <3>4 DEF TypeOK, Task, Goto
    <3>6. Current(i)'.event = Current(i).event
      BY <3>1, <3>5, HandKeepsEvent
    <3>7. OrderInHand(i)' = OrderInHand(i)
      BY <3>6 DEF OrderInHand
    <3>8. ReplicaHonest(i)'
      BY <3>1, <3>3, <3>5, <3>7 DEF ReplicaHonest, Paid
    <3>9. /\ \A f \in Events : RowHonest(f)'
          /\ \A j \in Instances : j # i => ReplicaHonest(j)'
      BY <3>1, <3>5, HonestFrame
    <3> QED
      BY <3>8, <3>9 DEF Honest
  <2> QED
    BY <1>6, <2>1, <2>2 DEF FindByOrder
<1>7. ASSUME NEW i \in Instances, NEW outcome, pc[i] # "idle",
             SaveRow(i, outcome), Goto(i, "done"), UNCHANGED <<task, out>>,
             outcome \in Verdicts => Announced(Current(i).event, outcome, task[i].payment),
             outcome = "skipped_duplicate_order" => Paid(OrderInHand(i), task[i].payment)
      PROVE  Honest'
  <2>1. /\ \A f \in Events : f # Current(i).event => rows'[f] = rows[f]
        /\ rows'[Current(i).event] = [outcome |-> outcome, payment |-> task[i].payment]
        /\ Current(i).event \in Events
    BY <1>7, InHand DEF SaveRow, TypeOK
  <2>2. RowHonest(Current(i).event)'
    <3> DEFINE e == Current(i).event
    <3>1. /\ rows'[e].outcome = outcome /\ rows'[e].payment = task[i].payment
          /\ OrderOf[e] = OrderInHand(i)
      BY <2>1 DEF OrderInHand
    <3>2. /\ rows'[e].outcome \in Verdicts =>
                [type |-> OutcomeType[rows'[e].outcome], event |-> e, payment |-> rows'[e].payment] \in out'
          /\ rows'[e].outcome = "skipped_duplicate_order" =>
                \E f \in Events :
                   /\ OrderOf[f] = OrderOf[e]
                   /\ [type |-> "payment.processed", event |-> f, payment |-> rows'[e].payment] \in out'
      BY <1>7, <3>1 DEF Announced, Paid
    <3>3. Current(i)' = log'[task'[i].offset]
      BY DEF Current
    <3>4. \A x : x = e => (RowHonest(x)' <=>
             /\ rows'[x].outcome \in Verdicts =>
                   [type |-> OutcomeType[rows'[x].outcome], event |-> x, payment |-> rows'[x].payment] \in out'
             /\ rows'[x].outcome = "skipped_duplicate_order" =>
                   \E f \in Events :
                      /\ OrderOf[f] = OrderOf[x]
                      /\ [type |-> "payment.processed", event |-> f, payment |-> rows'[x].payment] \in out')
      BY DEF RowHonest, Announced, Paid
    <3>5. e' = e
      BY <1>7, HandKeepsEvent
    <3> QED
      BY <3>2, <3>4, <3>5
  <2>3. /\ \A f \in Events : f # Current(i).event => RowHonest(f)'
        /\ \A j \in Instances : ReplicaHonest(j)'
    <3>1. \A j \in Instances : (pc'[j] = pc[j] /\ task'[j] = task[j])
                                \/ pc'[j] \notin {"recordOutcome", "recordSkip"}
      BY <1>7 DEF Goto, TypeOK
    <3> QED
      BY <1>7, <2>1, <3>1, HonestFrame
  <2>4. Current(i)'.event = Current(i).event
    BY <1>7, HandKeepsEvent
  <2> QED
    BY <2>1, <2>2, <2>3, <2>4 DEF Honest
<1>8. ASSUME NEW i \in Instances, RecordSkip(i) PROVE Honest'
  <2>1. Paid(OrderInHand(i), task[i].payment) /\ "skipped_duplicate_order" \notin Verdicts
    BY <1>8, HonestSplits DEF RecordSkip, ReplicaHonest, Verdicts
  <2> QED
    BY <1>7, <1>8, <2>1 DEF RecordSkip
<1>9. ASSUME NEW i \in Instances, RecordOutcome(i) PROVE Honest'
  <2>1. /\ Announced(Current(i).event, task[i].verdict, task[i].payment)
        /\ task[i].verdict # "skipped_duplicate_order"
    BY <1>9, HonestSplits DEF RecordOutcome, ReplicaHonest, TypeOK, Verdicts
  <2> QED
    BY <1>7, <1>9, <2>1 DEF RecordOutcome
<1>10. ASSUME NEW i \in Instances, PublishOutcome(i) PROVE Honest'
  <2>1. /\ UNCHANGED <<rows, task, log>> /\ out \subseteq out' /\ pc[i] # "idle"
        /\ Announced(Current(i).event, task[i].verdict, task[i].payment)'
    <3>1. UNCHANGED <<rows, task, log>> /\ pc[i] # "idle"
      BY <1>10 DEF PublishOutcome
    <3>2. out' = out \cup {[type |-> OutcomeType[task[i].verdict], event |-> Current(i).event,
                           payment |-> task[i].payment]}
      BY <1>10 DEF PublishOutcome, Send
    <3>3. Current(i)' = Current(i)
      BY <3>1 DEF Current
    <3> QED
      BY <3>1, <3>2, <3>3 DEF Announced
  <2>2. pc'[i] = "recordOutcome" /\ \A j \in Instances : j # i => pc'[j] = pc[j]
    BY <1>10 DEF PublishOutcome, Goto, TypeOK
  <2>3. ReplicaHonest(i)'
    BY <2>1, <2>2 DEF ReplicaHonest
  <2>4. /\ \A f \in Events : RowHonest(f)'
        /\ \A j \in Instances : j # i => ReplicaHonest(j)'
    BY <2>1, <2>2, HonestFrame
  <2> QED
    BY <2>3, <2>4 DEF Honest
<1>11. ASSUME NEW i \in Instances, PublishRequested(i) PROVE Honest'
  <2>1. out \subseteq out' /\ \A j \in Instances : j # i => task'[j] = task[j]
    BY <1>11 DEF PublishRequested, Send, TypeOK
  <2> QED
    BY <1>4, <1>11, <2>1 DEF PublishRequested, Steps
<1>12. ASSUME NEW i \in Instances, RequestRejects(i) \/ OutcomeRejects(i) \/ RecordRejects(i) PROVE Honest'
  <2>1. out \subseteq out' /\ UNCHANGED <<rows, task>> /\ Goto(i, "failed")
    BY <1>12 DEF RequestRejects, OutcomeRejects, RecordRejects, Send
  <2> QED
    BY <1>4, <2>1 DEF Steps
<1>13. ASSUME NEW i \in Instances, PrecheckThrows(i) PROVE Honest'
  BY <1>4, <1>13 DEF PrecheckThrows, Steps
<1>14. ASSUME NEW i \in Instances, Execute(i) PROVE Honest'
  <2>1. PICK step \in {"done", "escaped"} : Goto(i, step)
    BY <1>14 DEF Execute, ScheduleRetry, SendToDlq, RetryPublishRejects
  <2>2. UNCHANGED <<rows, out, task>>
    BY <1>14 DEF Execute, ScheduleRetry, SendToDlq, RetryPublishRejects
  <2> QED
    BY <1>4, <2>1, <2>2 DEF Steps
<1>15. ASSUME NEW i \in Instances, Finish(i) \/ Crash(i) PROVE Honest'
  <2>1. /\ Goto(i, "idle") /\ UNCHANGED <<rows, out>>
        /\ \A j \in Instances : j # i => task'[j] = task[j]
    BY <1>15 DEF Finish, Resolve, DropEscaped, RedeliverEscaped, Release, Crash, TypeOK
  <2> QED
    BY <1>4, <2>1 DEF Steps
<1>16. ASSUME \/ \E j \in Instances : Rebalance(j)
              \/ AutoCommit
              \/ UNCHANGED vars
       PROVE  Honest'
  BY <1>1, <1>16 DEF Rebalance, AutoCommit, vars
<1>17. Honest'
  BY <1>2, <1>3, <1>5, <1>6, <1>8, <1>9, <1>10, <1>11, <1>12, <1>13, <1>14, <1>15, <1>16
  DEF Next, Work, Precheck, ProcessPayment
<1> QED
  BY <1>17 DEF Honest

(* LedgerIsHonest holds in every reachable state, by induction on HonestInv. *)
THEOREM HonestLedger == Spec => []LedgerIsHonest
<1>1. Init => HonestInv
  BY DEF Init, HonestInv, LedgerIsHonest, NoRow, Verdicts
<1>2. HonestInv => LedgerIsHonest
  BY DEF HonestInv
<1> QED
  BY <1>1, <1>2, HonestStep, TypeCorrect, PTL DEF Spec

(* A growing topic keeps what lies ahead and puts the new record there. *)
LEMMA GrowsAhead ==
    ASSUME NEW e \in Events, Grows(e)
    PROVE  /\ \A f : \A n \in Nat : Ahead(f, n) => Ahead(f, n)'
           /\ \A n \in Nat : n <= Len(log) => Ahead(e, n)'
           /\ \A f \in Events : Published(f)' => Published(f) \/ f = e
<1>1. Len(log) \in Nat /\ Len(log') = Len(log) + 1
      /\ (\A k \in 1..Len(log) : log'[k] = log[k]) /\ log'[Len(log) + 1].event = e
  BY DEF Grows
<1>2. ASSUME NEW f, NEW n \in Nat, Ahead(f, n) PROVE Ahead(f, n)'
  <2>1. PICK k \in (n + 1)..Len(log) : log[k].event = f
    BY <1>2 DEF Ahead
  <2>2. CASE k \in 1..Len(log)
    BY <1>1, <2>1, <2>2 DEF Ahead
  <2> QED
    BY <2>1, <2>2 DEF Ahead
<1>3. ASSUME NEW n \in Nat, n <= Len(log) PROVE Ahead(e, n)'
  BY <1>1, <1>3 DEF Ahead
<1>4. ASSUME NEW f \in Events, Published(f)' PROVE Published(f) \/ f = e
  BY <1>1, <1>4 DEF Published
<1> QED
  BY <1>2, <1>3, <1>4

(* What was answered stays answered. *)
LEMMA AnsweredStays ==
    ASSUME TypeOK, [Next]_vars, NEW e \in Events, Answered(e)
    PROVE  Answered(e)'
<1> USE DEF groupVars, ledgerVars, historyVars
<1>1. ASSUME NEW i \in Instances, NEW outcome, outcome # "none", SaveRow(i, outcome), pc[i] # "idle"
      PROVE  rows[e] # NoRow => rows'[e] # NoRow
  <2>1. Current(i).event \in Events
    BY <1>1, InHand
  <2> QED
    BY <1>1, <2>1 DEF SaveRow, NoRow, TypeOK
<1>2. rows[e] # NoRow => rows'[e] # NoRow
  <2>1. ASSUME NEW i \in Instances, RecordSkip(i) PROVE rows[e] # NoRow => rows'[e] # NoRow
    BY <1>1, <2>1 DEF RecordSkip
  <2>2. ASSUME NEW i \in Instances, RecordOutcome(i) PROVE rows[e] # NoRow => rows'[e] # NoRow
    <3>1. task[i].verdict # "none"
      BY <2>2 DEF RecordOutcome, TypeOK, Verdicts
    <3> QED
      BY <1>1, <2>2, <3>1 DEF RecordOutcome
  <2>3. ASSUME NEW i \in Instances, Precheck(i) PROVE RecordSkip(i) \/ UNCHANGED rows
    BY <2>3 DEF Precheck, FindByEvent, FindByOrder, PrecheckThrows
  <2>4. ASSUME NEW i \in Instances, ProcessPayment(i) PROVE RecordOutcome(i) \/ UNCHANGED rows
    BY <2>4 DEF ProcessPayment, PublishRequested, PublishOutcome, RequestRejects,
                OutcomeRejects, RecordRejects
  <2>5. ASSUME NEW i \in Instances, Execute(i) \/ Finish(i) PROVE UNCHANGED rows
    BY <2>5 DEF Execute, ScheduleRetry, SendToDlq, RetryPublishRejects, Finish, Resolve,
                DropEscaped, RedeliverEscaped, Release
  <2>6. \/ \E i \in Instances : Work(i)
        \/ UNCHANGED rows
    BY DEF Next, Produce, HandleOrderEvents, Crash, Rebalance, AutoCommit, vars
  <2> QED
    BY <2>1, <2>2, <2>3, <2>4, <2>5, <2>6 DEF Work
<1>3. e \in dlq => e \in dlq'
  <2>1. ASSUME NEW i \in Instances, Precheck(i) \/ ProcessPayment(i) PROVE UNCHANGED dlq
    BY <2>1 DEF Precheck, FindByEvent, FindByOrder, RecordSkip, PrecheckThrows, ProcessPayment,
                PublishRequested, PublishOutcome, RecordOutcome, RequestRejects, OutcomeRejects,
                RecordRejects, SaveRow
  <2>2. ASSUME NEW i \in Instances, Execute(i) PROVE e \in dlq => e \in dlq'
    BY <2>2 DEF Execute, ScheduleRetry, SendToDlq, RetryPublishRejects, Republish, DeadLetter
  <2>3. ASSUME NEW i \in Instances, Finish(i) PROVE UNCHANGED dlq
    BY <2>3 DEF Finish, Resolve, DropEscaped, RedeliverEscaped, Release
  <2>4. \/ \E i \in Instances : Work(i)
        \/ UNCHANGED dlq
    BY DEF Next, Produce, HandleOrderEvents, Crash, Rebalance, AutoCommit, vars
  <2> QED
    BY <2>1, <2>2, <2>3, <2>4 DEF Work
<1>4. e \in lost => e \in lost'
  BY DEF Next, Produce, HandleOrderEvents, Work, Precheck, FindByEvent, FindByOrder, RecordSkip,
         PrecheckThrows, ProcessPayment, PublishRequested, PublishOutcome, RecordOutcome,
         RequestRejects, OutcomeRejects, RecordRejects, Execute, ScheduleRetry, SendToDlq,
         RetryPublishRejects, Finish, Resolve, DropEscaped,
         RedeliverEscaped, Release, Crash, Rebalance, AutoCommit, vars
<1> QED
  BY <1>2, <1>3, <1>4 DEF Answered

(***************************************************************************)
(* No envelope the group has moved past is forgotten, and none a replica   *)
(* is about to move past: it has a row, is dead-lettered, was dropped by   *)
(* an escaped error, or a copy of it lies ahead.                           *)
(***************************************************************************)
LEMMA VanishStep == TypeOK /\ VanishInv /\ [Next]_vars => VanishInv'
<1> SUFFICES ASSUME TypeOK, VanishInv, [Next]_vars PROVE VanishInv'
  OBVIOUS
<1> DEFINE Kept(e) == Published(e) => (Answered(e) \/ Ahead(e, position))
<1> DEFINE Settled(i) ==
             pc[i] = "done" =>
                (Answered(Current(i).event) \/ Ahead(Current(i).event, task[i].offset))
<1> SUFFICES (\A e \in Events : Kept(e)') /\ (\A i \in Instances : Settled(i)')
  BY DEF VanishInv, NothingVanishes
<1>0. (\A e \in Events : Kept(e)) /\ (\A i \in Instances : Settled(i))
  BY DEF VanishInv, NothingVanishes
<1>a. /\ position \in Nat /\ committed \in Nat /\ committed <= position
      /\ position <= Len(log) /\ Len(log) \in Nat
  BY DEF TypeOK
<1>b. UNCHANGED log \/ \E e \in Events : Grows(e)
  BY LogStep
<1>c. \A f \in Events, n \in Nat : Ahead(f, n) => Ahead(f, n)'
  BY <1>b, GrowsAhead DEF Ahead
<1>d. \A f \in Events : Answered(f) => Answered(f)'
  BY AnsweredStays
<1> USE DEF groupVars, ledgerVars, historyVars
<1>1. ASSUME position' = position PROVE \A e \in Events : Kept(e)'
  <2>1. CASE UNCHANGED log
    BY <1>0, <1>1, <1>a, <1>c, <1>d, <2>1 DEF Published
  <2>2. ASSUME NEW f \in Events, Grows(f) PROVE \A e \in Events : Kept(e)'
    <3>1. Ahead(f, position)'
      <4>1. \A n \in Nat : n <= Len(log) => Ahead(f, n)'
        BY <2>2, GrowsAhead
      <4>2. PICK n \in Nat : n = position /\ n <= Len(log)
        BY <1>a
      <4>3. Ahead(f, n)'
        BY <4>1, <4>2
      <4> QED
        BY <1>1, <4>2, <4>3 DEF Ahead
    <3>2. \A e \in Events : Published(e)' => Published(e) \/ e = f
      BY <2>2, GrowsAhead
    <3>3. \A e \in Events : Ahead(e, position) => Ahead(e, position)'
      BY <1>1, <1>a, <2>2 DEF Ahead, Grows
    <3> QED
      BY <1>0, <1>d, <3>1, <3>2, <3>3
  <2> QED
    BY <1>b, <2>1, <2>2
<1>2. ASSUME UNCHANGED log, position' = committed PROVE \A e \in Events : Kept(e)'
  <2>1. \A e \in Events : Ahead(e, position) => Ahead(e, position)'
    BY <1>2, <1>a DEF Ahead
  <2> QED
    BY <1>0, <1>2, <1>d, <2>1 DEF Published
<1>3. ASSUME NEW i \in Instances, pc[i] # "idle", pc'[i] = pc[i], task'[i] = task[i]
      PROVE  Settled(i)'
  <2> DEFINE e == Current(i).event
  <2>1. /\ Current(i)'.event = e /\ e \in Events
        /\ task[i].offset \in 1..Len(log) /\ task[i].offset \in Nat
    BY <1>3, HandKeepsEvent, InHand
  <2>2. Ahead(e, task[i].offset) => \E k \in (task[i].offset + 1)..Len(log') : log'[k].event = e
    BY <1>b, <2>1, <1>a DEF Ahead, Grows
  <2>3. Answered(e) => (rows'[e] # NoRow \/ e \in dlq' \/ e \in lost')
    BY <1>d, <2>1 DEF Answered
  <2>4. ASSUME pc'[i] = "done"
        PROVE  \/ rows'[e] # NoRow \/ e \in dlq' \/ e \in lost'
               \/ \E k \in (task[i].offset + 1)..Len(log') : log'[k].event = e
    BY <1>0, <1>3, <2>2, <2>3, <2>4
  <2> QED
    BY <1>3, <2>1, <2>4 DEF Answered, Ahead
<1>4. ASSUME NEW i \in Instances, \A j \in Instances : j # i => pc'[j] = pc[j] /\ task'[j] = task[j],
             Settled(i)'
      PROVE  \A j \in Instances : Settled(j)'
  <2>1. ASSUME NEW j \in Instances, j # i, pc[j] = "idle" PROVE Settled(j)'
    BY <1>4, <2>1
  <2> QED
    BY <1>3, <1>4, <2>1
<1>5. ASSUME NEW i \in Instances, NEW step \in Steps \ {"done"}, Goto(i, step),
             \A j \in Instances : j # i => task'[j] = task[j]
      PROVE  \A j \in Instances : Settled(j)'
  <2>1. pc'[i] # "done" /\ \A j \in Instances : j # i => pc'[j] = pc[j]
    BY <1>5 DEF Goto, TypeOK
  <2> QED
    BY <1>4, <1>5, <2>1
<1>6. ASSUME UNCHANGED <<pc, task>> PROVE \A j \in Instances : Settled(j)'
  <2>1. ASSUME NEW j \in Instances, pc[j] = "idle" PROVE Settled(j)'
    BY <1>6, <2>1
  <2> QED
    BY <1>3, <1>6, <2>1
<1>7. ASSUME NEW i \in Instances, Goto(i, "done"), task' = task, pc[i] # "idle",
             (\/ Answered(Current(i).event)'
              \/ Ahead(Current(i).event, task[i].offset)')
      PROVE  \A j \in Instances : Settled(j)'
  <2>1. \A j \in Instances : j # i => pc'[j] = pc[j] /\ task'[j] = task[j]
    BY <1>7 DEF Goto, TypeOK
  <2> QED
    BY <1>4, <1>7, <2>1
<1>8. ASSUME NEW e \in Events, Produce(e) PROVE VanishInv'
  BY <1>1, <1>6, <1>8 DEF Produce, VanishInv, NothingVanishes
<1> DEFINE Done == (\A e \in Events : Kept(e)) /\ (\A i \in Instances : Settled(i))
<1>9. ASSUME NEW i \in Instances, HandleOrderEvents(i) PROVE Done'
  BY <1>1, <1>5, <1>9 DEF HandleOrderEvents, TypeOK, Steps
<1>10. ASSUME NEW i \in Instances, FindByEvent(i) PROVE Done'
  <2>1. CASE Goto(i, "findByOrder")
    BY <1>1, <1>5, <1>10, <2>1 DEF FindByEvent, Steps
  <2>2. CASE Goto(i, "done") /\ rows[Current(i).event] # NoRow
    <3>1. UNCHANGED <<rows, dlq, lost, log, task, position>> /\ pc[i] # "idle"
      BY <1>10 DEF FindByEvent
    <3>2. Answered(Current(i).event)'
      BY <2>2, <3>1 DEF Answered, Current
    <3> QED
      BY <1>1, <1>7, <2>2, <3>1, <3>2
  <2> QED
    BY <1>10, <2>1, <2>2 DEF FindByEvent
<1>11. ASSUME NEW i \in Instances, FindByOrder(i) PROVE Done'
  <2>1. PICK step \in {"publishRequested", "recordSkip"} : Goto(i, step)
    BY <1>11 DEF FindByOrder
  <2>2. \A j \in Instances : j # i => task'[j] = task[j]
    BY <1>11 DEF FindByOrder, TypeOK
  <2> QED
    BY <1>1, <1>5, <1>11, <2>1, <2>2 DEF FindByOrder, Steps
<1>12. ASSUME NEW i \in Instances, NEW outcome, outcome # "none", SaveRow(i, outcome), pc[i] # "idle",
              Goto(i, "done"), UNCHANGED <<task, position, log>>
       PROVE  Done'
  <2>1. Current(i).event \in Events /\ Current(i)' = Current(i)
    BY <1>12, InHand DEF Current
  <2>2. rows'[Current(i).event] # NoRow
    BY <1>12, <2>1 DEF SaveRow, NoRow, TypeOK
  <2>3. Answered(Current(i).event)'
    BY <2>1, <2>2 DEF Answered
  <2> QED
    BY <1>1, <1>7, <1>12, <2>3
<1>13. ASSUME NEW i \in Instances, RecordSkip(i) PROVE Done'
  BY <1>12, <1>13 DEF RecordSkip
<1>14. ASSUME NEW i \in Instances, RecordOutcome(i) PROVE Done'
  <2>1. task[i].verdict # "none"
    BY <1>14 DEF RecordOutcome, TypeOK, Verdicts
  <2> QED
    BY <1>12, <1>14, <2>1 DEF RecordOutcome
<1>15. ASSUME NEW i \in Instances,
              \/ PrecheckThrows(i) \/ PublishRequested(i) \/ PublishOutcome(i)
              \/ RequestRejects(i) \/ OutcomeRejects(i) \/ RecordRejects(i)
       PROVE  Done'
  <2>1. PICK step \in {"escaped", "publishOutcome", "recordOutcome", "failed"} : Goto(i, step)
    BY <1>15 DEF PrecheckThrows, PublishRequested, PublishOutcome, RequestRejects, OutcomeRejects,
                 RecordRejects
  <2>2. position' = position /\ \A j \in Instances : j # i => task'[j] = task[j]
    BY <1>15 DEF PrecheckThrows, PublishRequested, PublishOutcome, RequestRejects, OutcomeRejects,
                 RecordRejects, TypeOK
  <2> QED
    BY <1>1, <1>5, <2>1, <2>2 DEF Steps
<1>16. ASSUME NEW i \in Instances, ScheduleRetry(i) PROVE Done'
  <2>1. Republish(i) /\ Goto(i, "done") /\ UNCHANGED <<position, task>> /\ pc[i] # "idle"
    BY <1>16 DEF ScheduleRetry
  <2>2. /\ Grows(Current(i).event) /\ Current(i).event \in Events
        /\ task[i].offset \in Nat /\ task[i].offset <= Len(log)
    BY <2>1, RepublishGrows, InHand
  <2>3. Current(i)'.event = Current(i).event
    BY <2>1, HandKeepsEvent
  <2>4. Ahead(Current(i).event, task[i].offset)'
    BY <2>1, <2>2, <2>3 DEF Grows, Ahead
  <2> QED
    BY <1>1, <1>7, <2>1, <2>4
<1>17. ASSUME NEW i \in Instances, SendToDlq(i) PROVE Done'
  <2>1. /\ DeadLetter(i) /\ Goto(i, "done") /\ UNCHANGED <<position, task, log>> /\ pc[i] # "idle"
        /\ Current(i)' = Current(i)
    BY <1>17 DEF SendToDlq, DeadLetter, Current
  <2>2. Answered(Current(i).event)'
    BY <2>1 DEF DeadLetter, Answered
  <2> QED
    BY <1>1, <1>7, <2>1, <2>2
<1>18. ASSUME NEW i \in Instances, RetryPublishRejects(i) PROVE Done'
  BY <1>1, <1>5, <1>18 DEF RetryPublishRejects, Steps
<1>19. ASSUME NEW i \in Instances, Finish(i) PROVE Done'
  <2>1. /\ Goto(i, "idle") /\ UNCHANGED log /\ pc[i] # "idle"
        /\ \A j \in Instances : j # i => task'[j] = task[j]
    BY <1>19 DEF Finish, Resolve, DropEscaped, RedeliverEscaped, Release, TypeOK
  <2>2. \A j \in Instances : Settled(j)'
    BY <1>5, <2>1 DEF Steps
  <2>3. CASE position' = position
    BY <1>1, <2>2, <2>3
  <2>4. CASE position' # position
    <3> DEFINE cur == Current(i).event
    <3>1. owner = i /\ position' = position + 1 /\ task[i].offset = position + 1 /\ cur = log[position + 1].event
      BY <1>19, <2>1, <2>4 DEF Finish, Resolve, DropEscaped, RedeliverEscaped, Release, TypeOK, Current
    <3>2. \/ Answered(cur) \/ Ahead(cur, position + 1)
          \/ cur \in lost'
      BY <1>0, <1>19, <2>4, <3>1 DEF Finish, Resolve, DropEscaped, RedeliverEscaped, Release
    <3>3. ASSUME NEW e \in Events, Ahead(e, position), ~Ahead(e, position + 1) PROVE e = cur
      BY <3>1, <3>3, <1>a DEF Ahead
    <3>4. ASSUME NEW e \in Events, Published(e)' PROVE Answered(e)' \/ Ahead(e, position)'
      <4>1. Published(e)
        BY <2>1, <3>4 DEF Published
      <4>2. \/ Answered(e) \/ Ahead(e, position + 1) \/ e \in lost'
        BY <1>0, <3>2, <3>3, <4>1
      <4>3. Answered(e) \/ e \in lost' => Answered(e)'
        BY <1>d DEF Answered
      <4>4. Ahead(e, position + 1) => Ahead(e, position)'
        BY <2>1, <3>1 DEF Ahead
      <4> QED
        BY <4>2, <4>3, <4>4
    <3> QED
      BY <2>2, <3>4
  <2> QED
    BY <2>3, <2>4
<1>20. ASSUME NEW i \in Instances, Crash(i) PROVE Done'
  <2>1. /\ Goto(i, "idle") /\ UNCHANGED log /\ position' \in {position, committed}
        /\ \A j \in Instances : j # i => task'[j] = task[j]
    BY <1>20 DEF Crash, TypeOK
  <2> QED
    BY <1>1, <1>2, <1>5, <2>1 DEF Steps
<1>21. ASSUME NEW j \in Instances, Rebalance(j) PROVE Done'
  BY <1>2, <1>6, <1>21 DEF Rebalance
<1>22. CASE AutoCommit \/ UNCHANGED vars
  BY <1>1, <1>6, <1>22 DEF AutoCommit, vars
<1> QED
  BY <1>8, <1>9, <1>10, <1>11, <1>13, <1>14, <1>15, <1>16, <1>17, <1>18, <1>19, <1>20, <1>21, <1>22
  DEF Next, Work, Precheck, ProcessPayment, Execute, VanishInv, NothingVanishes

(* NothingVanishes holds in every reachable state, by induction on VanishInv. *)
THEOREM VanishingNothing == Spec => []NothingVanishes
<1>1. Init => VanishInv
  BY DEF Init, VanishInv, NothingVanishes, Published
<1>2. VanishInv => NothingVanishes
  BY DEF VanishInv
<1> QED
  BY <1>1, <1>2, VanishStep, TypeCorrect, PTL DEF Spec

------------------------------------------------------------------------------
(***************************************************************************)
(* PaymentService implements AtLeastOnce, for any set of replicas and      *)
(* envelopes, any attempt budget and any number of faults: every step of   *)
(* a replica, a zombie's included, is a step of the abstract consumer or a *)
(* stutter.                                                                *)
(***************************************************************************)

(* The two abstract variables, pair by pair. *)
LEMMA PairsMean ==
    /\ AheadPairs \subseteq {Group} \X Events
    /\ AnsweredPairs \subseteq {Group} \X Events
    /\ \A e \in Events : /\ <<Group, e>> \in AheadPairs <=> Ahead(e, position)
                         /\ <<Group, e>> \in AnsweredPairs <=> Answered(e)
BY DEF AheadPairs, AnsweredPairs

(* The same of the next state. *)
LEMMA PairsMeanNext ==
    /\ AheadPairs' \subseteq {Group} \X Events
    /\ AnsweredPairs' \subseteq {Group} \X Events
    /\ \A e \in Events : /\ <<Group, e>> \in AheadPairs' <=> Ahead(e, position)'
                         /\ <<Group, e>> \in AnsweredPairs' <=> Answered(e)'
BY DEF AheadPairs, AnsweredPairs

(* Sets of pairs are equal when they have the same envelopes. *)
LEMMA SamePairs ==
    ASSUME NEW A \in SUBSET ({Group} \X Events), NEW B \in SUBSET ({Group} \X Events),
           \A e \in Events : <<Group, e>> \in A <=> <<Group, e>> \in B
    PROVE  A = B
<1>1. ASSUME NEW p \in {Group} \X Events PROVE p \in A <=> p \in B
  <2>1. p[2] \in Events /\ p = <<Group, p[2]>>
    BY <1>1
  <2> QED
    BY <2>1
<1> QED
  BY <1>1

(* The same records lie ahead while neither the topic nor the group's position moves. *)
LEMMA AheadUnmoved ==
    ASSUME UNCHANGED <<log, position>>
    PROVE  AheadPairs' = AheadPairs
BY DEF AheadPairs, Ahead

(* The same envelopes are answered while no row, dead letter or loss is added. *)
LEMMA AnsweredUnmoved ==
    ASSUME UNCHANGED <<rows, dlq, lost>>
    PROVE  AnsweredPairs' = AnsweredPairs
BY DEF AnsweredPairs, Answered

(* Among the envelopes, c and only c may have been answered by this step. *)
OnlyAnswers(c) == \A f \in Events : Answered(f)' <=> Answered(f) \/ f = c

(* One more envelope is answered. *)
LEMMA AnswerAdds ==
    ASSUME NEW c \in Events, OnlyAnswers(c)
    PROVE  AnsweredPairs' = AnsweredPairs \cup {<<Group, c>>}
<1>1. \A e \in Events : <<Group, e>> \in AnsweredPairs' <=> <<Group, e>> \in AnsweredPairs \cup {<<Group, c>>}
  BY PairsMean, PairsMeanNext DEF OnlyAnswers
<1> QED
  BY <1>1, PairsMean, PairsMeanNext, SamePairs

(* A record appended to the topic lies ahead of the group. *)
LEMMA AppendedIsPublish ==
    ASSUME TypeOK, NEW e \in Events, Grows(e), UNCHANGED <<position, rows, dlq, lost>>
    PROVE  Delivery!Publish(e)
<1>0. Len(log) \in Nat /\ position \in Nat /\ position <= Len(log)
  BY DEF TypeOK
<1>1. ASSUME NEW f \in Events PROVE Ahead(f, position)' <=> Ahead(f, position) \/ f = e
  <2>1. (position + 1)..Len(log') = ((position + 1)..Len(log)) \cup {Len(log) + 1}
    BY <1>0 DEF Grows
  <2>2. \A k \in (position + 1)..Len(log) : log'[k] = log[k]
    BY <1>0 DEF Grows
  <2> QED
    BY <2>1, <2>2 DEF Ahead, Grows
<1>2. AheadPairs' = AheadPairs \cup {<<Group, e>>}
  <2>1. \A f \in Events : <<Group, f>> \in AheadPairs' <=> <<Group, f>> \in AheadPairs \cup {<<Group, e>>}
    BY <1>1, PairsMean, PairsMeanNext
  <2> QED
    BY <2>1, PairsMean, PairsMeanNext, SamePairs
<1>3. {<<c, e>> : c \in {d \in {Group} : e \in [g \in {Group} |-> Events][d]}} = {<<Group, e>>}
  OBVIOUS
<1> QED
  BY <1>2, <1>3, AnsweredUnmoved DEF Delivery!Publish

(***************************************************************************)
(* A row saved or a dead letter sent, by the owner or by a zombie: the     *)
(* envelope was answered before, or a copy of it still lies ahead of the   *)
(* group, since nothing vanishes.                                          *)
(***************************************************************************)
LEMMA AnsweringRefines ==
    ASSUME TypeOK, NothingVanishes, NEW i \in Instances, pc[i] # "idle",
           UNCHANGED <<log, position>>, OnlyAnswers(Current(i).event)
    PROVE  [Delivery!Next]_<<AheadPairs, AnsweredPairs>>
<1>0. PICK c \in Events : Current(i).event = c
  BY InHand
<1>1. Published(c)
  BY <1>0, InHand DEF Current, Published
<1>2. AnsweredPairs' = AnsweredPairs \cup {<<Group, c>>}
  BY <1>0, AnswerAdds
<1>3. CASE Answered(c)
  <2>1. AnsweredPairs' = AnsweredPairs
    BY <1>2, <1>3, PairsMean
  <2> QED
    BY <2>1, AheadUnmoved
<1>4. CASE Ahead(c, position)
  <2>1. <<Group, c>> \in AheadPairs
    BY <1>4, PairsMean
  <2>2. Delivery!Settle(Group, c)
    BY <1>2, <2>1, AheadUnmoved DEF Delivery!Settle
  <2> QED
    BY <2>2 DEF Delivery!Next
<1> QED
  BY <1>1, <1>3, <1>4 DEF NothingVanishes

(* The owner moves past a record: only that record's envelope can leave the group's future. *)
LEMMA PassingOne ==
    ASSUME TypeOK, NEW c \in Events, position < Len(log), log[position + 1].event = c,
           log' = log, position' = position + 1
    PROVE  /\ Ahead(c, position)
           /\ Ahead(c, position)' => AheadPairs' = AheadPairs
           /\ ~Ahead(c, position)' => AheadPairs' = AheadPairs \ {<<Group, c>>}
<1>0. position \in Nat /\ Len(log) \in Nat
  BY DEF TypeOK
<1>1. (position + 1)..Len(log) = {position + 1} \cup (position + 1 + 1)..Len(log)
  BY <1>0
<1>2. \A f \in Events : Ahead(f, position) <=> f = c \/ Ahead(f, position)'
  BY <1>0, <1>1 DEF Ahead
<1>3. ASSUME Ahead(c, position)' PROVE AheadPairs' = AheadPairs
  <2>1. \A f \in Events : <<Group, f>> \in AheadPairs' <=> <<Group, f>> \in AheadPairs
    BY <1>2, <1>3, PairsMean, PairsMeanNext
  <2> QED
    BY <2>1, PairsMean, PairsMeanNext, SamePairs
<1>4. ASSUME ~Ahead(c, position)' PROVE AheadPairs' = AheadPairs \ {<<Group, c>>}
  <2>1. \A f \in Events : <<Group, f>> \in AheadPairs' <=> <<Group, f>> \in AheadPairs \ {<<Group, c>>}
    BY <1>2, <1>4, PairsMean, PairsMeanNext
  <2> QED
    BY <2>1, PairsMean, PairsMeanNext, SamePairs
<1> QED
  BY <1>2, <1>3, <1>4

(* The record in the owner's hands is the one after the group's position. *)
LEMMA OwnersRecord ==
    ASSUME TypeOK, NEW i \in Instances, owner = i, pc[i] # "idle"
    PROVE  /\ task[i].offset = position + 1 /\ position < Len(log)
           /\ Current(i) = log[position + 1] /\ Current(i).event \in Events
<1>1. task[i].offset = position + 1 /\ task[i].offset \in 1..Len(log)
  BY DEF TypeOK
<1>2. position \in Nat /\ Len(log) \in Nat
  BY DEF TypeOK
<1> QED
  BY <1>1, <1>2, InHand DEF Current

(* Resolving: the owner is done, so the envelope is answered or comes again; a zombie moves nothing. *)
LEMMA ResolveRefines ==
    ASSUME TypeOK, VanishInv, NEW i \in Instances, Resolve(i)
    PROVE  [Delivery!Next]_<<AheadPairs, AnsweredPairs>>
<1>0. pc[i] = "done" /\ log' = log /\ AnsweredPairs' = AnsweredPairs
  BY AnsweredUnmoved DEF Resolve, Release, ledgerVars, historyVars
<1>1. CASE owner # i
  BY <1>0, <1>1, AheadUnmoved DEF Resolve, Release
<1>2. CASE owner = i
  <2>0. PICK c \in Events : Current(i).event = c
    BY <1>0, <1>2, OwnersRecord
  <2>1. /\ position < Len(log) /\ log[position + 1].event = c
        /\ position' = position + 1 /\ task[i].offset = position + 1
    BY <1>0, <1>2, <2>0, OwnersRecord DEF Resolve, Release
  <2>2. CASE Ahead(c, position)'
    BY <1>0, <2>1, <2>2, PassingOne
  <2>3. CASE ~Ahead(c, position)'
    <3>1. AheadPairs' = AheadPairs \ {<<Group, c>>} /\ Ahead(c, position)
      BY <1>0, <2>1, <2>3, PassingOne
    <3>2. ~Ahead(c, position + 1)
      BY <1>0, <2>1, <2>3 DEF Ahead
    <3>3. Answered(c)
      BY <1>0, <2>0, <2>1, <3>2 DEF VanishInv
    <3>4. <<Group, c>> \in AheadPairs /\ <<Group, c>> \in AnsweredPairs
      BY <3>1, <3>3, PairsMean
    <3>5. Delivery!MoveOn(Group, c)
      BY <1>0, <3>1, <3>4 DEF Delivery!MoveOn
    <3> QED
      BY <3>5 DEF Delivery!Next
  <2> QED
    BY <2>2, <2>3
<1> QED
  BY <1>1, <1>2

(* Dropping after an escaped error: the owner gives the envelope up and moves on at once. *)
LEMMA DropRefines ==
    ASSUME TypeOK, NEW i \in Instances, DropEscaped(i)
    PROVE  [Delivery!Next]_<<AheadPairs, AnsweredPairs>>
<1>0. pc[i] = "escaped" /\ log' = log /\ UNCHANGED <<rows, dlq>>
  BY DEF DropEscaped, Release, ledgerVars
<1>1. CASE owner # i
  BY <1>0, <1>1, AheadUnmoved, AnsweredUnmoved DEF DropEscaped, Release
<1>2. CASE owner = i
  <2>0. PICK c \in Events : Current(i).event = c
    BY <1>0, <1>2, OwnersRecord
  <2>1. /\ position < Len(log) /\ log[position + 1].event = c
        /\ position' = position + 1
    BY <1>0, <1>2, <2>0, OwnersRecord DEF DropEscaped, Release
  <2>2. lost' = lost \cup {c}
    BY <1>2, <2>0 DEF DropEscaped
  <2>3. AnsweredPairs' = AnsweredPairs \cup {<<Group, c>>}
    BY <1>0, <2>2, AnswerAdds DEF OnlyAnswers, Answered
  <2>4. Ahead(c, position) /\ <<Group, c>> \in AheadPairs
    BY <1>0, <2>1, PassingOne, PairsMean
  <2>5. CASE Ahead(c, position)'
    <3>1. AheadPairs' = AheadPairs
      BY <1>0, <2>1, <2>5, PassingOne
    <3>2. Delivery!Settle(Group, c)
      BY <2>3, <2>4, <3>1 DEF Delivery!Settle
    <3> QED
      BY <3>2 DEF Delivery!Next
  <2>6. CASE ~Ahead(c, position)'
    <3>1. AheadPairs' = AheadPairs \ {<<Group, c>>}
      BY <1>0, <2>1, <2>6, PassingOne
    <3>2. Delivery!MoveOn(Group, c)
      BY <2>3, <2>4, <3>1 DEF Delivery!MoveOn
    <3> QED
      BY <3>2 DEF Delivery!Next
  <2> QED
    BY <2>5, <2>6
<1> QED
  BY <1>1, <1>2

(* A crash of the owner or a rebalance takes the group back to envelopes it has answered. *)
LEMMA BackIsStartOver ==
    ASSUME TypeOK, NothingVanishes, position' = committed, UNCHANGED <<log, rows, dlq, lost>>
    PROVE  Delivery!StartOver(Group)
<1>0. position \in Nat /\ committed \in Nat /\ committed <= position /\ Len(log) \in Nat
  BY DEF TypeOK
<1>1. ASSUME NEW f \in Events
      PROVE  /\ Ahead(f, position) => Ahead(f, position)'
             /\ Ahead(f, position)' => Published(f)
  <2>1. (position + 1)..Len(log) \subseteq (committed + 1)..Len(log)
    BY <1>0
  <2>2. (committed + 1)..Len(log) \subseteq 1..Len(log)
    BY <1>0
  <2> QED
    BY <2>1, <2>2 DEF Ahead, Published
<1>2. ASSUME NEW p \in AheadPairs PROVE p \in AheadPairs'
  <2>1. PICK f \in Events : p = <<Group, f>>
    BY PairsMean
  <2> QED
    BY <1>1, <2>1, PairsMean, PairsMeanNext
<1>3. ASSUME NEW p \in AheadPairs' \ AheadPairs PROVE p \in AnsweredPairs \cap ({Group} \X Events)
  <2>1. PICK f \in Events : p = <<Group, f>>
    BY PairsMeanNext
  <2>2. Published(f) /\ ~Ahead(f, position)
    BY <1>1, <2>1, PairsMean, PairsMeanNext
  <2>3. Answered(f)
    BY <2>2 DEF NothingVanishes
  <2> QED
    BY <2>1, <2>3, PairsMean
<1> QED
  BY <1>2, <1>3, AnsweredUnmoved DEF Delivery!StartOver

(* A copy republished by a replica whose attempt failed. *)
LEMMA RepublishRefines ==
    ASSUME TypeOK, NEW i \in Instances, pc[i] # "idle", Republish(i), UNCHANGED <<position, rows, lost>>
    PROVE  Delivery!Next
<1>1. Grows(Current(i).event) /\ dlq' = dlq
  BY RepublishGrows
<1>2. PICK c \in Events : Current(i).event = c
  BY InHand
<1>3. Delivery!Publish(c)
  BY <1>1, <1>2, AppendedIsPublish
<1> QED
  BY <1>3 DEF Delivery!Next

(* A saved row answers its envelope and no other. *)
LEMMA SavingAnswers ==
    ASSUME TypeOK, NEW i \in Instances, pc[i] # "idle", NEW outcome, outcome # "none",
           SaveRow(i, outcome), UNCHANGED <<dlq, lost>>
    PROVE  OnlyAnswers(Current(i).event)
<1>1. PICK c \in Events : Current(i).event = c
  BY InHand
<1>2. /\ rows'[c] # NoRow
      /\ \A f \in Events : f # c => rows'[f] = rows[f]
  BY <1>1 DEF SaveRow, NoRow, TypeOK
<1> QED
  BY <1>1, <1>2 DEF OnlyAnswers, Answered

(* Every step of payment-service is a step of the abstract consumer, or a stutter. *)
LEMMA StepRefines ==
    ASSUME TypeOK, VanishInv, [Next]_vars
    PROVE  [Delivery!Next]_<<AheadPairs, AnsweredPairs>>
<1> DEFINE Goal == [Delivery!Next]_<<AheadPairs, AnsweredPairs>>
<1> DEFINE Still == UNCHANGED <<log, position, rows, dlq, lost>>
<1> USE DEF groupVars, ledgerVars, historyVars
<1>0. NothingVanishes /\ (Still => Goal)
  BY AheadUnmoved, AnsweredUnmoved DEF VanishInv
<1>1. ASSUME NEW e \in Events, Produce(e) PROVE Goal
  <2>1. Delivery!Publish(e)
    BY <1>1, ProduceGrows, AppendedIsPublish DEF Produce
  <2> QED
    BY <2>1 DEF Delivery!Next
<1>2. ASSUME NEW i \in Instances, RecordSkip(i) \/ RecordOutcome(i) PROVE Goal
  <2>1. /\ pc[i] # "idle" /\ UNCHANGED <<log, position, dlq, lost>>
        /\ \E outcome : outcome # "none" /\ SaveRow(i, outcome)
    BY <1>2 DEF RecordSkip, RecordOutcome, TypeOK, Verdicts
  <2> QED
    BY <1>0, <2>1, SavingAnswers, AnsweringRefines
<1>3. ASSUME NEW i \in Instances,
             \/ HandleOrderEvents(i) \/ FindByEvent(i) \/ FindByOrder(i) \/ PrecheckThrows(i)
             \/ PublishRequested(i) \/ PublishOutcome(i)
             \/ RequestRejects(i) \/ OutcomeRejects(i) \/ RecordRejects(i)
      PROVE  Goal
  <2>1. Still
    BY <1>3 DEF HandleOrderEvents, FindByEvent, FindByOrder, PrecheckThrows, PublishRequested,
                PublishOutcome, RequestRejects, OutcomeRejects, RecordRejects
  <2> QED
    BY <1>0, <2>1
<1>4. ASSUME NEW i \in Instances, Execute(i) PROVE Goal
  <2>1. pc[i] = "failed" /\ UNCHANGED <<position, rows, lost>>
    BY <1>4 DEF Execute, ScheduleRetry, SendToDlq, RetryPublishRejects
  <2>2. CASE Republish(i)
    BY <2>1, <2>2, RepublishRefines
  <2>3. CASE DeadLetter(i)
    <3>1. log' = log /\ dlq' = dlq \cup {Current(i).event}
      BY <2>3 DEF DeadLetter
    <3>2. OnlyAnswers(Current(i).event)
      BY <2>1, <3>1 DEF OnlyAnswers, Answered
    <3> QED
      BY <1>0, <2>1, <3>1, <3>2, AnsweringRefines
  <2>4. CASE UNCHANGED <<log, dlq>>
    BY <1>0, <2>1, <2>4
  <2> QED
    BY <1>4, <2>2, <2>3, <2>4 DEF Execute, ScheduleRetry, SendToDlq, RetryPublishRejects
<1>5. ASSUME NEW i \in Instances, Finish(i) PROVE Goal
  <2>1. CASE RedeliverEscaped(i)
    BY <1>0, <2>1 DEF RedeliverEscaped, Release
  <2> QED
    BY <1>5, <2>1, ResolveRefines, DropRefines DEF Finish
<1>6. ASSUME NEW i \in Instances, Crash(i) \/ Rebalance(i) PROVE Goal
  <2>1. UNCHANGED <<log, rows, dlq, lost>> /\ (position' = committed \/ position' = position)
    BY <1>6 DEF Crash, Rebalance
  <2>2. CASE position' = position
    BY <1>0, <2>1, <2>2
  <2>3. CASE position' = committed
    BY <1>0, <2>1, <2>3, BackIsStartOver DEF Delivery!Next
  <2> QED
    BY <2>1, <2>2, <2>3
<1>7. ASSUME AutoCommit \/ UNCHANGED vars PROVE Goal
  BY <1>0, <1>7 DEF AutoCommit, vars
<1> HIDE DEF Goal, Still
<1>8. ASSUME NEW i \in Instances, Work(i) PROVE Goal
  BY <1>2, <1>3, <1>4, <1>5, <1>8 DEF Work, Precheck, ProcessPayment
<1>9. ASSUME Next PROVE Goal
  BY <1>1, <1>3, <1>6, <1>7, <1>8, <1>9 DEF Next
<1>10. Goal
  BY <1>7, <1>9
<1> QED
  BY <1>10 DEF Goal

(***************************************************************************)
(* payment-service implements the abstract at-least-once consumer: under   *)
(* any interleaving of replicas, zombies, crashes, rebalances and failed   *)
(* calls, the group's position passes an envelope only when it is          *)
(* answered, and an offset it falls back to only brings answered ones.     *)
(***************************************************************************)
THEOREM PaymentImplementsAtLeastOnce == Spec => ImplementsAtLeastOnce
<1>1. Init => Delivery!Init
  <2>1. Init => AheadPairs = {} /\ AnsweredPairs = {}
    BY DEF Init, AheadPairs, AnsweredPairs, Ahead, Answered
  <2> QED
    BY <2>1 DEF Delivery!Init
<1>2. Init => VanishInv
  BY DEF Init, VanishInv, NothingVanishes, Published
<1>3. TypeOK /\ VanishInv /\ [Next]_vars => [Delivery!Next]_<<AheadPairs, AnsweredPairs>>
  BY StepRefines
<1>4. Spec => Delivery!Init /\ [][Delivery!Next]_<<AheadPairs, AnsweredPairs>>
  BY <1>1, <1>2, <1>3, VanishStep, TypeCorrect, PTL DEF Spec
<1> QED
  BY <1>4 DEF ImplementsAtLeastOnce, Delivery!Spec, Delivery!vars
===============================================================================
