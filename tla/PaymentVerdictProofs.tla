------------------------- MODULE PaymentVerdictProofs -------------------------
(***************************************************************************)
(* What the idempotency table of payment-service is for, proved for any    *)
(* set of replicas, envelopes and orders and any number of faults: a       *)
(* payment id tells one story, an order that no fault hit in the charge    *)
(* window gets one verdict, its approved row is never overwritten, and     *)
(* every fault costs an order at most one charge more than it owes.        *)
(***************************************************************************)
EXTENDS PaymentServiceProofs, FiniteSetTheorems

(***************************************************************************)
(* Payment ids are fresh: whoever is about to publish an outcome has       *)
(* announced its id, nobody used that id for an outcome yet, and no other  *)
(* replica is about to.                                                    *)
(***************************************************************************)
Request(e, n) == [type |-> "payment.requested", event |-> e, payment |-> n]

AboutToPublish(i) ==
    pc[i] = "publishOutcome" =>
       /\ Request(Current(i).event, task[i].payment) \in out
       /\ \A m \in Outcomes : m.payment # task[i].payment
       /\ \A j \in Instances \ {i} :
             pc[j] = "publishOutcome" => task[j].payment # task[i].payment

PaymentIdsInv ==
    /\ \A m \in out : m.payment <= issued
    /\ PaymentIdsAreUnambiguous
    /\ \A i \in Instances : AboutToPublish(i)

(* A published message names an envelope and a payment id. *)
LEMMA MessageFields ==
    ASSUME TypeOK, NEW m \in out
    PROVE  m.event \in Events /\ m.payment \in Nat
BY DEF TypeOK, Message

(* PaymentIdsAreUnambiguous, with the announcement as a request. *)
LEMMA UnambiguousMeans ==
    PaymentIdsAreUnambiguous <=>
        /\ \A m \in Outcomes : Request(m.event, m.payment) \in out
        /\ \A m, n \in out : m.payment = n.payment =>
              m.event = n.event /\ (m \in Outcomes /\ n \in Outcomes => m = n)
BY DEF PaymentIdsAreUnambiguous, Request

(* The same of the next state. *)
LEMMA UnambiguousMeansNext ==
    PaymentIdsAreUnambiguous' <=>
        /\ \A m \in Outcomes' : Request(m.event, m.payment) \in out'
        /\ \A m, n \in out' : m.payment = n.payment =>
              m.event = n.event /\ (m \in Outcomes' /\ n \in Outcomes' => m = n)
BY DEF PaymentIdsAreUnambiguous, Request

(* Steps that neither publish nor draw an id, and bring nobody to a publish. *)
LEMMA IdsQuiet ==
    ASSUME TypeOK, PaymentIdsInv, [Next]_vars, out' = out, issued' = issued,
           \A i \in Instances : pc'[i] = "publishOutcome" =>
               pc[i] = "publishOutcome" /\ task'[i] = task[i]
    PROVE  PaymentIdsInv'
<1>1. ASSUME NEW i \in Instances PROVE AboutToPublish(i)'
  <2> SUFFICES ASSUME pc'[i] = "publishOutcome" PROVE AboutToPublish(i)'
    BY DEF AboutToPublish
  <2>1. pc[i] = "publishOutcome" /\ task'[i] = task[i] /\ AboutToPublish(i)
    BY DEF PaymentIdsInv
  <2>2. Current(i)'.event = Current(i).event
    BY <2>1, HandKeepsEvent
  <2> QED
    BY <2>1, <2>2 DEF AboutToPublish, Outcomes
<1>2. PaymentIdsAreUnambiguous'
  BY DEF PaymentIdsInv, PaymentIdsAreUnambiguous, Outcomes
<1> QED
  BY <1>1, <1>2 DEF PaymentIdsInv

(* A fresh id is drawn, and announced or not; only its owner may go on to an outcome. *)
LEMMA IdsAfterRequest ==
    ASSUME TypeOK, PaymentIdsInv, [Next]_vars,
           NEW i \in Instances, pc[i] = "publishRequested", NEW e, e = Current(i).event,
           issued' = issued + 1,
           out' = out \/ out' = out \cup {Request(e, issued + 1)},
           task'[i].offset = task[i].offset,
           \A j \in Instances \ {i} : pc'[j] = pc[j] /\ task'[j] = task[j],
           pc'[i] = "publishOutcome" =>
               Request(e, issued + 1) \in out' /\ task'[i].payment = issued + 1
    PROVE  PaymentIdsInv'
<1> DEFINE r == Request(e, issued + 1)
<1>0. issued \in Nat /\ r.type = "payment.requested" /\ r.payment = issued + 1 /\ r.event = e
  BY DEF TypeOK, Request
<1>1. \A m \in out : m.payment <= issued /\ m.payment \in Nat
  BY MessageFields DEF PaymentIdsInv
<1>2. Outcomes' = Outcomes
  BY <1>0 DEF Outcomes
<1>3. \A m \in out' : m.payment <= issued'
  BY <1>0, <1>1
<1>4. PaymentIdsAreUnambiguous'
  <2>1. \A m \in Outcomes : Request(m.event, m.payment) \in out
    BY UnambiguousMeans DEF PaymentIdsInv
  <2>2. \A m \in Outcomes' : Request(m.event, m.payment) \in out'
    BY <1>2, <2>1
  <2>3. ASSUME NEW m \in out', NEW n \in out', m.payment = n.payment
        PROVE  m.event = n.event /\ (m \in Outcomes' /\ n \in Outcomes' => m = n)
    <3>1. CASE m \in out /\ n \in out
      BY <1>2, <2>3, <3>1, UnambiguousMeans DEF PaymentIdsInv
    <3>2. CASE m = r \/ n = r
      <4>1. m = n
        BY <1>0, <1>1, <2>3, <3>2
      <4> QED
        BY <4>1
    <3> QED
      BY <3>1, <3>2
  <2> QED
    BY <2>2, <2>3, UnambiguousMeansNext
<1>5. Current(i)'.event = e
  BY HandKeepsEvent
<1> HIDE DEF r
<1>6. ASSUME NEW j \in Instances, pc'[j] = "publishOutcome" PROVE AboutToPublish(j)'
  <2>1. \A k \in Instances \ {i} : pc'[k] = "publishOutcome" => task'[k].payment <= issued
    <3>1. ASSUME NEW k \in Instances \ {i}, pc'[k] = "publishOutcome" PROVE task'[k].payment <= issued
      <4>1. Request(Current(k).event, task[k].payment) \in out /\ task'[k] = task[k]
        BY <3>1 DEF PaymentIdsInv, AboutToPublish
      <4>2. Request(Current(k).event, task[k].payment).payment = task[k].payment
        BY DEF Request
      <4> QED
        BY <1>1, <4>1, <4>2
    <3> QED
      BY <3>1
  <2>2. \A k \in Instances \ {i} : task'[k].payment \in Nat
    BY DEF TypeOK, Task
  <2>3. CASE j = i
    <3>1. task'[i].payment = issued + 1 /\ Request(e, issued + 1) \in out'
      BY <1>6, <2>3
    <3>2. \A m \in Outcomes' : m.payment # issued + 1
      BY <1>0, <1>1, <1>2 DEF Outcomes
    <3>3. \A k \in Instances \ {i} : pc'[k] = "publishOutcome" => task'[k].payment # issued + 1
      BY <1>0, <2>1, <2>2
    <3> QED
      BY <1>5, <2>3, <3>1, <3>2, <3>3 DEF AboutToPublish
  <2>4. CASE j # i
    <3>1. pc[j] = "publishOutcome" /\ task'[j] = task[j] /\ AboutToPublish(j)
      BY <1>6, <2>4 DEF PaymentIdsInv
    <3>2. Current(j)'.event = Current(j).event
      BY <3>1, HandKeepsEvent
    <3>3. \A k \in Instances \ {j} : pc'[k] = "publishOutcome" => task'[k].payment # task'[j].payment
      <4>1. pc'[i] = "publishOutcome" => task'[i].payment # task'[j].payment
        BY <1>0, <1>6, <2>1, <2>2, <2>4
      <4>2. \A k \in Instances \ {i, j} : pc'[k] = "publishOutcome" => task'[k].payment # task'[j].payment
        BY <3>1 DEF AboutToPublish
      <4> QED
        BY <4>1, <4>2
    <3> QED
      BY <1>2, <3>1, <3>2, <3>3 DEF AboutToPublish
  <2> QED
    BY <2>3, <2>4
<1>7. \A j \in Instances : AboutToPublish(j)'
  BY <1>6 DEF AboutToPublish
<1> QED
  BY <1>3, <1>4, <1>7 DEF PaymentIdsInv

(* The outcome of an announced id is published, and its replica moves on. *)
LEMMA IdsAfterOutcome ==
    ASSUME TypeOK, PaymentIdsInv, [Next]_vars,
           NEW i \in Instances, pc[i] = "publishOutcome", pc'[i] # "publishOutcome",
           Send(i, OutcomeType[task[i].verdict], task[i].payment),
           issued' = issued,
           \A j \in Instances \ {i} : pc'[j] = pc[j] /\ task'[j] = task[j]
    PROVE  PaymentIdsInv'
<1> DEFINE n == task[i].payment
           e == Current(i).event
           o == [type |-> OutcomeType[task[i].verdict], event |-> e, payment |-> n]
<1>1. /\ task[i].verdict \in Verdicts
      /\ OutcomeType[task[i].verdict] \in {"payment.processed", "payment.failed"}
  BY DEF TypeOK, OutcomeType, Verdicts
<1>2. /\ o.type # "payment.requested" /\ o.event = e /\ o.payment = n
      /\ out' = out \cup {o}
  BY <1>1 DEF Send, Request
<1>3. /\ Request(e, n) \in out
      /\ \A m \in Outcomes : m.payment # n
  BY DEF PaymentIdsInv, AboutToPublish
<1>4. Request(e, n).payment = n /\ Request(e, n).event = e
  BY DEF Request
<1> HIDE DEF o, n, e
<1>5. Outcomes' = Outcomes \cup {o}
  BY <1>2 DEF Outcomes
<1>6. \A m \in out' : m.payment <= issued'
  BY <1>2, <1>3, <1>4 DEF PaymentIdsInv
<1>7. PaymentIdsAreUnambiguous'
  <2>1. \A m \in Outcomes' : Request(m.event, m.payment) \in out'
    BY <1>2, <1>3, <1>5, UnambiguousMeans DEF PaymentIdsInv
  <2>2. \A m \in out : m.payment = n => m.event = e /\ m \notin Outcomes
    BY <1>3, <1>4, UnambiguousMeans DEF PaymentIdsInv
  <2>3. ASSUME NEW m \in out', NEW k \in out', m.payment = k.payment
        PROVE  m.event = k.event /\ (m \in Outcomes' /\ k \in Outcomes' => m = k)
    <3>1. CASE m \in out /\ k \in out
      <4>1. m.event = k.event /\ (m \in Outcomes /\ k \in Outcomes => m = k)
        BY <2>3, <3>1, UnambiguousMeans DEF PaymentIdsInv
      <4> QED
        BY <1>2, <1>5, <2>2, <2>3, <3>1, <4>1
    <3>2. CASE m = o
      BY <1>2, <1>5, <2>2, <2>3, <3>2
    <3>3. CASE k = o
      BY <1>2, <1>5, <2>2, <2>3, <3>3
    <3> QED
      BY <1>2, <3>1, <3>2, <3>3
  <2> QED
    BY <2>1, <2>3, UnambiguousMeansNext
<1>8. ASSUME NEW j \in Instances, pc'[j] = "publishOutcome" PROVE AboutToPublish(j)'
  <2>1. j # i /\ pc[j] = "publishOutcome" /\ task'[j] = task[j] /\ AboutToPublish(j)
    BY <1>8 DEF PaymentIdsInv
  <2>2. Current(j)'.event = Current(j).event
    BY <2>1, HandKeepsEvent
  <2>3. task[j].payment # n
    BY <2>1 DEF AboutToPublish, n
  <2>4. \A m \in Outcomes' : m.payment # task'[j].payment
    BY <1>2, <1>5, <2>1, <2>3 DEF AboutToPublish
  <2>5. \A k \in Instances \ {j} : pc'[k] = "publishOutcome" => task'[k].payment # task'[j].payment
    BY <2>1 DEF AboutToPublish
  <2>6. Request(Current(j)'.event, task'[j].payment) \in out'
    BY <1>2, <2>1, <2>2 DEF AboutToPublish
  <2> QED
    BY <2>4, <2>5, <2>6 DEF AboutToPublish
<1>9. \A j \in Instances : AboutToPublish(j)'
  BY <1>8 DEF AboutToPublish
<1> QED
  BY <1>6, <1>7, <1>9 DEF PaymentIdsInv

(* PaymentIdsInv is inductive: only the step after an announcement publishes an outcome. *)
LEMMA PaymentIdsStep == TypeOK /\ PaymentIdsInv /\ [Next]_vars => PaymentIdsInv'
<1> SUFFICES ASSUME TypeOK, PaymentIdsInv, [Next]_vars PROVE PaymentIdsInv'
  OBVIOUS
<1> USE DEF groupVars, ledgerVars, historyVars
<1>1. ASSUME NEW i \in Instances, NEW step \in Steps \ {"publishOutcome"}, Goto(i, step),
             UNCHANGED <<out, issued>>, \A j \in Instances \ {i} : task'[j] = task[j]
      PROVE  PaymentIdsInv'
  <2>1. pc'[i] = step /\ \A j \in Instances \ {i} : pc'[j] = pc[j]
    BY <1>1 DEF Goto, TypeOK
  <2> QED
    BY <1>1, <2>1, IdsQuiet
<1>2. ASSUME NEW i \in Instances, HandleOrderEvents(i) PROVE PaymentIdsInv'
  <2>1. Goto(i, "findByEvent") /\ UNCHANGED <<out, issued>> /\ \A j \in Instances \ {i} : task'[j] = task[j]
    BY <1>2 DEF HandleOrderEvents, TypeOK
  <2> QED
    BY <1>1, <2>1 DEF Steps
<1>3. ASSUME NEW i \in Instances, Precheck(i) PROVE PaymentIdsInv'
  <2>1. /\ \E step \in {"done", "findByOrder", "publishRequested", "recordSkip", "escaped"} : Goto(i, step)
        /\ UNCHANGED <<out, issued>>
        /\ \A j \in Instances \ {i} : task'[j] = task[j]
    BY <1>3 DEF Precheck, FindByEvent, FindByOrder, RecordSkip, PrecheckThrows, TypeOK
  <2> QED
    BY <1>1, <2>1 DEF Steps
<1>4. ASSUME NEW i \in Instances, PublishRequested(i) PROVE PaymentIdsInv'
  <2>1. /\ pc[i] = "publishRequested" /\ issued' = issued + 1
        /\ out' = out \cup {Request(Current(i).event, issued + 1)}
    BY <1>4 DEF PublishRequested, Send, Request
  <2>2. PICK v \in Verdicts : task' = [task EXCEPT ![i].payment = issued + 1, ![i].verdict = v]
    BY <1>4 DEF PublishRequested, Verdicts
  <2>3. /\ task'[i].offset = task[i].offset /\ task'[i].payment = issued + 1
        /\ \A j \in Instances \ {i} : pc'[j] = pc[j] /\ task'[j] = task[j]
    BY <1>4, <2>2 DEF PublishRequested, Goto, TypeOK, Task
  <2> QED
    BY <2>1, <2>3, IdsAfterRequest
<1>5. ASSUME NEW i \in Instances, RequestRejects(i) PROVE PaymentIdsInv'
  <2>1. /\ pc[i] = "publishRequested" /\ issued' = issued + 1 /\ task' = task
        /\ out' = out \/ out' = out \cup {Request(Current(i).event, issued + 1)}
    BY <1>5 DEF RequestRejects, Send, Request
  <2>2. pc'[i] = "failed" /\ \A j \in Instances \ {i} : pc'[j] = pc[j] /\ task'[j] = task[j]
    BY <1>5, <2>1 DEF RequestRejects, Goto, TypeOK
  <2> QED
    BY <2>1, <2>2, IdsAfterRequest
<1>6. ASSUME NEW i \in Instances, PublishOutcome(i) \/ OutcomeRejects(i) PROVE PaymentIdsInv'
  <2>1. PICK step \in {"recordOutcome", "failed"} : Goto(i, step)
    BY <1>6 DEF PublishOutcome, OutcomeRejects
  <2>2. pc'[i] = step /\ \A j \in Instances \ {i} : pc'[j] = pc[j]
    BY <2>1 DEF Goto, TypeOK
  <2>3. pc[i] = "publishOutcome" /\ task' = task /\ issued' = issued
    BY <1>6 DEF PublishOutcome, OutcomeRejects
  <2>4. CASE Send(i, OutcomeType[task[i].verdict], task[i].payment)
    BY <2>2, <2>3, <2>4, IdsAfterOutcome
  <2>5. CASE out' = out
    BY <1>1, <2>1, <2>3, <2>5 DEF Steps
  <2> QED
    BY <1>6, <2>4, <2>5 DEF PublishOutcome, OutcomeRejects
<1>7. ASSUME NEW i \in Instances, RecordOutcome(i) \/ RecordRejects(i) \/ Execute(i) PROVE PaymentIdsInv'
  <2>1. /\ \E step \in {"done", "failed", "escaped"} : Goto(i, step)
        /\ UNCHANGED <<task, out, issued>>
    BY <1>7 DEF RecordOutcome, RecordRejects, Execute, ScheduleRetry, SendToDlq, RetryPublishRejects
  <2> QED
    BY <1>1, <2>1 DEF Steps
<1>8. ASSUME NEW i \in Instances, Finish(i) \/ Crash(i) PROVE PaymentIdsInv'
  <2>1. /\ Goto(i, "idle") /\ UNCHANGED <<out, issued>>
        /\ \A j \in Instances \ {i} : task'[j] = task[j]
    BY <1>8 DEF Finish, Resolve, DropEscaped, RedeliverEscaped, Release, Crash, TypeOK
  <2> QED
    BY <1>1, <2>1 DEF Steps
<1>9. ASSUME \/ \E e \in Events : Produce(e)
             \/ \E j \in Instances : Rebalance(j)
             \/ AutoCommit
             \/ UNCHANGED vars
      PROVE  PaymentIdsInv'
  BY <1>9, IdsQuiet DEF Produce, Rebalance, AutoCommit, vars
<1> QED
  BY <1>2, <1>3, <1>4, <1>5, <1>6, <1>7, <1>8, <1>9 DEF Next, Work, ProcessPayment

(***************************************************************************)
(* A payment id tells one story, whatever is retried, replayed or run by   *)
(* two replicas at once.                                                   *)
(***************************************************************************)
THEOREM PaymentIdsTellOneStory == Spec => []PaymentIdsAreUnambiguous
<1>1. Init => PaymentIdsInv
  BY DEF Init, PaymentIdsInv, PaymentIdsAreUnambiguous, Outcomes, AboutToPublish
<1>2. PaymentIdsInv => PaymentIdsAreUnambiguous
  BY DEF PaymentIdsInv
<1> QED
  BY <1>1, <1>2, PaymentIdsStep, TypeCorrect, PTL DEF Spec

------------------------------------------------------------------------------

(***************************************************************************)
(* The argument for one verdict per order.  Of an order no fault has       *)
(* exposed, only the partition's owner is in the charge window; a replica  *)
(* past the idempotency check works on an envelope without an outcome and, *)
(* if it is charging, on an order without an approved row; and every       *)
(* outcome published is in the table or in the hands of a replica that is  *)
(* about to record it.                                                     *)
(***************************************************************************)
Safe(o) == o \notin exposed
Charging == {"publishRequested", "publishOutcome", "recordOutcome"}
PastFirstQuery == Charging \cup {"findByOrder", "recordSkip"}

Guarded(i) ==
    pc[i] # "idle" /\ Safe(OrderInHand(i)) =>
       /\ pc[i] \in ChargeWindow => i = owner
       /\ pc[i] \in PastFirstQuery => rows[Current(i).event].outcome \notin Verdicts
       /\ pc[i] \in Charging => ApprovedRows(OrderInHand(i)) = {}
       /\ pc[i] = "recordSkip" => ApprovedRows(OrderInHand(i)) # {}

Recorded(m) ==
    /\ rows[m.event].outcome \in Verdicts
    /\ m.type = OutcomeType[rows[m.event].outcome]
    /\ m.payment = rows[m.event].payment

AboutToRecord(i, m) ==
    /\ pc[i] = "recordOutcome"
    /\ m.type = OutcomeType[task[i].verdict]
    /\ m.event = Current(i).event
    /\ m.payment = task[i].payment

Accounted(m) ==
    Safe(OrderOf[m.event]) => Recorded(m) \/ \E i \in Instances : AboutToRecord(i, m)

OneApprovedRow ==
    \A e, f \in Events :
        /\ OrderOf[e] = OrderOf[f] /\ Safe(OrderOf[e])
        /\ rows[e].outcome = "approved" /\ rows[f].outcome = "approved"
        => e = f

VerdictInv ==
    /\ \A i \in Instances : Guarded(i)
    /\ \A m \in Outcomes : Accounted(m)
    /\ OneApprovedRow

(* An order that was hit by a fault stays so. *)
LEMMA ExposedGrows ==
    ASSUME [Next]_vars
    PROVE  exposed \subseteq exposed'
<1> USE DEF groupVars, ledgerVars, historyVars, Expose
<1>1. ASSUME NEW i \in Instances, Precheck(i) \/ ProcessPayment(i) PROVE exposed \subseteq exposed'
  BY <1>1 DEF Precheck, FindByEvent, FindByOrder, RecordSkip, PrecheckThrows, ProcessPayment,
              PublishRequested, PublishOutcome, RecordOutcome, RequestRejects, OutcomeRejects, RecordRejects
<1>2. ASSUME NEW i \in Instances, Execute(i) \/ Finish(i) PROVE exposed \subseteq exposed'
  BY <1>2 DEF Execute, ScheduleRetry, SendToDlq, RetryPublishRejects, Finish, Resolve, DropEscaped,
              RedeliverEscaped
<1>3. ASSUME NEW i \in Instances, HandleOrderEvents(i) \/ Crash(i) \/ Rebalance(i)
      PROVE  exposed \subseteq exposed'
  BY <1>3 DEF HandleOrderEvents, Crash, Rebalance
<1>4. (\E e \in Events : Produce(e)) \/ AutoCommit \/ UNCHANGED vars => exposed \subseteq exposed'
  BY DEF Produce, AutoCommit, vars
<1> QED
  BY <1>1, <1>2, <1>3, <1>4 DEF Next, Work

(* A replica that stands still stays guarded while the table and the owner do not change. *)
LEMMA GuardedFrame ==
    ASSUME TypeOK, VerdictInv, [Next]_vars, rows' = rows, owner' = owner,
           NEW j \in Instances, pc'[j] = pc[j], task'[j] = task[j]
    PROVE  Guarded(j)'
<1> SUFFICES ASSUME pc[j] # "idle", Safe(OrderInHand(j))' PROVE Guarded(j)'
  BY DEF Guarded
<1>1. Current(j)'.event = Current(j).event
  BY HandKeepsEvent
<1>2. OrderInHand(j)' = OrderInHand(j)
  BY <1>1 DEF OrderInHand
<1>3. Safe(OrderInHand(j)) /\ Guarded(j)
  BY <1>2, ExposedGrows DEF Safe, VerdictInv
<1>4. ApprovedRows(OrderInHand(j))' = ApprovedRows(OrderInHand(j))
  BY <1>2 DEF ApprovedRows
<1> QED
  BY <1>1, <1>3, <1>4 DEF Guarded

(* A replica about to record an outcome that stands still still is. *)
LEMMA AboutToRecordFrame ==
    ASSUME TypeOK, [Next]_vars, NEW j \in Instances, NEW m, AboutToRecord(j, m),
           pc'[j] = pc[j], task'[j] = task[j]
    PROVE  AboutToRecord(j, m)'
<1>1. Current(j)'.event = Current(j).event
  BY HandKeepsEvent DEF AboutToRecord
<1> QED
  BY <1>1 DEF AboutToRecord

(* Outcomes stay accounted for when nobody forgets one unexposed. *)
LEMMA AccountedFrame ==
    ASSUME TypeOK, VerdictInv, [Next]_vars, rows' = rows,
           \A j \in Instances :
              \/ pc'[j] = pc[j] /\ task'[j] = task[j]
              \/ pc[j] = "recordOutcome" => OrderInHand(j) \in exposed',
           NEW m \in Outcomes
    PROVE  Accounted(m)'
<1> SUFFICES ASSUME Safe(OrderOf[m.event])' PROVE Accounted(m)'
  BY DEF Accounted
<1>1. Safe(OrderOf[m.event]) /\ Accounted(m)
  BY ExposedGrows DEF Safe, VerdictInv
<1>2. CASE Recorded(m)
  BY <1>2 DEF Recorded, Accounted
<1>3. ASSUME NEW j \in Instances, AboutToRecord(j, m) PROVE Accounted(m)'
  <2>1. OrderOf[m.event] = OrderInHand(j)
    BY <1>3 DEF AboutToRecord, OrderInHand
  <2>2. pc'[j] = pc[j] /\ task'[j] = task[j]
    BY <1>3, <2>1 DEF Safe, AboutToRecord
  <2> QED
    BY <1>3, <2>2, AboutToRecordFrame DEF Accounted
<1> QED
  BY <1>1, <1>2, <1>3 DEF Accounted

(* An unchanged table has no second approved row either. *)
LEMMA OneApprovedFrame ==
    ASSUME VerdictInv, [Next]_vars, rows' = rows
    PROVE  OneApprovedRow'
BY ExposedGrows DEF VerdictInv, OneApprovedRow, Safe

(* One replica moves, without an outcome or a row. *)
LEMMA VerdictLocal ==
    ASSUME TypeOK, VerdictInv, [Next]_vars, NEW i \in Instances,
           UNCHANGED <<rows, owner>>, Outcomes' = Outcomes,
           \A j \in Instances \ {i} : pc'[j] = pc[j] /\ task'[j] = task[j],
           pc[i] = "recordOutcome" => OrderInHand(i) \in exposed',
           Guarded(i)'
    PROVE  VerdictInv'
<1>1. \A j \in Instances : Guarded(j)'
  BY GuardedFrame
<1>2. \A m \in Outcomes' : Accounted(m)'
  BY AccountedFrame
<1> QED
  BY <1>1, <1>2, OneApprovedFrame DEF VerdictInv

(* ... and leaves the delivery, or the part of it that the argument is about. *)
LEMMA VerdictLeave ==
    ASSUME TypeOK, VerdictInv, [Next]_vars, NEW i \in Instances,
           NEW step \in {"idle", "done", "escaped", "failed"}, Goto(i, step),
           UNCHANGED <<rows, owner>>, Outcomes' = Outcomes,
           \A j \in Instances \ {i} : task'[j] = task[j],
           pc[i] = "recordOutcome" => OrderInHand(i) \in exposed'
    PROVE  VerdictInv'
<1>1. pc'[i] = step /\ \A j \in Instances \ {i} : pc'[j] = pc[j]
  BY DEF Goto, TypeOK
<1>2. Guarded(i)'
  BY <1>1 DEF Guarded, ChargeWindow, PastFirstQuery, Charging
<1> QED
  BY <1>1, <1>2, VerdictLocal

(* A save disturbs no order but that of the envelope saved. *)
LEMMA SaveElsewhere ==
    ASSUME TypeOK, NEW i \in Instances, pc[i] # "idle", NEW outcome, SaveRow(i, outcome)
    PROVE  /\ Current(i).event \in Events
           /\ rows'[Current(i).event].outcome = outcome
           /\ rows'[Current(i).event].payment = task[i].payment
           /\ \A f \in Events : f # Current(i).event => rows'[f] = rows[f]
           /\ \A o : o # OrderInHand(i) => ApprovedRows(o)' = ApprovedRows(o)
<1>1. Current(i).event \in Events
  BY InHand
<1>2. /\ rows'[Current(i).event] = [outcome |-> outcome, payment |-> task[i].payment]
      /\ \A f \in Events : f # Current(i).event => rows'[f] = rows[f]
  BY <1>1 DEF SaveRow, TypeOK
<1> QED
  BY <1>1, <1>2 DEF ApprovedRows, OrderInHand

(* A replica with an order other than the one saved does not notice. *)
LEMMA GuardedElsewhere ==
    ASSUME TypeOK, VerdictInv, [Next]_vars, NEW i \in Instances, pc[i] # "idle",
           NEW outcome, SaveRow(i, outcome), owner' = owner,
           NEW j \in Instances, pc'[j] = pc[j], task'[j] = task[j],
           pc[j] # "idle", OrderInHand(j) # OrderInHand(i)
    PROVE  Guarded(j)'
<1>1. Current(j)'.event = Current(j).event /\ Current(j).event \in Events
  BY HandKeepsEvent, InHand
<1>2. OrderInHand(j)' = OrderInHand(j)
  BY <1>1 DEF OrderInHand
<1>3. Safe(OrderInHand(j))' => Safe(OrderInHand(j))
  BY <1>2, ExposedGrows DEF Safe
<1>4. /\ rows'[Current(j).event] = rows[Current(j).event]
      /\ ApprovedRows(OrderInHand(j))' = ApprovedRows(OrderInHand(j))
  BY <1>1, <1>2, SaveElsewhere DEF OrderInHand, ApprovedRows
<1> QED
  BY <1>1, <1>3, <1>4 DEF Guarded, VerdictInv

(* The rows after recordSkip and after recordOutcome in an order that is safe. *)
LEMMA GuardedAtSave ==
    ASSUME TypeOK, VerdictInv, [Next]_vars, NEW i \in Instances, NEW outcome,
           \/ pc[i] = "recordSkip" /\ outcome = "skipped_duplicate_order"
           \/ pc[i] = "recordOutcome" /\ outcome = task[i].verdict,
           SaveRow(i, outcome), owner' = owner, Safe(OrderInHand(i)),
           NEW j \in Instances \ {i}, pc'[j] = pc[j], task'[j] = task[j],
           pc[j] # "idle", OrderInHand(j) = OrderInHand(i)
    PROVE  Guarded(j)'
<1>0. PICK e, o : e = Current(i).event /\ o = OrderInHand(i)
  OBVIOUS
<1>1. Current(j)'.event = Current(j).event /\ Current(j).event \in Events
  BY HandKeepsEvent, InHand
<1>2. OrderInHand(j)' = o
  BY <1>0, <1>1 DEF OrderInHand
<1>3. Guarded(i) /\ Guarded(j) /\ pc[i] # "idle"
  BY DEF VerdictInv
<1>4. CASE pc[i] = "recordOutcome"
  <2>1. i = owner /\ ApprovedRows(o) = {}
    BY <1>0, <1>3, <1>4 DEF Guarded, ChargeWindow, Charging
  <2>2. pc[j] \notin ChargeWindow /\ pc[j] # "recordSkip"
    BY <1>0, <1>3, <2>1 DEF Guarded
  <2> QED
    BY <2>2 DEF Guarded, ChargeWindow, PastFirstQuery, Charging
<1>5. CASE pc[i] = "recordSkip"
  <2>1. rows[e].outcome \notin Verdicts /\ ApprovedRows(o) # {}
    BY <1>0, <1>3, <1>5 DEF Guarded, PastFirstQuery
  <2>2. /\ e \in Events /\ rows'[e].outcome = "skipped_duplicate_order"
        /\ \A f \in Events : f # e => rows'[f] = rows[f]
    <3>1. outcome = "skipped_duplicate_order"
      BY <1>5
    <3> QED
      BY <1>0, <1>3, <3>1, SaveElsewhere
  <2>3. ApprovedRows(o)' = ApprovedRows(o)
    BY <1>2, <2>1, <2>2 DEF ApprovedRows, Verdicts
  <2>4. rows'[Current(j).event].outcome \in Verdicts => rows[Current(j).event].outcome \in Verdicts
    BY <1>1, <2>2 DEF Verdicts
  <2>5. ApprovedRows(OrderInHand(j))' = ApprovedRows(OrderInHand(j))
    BY <1>0, <1>2, <2>3 DEF ApprovedRows
  <2>6. pc'[j] \in PastFirstQuery => rows'[Current(j)'.event].outcome \notin Verdicts
    BY <1>0, <1>1, <1>3, <2>4 DEF Guarded
  <2> QED
    BY <1>0, <1>3, <2>5, <2>6 DEF Guarded
<1> QED
  BY <1>4, <1>5

(* Saving a row keeps the books: an outcome goes from the replica's hands into the table. *)
LEMMA VerdictSave ==
    ASSUME TypeOK, VerdictInv, [Next]_vars, NEW i \in Instances, NEW outcome,
           \/ pc[i] = "recordSkip" /\ outcome = "skipped_duplicate_order"
           \/ pc[i] = "recordOutcome" /\ outcome = task[i].verdict,
           SaveRow(i, outcome), Goto(i, "done"), UNCHANGED <<task, owner, out>>
    PROVE  VerdictInv'
<1>e. PICK e, o : e = Current(i).event /\ o = OrderInHand(i)
  OBVIOUS
<1>0. /\ pc[i] # "idle" /\ o = OrderOf[e]
      /\ pc'[i] = "done" /\ \A j \in Instances \ {i} : pc'[j] = pc[j] /\ task'[j] = task[j]
      /\ Outcomes' = Outcomes
  BY <1>e DEF Goto, TypeOK, OrderInHand, Outcomes
<1>1. /\ e \in Events
      /\ rows'[e].outcome = outcome /\ rows'[e].payment = task[i].payment
      /\ \A f \in Events : f # e => rows'[f] = rows[f]
      /\ \A x : x # o => ApprovedRows(x)' = ApprovedRows(x)
  BY <1>e, <1>0, SaveElsewhere
<1>2. Safe(o) => /\ rows[e].outcome \notin Verdicts
                 /\ pc[i] = "recordOutcome" => i = owner /\ ApprovedRows(o) = {}
  BY <1>e, <1>0 DEF VerdictInv, Guarded, ChargeWindow, PastFirstQuery, Charging
<1>3. outcome \in Verdicts <=> pc[i] = "recordOutcome"
  BY DEF TypeOK, Verdicts
<1>4. ASSUME NEW j \in Instances PROVE Guarded(j)'
  <2>1. CASE j = i
    BY <1>0, <2>1 DEF Guarded, ChargeWindow, PastFirstQuery, Charging
  <2>2. CASE j # i
    <3>1. pc'[j] = pc[j] /\ task'[j] = task[j]
      BY <1>0, <2>2
    <3>2. CASE pc[j] = "idle"
      BY <3>1, <3>2 DEF Guarded
    <3>3. CASE pc[j] # "idle" /\ OrderInHand(j) # o
      BY <1>e, <1>0, <3>1, <3>3, GuardedElsewhere
    <3>4. CASE pc[j] # "idle" /\ OrderInHand(j) = o /\ Safe(o)
      BY <1>e, <2>2, <3>1, <3>4, GuardedAtSave
    <3>5. CASE pc[j] # "idle" /\ OrderInHand(j) = o /\ ~Safe(o)
      <4>1. Current(j)'.event = Current(j).event
        BY <3>1, <3>5, HandKeepsEvent
      <4>2. ~Safe(OrderInHand(j))'
        BY <3>5, <4>1, ExposedGrows DEF Safe, OrderInHand
      <4> QED
        BY <4>2 DEF Guarded
    <3> QED
      BY <3>2, <3>3, <3>4, <3>5
  <2> QED
    BY <2>1, <2>2
<1>5. ASSUME NEW m \in Outcomes, Safe(OrderOf[m.event])' PROVE Accounted(m)'
  <2>1. Safe(OrderOf[m.event]) /\ Accounted(m) /\ m.event \in Events
    BY <1>5, ExposedGrows, MessageFields DEF Safe, VerdictInv, Outcomes
  <2>2. CASE Recorded(m)
    <3>1. m.event # e
      BY <1>0, <1>2, <2>1, <2>2 DEF Recorded
    <3> QED
      BY <1>1, <2>1, <2>2, <3>1 DEF Recorded, Accounted
  <2>3. CASE AboutToRecord(i, m)
    <3>1. pc[i] = "recordOutcome" /\ outcome = task[i].verdict
      BY <2>3 DEF AboutToRecord
    <3>2. m.event = e /\ m.type = OutcomeType[outcome] /\ m.payment = task[i].payment
      BY <1>e, <2>3, <3>1 DEF AboutToRecord
    <3>3. rows'[m.event].outcome = outcome /\ rows'[m.event].payment = m.payment /\ outcome \in Verdicts
      BY <1>1, <1>3, <3>1, <3>2
    <3>4. Recorded(m)'
      BY <3>2, <3>3 DEF Recorded
    <3> QED
      BY <3>4 DEF Accounted
  <2>4. ASSUME NEW j \in Instances \ {i}, AboutToRecord(j, m) PROVE Accounted(m)'
    BY <1>0, <2>4, AboutToRecordFrame DEF Accounted
  <2> QED
    BY <2>1, <2>2, <2>3, <2>4 DEF Accounted
<1>6. OneApprovedRow'
  <2> SUFFICES ASSUME NEW f \in Events, NEW g \in Events, OrderOf[f] = OrderOf[g],
                      Safe(OrderOf[f])', rows'[f].outcome = "approved", rows'[g].outcome = "approved"
               PROVE  f = g
    BY DEF OneApprovedRow
  <2>1. Safe(OrderOf[f])
    BY ExposedGrows DEF Safe
  <2>2. CASE f # e /\ g # e
    BY <1>1, <2>1, <2>2 DEF VerdictInv, OneApprovedRow
  <2>3. CASE f = e \/ g = e
    <3>1. outcome = "approved" /\ OrderOf[f] = o /\ OrderOf[g] = o
      BY <1>0, <1>1, <2>3
    <3>2. ApprovedRows(o) = {}
      BY <1>2, <1>3, <2>1, <3>1 DEF Verdicts
    <3>3. \A h \in {f, g} : h # e => rows[h].outcome # "approved"
      BY <3>1, <3>2 DEF ApprovedRows
    <3> QED
      BY <1>1, <2>3, <3>3
  <2> QED
    BY <2>2, <2>3
<1>7. \A m \in Outcomes' : Accounted(m)'
  BY <1>0, <1>5 DEF Accounted
<1> QED
  BY <1>4, <1>6, <1>7 DEF VerdictInv

(* A replica goes to the next await of its delivery, with the same record in hand. *)
LEMMA VerdictAdvance ==
    ASSUME TypeOK, VerdictInv, [Next]_vars, NEW i \in Instances, pc[i] # "idle",
           pc[i] # "recordOutcome",
           NEW step \in Steps, Goto(i, step), UNCHANGED <<rows, owner>>, Outcomes' = Outcomes,
           task'[i].offset = task[i].offset,
           \A j \in Instances \ {i} : task'[j] = task[j],
           step \in ChargeWindow => pc[i] \in ChargeWindow,
           step \in PastFirstQuery /\ pc[i] \notin PastFirstQuery =>
               rows[Current(i).event].outcome \notin Verdicts,
           step \in Charging /\ pc[i] \notin Charging => ApprovedRows(OrderInHand(i)) = {},
           step = "recordSkip" => ApprovedRows(OrderInHand(i)) # {}
    PROVE  VerdictInv'
<1>1. pc'[i] = step /\ \A j \in Instances \ {i} : pc'[j] = pc[j]
  BY DEF Goto, TypeOK
<1>2. Current(i)'.event = Current(i).event
  BY HandKeepsEvent
<1>3. OrderInHand(i)' = OrderInHand(i)
  BY <1>2 DEF OrderInHand
<1>4. Safe(OrderInHand(i))' => Safe(OrderInHand(i))
  BY <1>3, ExposedGrows DEF Safe
<1>5. ApprovedRows(OrderInHand(i))' = ApprovedRows(OrderInHand(i))
  BY <1>3 DEF ApprovedRows
<1>6. Guarded(i)
  BY DEF VerdictInv
<1>7. Guarded(i)'
  BY <1>1, <1>2, <1>4, <1>5, <1>6 DEF Guarded
<1> QED
  BY <1>1, <1>7, VerdictLocal

(* Publishing an outcome: its replica holds it until it is recorded, or the order is exposed. *)
LEMMA VerdictPublish ==
    ASSUME TypeOK, VerdictInv, [Next]_vars, NEW i \in Instances, pc[i] = "publishOutcome",
           Send(i, OutcomeType[task[i].verdict], task[i].payment),
           UNCHANGED <<rows, owner, task>>,
           \/ Goto(i, "recordOutcome")
           \/ Goto(i, "failed") /\ OrderInHand(i) \in exposed'
    PROVE  VerdictInv'
<1>e. PICK e, o : e = Current(i).event /\ o = OrderInHand(i)
  OBVIOUS
<1>1. /\ pc'[i] \in {"recordOutcome", "failed"}
      /\ pc'[i] = "failed" => o \in exposed'
      /\ \A j \in Instances \ {i} : pc'[j] = pc[j]
  BY <1>e DEF Goto, TypeOK
<1>2. Current(i)'.event = e
  BY <1>e, HandKeepsEvent
<1>3. OrderInHand(i)' = o
  BY <1>e, <1>2 DEF OrderInHand
<1>4. Guarded(i)'
  <2>1. Safe(o)' => Safe(o)
    BY ExposedGrows DEF Safe
  <2>2. ApprovedRows(o)' = ApprovedRows(o)
    BY DEF ApprovedRows
  <2>3. Guarded(i)
    BY DEF VerdictInv
  <2>4. ApprovedRows(OrderInHand(i))' = ApprovedRows(o)
    BY <1>3, <2>2 DEF ApprovedRows
  <2>5. Safe(OrderInHand(i))' => Safe(o)
    BY <1>3, <2>1 DEF Safe
  <2> QED
    BY <1>e, <1>1, <1>2, <2>3, <2>4, <2>5 DEF Guarded, ChargeWindow, PastFirstQuery, Charging
<1>5. \A j \in Instances : Guarded(j)'
  BY <1>1, <1>4, GuardedFrame
<1>6. PICK m : m = [type |-> OutcomeType[task[i].verdict], event |-> e, payment |-> task[i].payment]
  OBVIOUS
<1>7. out' = out \cup {m}
  BY <1>e, <1>6 DEF Send
<1>8. Accounted(m)'
  <2>1. OrderOf[m.event] = o /\ m.event = e
    BY <1>e, <1>6 DEF OrderInHand
  <2>2. CASE pc'[i] = "failed"
    BY <1>1, <2>1, <2>2 DEF Accounted, Safe
  <2>3. CASE pc'[i] = "recordOutcome"
    <3>1. m.type = OutcomeType[task'[i].verdict] /\ m.payment = task'[i].payment
      BY <1>6
    <3>2. AboutToRecord(i, m)'
      BY <1>2, <2>1, <2>3, <3>1 DEF AboutToRecord
    <3> QED
      BY <3>2 DEF Accounted
  <2> QED
    BY <1>1, <2>2, <2>3
<1>9. \A n \in Outcomes : Accounted(n)'
  BY <1>1, AccountedFrame
<1>10. \A n \in Outcomes' : Accounted(n)'
  BY <1>7, <1>8, <1>9 DEF Outcomes
<1> QED
  BY <1>5, <1>10, OneApprovedFrame DEF VerdictInv

(* VerdictInv is inductive, action by action. *)
LEMMA VerdictStep == TypeOK /\ VerdictInv /\ [Next]_vars => VerdictInv'
<1> SUFFICES ASSUME TypeOK, VerdictInv, [Next]_vars PROVE VerdictInv'
  OBVIOUS
<1> USE DEF groupVars, ledgerVars, historyVars
<1>1. ASSUME NEW i \in Instances, HandleOrderEvents(i) PROVE VerdictInv'
  <2>1. /\ owner = i /\ pc[i] = "idle" /\ pc'[i] = "findByEvent"
        /\ \A j \in Instances \ {i} : pc'[j] = pc[j] /\ task'[j] = task[j]
        /\ UNCHANGED <<rows, owner, out>>
    BY <1>1 DEF HandleOrderEvents, Goto, TypeOK
  <2>2. Guarded(i)'
    BY <2>1 DEF Guarded, PastFirstQuery, Charging
  <2> QED
    BY <2>1, <2>2, VerdictLocal DEF Outcomes
<1>2. ASSUME NEW i \in Instances, FindByEvent(i) PROVE VerdictInv'
  <2>1. pc[i] = "findByEvent" /\ UNCHANGED <<rows, owner, task>> /\ Outcomes' = Outcomes
    BY <1>2 DEF FindByEvent, Outcomes
  <2>2. CASE Goto(i, "done")
    BY <2>1, <2>2, VerdictLeave
  <2>3. CASE rows[Current(i).event] = NoRow /\ Goto(i, "findByOrder")
    BY <2>1, <2>3, VerdictAdvance DEF Steps, ChargeWindow, PastFirstQuery, Charging, NoRow, Verdicts
  <2> QED
    BY <1>2, <2>2, <2>3 DEF FindByEvent
<1>3. ASSUME NEW i \in Instances, FindByOrder(i) PROVE VerdictInv'
  <2>1. /\ pc[i] = "findByOrder" /\ UNCHANGED <<rows, owner>> /\ Outcomes' = Outcomes
        /\ task'[i].offset = task[i].offset /\ \A j \in Instances \ {i} : task'[j] = task[j]
    BY <1>3 DEF FindByOrder, Outcomes, TypeOK, Task
  <2>2. CASE ApprovedRows(OrderInHand(i)) = {} /\ Goto(i, "publishRequested")
    BY <2>1, <2>2, VerdictAdvance DEF Steps, ChargeWindow, PastFirstQuery, Charging
  <2>3. CASE ApprovedRows(OrderInHand(i)) # {} /\ Goto(i, "recordSkip")
    BY <2>1, <2>3, VerdictAdvance DEF Steps, ChargeWindow, PastFirstQuery, Charging
  <2> QED
    BY <1>3, <2>2, <2>3 DEF FindByOrder
<1>4. ASSUME NEW i \in Instances, RecordSkip(i) \/ RecordOutcome(i) PROVE VerdictInv'
  BY <1>4, VerdictSave DEF RecordSkip, RecordOutcome
<1>5. ASSUME NEW i \in Instances, PrecheckThrows(i) PROVE VerdictInv'
  BY <1>5, VerdictLeave DEF PrecheckThrows, Outcomes
<1>6. ASSUME NEW i \in Instances, PublishRequested(i) \/ RequestRejects(i) PROVE VerdictInv'
  <2>1. pc[i] = "publishRequested" /\ UNCHANGED <<rows, owner>>
    BY <1>6 DEF PublishRequested, RequestRejects
  <2>2. /\ task'[i].offset = task[i].offset /\ \A j \in Instances \ {i} : task'[j] = task[j]
    <3>1. CASE task' = task
      BY <3>1
    <3>2. ASSUME NEW v, task' = [task EXCEPT ![i].payment = issued + 1, ![i].verdict = v]
          PROVE  task'[i].offset = task[i].offset /\ \A j \in Instances \ {i} : task'[j] = task[j]
      BY <3>2 DEF TypeOK, Task
    <3> QED
      BY <1>6, <3>1, <3>2 DEF PublishRequested, RequestRejects
  <2>3. Outcomes' = Outcomes
    BY <1>6 DEF PublishRequested, RequestRejects, Send, Outcomes
  <2>4. CASE Goto(i, "publishOutcome")
    BY <2>1, <2>2, <2>3, <2>4, VerdictAdvance DEF Steps, ChargeWindow, PastFirstQuery, Charging
  <2>5. CASE Goto(i, "failed")
    BY <2>1, <2>2, <2>3, <2>5, VerdictLeave
  <2> QED
    BY <1>6, <2>4, <2>5 DEF PublishRequested, RequestRejects
<1>7. ASSUME NEW i \in Instances, PublishOutcome(i) \/ OutcomeRejects(i) PROVE VerdictInv'
  <2>1. pc[i] = "publishOutcome" /\ UNCHANGED <<rows, owner, task>>
    BY <1>7 DEF PublishOutcome, OutcomeRejects
  <2>2. CASE Send(i, OutcomeType[task[i].verdict], task[i].payment)
    <3>1. CASE Goto(i, "recordOutcome")
      BY <2>1, <2>2, <3>1, VerdictPublish
    <3>2. CASE Goto(i, "failed") /\ OrderInHand(i) \in exposed'
      BY <2>1, <2>2, <3>2, VerdictPublish
    <3>3. CASE Goto(i, "failed") /\ UNCHANGED out
      BY <2>1, <3>3, VerdictLeave DEF Outcomes
    <3> QED
      BY <1>7, <3>1, <3>2, <3>3 DEF PublishOutcome, OutcomeRejects, Expose
  <2>3. CASE Goto(i, "failed") /\ UNCHANGED out
    BY <2>1, <2>3, VerdictLeave DEF Outcomes
  <2> QED
    BY <1>7, <2>2, <2>3 DEF PublishOutcome, OutcomeRejects
<1>8. ASSUME NEW i \in Instances, RecordRejects(i) PROVE VerdictInv'
  BY <1>8, VerdictLeave DEF RecordRejects, Expose, Outcomes
<1>9. ASSUME NEW i \in Instances, Execute(i) PROVE VerdictInv'
  <2>1. /\ \E step \in {"done", "escaped"} : Goto(i, step)
        /\ pc[i] = "failed" /\ UNCHANGED <<rows, owner, task>> /\ Outcomes' = Outcomes
    BY <1>9 DEF Execute, ScheduleRetry, SendToDlq, RetryPublishRejects, Outcomes
  <2> QED
    BY <2>1, VerdictLeave
<1>10. ASSUME NEW i \in Instances, Finish(i) \/ Crash(i) PROVE VerdictInv'
  <2>1. /\ Goto(i, "idle") /\ UNCHANGED <<rows, owner>> /\ Outcomes' = Outcomes
        /\ \A j \in Instances \ {i} : task'[j] = task[j]
        /\ pc[i] = "recordOutcome" => OrderInHand(i) \in exposed'
    BY <1>10 DEF Finish, Resolve, DropEscaped, RedeliverEscaped, Release, Crash, Expose, Outcomes, TypeOK
  <2> QED
    BY <2>1, VerdictLeave
<1>11. ASSUME NEW j \in Instances, Rebalance(j) PROVE VerdictInv'
  <2>1. /\ UNCHANGED <<rows, pc, task, log>> /\ Outcomes' = Outcomes
        /\ pc[owner] \in ChargeWindow => OrderInHand(owner) \in exposed'
    BY <1>11 DEF Rebalance, Expose, Outcomes
  <2>2. ASSUME NEW i \in Instances PROVE Guarded(i)'
    <3>1. Current(i)' = Current(i)
      BY <2>1 DEF Current
    <3>2. OrderInHand(i)' = OrderInHand(i)
      BY <3>1 DEF OrderInHand
    <3>3. ApprovedRows(OrderInHand(i))' = ApprovedRows(OrderInHand(i))
      BY <2>1, <3>2 DEF ApprovedRows
    <3>4. Safe(OrderInHand(i))' => Safe(OrderInHand(i))
      BY <3>2, ExposedGrows DEF Safe
    <3>5. Safe(OrderInHand(i))' /\ pc[i] \in ChargeWindow => FALSE \/ i # owner
      BY <2>1, <3>2 DEF Safe
    <3>6. Guarded(i)
      BY DEF VerdictInv
    <3> QED
      BY <2>1, <3>1, <3>3, <3>4, <3>5, <3>6 DEF Guarded, ChargeWindow
  <2>3. \A m \in Outcomes' : Accounted(m)'
    BY <2>1, AccountedFrame
  <2> QED
    BY <2>1, <2>2, <2>3, OneApprovedFrame DEF VerdictInv
<1>12. ASSUME \/ \E e \in Events : Produce(e)
              \/ AutoCommit
              \/ UNCHANGED vars
       PROVE  VerdictInv'
  <2>1. UNCHANGED <<rows, owner, pc, task>> /\ Outcomes' = Outcomes
    BY <1>12 DEF Produce, AutoCommit, vars, Outcomes
  <2> QED
    BY <2>1, GuardedFrame, AccountedFrame, OneApprovedFrame DEF VerdictInv
<1> QED
  BY <1>1, <1>2, <1>3, <1>4, <1>5, <1>6, <1>7, <1>8, <1>9, <1>10, <1>11, <1>12
  DEF Next, Work, Precheck, ProcessPayment

(* What VerdictInv says of two outcomes of one order. *)
LEMMA VerdictInvSuffices == TypeOK /\ VerdictInv => OneVerdict
<1> SUFFICES ASSUME TypeOK, VerdictInv, NEW m \in Outcomes, NEW n \in Outcomes,
                    OrderOf[m.event] = OrderOf[n.event], Safe(OrderOf[m.event])
             PROVE  /\ m.event = n.event => m = n
                    /\ m.type = "payment.processed" /\ n.type = "payment.processed" => m = n
  BY DEF OneVerdict, Safe
<1>1. m \in Message /\ n \in Message
  BY DEF Outcomes, TypeOK
<1>2. m.type = n.type /\ m.event = n.event /\ m.payment = n.payment => m = n
  BY <1>1 DEF Message
<1>3. \A v \in Verdicts : OutcomeType[v] = "payment.processed" <=> v = "approved"
  BY DEF OutcomeType, Verdicts
<1>4. ASSUME NEW i \in Instances, NEW k \in Outcomes, AboutToRecord(i, k), Safe(OrderOf[k.event])
      PROVE  /\ i = owner /\ rows[k.event].outcome \notin Verdicts
             /\ ApprovedRows(OrderOf[k.event]) = {}
  BY <1>4 DEF AboutToRecord, VerdictInv, Guarded, OrderInHand, ChargeWindow, PastFirstQuery, Charging
<1>5. CASE Recorded(m) /\ Recorded(n)
  <2>1. m.event \in Events /\ n.event \in Events
    BY <1>1 DEF Message
  <2>2. m.type = "payment.processed" /\ n.type = "payment.processed" => m.event = n.event
    BY <1>3, <1>5, <2>1 DEF Recorded, VerdictInv, OneApprovedRow
  <2> QED
    BY <1>2, <1>5, <2>2 DEF Recorded
<1>6. ASSUME NEW i \in Instances, NEW x \in {m, n}, NEW y \in {m, n}, Recorded(x), AboutToRecord(i, y)
      PROVE  /\ x.event # y.event
             /\ x.type # "payment.processed"
  <2>1. rows[y.event].outcome \notin Verdicts /\ ApprovedRows(OrderOf[y.event]) = {}
    BY <1>4, <1>6
  <2>2. x.event \in Events /\ OrderOf[x.event] = OrderOf[y.event]
    BY <1>1 DEF Message
  <2> QED
    BY <1>3, <1>6, <2>1, <2>2 DEF Recorded, ApprovedRows
<1>7. ASSUME NEW i \in Instances, NEW j \in Instances, AboutToRecord(i, m), AboutToRecord(j, n)
      PROVE  m = n
  BY <1>2, <1>4, <1>7 DEF AboutToRecord
<1> QED
  BY <1>5, <1>6, <1>7 DEF VerdictInv, Accounted

(***************************************************************************)
(* An order that no fault hit between the idempotency check and the record *)
(* of an outcome gets one verdict per envelope and at most one approved    *)
(* payment, with any number of replicas, duplicates and faults elsewhere.  *)
(***************************************************************************)
THEOREM OneVerdictPerOrder == Spec => []OneVerdict
<1>1. Init => VerdictInv
  BY DEF Init, VerdictInv, Guarded, Outcomes, OneApprovedRow, NoRow
<1> QED
  BY <1>1, VerdictStep, VerdictInvSuffices, TypeCorrect, PTL DEF Spec

(* A row changes only when a replica saves. *)
LEMMA OnlySavesWrite ==
    ASSUME [Next]_vars, rows' # rows
    PROVE  \E i \in Instances : RecordSkip(i) \/ RecordOutcome(i)
<1> USE DEF groupVars, ledgerVars, historyVars
<1>1. ASSUME NEW i \in Instances,
             HandleOrderEvents(i) \/ Crash(i) \/ Rebalance(i) \/ Execute(i) \/ Finish(i)
      PROVE  rows' = rows
  BY <1>1 DEF HandleOrderEvents, Crash, Rebalance, Execute, ScheduleRetry, SendToDlq, RetryPublishRejects,
              Finish, Resolve, DropEscaped, RedeliverEscaped, Release
<1>2. ASSUME NEW i \in Instances, Precheck(i) \/ ProcessPayment(i), ~RecordSkip(i), ~RecordOutcome(i)
      PROVE  rows' = rows
  BY <1>2 DEF Precheck, FindByEvent, FindByOrder, PrecheckThrows, ProcessPayment, PublishRequested,
              PublishOutcome, RequestRejects, OutcomeRejects, RecordRejects
<1>3. (\E e \in Events : Produce(e)) \/ AutoCommit \/ UNCHANGED vars => rows' = rows
  BY DEF Produce, AutoCommit, vars
<1> QED
  BY <1>1, <1>2, <1>3 DEF Next, Work

(***************************************************************************)
(* The approved row of an order that stays unexposed is never overwritten: *)
(* save is an upsert, but whoever is about to save for such an order works *)
(* on an envelope without an outcome.                                      *)
(***************************************************************************)
THEOREM ApprovalIsFinal == Spec => ApprovalStands
<1> DEFINE Stands == \A e \in Events :
              rows[e].outcome = "approved" /\ OrderOf[e] \notin exposed' => rows'[e] = rows[e]
<1>1. TypeOK /\ VerdictInv /\ [Next]_vars => Stands
  <2> SUFFICES ASSUME TypeOK, VerdictInv, [Next]_vars, NEW e \in Events,
                      rows[e].outcome = "approved", OrderOf[e] \notin exposed', rows' # rows
               PROVE  rows'[e] = rows[e]
    OBVIOUS
  <2>1. PICK i \in Instances : RecordSkip(i) \/ RecordOutcome(i)
    BY OnlySavesWrite
  <2>2. /\ pc[i] \in {"recordSkip", "recordOutcome"}
        /\ \E outcome : SaveRow(i, outcome)
    BY <2>1 DEF RecordSkip, RecordOutcome
  <2>3. e # Current(i).event
    <3>1. Safe(OrderOf[e])
      BY ExposedGrows DEF Safe
    <3> QED
      BY <2>2, <3>1 DEF VerdictInv, Guarded, OrderInHand, PastFirstQuery, Charging, Verdicts
  <2> QED
    BY <2>2, <2>3, SaveElsewhere
<1>2. Init => VerdictInv
  BY DEF Init, VerdictInv, Guarded, Outcomes, OneApprovedRow, NoRow
<1>3. TypeOK /\ VerdictInv /\ [Next]_vars => [Stands]_vars
  BY <1>1
<1> HIDE DEF Stands
<1>4. Spec => [][Stands]_vars
  BY <1>2, <1>3, VerdictStep, TypeCorrect, PTL DEF Spec
<1> QED
  BY <1>4 DEF ApprovalStands, Stands

------------------------------------------------------------------------------
(***************************************************************************)
(* Every fault costs an order at most one charge more than the one it      *)
(* owes.  The argument is a budget: 1 + faults always covers the charges   *)
(* made, the zombies that may still charge the order or overwrite its      *)
(* approved row, and the charge the owner may make while no row is         *)
(* settled.                                                                *)
(***************************************************************************)

(* Finite sets: a part of it, one element more, one element less. *)
LEMMA SetSizes ==
    ASSUME NEW S, IsFiniteSet(S), NEW T, NEW x
    PROVE  /\ Cardinality(S) \in Nat
           /\ T \subseteq S => IsFiniteSet(T) /\ Cardinality(T) \in Nat /\ Cardinality(T) <= Cardinality(S)
           /\ T \subseteq S \cup {x} =>
                 IsFiniteSet(T) /\ Cardinality(T) \in Nat /\ Cardinality(T) <= Cardinality(S) + 1
           /\ x \in S /\ T \subseteq S \ {x} =>
                 IsFiniteSet(T) /\ Cardinality(T) \in Nat /\ Cardinality(T) + 1 <= Cardinality(S)
<1>1. Cardinality(S) \in Nat
  BY FS_CardinalityType
<1>2. ASSUME T \subseteq S
      PROVE  IsFiniteSet(T) /\ Cardinality(T) \in Nat /\ Cardinality(T) <= Cardinality(S)
  <2>1. T \in SUBSET S
    BY <1>2
  <2>2. IsFiniteSet(T) /\ Cardinality(T) <= Cardinality(S)
    BY <2>1, FS_Subset
  <2> QED
    BY <2>2, FS_CardinalityType
<1>3. ASSUME T \subseteq S \cup {x}
      PROVE  IsFiniteSet(T) /\ Cardinality(T) \in Nat /\ Cardinality(T) <= Cardinality(S) + 1
  <2> DEFINE U == S \cup {x}
  <2>1. IsFiniteSet(U) /\ Cardinality(U) \in Nat /\ Cardinality(U) <= Cardinality(S) + 1
    <3>1. /\ IsFiniteSet(U)
          /\ Cardinality(U) = IF x \in S THEN Cardinality(S) ELSE Cardinality(S) + 1
      BY FS_AddElement
    <3> QED
      BY <1>1, <3>1
  <2> HIDE DEF U
  <2>2. T \in SUBSET U
    BY <1>3 DEF U
  <2>3. IsFiniteSet(T) /\ Cardinality(T) <= Cardinality(U)
    BY <2>1, <2>2, FS_Subset
  <2>4. Cardinality(T) \in Nat
    BY <2>3, FS_CardinalityType
  <2> QED
    BY <1>1, <2>1, <2>3, <2>4
<1>4. ASSUME x \in S, T \subseteq S \ {x}
      PROVE  IsFiniteSet(T) /\ Cardinality(T) \in Nat /\ Cardinality(T) + 1 <= Cardinality(S)
  <2> DEFINE U == S \ {x}
  <2>1. IsFiniteSet(U) /\ Cardinality(U) = Cardinality(S) - 1
    BY <1>4, FS_RemoveElement
  <2> HIDE DEF U
  <2>2. T \in SUBSET U
    BY <1>4 DEF U
  <2>3. IsFiniteSet(T) /\ Cardinality(T) <= Cardinality(U)
    BY <2>1, <2>2, FS_Subset
  <2>4. Cardinality(T) \in Nat
    BY <2>3, FS_CardinalityType
  <2> QED
    BY <1>1, <2>1, <2>3, <2>4
<1> QED
  BY <1>1, <1>2, <1>3, <1>4

(***************************************************************************)
(* The ways a step stays within an order's budget: it costs nothing, it is *)
(* paid by its fault, by the settled state it leaves behind, or by the     *)
(* zombie that is one no longer.                                           *)
(***************************************************************************)
LEMMA Affordable ==
    ASSUME TypeOK, TypeOK', NEW o, WithinBudget(o), NEW x,
           \/ /\ Charges(o)' \subseteq Charges(o) /\ Zombies(o)' \subseteq Zombies(o)
              /\ SettledOrder(o) => SettledOrder(o)'
              /\ faults <= faults'
           \/ /\ Charges(o)' \subseteq Charges(o) /\ Zombies(o)' \subseteq Zombies(o)
              /\ faults' = faults + 1
           \/ /\ Charges(o)' \subseteq Charges(o) \cup {x} /\ Zombies(o)' \subseteq Zombies(o)
              /\ SettledOrder(o) => SettledOrder(o)'
              /\ faults' = faults + 1
           \/ /\ Charges(o)' \subseteq Charges(o) /\ Zombies(o)' \subseteq Zombies(o) \cup {x}
              /\ SettledOrder(o) => SettledOrder(o)'
              /\ faults' = faults + 1
           \/ /\ Charges(o)' \subseteq Charges(o) \cup {x} /\ Zombies(o)' \subseteq Zombies(o)
              /\ ~SettledOrder(o) /\ SettledOrder(o)'
              /\ faults <= faults'
    PROVE  WithinBudget(o)'
<1> DEFINE c == Cardinality(Charges(o))
           z == Cardinality(Zombies(o))
           d == Cardinality(Charges(o)')
           y == Cardinality(Zombies(o)')
<1>1. /\ IsFiniteSet(Charges(o)) /\ IsFiniteSet(Zombies(o))
      /\ c + z + Unsettled(o) <= 1 + faults
  BY DEF WithinBudget
<1>2. c \in Nat /\ z \in Nat
  BY <1>1, SetSizes
<1>3. faults \in Nat /\ faults' \in Nat
  BY PaymentAssumption DEF TypeOK
<1>4. /\ Charges(o)' \subseteq Charges(o) =>
            IsFiniteSet(Charges(o)') /\ d \in Nat /\ d <= c
      /\ Charges(o)' \subseteq Charges(o) \cup {x} =>
            IsFiniteSet(Charges(o)') /\ d \in Nat /\ d <= c + 1
  BY <1>1, SetSizes
<1>5. /\ Zombies(o)' \subseteq Zombies(o) =>
            IsFiniteSet(Zombies(o)') /\ y \in Nat /\ y <= z
      /\ Zombies(o)' \subseteq Zombies(o) \cup {x} =>
            IsFiniteSet(Zombies(o)') /\ y \in Nat /\ y <= z + 1
  BY <1>1, SetSizes
<1> HIDE DEF c, z, d, y
<1>6. IsFiniteSet(Charges(o)') /\ IsFiniteSet(Zombies(o)') /\ d + y + Unsettled(o)' <= 1 + faults'
  BY <1>1, <1>2, <1>3, <1>4, <1>5 DEF Unsettled
<1> QED
  BY <1>6 DEF WithinBudget, d, y

(* A zombie pays: for a charge, or for the approved row it overwrites. *)
LEMMA ZombiePays ==
    ASSUME TypeOK, TypeOK', NEW o, WithinBudget(o), NEW i \in Zombies(o), NEW x,
           Zombies(o)' \subseteq Zombies(o) \ {i},
           faults' = faults,
           \/ Charges(o)' \subseteq Charges(o)
           \/ Charges(o)' \subseteq Charges(o) \cup {x} /\ (SettledOrder(o) => SettledOrder(o)')
    PROVE  WithinBudget(o)'
<1> DEFINE c == Cardinality(Charges(o))
           z == Cardinality(Zombies(o))
           d == Cardinality(Charges(o)')
           y == Cardinality(Zombies(o)')
<1>1. /\ IsFiniteSet(Charges(o)) /\ IsFiniteSet(Zombies(o))
      /\ c + z + Unsettled(o) <= 1 + faults
  BY DEF WithinBudget
<1>2. c \in Nat /\ z \in Nat /\ faults \in Nat
  BY <1>1, SetSizes, PaymentAssumption DEF TypeOK
<1>3. /\ Charges(o)' \subseteq Charges(o) =>
            IsFiniteSet(Charges(o)') /\ d \in Nat /\ d <= c
      /\ Charges(o)' \subseteq Charges(o) \cup {x} =>
            IsFiniteSet(Charges(o)') /\ d \in Nat /\ d <= c + 1
  BY <1>1, SetSizes
<1>4. IsFiniteSet(Zombies(o)') /\ y \in Nat /\ y + 1 <= z
  BY <1>1, SetSizes
<1> HIDE DEF c, z, d, y
<1>5. IsFiniteSet(Charges(o)') /\ d + y + Unsettled(o)' <= 1 + faults'
  BY <1>1, <1>2, <1>3, <1>4 DEF Unsettled
<1> QED
  BY <1>4, <1>5 DEF WithinBudget, d, y
(* A replica that stays where it is keeps what it means for every order. *)
LEMMA HandStays ==
    ASSUME TypeOK, [Next]_vars, NEW i \in Instances, pc'[i] = pc[i], task'[i] = task[i]
    PROVE  /\ ApprovedInHand(i)' <=> ApprovedInHand(i)
           /\ \A o : /\ MayHarm(i, o)' <=> MayHarm(i, o)
                     /\ AtGateway(i, o)' <=> AtGateway(i, o)
                     /\ ApprovedInHand(i) => (OrderInHand(i)' = o <=> OrderInHand(i) = o)
           /\ \A e : Overwriting(i, e)' <=> Overwriting(i, e)
<1>1. pc[i] # "idle" => Current(i)'.event = Current(i).event
  BY HandKeepsEvent
<1>2. pc[i] # "idle" => OrderInHand(i)' = OrderInHand(i)
  BY <1>1 DEF OrderInHand
<1> QED
  BY <1>1, <1>2 DEF ApprovedInHand, MayHarm, AtGateway, Overwriting, ChargeWindow

(* Which orders have zombies after a step of one replica. *)
LEMMA ZombiesAfter ==
    ASSUME TypeOK, [Next]_vars, NEW i \in Instances, owner' = owner,
           \A j \in Instances \ {i} : pc'[j] = pc[j] /\ task'[j] = task[j], NEW o
    PROVE  /\ i = owner \/ MayHarm(i, o) \/ ~MayHarm(i, o)' => Zombies(o)' \subseteq Zombies(o)
           /\ ~MayHarm(i, o)' => Zombies(o)' \subseteq Zombies(o) \ {i}
<1>1. \A j \in Instances \ {i} : MayHarm(j, o)' <=> MayHarm(j, o)
  BY HandStays
<1> QED
  BY <1>1 DEF Zombies

(* A step of a replica that lost the partition unsettles an order only by a row. *)
LEMMA SettledElsewhere ==
    ASSUME TypeOK, [Next]_vars, owner' = owner, pc'[owner] = pc[owner], task'[owner] = task[owner],
           NEW o, ApprovedRows(o) \subseteq ApprovedRows(o)', SettledOrder(o)
    PROVE  SettledOrder(o)'
<1>1. owner \in Instances
  BY DEF TypeOK
<1>2. CASE ApprovedInHand(owner) /\ OrderInHand(owner) = o
  <2>1. ApprovedInHand(owner)' /\ OrderInHand(owner)' = o
    BY <1>1, <1>2, HandStays
  <2> QED
    BY <2>1 DEF SettledOrder
<1>3. CASE ~AtGateway(owner, o) /\ \E e \in ApprovedRows(o) : ~Overwriting(owner, e)
  <2>1. PICK e \in ApprovedRows(o) : ~Overwriting(owner, e)
    BY <1>3
  <2>2. ~AtGateway(owner, o)' /\ ~Overwriting(owner, e)'
    BY <1>1, <1>3, <2>1, HandStays
  <2>3. e \in ApprovedRows(o)'
    BY <2>1
  <2> QED
    BY <2>2, <2>3 DEF SettledOrder
<1> QED
  BY <1>2, <1>3 DEF SettledOrder

(* What is published adds the charges it adds, to the order it is about. *)
LEMMA SendCharges ==
    ASSUME TypeOK, NEW i \in Instances, NEW type, NEW payment, Send(i, type, payment), NEW o
    PROVE  /\ Charges(o)' \subseteq Charges(o) \cup {payment}
           /\ type # "payment.processed" \/ OrderInHand(i) # o => Charges(o)' = Charges(o)
<1> DEFINE m == [type |-> type, event |-> Current(i).event, payment |-> payment]
<1>1. out' = out \cup {m} /\ m.type = type /\ m.payment = payment /\ OrderOf[m.event] = OrderInHand(i)
  BY DEF Send, OrderInHand
<1> HIDE DEF m
<1> QED
  BY <1>1 DEF Charges

(* Nothing new is published: no order is charged. *)
LEMMA NoCharge == ASSUME out' = out, NEW o PROVE Charges(o)' = Charges(o)
  BY DEF Charges

(* Nothing is saved: the approved rows stay. *)
LEMMA NoRowSaved == ASSUME rows' = rows, NEW o PROVE ApprovedRows(o)' = ApprovedRows(o)
  BY DEF ApprovedRows

(* A step of one replica that neither publishes nor saves, within or out of its window. *)
LEMMA QuietReplica ==
    ASSUME TypeOK, ChargeInv, [Next]_vars, TypeOK', NEW i \in Instances, owner' = owner,
           \A j \in Instances \ {i} : pc'[j] = pc[j] /\ task'[j] = task[j],
           rows' = rows, faults <= faults', NEW o \in Orders, Charges(o)' = Charges(o),
           i = owner \/ MayHarm(i, o) \/ ~MayHarm(i, o)',
           i = owner => (SettledOrder(o) => SettledOrder(o)')
    PROVE  WithinBudget(o)'
<1>1. Zombies(o)' \subseteq Zombies(o)
  BY ZombiesAfter
<1>2. ApprovedRows(o)' = ApprovedRows(o)
  BY NoRowSaved
<1>3. owner \in Instances
  BY DEF TypeOK
<1>4. SettledOrder(o) => SettledOrder(o)'
  BY <1>2, <1>3, SettledElsewhere
<1>5. WithinBudget(o)
  BY DEF ChargeInv
<1> QED
  BY <1>1, <1>4, <1>5, Affordable

(* A fault that leaves the rows alone and charges nobody pays for what it unsettles. *)
LEMMA FaultPays ==
    ASSUME TypeOK, ChargeInv, [Next]_vars, TypeOK', NEW i \in Instances, owner' = owner,
           \A j \in Instances \ {i} : pc'[j] = pc[j] /\ task'[j] = task[j],
           faults' = faults + 1, NEW o \in Orders, Charges(o)' = Charges(o), ~MayHarm(i, o)'
    PROVE  WithinBudget(o)'
<1>1. Zombies(o)' \subseteq Zombies(o)
  BY ZombiesAfter
<1>2. WithinBudget(o)
  BY DEF ChargeInv
<1> QED
  BY <1>1, <1>2, Affordable

(* Where a step of replica i leaves the replicas. *)
LEMMA Moves ==
    ASSUME TypeOK, NEW i \in Instances, NEW step, Goto(i, step)
    PROVE  pc'[i] = step /\ \A j \in Instances \ {i} : pc'[j] = pc[j]
  BY DEF Goto, TypeOK

(* The owner's step settles nothing and unsettles nothing when the row it leaves is safe. *)
LEMMA OwnerKeepsSettled ==
    ASSUME TypeOK, [Next]_vars, owner' = owner, pc[owner] # "idle", NEW o, SettledOrder(o),
           ~ApprovedInHand(owner), task'[owner].offset = task[owner].offset,
           pc'[owner] \notin {"publishRequested", "publishOutcome"} \/ OrderInHand(owner) # o,
           \A e \in ApprovedRows(o) :
              ~Overwriting(owner, e) =>
                 /\ rows'[e] = rows[e]
                 /\ \/ pc'[owner] \notin {"findByOrder", "recordSkip", "recordOutcome"}
                    \/ Current(owner).event # e
    PROVE  SettledOrder(o)'
<1>1. owner \in Instances
  BY DEF TypeOK
<1>2. Current(owner)'.event = Current(owner).event
  BY <1>1, HandKeepsEvent
<1>3. PICK e \in ApprovedRows(o) : ~Overwriting(owner, e)
  BY DEF SettledOrder
<1>4. e \in ApprovedRows(o)'
  BY <1>3 DEF ApprovedRows
<1>5. ~AtGateway(owner, o)'
  BY <1>2 DEF AtGateway, OrderInHand
<1>6. ~Overwriting(owner, e)'
  BY <1>2, <1>3 DEF Overwriting
<1> QED
  BY <1>4, <1>5, <1>6 DEF SettledOrder

(* The duplicate check charges nobody; its skip row may cost an approved one. *)
LEMMA PrecheckWithinBudget ==
    ASSUME TypeOK, ChargeInv, [Next]_vars, TypeOK', NEW i \in Instances, Precheck(i), NEW o \in Orders
    PROVE  WithinBudget(o)'
<1> USE DEF groupVars, ledgerVars, historyVars
<1>0. faults \in Nat /\ owner \in Instances
  BY PaymentAssumption DEF TypeOK
<1>1. CASE FindByEvent(i)
  <2>1. /\ pc[i] = "findByEvent" /\ UNCHANGED <<rows, out, owner, faults, task>>
        /\ \/ pc'[i] = "done"
           \/ pc'[i] = "findByOrder" /\ rows[Current(i).event] = NoRow
        /\ \A j \in Instances \ {i} : pc'[j] = pc[j] /\ task'[j] = task[j]
    <3>1. /\ pc[i] = "findByEvent" /\ UNCHANGED <<rows, out, owner, faults, task>>
          /\ Goto(i, IF rows[Current(i).event] # NoRow THEN "done" ELSE "findByOrder")
      BY <1>1 DEF FindByEvent
    <3>2. /\ pc'[i] = IF rows[Current(i).event] # NoRow THEN "done" ELSE "findByOrder"
          /\ \A j \in Instances \ {i} : pc'[j] = pc[j]
      BY <3>1, Moves
    <3> QED
      BY <3>1, <3>2
  <2>2. ASSUME i = owner, SettledOrder(o) PROVE SettledOrder(o)'
    <3>1. ~ApprovedInHand(owner)
      BY <2>1, <2>2 DEF ApprovedInHand
    <3>2. ASSUME pc'[i] = "findByOrder", NEW e \in ApprovedRows(o) PROVE Current(i).event # e
      BY <2>1, <3>2 DEF ApprovedRows, NoRow
    <3> QED
      BY <2>1, <2>2, <3>1, <3>2, OwnerKeepsSettled
  <2>3. MayHarm(i, o) \/ ~MayHarm(i, o)'
    <3>1. Current(i)'.event = Current(i).event
      BY <2>1, HandKeepsEvent
    <3> QED
      BY <2>1, <3>1 DEF MayHarm, ChargeWindow, ApprovedInHand, OrderInHand
  <2> QED
    BY <1>0, <2>1, <2>2, <2>3, NoCharge, QuietReplica
<1>2. CASE FindByOrder(i)
  <2>1. /\ pc[i] = "findByOrder" /\ UNCHANGED <<rows, out, owner, faults>>
        /\ \/ pc'[i] = "publishRequested" /\ ApprovedRows(OrderInHand(i)) = {}
           \/ pc'[i] = "recordSkip"
        /\ task'[i].offset = task[i].offset
        /\ \A j \in Instances \ {i} : pc'[j] = pc[j] /\ task'[j] = task[j]
    <3>1. /\ pc[i] = "findByOrder" /\ UNCHANGED <<rows, out, owner, faults>>
          /\ \/ Goto(i, "publishRequested") /\ ApprovedRows(OrderInHand(i)) = {} /\ task' = task
             \/ Goto(i, "recordSkip") /\ \E p : task' = [task EXCEPT ![i].payment = p]
      BY <1>2 DEF FindByOrder
    <3>2. task \in [Instances -> Task]
      BY DEF TypeOK
    <3>3. /\ task'[i].offset = task[i].offset
          /\ \A j \in Instances \ {i} : task'[j] = task[j]
      BY <3>1, <3>2 DEF Task
    <3> QED
      BY <3>1, <3>3, Moves
  <2>2. ASSUME i = owner, SettledOrder(o) PROVE SettledOrder(o)'
    <3>1. ~ApprovedInHand(owner)
      BY <2>1, <2>2 DEF ApprovedInHand
    <3>2. pc'[owner] \notin {"publishRequested", "publishOutcome"} \/ OrderInHand(owner) # o
      BY <2>1, <2>2, <3>1 DEF SettledOrder
    <3>3. \A e \in ApprovedRows(o) : ~Overwriting(owner, e) => Current(owner).event # e
      BY <2>1, <2>2 DEF Overwriting
    <3> QED
      BY <2>1, <2>2, <3>1, <3>2, <3>3, OwnerKeepsSettled
  <2>3. MayHarm(i, o) \/ ~MayHarm(i, o)'
    <3>1. Current(i)'.event = Current(i).event
      BY <2>1, HandKeepsEvent
    <3> QED
      BY <2>1, <3>1 DEF MayHarm, ChargeWindow, ApprovedInHand, OrderInHand
  <2> QED
    BY <1>0, <2>1, <2>2, <2>3, NoCharge, QuietReplica
<1>3. CASE RecordSkip(i)
  <2>1. /\ pc[i] = "recordSkip" /\ UNCHANGED <<out, owner, faults, task>> /\ pc'[i] = "done"
        /\ SaveRow(i, "skipped_duplicate_order")
        /\ \A j \in Instances \ {i} : pc'[j] = pc[j] /\ task'[j] = task[j]
    BY <1>3, Moves DEF RecordSkip
  <2>2. /\ \A f \in Events : f # Current(i).event => rows'[f] = rows[f]
        /\ o # OrderInHand(i) => ApprovedRows(o)' = ApprovedRows(o)
    BY <2>1, SaveElsewhere
  <2>3. WithinBudget(o) /\ Charges(o)' = Charges(o) /\ ~MayHarm(i, o)'
    BY <2>1, NoCharge DEF ChargeInv, MayHarm, ChargeWindow
  <2>4. CASE i = owner
    <3>1. Zombies(o)' \subseteq Zombies(o)
      BY <2>1, <2>3, ZombiesAfter
    <3>2. \A e \in ApprovedRows(o) : ~Overwriting(owner, e) => rows'[e] = rows[e]
      BY <2>1, <2>2, <2>4 DEF Overwriting, ApprovedRows
    <3>3. SettledOrder(o) => SettledOrder(o)'
      BY <2>1, <2>4, <3>2, OwnerKeepsSettled DEF ApprovedInHand
    <3> QED
      BY <1>0, <2>1, <2>3, <3>1, <3>3, Affordable
  <2>5. CASE i # owner /\ o = OrderInHand(i)
    <3>1. i \in Zombies(o)
      BY <2>1, <2>5 DEF Zombies, MayHarm, ApprovedInHand
    <3>2. Zombies(o)' \subseteq Zombies(o) \ {i}
      BY <2>1, <2>3, ZombiesAfter
    <3> QED
      BY <2>1, <2>3, <3>1, <3>2, ZombiePays
  <2>6. CASE i # owner /\ o # OrderInHand(i)
    <3>1. Zombies(o)' \subseteq Zombies(o)
      BY <2>1, <2>3, ZombiesAfter
    <3>2. SettledOrder(o) => SettledOrder(o)'
      BY <1>0, <2>1, <2>2, <2>6, SettledElsewhere
    <3> QED
      BY <1>0, <2>1, <2>3, <3>1, <3>2, Affordable
  <2> QED
    BY <2>4, <2>5, <2>6
<1>4. CASE PrecheckThrows(i)
  <2>1. /\ UNCHANGED <<out, owner, task>> /\ pc'[i] = "escaped" /\ faults' = faults + 1
        /\ \A j \in Instances \ {i} : pc'[j] = pc[j] /\ task'[j] = task[j]
    BY <1>4, Moves DEF PrecheckThrows, NewFault
  <2> QED
    BY <2>1, NoCharge, FaultPays DEF MayHarm, ChargeWindow
<1> QED
  BY <1>1, <1>2, <1>3, <1>4 DEF Precheck

(* The announcement of a payment is not a charge yet. *)
LEMMA RequestWithinBudget ==
    ASSUME TypeOK, ChargeInv, [Next]_vars, TypeOK', NEW i \in Instances, PublishRequested(i),
           NEW o \in Orders
    PROVE  WithinBudget(o)'
<1>1. /\ pc[i] = "publishRequested" /\ UNCHANGED <<rows, owner, faults>> /\ pc'[i] = "publishOutcome"
      /\ task'[i].offset = task[i].offset
      /\ \A j \in Instances \ {i} : pc'[j] = pc[j] /\ task'[j] = task[j]
  BY Moves DEF PublishRequested, groupVars, TypeOK, Task
<1>2. Charges(o)' = Charges(o)
  BY SendCharges DEF PublishRequested
<1>3. ASSUME i = owner, SettledOrder(o) PROVE SettledOrder(o)'
  <2>1. ~ApprovedInHand(owner) /\ OrderInHand(owner) # o
    BY <1>1, <1>3 DEF ApprovedInHand, SettledOrder, AtGateway
  <2> QED
    BY <1>1, <1>3, <2>1, OwnerKeepsSettled
<1>4. MayHarm(i, o) \/ ~MayHarm(i, o)'
  <2>1. Current(i)'.event = Current(i).event
    BY <1>1, HandKeepsEvent
  <2> QED
    BY <1>1, <2>1 DEF MayHarm, ChargeWindow, ApprovedInHand, OrderInHand
<1>5. faults \in Nat
  BY PaymentAssumption DEF TypeOK
<1> QED
  BY <1>1, <1>2, <1>3, <1>4, <1>5, QuietReplica

(* The outcome: the owner uses up the charge the order owes, a zombie its own. *)
LEMMA OutcomeWithinBudget ==
    ASSUME TypeOK, ChargeInv, [Next]_vars, TypeOK', NEW i \in Instances, PublishOutcome(i),
           NEW o \in Orders
    PROVE  WithinBudget(o)'
<1> DEFINE v == task[i].verdict
           n == task[i].payment
<1>1. /\ pc[i] = "publishOutcome" /\ UNCHANGED <<rows, owner, faults, task>>
      /\ pc'[i] = "recordOutcome" /\ Send(i, OutcomeType[v], n)
      /\ \A j \in Instances \ {i} : pc'[j] = pc[j] /\ task'[j] = task[j]
  BY Moves DEF PublishOutcome, groupVars
<1>2. v \in Verdicts /\ faults \in Nat /\ owner \in Instances
  BY <1>1, PaymentAssumption DEF TypeOK
<1>3. Current(i)'.event = Current(i).event
  BY <1>1, HandKeepsEvent
<1>4. /\ Charges(o)' \subseteq Charges(o) \cup {n}
      /\ v # "approved" \/ OrderInHand(i) # o => Charges(o)' = Charges(o)
  <2>1. v # "approved" => OutcomeType[v] # "payment.processed"
    BY <1>2 DEF OutcomeType, Verdicts
  <2> QED
    BY <1>1, <2>1, SendCharges
<1>5. WithinBudget(o)
  BY DEF ChargeInv
<1>6. MayHarm(i, o) \/ ~MayHarm(i, o)'
  BY <1>1, <1>3 DEF MayHarm, ChargeWindow, ApprovedInHand, OrderInHand
<1>7. CASE v = "approved" /\ OrderInHand(i) = o
  <2>1. ~MayHarm(i, o)' /\ Zombies(o)' \subseteq Zombies(o) /\ Zombies(o)' \subseteq Zombies(o) \ {i}
    <3>1. ~MayHarm(i, o)'
      BY <1>1, <1>7 DEF MayHarm, ApprovedInHand
    <3> QED
      BY <1>1, <3>1, ZombiesAfter
  <2>2. CASE i = owner
    <3>1. ~SettledOrder(o)
      BY <1>1, <1>7, <2>2 DEF SettledOrder, ApprovedInHand, AtGateway
    <3>2. SettledOrder(o)'
      BY <1>1, <1>3, <1>7, <2>2 DEF SettledOrder, ApprovedInHand, OrderInHand
    <3> QED
      BY <1>1, <1>2, <1>4, <1>5, <2>1, <3>1, <3>2, Affordable
  <2>3. CASE i # owner
    <3>1. i \in Zombies(o)
      BY <1>1, <1>7, <2>3 DEF Zombies, MayHarm, ChargeWindow, ApprovedInHand
    <3>2. SettledOrder(o) => SettledOrder(o)'
      BY <1>1, <1>2, <2>3, NoRowSaved, SettledElsewhere
    <3> QED
      BY <1>1, <1>4, <1>5, <2>1, <3>1, <3>2, ZombiePays
  <2> QED
    BY <2>2, <2>3
<1>8. CASE ~(v = "approved" /\ OrderInHand(i) = o)
  <2>1. ASSUME i = owner, SettledOrder(o) PROVE SettledOrder(o)'
    <3>1. ~ApprovedInHand(owner) /\ OrderInHand(owner) # o
      BY <1>1, <2>1 DEF ApprovedInHand, SettledOrder, AtGateway
    <3>2. \A e \in ApprovedRows(o) : Current(owner).event # e
      BY <3>1 DEF ApprovedRows, OrderInHand
    <3> QED
      BY <1>1, <2>1, <3>1, <3>2, OwnerKeepsSettled
  <2> QED
    BY <1>1, <1>2, <1>4, <1>6, <1>8, <2>1, QuietReplica
<1> QED
  BY <1>7, <1>8

(* The row: an approved one settles the order, a failed one may unsettle it. *)
LEMMA RecordWithinBudget ==
    ASSUME TypeOK, ChargeInv, [Next]_vars, TypeOK', NEW i \in Instances, RecordOutcome(i),
           NEW o \in Orders
    PROVE  WithinBudget(o)'
<1> DEFINE v == task[i].verdict
           e0 == Current(i).event
<1>1. /\ pc[i] = "recordOutcome" /\ UNCHANGED <<out, owner, faults, task>> /\ pc'[i] = "done"
      /\ SaveRow(i, v)
      /\ \A j \in Instances \ {i} : pc'[j] = pc[j] /\ task'[j] = task[j]
  BY Moves DEF RecordOutcome, groupVars, ledgerVars
<1>2. /\ e0 \in Events /\ rows'[e0].outcome = v
      /\ \A f \in Events : f # e0 => rows'[f] = rows[f]
      /\ o # OrderInHand(i) => ApprovedRows(o)' = ApprovedRows(o)
  BY <1>1, SaveElsewhere
<1>3. WithinBudget(o) /\ Charges(o)' = Charges(o) /\ ~MayHarm(i, o)'
  BY <1>1, NoCharge DEF ChargeInv, MayHarm, ChargeWindow
<1>4. Zombies(o)' \subseteq Zombies(o) /\ Zombies(o)' \subseteq Zombies(o) \ {i}
  BY <1>1, <1>3, ZombiesAfter
<1>5. faults \in Nat /\ owner \in Instances
  BY PaymentAssumption DEF TypeOK
<1>6. CASE i = owner
  <2>1. CASE v = "approved" /\ OrderInHand(i) = o
    <3>1. e0 \in ApprovedRows(o)'
      BY <1>2, <2>1 DEF ApprovedRows, OrderInHand
    <3>2. SettledOrder(o)'
      BY <1>1, <1>6, <3>1 DEF SettledOrder, AtGateway, Overwriting
    <3> QED
      BY <1>1, <1>3, <1>4, <1>5, <3>2, Affordable
  <2>2. CASE v = "approved" /\ OrderInHand(i) # o
    <3>1. ApprovedRows(o)' = ApprovedRows(o)
      BY <1>2, <2>2
    <3>2. SettledOrder(o) => SettledOrder(o)'
      BY <1>1, <1>6, <2>2, <3>1 DEF SettledOrder, AtGateway, Overwriting
    <3> QED
      BY <1>1, <1>3, <1>4, <1>5, <3>2, Affordable
  <2>3. CASE v # "approved"
    <3>1. \A e \in ApprovedRows(o) : ~Overwriting(owner, e) => rows'[e] = rows[e]
      BY <1>1, <1>2, <1>6 DEF Overwriting, ApprovedRows
    <3>2. SettledOrder(o) => SettledOrder(o)'
      BY <1>1, <1>6, <2>3, <3>1, OwnerKeepsSettled DEF ApprovedInHand
    <3> QED
      BY <1>1, <1>3, <1>4, <1>5, <3>2, Affordable
  <2> QED
    BY <2>1, <2>2, <2>3
<1>7. CASE i # owner /\ v # "approved" /\ OrderInHand(i) = o
  <2>1. i \in Zombies(o)
    BY <1>1, <1>7 DEF Zombies, MayHarm, ChargeWindow, ApprovedInHand
  <2> QED
    BY <1>1, <1>3, <1>4, <2>1, ZombiePays
<1>8. CASE i # owner /\ ~(v # "approved" /\ OrderInHand(i) = o)
  <2>1. ApprovedRows(o) \subseteq ApprovedRows(o)'
    BY <1>2, <1>8 DEF ApprovedRows, OrderInHand
  <2>2. SettledOrder(o) => SettledOrder(o)'
    BY <1>1, <1>5, <1>8, <2>1, SettledElsewhere
  <2> QED
    BY <1>1, <1>3, <1>4, <1>5, <2>2, Affordable
<1> QED
  BY <1>6, <1>7, <1>8

(* A rejected call is a fault, and pays for the charge it may have made. *)
LEMMA RejectsWithinBudget ==
    ASSUME TypeOK, ChargeInv, [Next]_vars, TypeOK', NEW i \in Instances,
           RequestRejects(i) \/ OutcomeRejects(i) \/ RecordRejects(i), NEW o \in Orders
    PROVE  WithinBudget(o)'
<1> USE DEF groupVars, ledgerVars, historyVars
<1>1. /\ UNCHANGED <<owner, rows>> /\ pc'[i] = "failed" /\ faults' = faults + 1
      /\ \A j \in Instances \ {i} : pc'[j] = pc[j] /\ task'[j] = task[j]
  BY Moves DEF RequestRejects, OutcomeRejects, RecordRejects, NewFault
<1>2. ~MayHarm(i, o)'
  BY <1>1 DEF MayHarm, ChargeWindow
<1>3. CASE Charges(o)' = Charges(o)
  BY <1>1, <1>2, <1>3, FaultPays
<1>4. CASE Charges(o)' # Charges(o)
  <2>1. /\ pc[i] = "publishOutcome" /\ OrderInHand(i) = o
        /\ Charges(o)' \subseteq Charges(o) \cup {task[i].payment}
    <3>1. ~RecordRejects(i)
      BY <1>4, NoCharge DEF RecordRejects
    <3>2. ~RequestRejects(i)
      BY <1>4, NoCharge, SendCharges DEF RequestRejects
    <3>3. OutcomeRejects(i) /\ Send(i, OutcomeType[task[i].verdict], task[i].payment)
      BY <1>4, <3>1, <3>2, NoCharge DEF OutcomeRejects
    <3> QED
      BY <1>4, <3>3, SendCharges DEF OutcomeRejects
  <2>2. Zombies(o)' \subseteq Zombies(o)
    BY <1>1, <1>2, ZombiesAfter
  <2>3. SettledOrder(o) => SettledOrder(o)'
    <3>1. CASE i = owner
      BY <2>1, <3>1 DEF SettledOrder, AtGateway, ApprovedInHand
    <3>2. CASE i # owner
      <4>1. owner \in Instances
        BY DEF TypeOK
      <4> QED
        BY <1>1, <3>2, <4>1, NoRowSaved, SettledElsewhere
    <3> QED
      BY <3>1, <3>2
  <2> QED
    BY <1>1, <2>1, <2>2, <2>3, Affordable DEF ChargeInv
<1> QED
  BY <1>3, <1>4

(* The executor and the poll loop neither charge nor save. *)
LEMMA LoopWithinBudget ==
    ASSUME TypeOK, ChargeInv, [Next]_vars, TypeOK', NEW i \in Instances,
           HandleOrderEvents(i) \/ Execute(i) \/ Finish(i), NEW o \in Orders
    PROVE  WithinBudget(o)'
<1> USE DEF groupVars, ledgerVars, historyVars
<1>1. /\ UNCHANGED <<owner, rows, out>> /\ pc[i] \in {"idle", "failed", "done", "escaped"}
      /\ pc[i] = "idle" => owner = i
      /\ pc'[i] \in {"findByEvent", "done", "escaped", "idle"}
      /\ pc'[i] = "findByEvent" => pc[i] = "idle"
      /\ \A j \in Instances \ {i} : pc'[j] = pc[j] /\ task'[j] = task[j]
  <2>1. CASE HandleOrderEvents(i)
    BY <2>1, Moves DEF HandleOrderEvents
  <2>2. CASE Execute(i)
    BY <2>2, Moves DEF Execute, ScheduleRetry, SendToDlq, RetryPublishRejects
  <2>3. CASE Finish(i)
    <3>1. /\ UNCHANGED <<owner, rows, out>> /\ pc[i] \in {"done", "escaped"}
          /\ Goto(i, "idle") /\ task' = [task EXCEPT ![i] = NoTask]
      BY <2>3 DEF Finish, Resolve, DropEscaped, RedeliverEscaped, Release
    <3>2. \A j \in Instances \ {i} : task'[j] = task[j]
      BY <3>1 DEF TypeOK
    <3> QED
      BY <3>1, <3>2, Moves
  <2> QED
    BY <2>1, <2>2, <2>3
<1>2. faults <= faults'
  <2>1. faults \in Nat
    BY PaymentAssumption DEF TypeOK
  <2>2. faults' = faults \/ faults' = faults + 1
    BY DEF HandleOrderEvents, Execute, ScheduleRetry, SendToDlq, RetryPublishRejects, Finish,
           Resolve, DropEscaped, RedeliverEscaped, NewFault
  <2> QED
    BY <2>1, <2>2
<1>3. i = owner \/ ~MayHarm(i, o)'
  BY <1>1 DEF MayHarm, ChargeWindow
<1>4. ASSUME i = owner, SettledOrder(o) PROVE SettledOrder(o)'
  <2>1. PICK e \in ApprovedRows(o) : TRUE
    BY <1>1, <1>4 DEF SettledOrder, ApprovedInHand
  <2>2. e \in ApprovedRows(o)'
    BY <1>1, <2>1, NoRowSaved
  <2> QED
    BY <1>1, <1>4, <2>2 DEF SettledOrder, AtGateway, Overwriting
<1> QED
  BY <1>1, <1>2, <1>3, <1>4, NoCharge, QuietReplica

(***************************************************************************)
(* A rebalance makes a zombie of a busy owner: the fault pays for it when  *)
(* the order is unsettled or stays settled by a row, and for the settled   *)
(* state when it was about to write that row.                              *)
(***************************************************************************)
LEMMA RebalanceWithinBudget ==
    ASSUME TypeOK, ChargeInv, [Next]_vars, TypeOK', NEW j \in Instances, Rebalance(j), NEW o \in Orders
    PROVE  WithinBudget(o)'
<1>1. /\ j # owner /\ pc[j] = "idle" /\ owner' = j /\ faults' = faults + 1
      /\ UNCHANGED <<pc, task, rows, out>>
  BY DEF Rebalance, NewFault, ledgerVars
<1>2. \A i \in Instances : MayHarm(i, o)' <=> MayHarm(i, o)
  BY <1>1, HandStays
<1>3. Charges(o)' = Charges(o) /\ ApprovedRows(o)' = ApprovedRows(o) /\ WithinBudget(o)
  BY <1>1, NoCharge, NoRowSaved DEF ChargeInv
<1>4. CASE MayHarm(owner, o)
  <2>1. Zombies(o)' \subseteq Zombies(o) \cup {owner}
    BY <1>1, <1>2 DEF Zombies
  <2>2. ASSUME SettledOrder(o) PROVE SettledOrder(o)'
    <3>1. PICK e \in ApprovedRows(o) : TRUE
      BY <1>4, <2>2 DEF SettledOrder, MayHarm
    <3>2. e \in ApprovedRows(o)'
      BY <1>3, <3>1
    <3> QED
      BY <1>1, <3>2 DEF SettledOrder, AtGateway, Overwriting
  <2> QED
    BY <1>1, <1>3, <2>1, <2>2, Affordable
<1>5. CASE ~MayHarm(owner, o)
  <2>1. Zombies(o)' \subseteq Zombies(o)
    BY <1>1, <1>2, <1>5 DEF Zombies
  <2> QED
    BY <1>1, <1>3, <2>1, Affordable
<1> QED
  BY <1>4, <1>5

(* Every step stays within every order's budget. *)
LEMMA ChargeStep == TypeOK /\ ChargeInv /\ [Next]_vars => ChargeInv'
<1> SUFFICES ASSUME TypeOK, ChargeInv, [Next]_vars, TypeOK', NEW o \in Orders
             PROVE  WithinBudget(o)'
  BY TypeStep DEF ChargeInv
<1> USE DEF groupVars, ledgerVars, historyVars
<1>1. ASSUME UNCHANGED <<owner, pc, task, rows, out>>, faults <= faults' PROVE WithinBudget(o)'
  <2>1. \A i \in Instances : MayHarm(i, o)' <=> MayHarm(i, o)
    BY <1>1, HandStays
  <2>2. Zombies(o)' \subseteq Zombies(o)
    BY <1>1, <2>1 DEF Zombies
  <2>3. owner \in Instances
    BY DEF TypeOK
  <2>4. SettledOrder(o) => SettledOrder(o)'
    BY <1>1, <2>3, NoRowSaved, SettledElsewhere
  <2> QED
    BY <1>1, <2>2, <2>4, NoCharge, Affordable DEF ChargeInv
<1>2. faults \in Nat
  BY PaymentAssumption DEF TypeOK
<1>3. ASSUME NEW e \in Events, Produce(e) PROVE WithinBudget(o)'
  BY <1>1, <1>2, <1>3 DEF Produce, NewFault
<1>4. ASSUME AutoCommit \/ UNCHANGED vars PROVE WithinBudget(o)'
  BY <1>1, <1>2, <1>4 DEF AutoCommit, vars
<1>5. ASSUME NEW i \in Instances, ProcessPayment(i) PROVE WithinBudget(o)'
  BY <1>5, RequestWithinBudget, OutcomeWithinBudget, RecordWithinBudget, RejectsWithinBudget
     DEF ProcessPayment
<1>6. ASSUME NEW i \in Instances, Crash(i) PROVE WithinBudget(o)'
  <2>1. /\ UNCHANGED <<out, owner>> /\ pc'[i] = "idle" /\ faults' = faults + 1
        /\ \A j \in Instances \ {i} : pc'[j] = pc[j] /\ task'[j] = task[j]
    BY <1>6, Moves DEF Crash, NewFault
  <2> QED
    BY <2>1, NoCharge, FaultPays DEF MayHarm, ChargeWindow
<1> QED
  BY <1>3, <1>4, <1>5, <1>6, PrecheckWithinBudget, LoopWithinBudget, RebalanceWithinBudget
  DEF Next, Work

(***************************************************************************)
(* With any replicas, envelopes and duplicates, and however the faults are *)
(* spread: an order is charged at most once more than faults happened.     *)
(***************************************************************************)
THEOREM ChargesAreBounded == Spec => []OneChargePerFault
<1>1. Init => ChargeInv
  <2> SUFFICES ASSUME Init, NEW o \in Orders PROVE WithinBudget(o)
    BY DEF ChargeInv
  <2>1. Charges(o) = {} /\ Zombies(o) = {} /\ faults = 0 /\ Unsettled(o) \in 0..1
    BY DEF Init, Charges, Zombies, MayHarm, ChargeWindow, Unsettled
  <2> QED
    BY <2>1, FS_EmptySet DEF WithinBudget
<1>2. TypeOK /\ ChargeInv => OneChargePerFault
  <2> SUFFICES ASSUME TypeOK, ChargeInv, NEW o \in Orders
               PROVE  Cardinality(Charges(o)) <= 1 + faults
    BY DEF OneChargePerFault
  <2>1. WithinBudget(o)
    BY DEF ChargeInv
  <2>2. Cardinality(Charges(o)) \in Nat /\ Cardinality(Zombies(o)) \in Nat /\ faults \in Nat
    BY <2>1, FS_CardinalityType, PaymentAssumption DEF WithinBudget, TypeOK
  <2> QED
    BY <2>1, <2>2 DEF WithinBudget, Unsettled
<1> QED
  BY <1>1, <1>2, ChargeStep, TypeCorrect, PTL DEF Spec
=============================================================================
