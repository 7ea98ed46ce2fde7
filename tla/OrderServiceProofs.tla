-------------------------- MODULE OrderServiceProofs --------------------------
(***************************************************************************)
(* Proofs about OrderService, for any set of clients and order ids, any    *)
(* feedback types, any retry policy and any number of faults.              *)
(***************************************************************************)
EXTENDS OrderService, TLAPS

(* The Kafka client sends at least once per attempt. *)
LEMMA TransportSendsType == TransportSends \in Nat \ {0}
  BY OrderAssumption DEF TransportSends

(* Feedback only ever writes a terminal status. *)
LEMMA StatusForType ==
    ASSUME NEW t \in DOMAIN StatusFor
    PROVE  StatusFor[t] \in {"completed", "failed", "cancelled"}
  BY DEF StatusFor

(* Writing one column of one row. *)
LEMMA WriteColumn ==
    ASSUME TypeOK, NEW o \in Orders, NEW status \in Statuses, NEW id \in Nat
    PROVE  /\ [rows EXCEPT ![o].status = status] \in
                  [Orders -> [status : Statuses \cup {"absent"}, eventId : Nat]]
           /\ [rows EXCEPT ![o].eventId = id] \in
                  [Orders -> [status : Statuses \cup {"absent"}, eventId : Nat]]
<1> DEFINE R == [status : Statuses \cup {"absent"}, eventId : Nat]
<1>1. rows \in [Orders -> R] /\ rows[o] \in R
  BY DEF TypeOK
<1>2. [rows[o] EXCEPT !.status = status] \in R /\ [rows[o] EXCEPT !.eventId = id] \in R
  BY <1>1
<1> HIDE DEF R
<1>3. /\ [rows EXCEPT ![o] = [rows[o] EXCEPT !.status = status]] \in [Orders -> R]
      /\ [rows EXCEPT ![o] = [rows[o] EXCEPT !.eventId = id]] \in [Orders -> R]
  BY <1>1, <1>2
<1> QED
  BY <1>3 DEF R

(* What one more record does to an order's topic. *)
LEMMA AppendRecordType ==
    ASSUME TypeOK, NEW o \in Orders, AppendRecord(o)
    PROVE  /\ topic' \in [Orders -> Seq(Nat)]
           /\ \A p \in Orders : p # o => topic'[p] = topic[p]
           /\ Len(topic'[o]) = Len(topic[o]) + 1
           /\ \A k \in 1..Len(topic'[o]) : \/ topic'[o][k] = held[o]
                                           \/ k \in 1..Len(topic[o]) /\ topic'[o][k] = topic[o][k]
<1> DEFINE s == topic[o]
<1>1. s \in Seq(Nat) /\ held[o] \in Nat
  BY DEF TypeOK
<1>2. topic' = [topic EXCEPT ![o] = Append(s, held[o])]
  BY DEF AppendRecord
<1>3. topic'[o] = Append(s, held[o]) /\ \A p \in Orders : p # o => topic'[p] = topic[p]
  BY <1>2 DEF TypeOK
<1> HIDE DEF s
<1>4. /\ Append(s, held[o]) \in Seq(Nat)
      /\ Len(Append(s, held[o])) = Len(s) + 1
      /\ \A k \in 1..Len(s) : Append(s, held[o])[k] = s[k]
      /\ Append(s, held[o])[Len(s) + 1] = held[o]
      /\ Len(s) \in Nat
  BY <1>1
<1>5. topic' \in [Orders -> Seq(Nat)]
  BY <1>2, <1>4 DEF TypeOK
<1> QED
  BY <1>3, <1>4, <1>5 DEF s

(***************************************************************************)
(* Type correctness: neither retry loop runs past its bound, and only      *)
(* published feedback is ever delivered.                                   *)
(***************************************************************************)
THEOREM TypeCorrect == Spec => []TypeOK
<1> USE OrderAssumption, TransportSendsType
<1>1. Init => TypeOK
  BY DEF Init, TypeOK, NoRow, NoEventId
<1>2. TypeOK /\ [Next]_vars => TypeOK'
  <2> SUFFICES ASSUME TypeOK, [Next]_vars PROVE TypeOK'
    OBVIOUS
  <2> USE DEF publishVars, feedbackVars, InFlight, Over, Statuses, Goto, NewFault
  <2>1. ASSUME NEW o \in Orders, NEW c \in Clients, Post(c, o) PROVE TypeOK'
    BY <2>1 DEF Post, TypeOK
  <2>2. ASSUME NEW o \in Orders, SaveOrder(o) PROVE TypeOK'
    BY <2>2 DEF SaveOrder, TypeOK, NoEventId
  <2>3. ASSUME NEW o \in Orders, SaveEventId(o) PROVE TypeOK'
    <3>3. issued' \in Nat /\ issued' = issued + 1 /\ held' \in [Orders -> Nat]
      BY <2>3 DEF SaveEventId, DrawEventId, TypeOK
    <3>1. rows' \in [Orders -> [status : Statuses \cup {"absent"}, eventId : Nat]]
      <4>1. rows' = [rows EXCEPT ![o].eventId = issued'] /\ "pending" \in Statuses
        BY <2>3, <3>3 DEF SaveEventId
      <4> QED
        BY <4>1, <3>3, WriteColumn
    <3>2. attempt' \in [Orders -> 0..MaxAttempts] /\ send' \in [Orders -> 0..TransportSends]
      BY <2>3 DEF SaveEventId, TypeOK
    <3> QED
      BY <2>3, <3>1, <3>2, <3>3 DEF SaveEventId, TypeOK
  <2>4. ASSUME NEW o \in Orders, SendAcknowledged(o) PROVE TypeOK'
    <3>1. topic' \in [Orders -> Seq(Nat)]
      BY <2>4, AppendRecordType DEF SendAcknowledged
    <3> QED
      BY <2>4, <3>1 DEF SendAcknowledged, TypeOK
  <2>5. ASSUME NEW o \in Orders, SendFails(o),
               pc' \in [Orders -> {"unborn"} \cup InFlight \cup Over],
               attempt' \in [Orders -> 0..MaxAttempts],
               send' \in [Orders -> 0..TransportSends]
        PROVE  TypeOK'
    <3>1. topic' \in [Orders -> Seq(Nat)]
      BY <2>5, AppendRecordType DEF SendFails, TypeOK
    <3>2. UNCHANGED <<client, rows, held, issued, feedback, delivered, dropped, faults, interrupted>>
      BY <2>5 DEF SendFails
    <3> QED
      BY <2>5, <3>1, <3>2 DEF TypeOK
  <2>6. ASSUME NEW o \in Orders, TransportRetry(o) PROVE TypeOK'
    <3>1. SendFails(o) /\ UNCHANGED <<pc, attempt>>
      BY <2>6 DEF TransportRetry
    <3>2. send[o] + 1 \in 0..TransportSends
      BY <2>6 DEF TransportRetry, SendsLeft, TypeOK
    <3>3. send' \in [Orders -> 0..TransportSends]
      BY <2>6, <3>2 DEF TransportRetry, TypeOK
    <3> QED
      BY <2>5, <3>1, <3>3 DEF TypeOK
  <2>7. ASSUME NEW o \in Orders, ApplicationRetry(o) PROVE TypeOK'
    <3>1. SendFails(o) /\ UNCHANGED pc
      BY <2>7 DEF ApplicationRetry
    <3>2. attempt[o] + 1 \in 0..MaxAttempts /\ 1 \in 0..TransportSends
      BY <2>7 DEF ApplicationRetry, AttemptsLeft, TransportSends, TypeOK
    <3>3. attempt' \in [Orders -> 0..MaxAttempts] /\ send' \in [Orders -> 0..TransportSends]
      BY <2>7, <3>2 DEF ApplicationRetry, TypeOK
    <3> QED
      BY <2>5, <3>1, <3>3 DEF TypeOK
  <2>8. ASSUME NEW o \in Orders, GiveUp(o) PROVE TypeOK'
    <3>1. SendFails(o) /\ UNCHANGED <<attempt, send>>
      BY <2>8 DEF GiveUp
    <3>2. pc' \in [Orders -> {"unborn"} \cup InFlight \cup Over]
      BY <2>8 DEF GiveUp, TypeOK
    <3> QED
      BY <2>5, <3>1, <3>2 DEF TypeOK
  <2>9. ASSUME NEW o \in Orders, MarkFailed(o) PROVE TypeOK'
    <3>1. rows' = [rows EXCEPT ![o].status = "failed"] /\ "failed" \in Statuses /\ 0 \in Nat
      BY <2>9 DEF MarkFailed
    <3>2. rows' \in [Orders -> [status : Statuses \cup {"absent"}, eventId : Nat]]
      BY <3>1, WriteColumn
    <3> QED
      BY <2>9, <3>2 DEF MarkFailed, TypeOK
  <2>10. ASSUME NEW o \in Orders, SaveRejects(o) PROVE TypeOK'
    BY <2>10 DEF SaveRejects, TypeOK
  <2>11. ASSUME NEW o \in Orders, NEW t \in Answers, Downstream(o, t) PROVE TypeOK'
    <3>1. [type |-> t, order |-> o] \in [type : Answers, order : Orders]
      OBVIOUS
    <3>2. feedback' \subseteq [type : Answers, order : Orders] /\ delivered' \subseteq feedback'
      BY <2>11, <3>1 DEF Downstream, TypeOK
    <3>3. faults' \in 0..MaxFaults
      BY <2>11 DEF Downstream, TypeOK
    <3> QED
      BY <2>11, <3>2, <3>3 DEF Downstream, TypeOK
  <2>12. ASSUME NEW f \in feedback, Apply(f) PROVE TypeOK'
    <3>1. f.order \in Orders /\ StatusFor[f.type] \in Statuses /\ 0 \in Nat
      <4>1. f.order \in Orders /\ f.type \in Answers
        BY DEF TypeOK
      <4>2. f.type \in DOMAIN StatusFor
        BY <4>1
      <4>3. StatusFor[f.type] \in {"completed", "failed", "cancelled"}
        BY <4>2, StatusForType
      <4> QED
        BY <4>1, <4>3
    <3>2. rows' \in [Orders -> [status : Statuses \cup {"absent"}, eventId : Nat]]
      <4>1. \/ rows' = rows
            \/ rows' = [rows EXCEPT ![f.order].status = StatusFor[f.type]]
        BY <2>12 DEF Apply, UpdateOrderStatus
      <4>2. rows \in [Orders -> [status : Statuses \cup {"absent"}, eventId : Nat]]
        BY DEF TypeOK
      <4> DEFINE st == StatusFor[f.type]
      <4>3. st \in Statuses
        BY <3>1
      <4> HIDE DEF st
      <4>4. [rows EXCEPT ![f.order].status = st] \in
               [Orders -> [status : Statuses \cup {"absent"}, eventId : Nat]]
        BY <4>3, <3>1, WriteColumn
      <4> QED
        BY <4>1, <4>2, <4>4 DEF st
    <3>3. faults' \in 0..MaxFaults
      BY <2>12 DEF Apply, TypeOK
    <3>4. delivered' \subseteq feedback' /\ dropped' \subseteq delivered'
      BY <2>12 DEF Apply, TypeOK
    <3> QED
      BY <2>12, <3>2, <3>3, <3>4 DEF Apply, TypeOK
  <2>13. ASSUME NEW f \in feedback, Drop(f) PROVE TypeOK'
    <3>1. delivered' \subseteq feedback' /\ dropped' \subseteq delivered'
      BY <2>13 DEF Drop, TypeOK
    <3>2. faults' \in 0..MaxFaults
      BY <2>13 DEF Drop, TypeOK
    <3>3. UNCHANGED <<pc, client, rows, held, publishVars, issued, feedback, interrupted>>
      BY <2>13 DEF Drop
    <3> QED
      BY <3>1, <3>2, <3>3 DEF TypeOK
  <2>14. ASSUME Crash PROVE TypeOK'
    BY <2>14 DEF Crash, TypeOK
  <2>15. CASE UNCHANGED vars
    BY <2>15 DEF vars, TypeOK
  <2> QED
    BY <2>1, <2>2, <2>3, <2>4, <2>6, <2>7, <2>8, <2>9, <2>10, <2>11, <2>12, <2>13, <2>14, <2>15
    DEF Next, CreateOrder
<1> QED
  BY <1>1, <1>2, PTL DEF Spec

(* A failed request writes its order's status, and no eventId. *)
LEMMA MarkFailedWrites ==
    ASSUME TypeOK, NEW o \in Orders, MarkFailed(o)
    PROVE  \A p \in Orders : /\ rows'[p].eventId = rows[p].eventId
                             /\ rows'[p].status = IF p = o THEN "failed" ELSE rows[p].status
<1>1. rows' = [rows EXCEPT ![o].status = "failed"]
  BY DEF MarkFailed
<1>2. rows \in [Orders -> [status : Statuses \cup {"absent"}, eventId : Nat]]
  BY DEF TypeOK
<1> QED
  BY <1>1, <1>2

(* Storing the eventId leaves every status alone. *)
LEMMA SaveEventIdWrites ==
    ASSUME TypeOK, NEW o \in Orders, SaveEventId(o)
    PROVE  \A p \in Orders : /\ rows'[p].status = rows[p].status
                             /\ rows'[p].eventId = IF p = o THEN issued + 1 ELSE rows[p].eventId
<1>1. rows' = [rows EXCEPT ![o].eventId = issued + 1]
  BY DEF SaveEventId
<1>2. rows \in [Orders -> [status : Statuses \cup {"absent"}, eventId : Nat]]
  BY DEF TypeOK
<1> QED
  BY <1>1, <1>2

(* A feedback handler writes one status, and no eventId. *)
LEMMA ApplyWrites ==
    ASSUME TypeOK, NEW f \in feedback, Apply(f)
    PROVE  \A p \in Orders :
              /\ rows'[p].eventId = rows[p].eventId
              /\ \/ rows'[p].status = rows[p].status
                 \/ p = f.order /\ rows[p] # NoRow /\ rows'[p].status = StatusFor[f.type]
<1>1. f.order \in Orders
  BY DEF TypeOK
<1> DEFINE st == StatusFor[f.type]
<1>2. \/ rows' = rows
      \/ rows[f.order] # NoRow /\ rows' = [rows EXCEPT ![f.order].status = st]
  BY DEF Apply, UpdateOrderStatus
<1> SUFFICES \A p \in Orders :
              /\ rows'[p].eventId = rows[p].eventId
              /\ \/ rows'[p].status = rows[p].status
                 \/ p = f.order /\ rows[p] # NoRow /\ rows'[p].status = st
  OBVIOUS
<1> HIDE DEF st
<1>3. CASE rows' = rows
  BY <1>3
<1>4. CASE rows[f.order] # NoRow /\ rows' = [rows EXCEPT ![f.order].status = st]
  <2>1. \A p \in Orders : /\ rows'[p].eventId = rows[p].eventId
                          /\ rows'[p].status = IF p = f.order THEN st ELSE rows[p].status
    <3>1. PICK o \in Orders : o = f.order
      BY <1>1
    <3>2. rows' = [rows EXCEPT ![o].status = st]
      BY <1>4, <3>1
    <3> QED
      BY <3>1, <3>2 DEF TypeOK
  <2> QED
    BY <1>4, <2>1
<1> QED
  BY <1>2, <1>3, <1>4

(* The status a published feedback event stands for. *)
LEMMA AppliedStatus ==
    ASSUME TypeOK, NEW f \in feedback
    PROVE  StatusFor[f.type] \in {"completed", "failed", "cancelled"}
<1>1. f.type \in DOMAIN StatusFor
  BY OrderAssumption DEF TypeOK
<1> QED
  BY <1>1, StatusForType

(***************************************************************************)
(* Every copy of order.created in the topic is backed by its row, in       *)
(* every reachable state: the row is written before the eventId, the       *)
(* eventId before the first send, and neither is taken back.               *)
(***************************************************************************)
LEMMA BackedStep == TypeOK /\ BackedInv /\ [Next]_vars => BackedInv'
<1> SUFFICES ASSUME TypeOK, BackedInv, [Next]_vars PROVE BackedInv'
  OBVIOUS
<1> DEFINE Backed(o) ==
             /\ \A k \in 1..Len(topic[o]) :
                   rows[o].status # "absent" /\ rows[o].eventId = topic[o][k]
             /\ pc[o] \in {"unborn", "saveOrder", "saveEventId"} => topic[o] = <<>>
             /\ pc[o] \in {"saveEventId", "publish"} => rows[o].status # "absent"
             /\ pc[o] = "publish" => rows[o].eventId = held[o]
<1> SUFFICES \A p \in Orders : Backed(p)'
  BY DEF BackedInv, EventsAreBacked
<1>0. \A p \in Orders : Backed(p)
  BY DEF BackedInv, EventsAreBacked
<1> USE DEF publishVars, feedbackVars, Goto
<1>1. ASSUME NEW o \in Orders, NEW c \in Clients, Post(c, o), NEW p \in Orders PROVE Backed(p)'
  BY <1>0, <1>1 DEF Post, TypeOK
<1>2. ASSUME NEW o \in Orders, SaveOrder(o), NEW p \in Orders PROVE Backed(p)'
  BY <1>0, <1>2 DEF SaveOrder, TypeOK
<1>3. ASSUME NEW o \in Orders, SaveEventId(o), NEW p \in Orders PROVE Backed(p)'
  <2>1. /\ rows'[p].status = rows[p].status
        /\ rows'[p].eventId = IF p = o THEN issued + 1 ELSE rows[p].eventId
    BY <1>3, SaveEventIdWrites
  <2>2. /\ held'[p] = IF p = o THEN issued + 1 ELSE held[p]
        /\ topic' = topic /\ pc[o] = "saveEventId" /\ topic[o] = <<>>
        /\ pc'[p] = IF p = o THEN pc'[o] ELSE pc[p]
        /\ pc'[o] \in {"markFailed", "publish"}
    BY <1>0, <1>3 DEF SaveEventId, DrawEventId, TypeOK
  <2> QED
    BY <1>0, <2>1, <2>2
<1>4. ASSUME NEW o \in Orders, AppendRecord(o), pc[o] = "publish", UNCHANGED <<rows, held>>,
             NEW p \in Orders
      PROVE  /\ \A k \in 1..Len(topic'[p]) :
                    rows'[p].status # "absent" /\ rows'[p].eventId = topic'[p][k]
             /\ p # o => topic'[p] = topic[p]
  <2>1. CASE p # o
    BY <1>0, <1>4, <2>1, AppendRecordType
  <2>2. CASE p = o
    BY <1>0, <1>4, <2>2, AppendRecordType
  <2> QED
    BY <2>1, <2>2
<1>5. ASSUME NEW o \in Orders, SendAcknowledged(o), NEW p \in Orders PROVE Backed(p)'
  <2>1. /\ AppendRecord(o) /\ pc[o] = "publish" /\ UNCHANGED <<rows, held>>
        /\ pc'[p] = IF p = o THEN "created" ELSE pc[p]
    BY <1>5 DEF SendAcknowledged, TypeOK
  <2> QED
    BY <1>0, <1>4, <2>1
<1>6. ASSUME NEW o \in Orders, SendFails(o), NEW p \in Orders,
             pc'[p] = pc[p] \/ (p = o /\ pc'[p] = "markFailed")
      PROVE  Backed(p)'
  <2>1. pc[o] = "publish" /\ UNCHANGED <<rows, held>>
    BY <1>6 DEF SendFails
  <2>2. CASE UNCHANGED topic
    BY <1>0, <1>6, <2>1, <2>2
  <2>3. CASE AppendRecord(o)
    BY <1>0, <1>4, <1>6, <2>1, <2>3
  <2> QED
    BY <1>6, <2>2, <2>3 DEF SendFails
<1>7. ASSUME NEW o \in Orders, TransportRetry(o) \/ ApplicationRetry(o) \/ GiveUp(o),
             NEW p \in Orders
      PROVE  Backed(p)'
  <2>1. SendFails(o)
    BY <1>7 DEF TransportRetry, ApplicationRetry, GiveUp
  <2>2. pc' = pc \/ pc' = [pc EXCEPT ![o] = "markFailed"]
    BY <1>7 DEF TransportRetry, ApplicationRetry, GiveUp
  <2>3. pc'[p] = pc[p] \/ (p = o /\ pc'[p] = "markFailed")
    BY <2>2 DEF TypeOK
  <2> QED
    BY <1>6, <2>1, <2>3
<1>8. ASSUME NEW o \in Orders, MarkFailed(o), NEW p \in Orders PROVE Backed(p)'
  <2>1. /\ rows'[p].eventId = rows[p].eventId
        /\ rows'[p].status = IF p = o THEN "failed" ELSE rows[p].status
    BY <1>8, MarkFailedWrites
  <2>2. /\ topic' = topic /\ held' = held /\ pc[o] = "markFailed"
        /\ pc'[p] = IF p = o THEN "error" ELSE pc[p]
    BY <1>8 DEF MarkFailed, TypeOK
  <2> QED
    BY <1>0, <2>1, <2>2
<1>9. ASSUME NEW o \in Orders, SaveRejects(o), NEW p \in Orders PROVE Backed(p)'
  BY <1>0, <1>9 DEF SaveRejects, TypeOK
<1>10. ASSUME NEW o \in Orders, NEW t \in Answers, Downstream(o, t), NEW p \in Orders
       PROVE  Backed(p)'
  BY <1>0, <1>10 DEF Downstream
<1>11. ASSUME NEW f \in feedback, Apply(f), NEW p \in Orders PROVE Backed(p)'
  <2>1. /\ rows'[p].eventId = rows[p].eventId
        /\ rows'[p].status = rows[p].status \/ rows'[p].status # "absent"
    BY <1>11, ApplyWrites, AppliedStatus
  <2> QED
    BY <1>0, <1>11, <2>1 DEF Apply
<1>12. ASSUME NEW f \in feedback, Drop(f), NEW p \in Orders PROVE Backed(p)'
  BY <1>0, <1>12 DEF Drop
<1>13. ASSUME Crash, NEW p \in Orders PROVE Backed(p)'
  BY <1>0, <1>13 DEF Crash, TypeOK, InFlight
<1>14. ASSUME UNCHANGED vars, NEW p \in Orders PROVE Backed(p)'
  BY <1>0, <1>14 DEF vars
<1> QED
  BY <1>1, <1>2, <1>3, <1>5, <1>7, <1>8, <1>9, <1>10, <1>11, <1>12, <1>13, <1>14
  DEF Next, CreateOrder

(* EventsAreBacked holds in every reachable state, by induction on BackedInv. *)
THEOREM NoOrphanEvent == Spec => []EventsAreBacked
<1>1. Init => BackedInv
  BY DEF Init, BackedInv, EventsAreBacked
<1>2. BackedInv => EventsAreBacked
  BY DEF BackedInv
<1> QED
  BY <1>1, <1>2, BackedStep, TypeCorrect, PTL DEF Spec

(* The bound on the copies while the loops run, for one order. *)
LEMMA RoundsArithmetic ==
    ASSUME NEW n \in Nat, NEW a \in 1..MaxAttempts, NEW s \in 1..TransportSends,
           n < (a - 1) * TransportSends + s
    PROVE  /\ n + 1 <= MaxAttempts * TransportSends
           /\ s < TransportSends => n + 1 < (a - 1) * TransportSends + (s + 1)
           /\ s = TransportSends => n + 1 < ((a + 1) - 1) * TransportSends + 1
           /\ n < (a - 1) * TransportSends + (s + 1)
           /\ n < ((a + 1) - 1) * TransportSends + 1
<1> USE OrderAssumption, TransportSendsType
<1> DEFINE T == TransportSends
<1>1. T \in Nat /\ MaxAttempts \in Nat
  OBVIOUS
<1> DEFINE x == (a - 1) * T
<1>2. x \in Int /\ ((a + 1) - 1) * T = x + T
  BY <1>1
<1>3. x + T <= MaxAttempts * T
  <2>1. PICK d \in Nat : MaxAttempts = a + d
    BY <1>1
  <2>2. MaxAttempts * T = x + T + d * T /\ d * T \in Nat
    BY <2>1, <1>1
  <2> QED
    BY <2>2, <1>1, <1>2
<1>4. MaxAttempts * T \in Nat /\ T = TransportSends
  BY <1>1
<1>5. n < x + s
  OBVIOUS
<1> HIDE DEF x, T
<1>6. /\ n + 1 <= MaxAttempts * T
      /\ s < T => n + 1 < x + (s + 1)
      /\ s = T => n + 1 < (x + T) + 1
      /\ n < x + (s + 1)
      /\ n < (x + T) + 1
  BY <1>1, <1>2, <1>3, <1>4, <1>5
<1> QED
  BY <1>2, <1>4, <1>6 DEF x, T

(***************************************************************************)
(* The two nested retry loops leave at most maxAttempts squared copies of  *)
(* an order.created in the topic, whatever sends lose their                *)
(* acknowledgement.                                                        *)
(***************************************************************************)
LEMMA BoundStep == TypeOK /\ BoundInv /\ [Next]_vars => BoundInv'
<1> SUFFICES ASSUME TypeOK, BoundInv, [Next]_vars PROVE BoundInv'
  OBVIOUS
<1> DEFINE Bound(o) ==
             /\ pc[o] \in {"unborn", "saveOrder", "saveEventId"} => topic[o] = <<>>
             /\ pc[o] = "publish" =>
                   /\ attempt[o] >= 1 /\ send[o] >= 1
                   /\ Len(topic[o]) < (attempt[o] - 1) * TransportSends + send[o]
             /\ Len(topic[o]) <= MaxAttempts * TransportSends
<1> SUFFICES \A p \in Orders : Bound(p)'
  BY DEF BoundInv
<1>0. \A p \in Orders : Bound(p)
  BY DEF BoundInv
<1> USE DEF publishVars, feedbackVars, Goto
<1>1. ASSUME UNCHANGED <<attempt, send, topic>>, NEW p \in Orders,
             \/ pc'[p] = pc[p]
             \/ pc'[p] \in {"saveOrder", "saveEventId"} /\ pc[p] \in {"unborn", "saveOrder"}
             \/ pc'[p] \in Over
      PROVE  Bound(p)'
  BY <1>0, <1>1 DEF Over
<1>2. ASSUME NEW o \in Orders, NEW c \in Clients, Post(c, o), NEW p \in Orders PROVE Bound(p)'
  BY <1>1, <1>2 DEF Post, TypeOK
<1>3. ASSUME NEW o \in Orders, SaveOrder(o), NEW p \in Orders PROVE Bound(p)'
  BY <1>1, <1>3 DEF SaveOrder, TypeOK
<1>4. ASSUME NEW o \in Orders, SaveEventId(o), NEW p \in Orders PROVE Bound(p)'
  <2>1. CASE p # o
    <3>1. attempt'[p] = attempt[p] /\ send'[p] = send[p] /\ pc'[p] = pc[p] /\ topic' = topic
      BY <1>4, <2>1 DEF SaveEventId, TypeOK
    <3> QED
      BY <1>0, <3>1
  <2>2. CASE p = o
    <3>1. topic'[o] = <<>> /\ Len(topic'[o]) = 0
      BY <1>0, <1>4 DEF SaveEventId
    <3>2. /\ pc'[o] \in {"markFailed", "publish"}
          /\ pc'[o] = "publish" => attempt'[o] = 1 /\ send'[o] = 1
      BY <1>4 DEF SaveEventId, TypeOK
    <3>3. (1 - 1) * TransportSends + 1 = 1 /\ MaxAttempts * TransportSends \in Nat
      BY OrderAssumption, TransportSendsType
    <3> QED
      BY <2>2, <3>1, <3>2, <3>3
  <2> QED
    BY <2>1, <2>2
<1>5. ASSUME NEW o \in Orders, pc[o] = "publish"
      PROVE  /\ Len(topic[o]) \in Nat
             /\ attempt[o] \in 1..MaxAttempts
             /\ send[o] \in 1..TransportSends
             /\ Len(topic[o]) < (attempt[o] - 1) * TransportSends + send[o]
  BY <1>0, <1>5, OrderAssumption, TransportSendsType DEF TypeOK
<1>6. ASSUME NEW o \in Orders, SendFails(o)
      PROVE  /\ pc[o] = "publish"
             /\ Len(topic'[o]) = Len(topic[o]) \/ Len(topic'[o]) = Len(topic[o]) + 1
             /\ \A p \in Orders : p # o => topic'[p] = topic[p]
  BY <1>6, AppendRecordType DEF SendFails
<1>7. ASSUME NEW o \in Orders, SendAcknowledged(o), NEW p \in Orders PROVE Bound(p)'
  <2>1. /\ AppendRecord(o) /\ pc[o] = "publish" /\ UNCHANGED <<attempt, send>>
        /\ pc'[p] = IF p = o THEN "created" ELSE pc[p]
    BY <1>7 DEF SendAcknowledged, TypeOK
  <2>2. CASE p # o
    BY <1>0, <2>1, <2>2, AppendRecordType
  <2>3. CASE p = o
    <3>1. Len(topic[o]) + 1 <= MaxAttempts * TransportSends
      BY <1>5, <2>1, RoundsArithmetic
    <3>2. Len(topic'[o]) = Len(topic[o]) + 1
      BY <2>1, AppendRecordType
    <3> QED
      BY <2>1, <2>3, <3>1, <3>2
  <2> QED
    BY <2>2, <2>3
<1>8. ASSUME NEW o \in Orders, TransportRetry(o), NEW p \in Orders PROVE Bound(p)'
  <2>1. /\ SendFails(o) /\ pc' = pc /\ attempt' = attempt /\ send[o] < TransportSends
        /\ send' = [send EXCEPT ![o] = send[o] + 1]
    BY <1>8 DEF TransportRetry, SendsLeft
  <2>2. CASE p # o
    <3>1. send'[p] = send[p] /\ topic'[p] = topic[p]
      BY <1>6, <2>1, <2>2 DEF TypeOK
    <3> QED
      BY <1>0, <2>1, <3>1
  <2>3. CASE p = o
    <3>1. send'[o] = send[o] + 1
      BY <2>1 DEF TypeOK
    <3>2. /\ Len(topic[o]) + 1 <= MaxAttempts * TransportSends
          /\ Len(topic[o]) + 1 < (attempt[o] - 1) * TransportSends + (send[o] + 1)
          /\ Len(topic[o]) < (attempt[o] - 1) * TransportSends + (send[o] + 1)
      BY <1>5, <1>6, <2>1, RoundsArithmetic
    <3>3. Len(topic'[o]) <= MaxAttempts * TransportSends
      BY <1>0, <1>6, <2>1, <3>2
    <3>4. /\ pc'[o] = "publish" /\ attempt'[o] >= 1 /\ send'[o] >= 1
          /\ Len(topic'[o]) < (attempt'[o] - 1) * TransportSends + send'[o]
      BY <1>5, <1>6, <2>1, <3>1, <3>2
    <3> QED
      BY <2>3, <3>3, <3>4
  <2> QED
    BY <2>2, <2>3
<1>9. ASSUME NEW o \in Orders, ApplicationRetry(o), NEW p \in Orders PROVE Bound(p)'
  <2>1. /\ SendFails(o) /\ pc' = pc /\ ~(send[o] < TransportSends)
        /\ attempt' = [attempt EXCEPT ![o] = attempt[o] + 1]
        /\ send' = [send EXCEPT ![o] = 1]
    BY <1>9 DEF ApplicationRetry, SendsLeft
  <2>2. CASE p # o
    <3>1. attempt'[p] = attempt[p] /\ send'[p] = send[p] /\ topic'[p] = topic[p]
      BY <1>6, <2>1, <2>2 DEF TypeOK
    <3> QED
      BY <1>0, <2>1, <3>1
  <2>3. CASE p = o
    <3>1. send'[o] = 1 /\ attempt'[o] = attempt[o] + 1
      BY <2>1 DEF TypeOK
    <3>2. send[o] = TransportSends
      BY <1>5, <1>6, <2>1, TransportSendsType
    <3>3. /\ Len(topic[o]) + 1 <= MaxAttempts * TransportSends
          /\ Len(topic[o]) + 1 < ((attempt[o] + 1) - 1) * TransportSends + 1
          /\ Len(topic[o]) < ((attempt[o] + 1) - 1) * TransportSends + 1
      BY <1>5, <1>6, <2>1, <3>2, RoundsArithmetic
    <3>4. Len(topic'[o]) <= MaxAttempts * TransportSends
      BY <1>0, <1>6, <2>1, <3>3
    <3>5. /\ pc'[o] = "publish" /\ attempt'[o] >= 1 /\ send'[o] >= 1
          /\ Len(topic'[o]) < (attempt'[o] - 1) * TransportSends + send'[o]
      BY <1>5, <1>6, <2>1, <3>1, <3>3
    <3> QED
      BY <2>3, <3>4, <3>5
  <2> QED
    BY <2>2, <2>3
<1>10. ASSUME NEW o \in Orders, GiveUp(o), NEW p \in Orders PROVE Bound(p)'
  <2>1. /\ SendFails(o) /\ attempt' = attempt /\ send' = send
        /\ pc'[p] = IF p = o THEN "markFailed" ELSE pc[p]
    BY <1>10 DEF GiveUp, TypeOK
  <2>2. CASE p # o
    BY <1>0, <1>6, <2>1, <2>2
  <2>3. CASE p = o
    <3>1. Len(topic[o]) + 1 <= MaxAttempts * TransportSends
      BY <1>5, <1>6, <2>1, RoundsArithmetic
    <3> QED
      BY <1>0, <1>6, <2>1, <2>3, <3>1
  <2> QED
    BY <2>2, <2>3
<1>11. ASSUME NEW o \in Orders, MarkFailed(o), NEW p \in Orders PROVE Bound(p)'
  BY <1>1, <1>11 DEF MarkFailed, TypeOK, Over
<1>12. ASSUME NEW o \in Orders, SaveRejects(o), NEW p \in Orders PROVE Bound(p)'
  BY <1>1, <1>12 DEF SaveRejects, TypeOK, Over
<1>13. ASSUME Crash, NEW p \in Orders PROVE Bound(p)'
  BY <1>1, <1>13 DEF Crash, TypeOK, Over
<1>14. ASSUME NEW p \in Orders,
              \/ \E o \in Orders, t \in Answers : Downstream(o, t)
              \/ \E f \in feedback : Apply(f) \/ Drop(f)
              \/ UNCHANGED vars
       PROVE  Bound(p)'
  <2>1. UNCHANGED <<attempt, send, topic, pc>>
    BY <1>14 DEF Downstream, Apply, Drop, vars
  <2> QED
    BY <1>0, <2>1
<1> QED
  BY <1>2, <1>3, <1>4, <1>7, <1>8, <1>9, <1>10, <1>11, <1>12, <1>13, <1>14
  DEF Next, CreateOrder

(* CopiesAreBounded holds in every reachable state, by induction on BoundInv. *)
THEOREM CopiesBounded == Spec => []CopiesAreBounded
<1>1. Init => BoundInv
  <2>1. MaxAttempts * TransportSends \in Nat
    BY OrderAssumption, TransportSendsType
  <2> QED
    BY <2>1 DEF Init, BoundInv
<1>2. BoundInv => CopiesAreBounded
  BY DEF BoundInv, CopiesAreBounded
<1> QED
  BY <1>1, <1>2, BoundStep, TypeCorrect, PTL DEF Spec

(***************************************************************************)
(* A 201 means an event in the topic, and so does an order left pending by *)
(* a request that neither a crash nor a failed save cut short: in every    *)
(* state, because the catch block marks the row before it answers.         *)
(***************************************************************************)
LEMMA PendingStep == TypeOK /\ PendingMeansUnderway /\ [Next]_vars => PendingMeansUnderway'
<1> SUFFICES ASSUME TypeOK, PendingMeansUnderway, [Next]_vars PROVE PendingMeansUnderway'
  OBVIOUS
<1> DEFINE Ends(o) == pc[o] \in Over /\ rows[o].status = "pending" /\ o \notin interrupted
<1> DEFINE Underway(o) == (pc[o] = "created" \/ Ends(o)) => topic[o] # <<>>
<1> SUFFICES \A p \in Orders : Underway(p)'
  BY DEF PendingMeansUnderway
<1>0. \A p \in Orders : Underway(p)
  BY DEF PendingMeansUnderway
<1> USE DEF publishVars, feedbackVars, Goto, Over, InFlight
<1>1. ASSUME NEW p \in Orders,
             topic'[p] = topic[p],
             rows'[p].status = "pending" => rows[p].status = "pending",
             interrupted \subseteq interrupted',
             \/ pc'[p] = pc[p]
             \/ pc'[p] \notin Over
             \/ pc'[p] \in {"error", "dead"} /\ p \in interrupted'
      PROVE  Underway(p)'
  BY <1>0, <1>1
<1>2. ASSUME NEW o \in Orders, NEW c \in Clients, Post(c, o), NEW p \in Orders PROVE Underway(p)'
  BY <1>1, <1>2 DEF Post, TypeOK
<1>3. ASSUME NEW o \in Orders, SaveOrder(o), NEW p \in Orders PROVE Underway(p)'
  <2>1. /\ pc'[p] = IF p = o THEN "saveEventId" ELSE pc[p]
        /\ p # o => rows'[p] = rows[p]
        /\ UNCHANGED <<topic, interrupted>>
    BY <1>3 DEF SaveOrder, TypeOK
  <2> QED
    BY <1>0, <2>1
<1>4. ASSUME NEW o \in Orders, SaveEventId(o), NEW p \in Orders PROVE Underway(p)'
  <2>1. rows'[p].status = rows[p].status
    BY <1>4, SaveEventIdWrites
  <2>2. pc'[p] = pc[p] \/ pc'[p] \in {"markFailed", "publish"}
    BY <1>4 DEF SaveEventId, TypeOK
  <2> QED
    BY <1>1, <1>4, <2>1, <2>2 DEF SaveEventId
<1>5. ASSUME NEW o \in Orders, AppendRecord(o) \/ UNCHANGED topic, NEW p \in Orders,
             topic[p] # <<>>
      PROVE  topic'[p] # <<>>
  <2>1. CASE p # o
    BY <1>5, <2>1, AppendRecordType
  <2>2. CASE p = o /\ AppendRecord(o)
    <3>1. Len(topic[o]) \in Nat
      <4>1. topic[o] \in Seq(Nat)
        BY DEF TypeOK
      <4> QED
        BY <4>1
    <3>2. Len(topic'[o]) = Len(topic[o]) + 1
      BY <2>2, AppendRecordType
    <3> QED
      BY <2>2, <3>1, <3>2
  <2> QED
    BY <1>5, <2>1, <2>2
<1>6. ASSUME NEW o \in Orders, SendAcknowledged(o), NEW p \in Orders PROVE Underway(p)'
  <2>1. /\ AppendRecord(o) /\ UNCHANGED <<rows, interrupted>>
        /\ p # o => pc'[p] = pc[p]
    BY <1>6 DEF SendAcknowledged, TypeOK
  <2>2. CASE p # o
    BY <1>0, <1>5, <2>1, <2>2
  <2>3. CASE p = o
    <3>2. topic[o] \in Seq(Nat)
      BY DEF TypeOK
    <3>1. Len(topic'[o]) = Len(topic[o]) + 1 /\ Len(topic[o]) \in Nat
      BY <2>1, <3>2, AppendRecordType
    <3> QED
      BY <2>3, <3>1
  <2> QED
    BY <2>2, <2>3
<1>7. ASSUME NEW o \in Orders, TransportRetry(o) \/ ApplicationRetry(o) \/ GiveUp(o),
             NEW p \in Orders
      PROVE  Underway(p)'
  <2>1. /\ AppendRecord(o) \/ UNCHANGED topic
        /\ UNCHANGED <<rows, interrupted>>
    BY <1>7 DEF TransportRetry, ApplicationRetry, GiveUp, SendFails
  <2>2. pc' = pc \/ pc' = [pc EXCEPT ![o] = "markFailed"]
    BY <1>7 DEF TransportRetry, ApplicationRetry, GiveUp
  <2>3. pc'[p] = pc[p] \/ pc'[p] = "markFailed"
    BY <2>2 DEF TypeOK
  <2> QED
    BY <1>0, <1>5, <2>1, <2>3
<1>8. ASSUME NEW o \in Orders, MarkFailed(o), NEW p \in Orders PROVE Underway(p)'
  <2>1. rows'[p].status = IF p = o THEN "failed" ELSE rows[p].status
    BY <1>8, MarkFailedWrites
  <2>2. /\ pc'[p] = IF p = o THEN "error" ELSE pc[p]
        /\ UNCHANGED <<topic, interrupted>>
    BY <1>8 DEF MarkFailed, TypeOK
  <2> QED
    BY <1>0, <2>1, <2>2
<1>9. ASSUME NEW o \in Orders, SaveRejects(o), NEW p \in Orders PROVE Underway(p)'
  BY <1>1, <1>9 DEF SaveRejects, TypeOK
<1>10. ASSUME Crash, NEW p \in Orders PROVE Underway(p)'
  BY <1>1, <1>10 DEF Crash, TypeOK
<1>11. ASSUME NEW f \in feedback, Apply(f), NEW p \in Orders PROVE Underway(p)'
  <2>1. rows'[p].status = "pending" => rows[p].status = "pending"
    BY <1>11, ApplyWrites, AppliedStatus
  <2> QED
    BY <1>1, <1>11, <2>1 DEF Apply
<1>12. ASSUME NEW p \in Orders,
              \/ \E o \in Orders, t \in Answers : Downstream(o, t)
              \/ \E f \in feedback : Drop(f)
              \/ UNCHANGED vars
       PROVE  Underway(p)'
  <2>1. UNCHANGED <<rows, topic, pc, interrupted>>
    BY <1>12 DEF Downstream, Drop, vars
  <2> QED
    BY <1>0, <2>1
<1> QED
  BY <1>2, <1>3, <1>4, <1>6, <1>7, <1>8, <1>9, <1>10, <1>11, <1>12
  DEF Next, CreateOrder

(* PendingMeansUnderway holds in every reachable state: it is inductive as it stands. *)
THEOREM NoSilentPending == Spec => []PendingMeansUnderway
<1>1. Init => PendingMeansUnderway
  BY DEF Init, PendingMeansUnderway, Over
<1> QED
  BY <1>1, PendingStep, TypeCorrect, PTL DEF Spec

(***************************************************************************)
(* No order is completed, cancelled or failed without cause, whatever      *)
(* order the publish, its catch block and the feedback handlers run in.    *)
(***************************************************************************)
LEMMA EarnedStep == TypeOK /\ EarnedInv /\ [Next]_vars => EarnedInv'
<1> SUFFICES ASSUME TypeOK, EarnedInv, [Next]_vars PROVE EarnedInv'
  OBVIOUS
<1> DEFINE Told(o) == \E f \in delivered : f.order = o /\ StatusFor[f.type] = rows[o].status
<1> DEFINE GaveUp(o) == rows[o].status = "failed" /\ pc[o] = "error" /\ attempt[o] = MaxAttempts
<1> DEFINE Earned(o) ==
             /\ rows[o].status \notin {"absent", "pending"} => (Told(o) \/ GaveUp(o))
             /\ pc[o] = "markFailed" => attempt[o] = MaxAttempts
<1> SUFFICES \A p \in Orders : Earned(p)'
  BY DEF EarnedInv, StatusIsEarned
<1>0. \A p \in Orders : Earned(p)
  BY DEF EarnedInv, StatusIsEarned
<1> USE DEF publishVars, feedbackVars, Goto, Over, InFlight
<1>1. ASSUME NEW p \in Orders,
             rows'[p].status = rows[p].status,
             delivered \subseteq delivered',
             \/ pc'[p] = pc[p] /\ attempt'[p] = attempt[p]
             \/ pc[p] # "error" /\ pc'[p] # "markFailed"
             \/ pc[p] # "error" /\ attempt'[p] = MaxAttempts
      PROVE  Earned(p)'
  <2>1. Told(p) => Told(p)'
    BY <1>1
  <2>2. rows[p].status = "failed" /\ GaveUp(p) => GaveUp(p)'
    BY <1>1
  <2> QED
    BY <1>0, <1>1, <2>1, <2>2
<1>2. ASSUME NEW o \in Orders, NEW c \in Clients, Post(c, o), NEW p \in Orders PROVE Earned(p)'
  BY <1>1, <1>2 DEF Post, TypeOK
<1>3. ASSUME NEW o \in Orders, SaveOrder(o), NEW p \in Orders PROVE Earned(p)'
  <2>1. CASE p # o
    BY <1>1, <1>3, <2>1 DEF SaveOrder, TypeOK
  <2>2. CASE p = o
    <3>1. rows'[o].status = "pending" /\ pc'[o] = "saveEventId"
      BY <1>3 DEF SaveOrder, TypeOK
    <3> QED
      BY <2>2, <3>1
  <2> QED
    BY <2>1, <2>2
<1>4. ASSUME NEW o \in Orders, SaveEventId(o), NEW p \in Orders PROVE Earned(p)'
  <2>1. rows'[p].status = rows[p].status /\ delivered' = delivered
    BY <1>4, SaveEventIdWrites DEF SaveEventId
  <2>2. CASE p # o
    BY <1>1, <1>4, <2>1, <2>2 DEF SaveEventId, TypeOK
  <2>3. CASE p = o
    <3>1. /\ pc[o] = "saveEventId"
          /\ MaxAttempts = 0 => attempt'[o] = MaxAttempts
          /\ MaxAttempts # 0 => pc'[o] = "publish"
      BY <1>4 DEF SaveEventId, TypeOK
    <3> QED
      BY <1>1, <2>1, <2>3, <3>1
  <2> QED
    BY <2>2, <2>3
<1>5. ASSUME NEW o \in Orders, SendAcknowledged(o), NEW p \in Orders PROVE Earned(p)'
  BY <1>1, <1>5 DEF SendAcknowledged, TypeOK
<1>6. ASSUME NEW o \in Orders, TransportRetry(o), NEW p \in Orders PROVE Earned(p)'
  BY <1>1, <1>6 DEF TransportRetry, SendFails
<1>7. ASSUME NEW o \in Orders, ApplicationRetry(o), NEW p \in Orders PROVE Earned(p)'
  BY <1>1, <1>7 DEF ApplicationRetry, SendFails, TypeOK
<1>8. ASSUME NEW o \in Orders, GiveUp(o), NEW p \in Orders PROVE Earned(p)'
  <2>1. attempt[o] = MaxAttempts
    BY <1>8, OrderAssumption DEF GiveUp, AttemptsLeft, TypeOK
  <2>2. /\ pc[o] = "publish" /\ UNCHANGED <<rows, delivered, attempt>>
        /\ p # o => pc'[p] = pc[p]
    BY <1>8 DEF GiveUp, SendFails, TypeOK
  <2> QED
    BY <1>1, <2>1, <2>2
<1>9. ASSUME NEW o \in Orders, MarkFailed(o), NEW p \in Orders PROVE Earned(p)'
  <2>1. rows'[p].status = IF p = o THEN "failed" ELSE rows[p].status
    BY <1>9, MarkFailedWrites
  <2>2. /\ pc'[p] = IF p = o THEN "error" ELSE pc[p]
        /\ pc[o] = "markFailed" /\ UNCHANGED <<attempt, delivered>>
    BY <1>9 DEF MarkFailed, TypeOK
  <2>3. CASE p = o
    BY <1>0, <2>1, <2>2, <2>3
  <2>4. CASE p # o
    BY <1>1, <2>1, <2>2, <2>4
  <2> QED
    BY <2>3, <2>4
<1>10. ASSUME NEW o \in Orders, SaveRejects(o), NEW p \in Orders PROVE Earned(p)'
  BY <1>1, <1>10 DEF SaveRejects, TypeOK
<1>11. ASSUME Crash, NEW p \in Orders PROVE Earned(p)'
  BY <1>1, <1>11 DEF Crash, TypeOK
<1>12. ASSUME NEW f \in feedback, Apply(f), NEW p \in Orders PROVE Earned(p)'
  <2>1. delivered' = delivered \cup {f} /\ UNCHANGED <<pc, attempt>>
    BY <1>12 DEF Apply
  <2>2. CASE rows'[p].status = rows[p].status
    BY <1>1, <2>1, <2>2
  <2>3. CASE p = f.order /\ rows'[p].status = StatusFor[f.type]
    <3>1. Told(p)'
      BY <2>1, <2>3
    <3> QED
      BY <1>0, <2>1, <3>1
  <2> QED
    BY <1>12, <2>2, <2>3, ApplyWrites
<1>13. ASSUME NEW p \in Orders,
              \/ \E o \in Orders, t \in Answers : Downstream(o, t)
              \/ \E f \in feedback : Drop(f)
              \/ UNCHANGED vars
       PROVE  Earned(p)'
  <2>1. UNCHANGED <<rows, attempt, pc>> /\ delivered \subseteq delivered'
    BY <1>13 DEF Downstream, Drop, vars
  <2> QED
    BY <1>1, <2>1
<1> QED
  BY <1>2, <1>3, <1>4, <1>5, <1>6, <1>7, <1>8, <1>9, <1>10, <1>11, <1>12, <1>13
  DEF Next, CreateOrder

(* StatusIsEarned holds in every reachable state, by induction on EarnedInv. *)
THEOREM StatusEarned == Spec => []StatusIsEarned
<1>1. Init => EarnedInv
  BY DEF Init, EarnedInv, StatusIsEarned, NoRow
<1>2. EarnedInv => StatusIsEarned
  BY DEF EarnedInv
<1> QED
  BY <1>1, <1>2, EarnedStep, TypeCorrect, PTL DEF Spec

(* What keeps a row from being saved a second time as new: its request has not saved it yet. *)
NoRowYet(o) ==
    pc[o] \in {"unborn", "saveOrder"} => rows[o].status = "absent" /\ rows[o].eventId = NoEventId

(* A row without contents is no row. *)
LEMMA NoRowMeans ==
    ASSUME TypeOK, NEW o \in Orders, rows[o].status = "absent", rows[o].eventId = NoEventId
    PROVE  rows[o] = NoRow
  BY DEF TypeOK, NoRow

(* A request's row appears with its first save, whatever feedback arrives before. *)
LEMMA NoRowYetStep ==
    ASSUME TypeOK, \A o \in Orders : NoRowYet(o), [Next]_vars, NEW p \in Orders
    PROVE  NoRowYet(p)'
<1> USE DEF NoRowYet, publishVars, feedbackVars, Goto
<1>0. NoRowYet(p)
  OBVIOUS
<1>1. ASSUME UNCHANGED rows, pc'[p] \in {"unborn", "saveOrder"} => pc[p] \in {"unborn", "saveOrder"}
      PROVE  NoRowYet(p)'
  BY <1>0, <1>1
<1>2. ASSUME NEW o \in Orders, NEW c \in Clients, Post(c, o) PROVE NoRowYet(p)'
  BY <1>1, <1>2 DEF Post, TypeOK
<1>3. ASSUME NEW o \in Orders, SaveOrder(o) PROVE NoRowYet(p)'
  BY <1>0, <1>3 DEF SaveOrder, TypeOK
<1>4. ASSUME NEW o \in Orders, SaveEventId(o) PROVE NoRowYet(p)'
  <2>1. /\ rows'[p].status = rows[p].status
        /\ p # o => rows'[p].eventId = rows[p].eventId
    BY <1>4, SaveEventIdWrites
  <2>2. /\ p # o => pc'[p] = pc[p]
        /\ pc'[o] \in {"markFailed", "publish"}
    BY <1>4 DEF SaveEventId, TypeOK
  <2> QED
    BY <1>0, <2>1, <2>2
<1>5. ASSUME NEW o \in Orders,
             \/ SendAcknowledged(o) \/ TransportRetry(o) \/ ApplicationRetry(o) \/ GiveUp(o)
             \/ SaveRejects(o)
      PROVE  NoRowYet(p)'
  <2>1. UNCHANGED rows /\ \E step \in {"created", "markFailed", "error"} :
                             pc' = pc \/ pc' = [pc EXCEPT ![o] = step]
    BY <1>5 DEF SendAcknowledged, TransportRetry, ApplicationRetry, GiveUp, SendFails, SaveRejects
  <2> QED
    BY <1>1, <2>1 DEF TypeOK
<1>6. ASSUME NEW o \in Orders, MarkFailed(o) PROVE NoRowYet(p)'
  <2>1. /\ rows'[p].eventId = rows[p].eventId
        /\ p # o => rows'[p].status = rows[p].status
    BY <1>6, MarkFailedWrites
  <2>2. pc'[p] = IF p = o THEN "error" ELSE pc[p]
    BY <1>6 DEF MarkFailed, TypeOK
  <2> QED
    BY <1>0, <2>1, <2>2
<1>7. ASSUME NEW f \in feedback, Apply(f) PROVE NoRowYet(p)'
  <2>1. pc' = pc /\ rows'[p].eventId = rows[p].eventId
        /\ (rows'[p].status = rows[p].status \/ rows[p] # NoRow)
    BY <1>7, ApplyWrites DEF Apply
  <2> QED
    BY <1>0, <2>1, NoRowMeans
<1>8. ASSUME \/ \E o \in Orders, t \in Answers : Downstream(o, t)
             \/ \E f \in feedback : Drop(f)
             \/ Crash
             \/ UNCHANGED vars
      PROVE  NoRowYet(p)'
  <2>1. UNCHANGED rows /\ (pc'[p] = pc[p] \/ pc'[p] = "dead")
    BY <1>8 DEF Downstream, Drop, Crash, vars, TypeOK
  <2> QED
    BY <1>1, <2>1
<1> QED
  BY <1>2, <1>3, <1>4, <1>5, <1>6, <1>7, <1>8 DEF Next, CreateOrder

(* Only a request's first save writes pending, and there is no row then. *)
LEMMA PendingIsFirst ==
    ASSUME TypeOK, \A o \in Orders : NoRowYet(o), [Next]_vars, NEW p \in Orders,
           rows[p].status # "absent", rows'[p].status = "pending"
    PROVE  rows[p].status = "pending"
<1> USE DEF publishVars, feedbackVars, Goto
<1>1. ASSUME NEW o \in Orders, SaveOrder(o) PROVE rows[p].status = "pending"
  <2>1. p # o
    BY <1>1 DEF SaveOrder, NoRowYet
  <2> QED
    BY <1>1, <2>1 DEF SaveOrder, TypeOK
<1>2. ASSUME NEW o \in Orders, SaveEventId(o) PROVE rows[p].status = "pending"
  BY <1>2, SaveEventIdWrites
<1>3. ASSUME NEW o \in Orders, MarkFailed(o) PROVE rows[p].status = "pending"
  <2>1. rows'[p].status = IF p = o THEN "failed" ELSE rows[p].status
    BY <1>3, MarkFailedWrites
  <2> QED
    BY <2>1
<1>4. ASSUME NEW f \in feedback, Apply(f) PROVE rows[p].status = "pending"
  BY <1>4, ApplyWrites, AppliedStatus
<1>5. ASSUME \/ \E o \in Orders : \/ \E c \in Clients : Post(c, o)
                                  \/ SendAcknowledged(o) \/ TransportRetry(o) \/ ApplicationRetry(o)
                                  \/ GiveUp(o) \/ SaveRejects(o)
                                  \/ \E t \in Answers : Downstream(o, t)
             \/ \E f \in feedback : Drop(f)
             \/ Crash
             \/ UNCHANGED vars
      PROVE  rows[p].status = "pending"
  <2>1. UNCHANGED rows
    BY <1>5 DEF Post, SendAcknowledged, TransportRetry, ApplicationRetry, GiveUp, SendFails, SaveRejects,
                Downstream, Drop, Crash, vars
  <2> QED
    BY <2>1
<1> QED
  BY <1>1, <1>2, <1>3, <1>4, <1>5 DEF Next, CreateOrder

(***************************************************************************)
(* No save of a stale entity and no feedback takes a decided order back to *)
(* pending: that status is only written where no row was.                  *)
(***************************************************************************)
THEOREM OrdersStayDecided == Spec => NeverReopened
<1> DEFINE Fresh == \A o \in Orders : NoRowYet(o)
<1> DEFINE Stays == \A o \in Orders :
              rows[o].status \notin {"absent", "pending"} => rows'[o].status # "pending"
<1>1. Init => Fresh
  BY DEF Init, NoRowYet, NoRow
<1>2. TypeOK /\ Fresh /\ [Next]_vars => Fresh'
  BY NoRowYetStep
<1>3. TypeOK /\ Fresh /\ [Next]_vars => [Stays]_vars
  BY PendingIsFirst
<1> HIDE DEF Fresh, Stays
<1>4. Spec => [][Stays]_vars
  BY <1>1, <1>2, <1>3, TypeCorrect, PTL DEF Spec
<1> QED
  BY <1>4 DEF NeverReopened, Stays
===============================================================================
