----------------------------- MODULE AtLeastOnce -----------------------------
(***************************************************************************)
(* What the services promise of an event (docs/PROJECT_DETAILS.md calls it *)
(* at-least-once processing), with no topic, offset, header or attempt in  *)
(* it: a message that lies ahead of a consumer stays there until the       *)
(* consumer is through with it, and may come back at any time.             *)
(*                                                                         *)
(* RetryExecutor and PaymentService implement this specification; each     *)
(* says there what "ahead" and "settled" are in its own variables.         *)
(***************************************************************************)
CONSTANTS Consumers, Messages,
          Wanted        (* Wanted[c]: the messages consumer c has to deal with *)

VARIABLES
    ahead,              (* pairs <<c, m>>: a copy of m still lies ahead of c      *)
    settled             (* pairs <<c, m>>: c handled m, or gave it up on record   *)

vars == <<ahead, settled>>

Init == ahead = {} /\ settled = {}

(* A first copy or another one, which every consumer of the topic is to see. *)
Publish(m) ==
    /\ ahead' = ahead \cup {<<c, m>> : c \in {d \in Consumers : m \in Wanted[d]}}
    /\ UNCHANGED settled

(* c deals with a message that lies ahead of it. *)
Settle(c, m) ==
    /\ <<c, m>> \in ahead
    /\ settled' = settled \cup {<<c, m>>}
    /\ UNCHANGED ahead

(* c moves past the last copy of a message, dealt with now or before. *)
MoveOn(c, m) ==
    /\ <<c, m>> \in ahead
    /\ settled' \in {settled, settled \cup {<<c, m>>}}
    /\ <<c, m>> \in settled'
    /\ ahead' = ahead \ {<<c, m>>}

(* c starts over somewhere in its past: only settled messages come back. *)
StartOver(c) ==
    /\ ahead \subseteq ahead'
    /\ ahead' \ ahead \subseteq settled \cap ({c} \X Messages)
    /\ UNCHANGED settled

Next ==
    \/ \E m \in Messages : Publish(m)
    \/ \E c \in Consumers : StartOver(c) \/ \E m \in Messages : Settle(c, m) \/ MoveOn(c, m)

Spec == Init /\ [][Next]_vars
==============================================================================
