-------------------------------- MODULE EnvVar --------------------------------
(***************************************************************************)
(* What an environment variable may hold when code reads a number from it: *)
(* nothing, blanks, something that is not a number, or a number.  Garbage  *)
(* is also what Number makes of it: NaN, which no comparison holds for.    *)
(***************************************************************************)
EXTENDS Integers

Unset == [kind |-> "unset"]
Blank == [kind |-> "blank"]
Garbage == [kind |-> "garbage"]
Numeric(n) == [kind |-> "number", value |-> n]
RawNumber == [kind : {"unset", "blank", "garbage"}] \cup [kind : {"number"}, value : Int]

(* The operator ??: only an unset variable gives way to the next one. *)
OrElse(raw, next) == IF raw.kind = "unset" THEN next ELSE raw

(* Number(raw): blanks are zero. *)
ToNumber(raw) == IF raw.kind = "blank" THEN Numeric(0) ELSE raw

LessThan(a, b) == a.kind = "number" /\ b.kind = "number" /\ a.value < b.value
==============================================================================
