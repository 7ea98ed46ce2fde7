------------------------------- MODULE MCIntake -------------------------------
(***************************************************************************)
(* One order of eleven bodies under nine environments, one probe, and      *)
(* clients of the catalog; PolicyIsLayered of RetryConfig is about every   *)
(* environment at once and needs no behaviour.                             *)
(***************************************************************************)
EXTENDS Intake, RetryConfig

Item(quantity, price) == [productId |-> "sku", quantity |-> quantity, unitPrice |-> price]
Body(items) ==
    [customerId |-> "customer", items |-> items, currency |-> "absent", unknownProperty |-> FALSE]

(* The limits of MCEnvironments are 2 items and 100..500 cents. *)
Good == Body(<<Item(1, 100), Item(2, 200)>>)
Cheap == Body(<<Item(3, 33)>>)
Dear == Body(<<Item(3, 167)>>)
Long == Body(<<Item(1, 100), Item(1, 100), Item(1, 100)>>)
Astronomic == Body(<<Item(1000, 1000001)>>)

MCRequests ==
    {Good, Cheap, Dear, Long, Astronomic,
     [Good EXCEPT !.currency = "EUR"],
     [Good EXCEPT !.customerId = "blank"],
     [Good EXCEPT !.items[2].productId = "blank"],
     [Good EXCEPT !.items = <<>>],
     [Good EXCEPT !.items[1].quantity = 0],
     [Good EXCEPT !.unknownProperty = TRUE]}

Defaults ==
    [minAmount |-> Unset, maxAmount |-> Unset, maxItems |-> Unset, amountTolerance |-> Unset,
     failureRate |-> Unset, forceFailure |-> "unset"]

Bounded == [Defaults EXCEPT !.minAmount = Numeric(100), !.maxAmount = Numeric(500), !.maxItems = Numeric(2)]

MCEnvironments ==
    {Bounded,
     [Defaults EXCEPT !.amountTolerance = Blank, !.failureRate = Numeric(0)],
     [Bounded EXCEPT !.maxAmount = Blank, !.failureRate = Blank],
     [Bounded EXCEPT !.maxItems = Garbage, !.minAmount = Blank, !.failureRate = Garbage],
     [Bounded EXCEPT !.failureRate = Numeric(100)],
     [Defaults EXCEPT !.amountTolerance = Numeric(-1)],
     [Bounded EXCEPT !.failureRate = Numeric(150), !.amountTolerance = Garbage],
     [Bounded EXCEPT !.failureRate = Numeric(-5), !.forceFailure = "1"],
     [Bounded EXCEPT !.failureRate = Numeric(0), !.forceFailure = "true"]}
==============================================================================
