---------------------------- MODULE MCOrderService ----------------------------
(* Small instances of OrderService: two requests, of one client or of two. *)
EXTENDS OrderService, TLC

CONSTANTS c1, c2, o1, o2
===============================================================================
