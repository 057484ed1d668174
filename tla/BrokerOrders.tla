---------------------------- MODULE BrokerOrders ----------------------------
(***************************************************************************)
(* What a BrokerConnection promises of an order (broker_interface.py): the *)
(* broker carries it out at most once, and what the caller is told agrees  *)
(* with what the broker did.  A fill was carried out, a rejection was not; *)
(* an order that timed out, or whose link dropped, may be either.          *)
(***************************************************************************)
EXTENDS Naturals

CONSTANT Orders         \* the orders, by number

VARIABLES status,       \* what the caller is told
          executed      \* the orders the broker has carried out

vars == <<status, executed>>

OrderStatus ==
    {"PENDING", "SUBMITTED", "PARTIALLY_FILLED", "FILLED", "REJECTED", "TIMED_OUT"}

Filled == {"PARTIALLY_FILLED", "FILLED"}

Init == /\ status = [o \in Orders |-> "PENDING"]
        /\ executed = {}

Submit(o) == /\ status[o] = "PENDING"
             /\ status' = [status EXCEPT ![o] = "SUBMITTED"]
             /\ UNCHANGED executed

Execute(o) == /\ status[o] = "SUBMITTED"
              /\ o \notin executed
              /\ executed' = executed \cup {o}
              /\ UNCHANGED status

Report(o) == /\ status[o] = "SUBMITTED"
             /\ \/ /\ o \in executed
                   /\ \E f \in Filled : status' = [status EXCEPT ![o] = f]
                \/ /\ o \notin executed
                   /\ status' = [status EXCEPT ![o] = "REJECTED"]
                \/ status' = [status EXCEPT ![o] = "TIMED_OUT"]
             /\ UNCHANGED executed

Next == \E o \in Orders : Submit(o) \/ Execute(o) \/ Report(o)

Spec == Init /\ [][Next]_vars
=============================================================================
