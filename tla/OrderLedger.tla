----------------------------- MODULE OrderLedger -----------------------------
(***************************************************************************)
(* What the payment code promises of an order: it is delivered (the quota  *)
(* is credited, the subscription created) at most once, and only when the  *)
(* provider took the money or an administrator completed it.               *)
(***************************************************************************)
EXTENDS Naturals

CONSTANT Orders
VARIABLES
    due,        \* orders that may be delivered
    delivered   \* [Orders]: how often each was delivered

vars == <<due, delivered>>

Init == due = {} /\ delivered = [o \in Orders |-> 0]

Become(o) == due' = due \cup {o} /\ UNCHANGED delivered

Deliver(o) ==
    /\ o \in due /\ delivered[o] = 0
    /\ delivered' = [delivered EXCEPT ![o] = 1]
    /\ UNCHANGED due

Next == \E o \in Orders : Become(o) \/ Deliver(o)

Spec == Init /\ [][Next]_vars
=============================================================================
