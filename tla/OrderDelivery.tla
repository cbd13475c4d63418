---------------------------- MODULE OrderDelivery ----------------------------
(* What a ProcessOrders stream promises its client (the rpc processOrders of
   dev/grpc/basic/order/order.proto, lines 45-46): the orders it takes are
   delivered, in groups, each once; an error may cut the delivery short, success
   means that nothing is missing. *)
EXTENDS Naturals

CONSTANT Stream

VARIABLES taken,      \* how many orders the stream has taken
          delivered,  \* which of them have been delivered
          outcome     \* "running", "ok" or "error"

vars == <<taken, delivered, outcome>>

Init == /\ taken = [s \in Stream |-> 0]
        /\ delivered = [s \in Stream |-> {}]
        /\ outcome = [s \in Stream |-> "running"]

Take(s) ==
  /\ outcome[s] = "running"
  /\ taken' = [taken EXCEPT ![s] = @ + 1]
  /\ UNCHANGED <<delivered, outcome>>

Deliver(s) ==
  /\ outcome[s] = "running"
  /\ \E group \in (SUBSET ((1..taken[s]) \ delivered[s])) \ {{}} :
       delivered' = [delivered EXCEPT ![s] = @ \cup group]
  /\ UNCHANGED <<taken, outcome>>

Finish(s) ==
  /\ outcome[s] = "running"
  /\ \/ outcome' = [outcome EXCEPT ![s] = "error"]
     \/ delivered[s] = 1..taken[s] /\ outcome' = [outcome EXCEPT ![s] = "ok"]
  /\ UNCHANGED <<taken, delivered>>

Next == \E s \in Stream : Take(s) \/ Deliver(s) \/ Finish(s)
Spec == Init /\ [][Next]_vars
=============================================================================
