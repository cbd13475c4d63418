-------------------------- MODULE MCOrderManagement --------------------------
(* The calls of the runs of OrderManagement. *)
EXTENDS OrderManagement, TLC

CONSTANTS add, add2, get, search, update, process

(* Two orders are added, then or meanwhile one stream is processed. *)
BatchCalls == {add, add2, process}
(* Orders are stored, overwritten and shipped at the same time. *)
UpdateCalls == {update, process}
(* Orders are stored and overwritten, looked up and searched at the same time. *)
QueryCalls == {update, get, search}
(* One stream of updates, alone. *)
LoneUpdate == {update}

Methods == add :> "AddOrder" @@ add2 :> "AddOrder" @@ get :> "GetOrder"
           @@ search :> "SearchOrders" @@ update :> "UpdateOrders"
           @@ process :> "ProcessOrders"
\* Orders, addresses and the two AddOrder calls are interchangeable.
Symmetry == Permutations(OrderId) \cup Permutations(Address) \cup Permutations({add, add2})
KindOf == [r \in RPC |-> Methods[r]]
=============================================================================
