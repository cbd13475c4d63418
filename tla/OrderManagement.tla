--------------------------- MODULE OrderManagement ---------------------------
(* The gRPC order service of dev/grpc/basic/server/order.go.  Every call runs
   its handler in a goroutine of its own; all handlers share the package
   variable `orders`, a Go map that nothing protects.  An access to the map
   takes time: it begins (StartAccess) and ends in the handler's next step, so
   that two accesses can overlap.  An overlap with a write is a data race: the
   runtime may stop the process, or let it go on with a damaged map.
   A panic in a handler stops the process too, nothing recovers it. *)
EXTENDS Naturals, Sequences, FiniteSets

CONSTANTS RPC,        \* the calls made to the server
          Kind,         \* the method each call invokes
          OrderId, Address,
          Nil,          \* no order, no address
          BatchSize,    \* orderBatchSize
          MaxMsgs,      \* bound: messages a client sends on one stream
          MaxHits       \* bound: items of an order that match the query

Method == {"AddOrder", "GetOrder", "SearchOrders", "UpdateOrders", "ProcessOrders"}

ASSUME KindAssumption == Kind \in [RPC -> Method]
ASSUME BatchAssumption == BatchSize \in Nat \ {0}
ASSUME BoundAssumption == MaxMsgs \in Nat /\ MaxHits \in Nat

(* An order is its first address and the number of its items the query matches. *)
Order == [addr : Address \cup {Nil}, hits : 0..MaxHits]

ASSUME NilAssumption == Nil \notin Address /\ Nil \notin Order /\ Nil \notin OrderId

Message == [id : OrderId \cup {Nil}, order : Order \cup {Nil}]
(* One order of a CombinedShipment: n is its place among the ids received. *)
Entry == [n : Nat, id : OrderId, addr : Address \cup {Nil}]
Shipment == [label : Address \cup {Nil}, list : SUBSET Entry]
NoShipment == [label |-> Nil, list |-> {}]

VARIABLES
  orders,    \* the map: the order stored under each id, or Nil
  status,    \* "serving", or what stopped the process
  raced,     \* a data race on the map has happened
  inMap,     \* the calls whose handler is inside a map access
  pc,        \* where the handler of each call is
  client,    \* the client's side of the stream: "open", "closed" or "cancelled"
  msg,       \* the request or the order the handler works on
  todo,      \* the keys a `range` of the handler has still to visit
  ids,       \* ids received (UpdateOrders: and stored) or, by SearchOrders, sent
  marker,    \* batchMarker
  combined,  \* combinedShipmentMap: NoShipment where the key is absent
  dest,      \* destination
  label,     \* the Id of comShip
  sent,      \* the shipments sent, with the value of `flushed` at that time
  flushed,   \* history: how many ids had been received at the last full batch
  had,       \* history: every order ever stored under an id
  known      \* history: the ids stored when the call was made

callVars == <<pc, client, msg, todo, ids>>
batchVars == <<marker, combined, dest, label, sent, flushed>>
storeVars == <<orders, had>>
vars == <<storeVars, status, raced, inMap, callVars, batchVars, known>>

Done == {"ok", "error"}
ReadPc == {"get", "range", "scan", "dest", "label", "append"}
WritePc == {"store"}
Pc == {"idle", "recv", "match", "ship", "drain"} \cup Done \cup ReadPc \cup WritePc

Stored == {id \in OrderId : orders[id] # Nil}
Keys(r) == {a \in Address : combined[r][a] # NoShipment}

Init ==
  /\ orders = [id \in OrderId |-> Nil] /\ had = [id \in OrderId |-> {}]
  /\ status = "serving" /\ raced = FALSE /\ inMap = {}
  /\ pc = [r \in RPC |-> "idle"]
  /\ client = [r \in RPC |-> "open"]
  /\ msg = [r \in RPC |-> [id |-> Nil, order |-> Nil]]
  /\ todo = [r \in RPC |-> {}] /\ ids = [r \in RPC |-> <<>>]
  /\ marker = [r \in RPC |-> 1]
  /\ combined = [r \in RPC |-> [a \in Address |-> NoShipment]]
  /\ dest = [r \in RPC |-> Nil] /\ label = [r \in RPC |-> Nil]
  /\ sent = [r \in RPC |-> {}] /\ flushed = [r \in RPC |-> 0]
  /\ known = [r \in RPC |-> {}]

At(r, l) == status = "serving" /\ pc[r] = l
Goto(r, l) == pc' = [pc EXCEPT ![r] = l]

-----------------------------------------------------------------------------
(* The clients. *)

Request(r) == [id : OrderId,
               order : IF Kind[r] \in {"AddOrder", "UpdateOrders"} THEN Order ELSE {Nil}]

(* A client makes the call.  All but the two client streams half-close at once. *)
Call(r) ==
  /\ At(r, "idle")
  /\ Goto(r, CASE Kind[r] = "AddOrder" -> "store" [] Kind[r] = "GetOrder" -> "get"
               [] Kind[r] = "SearchOrders" -> "range" [] OTHER -> "recv")
  /\ IF Kind[r] \in {"AddOrder", "GetOrder"}
       THEN \E m \in Request(r) : msg' = [msg EXCEPT ![r] = m]
       ELSE UNCHANGED msg
  /\ client' = [client EXCEPT ![r] = IF Kind[r] \in {"UpdateOrders", "ProcessOrders"}
                                       THEN "open" ELSE "closed"]
  /\ known' = [known EXCEPT ![r] = Stored]
  /\ UNCHANGED <<storeVars, status, raced, inMap, todo, ids, batchVars>>

CloseSend(r) ==
  /\ pc[r] \notin {"idle"} \cup Done /\ status = "serving" /\ client[r] = "open"
  /\ client' = [client EXCEPT ![r] = "closed"]
  /\ UNCHANGED <<storeVars, status, raced, inMap, pc, msg, todo, ids, batchVars, known>>

(* The client cancels, its deadline passes or its connection breaks; the handlers
   of the two unary methods never look. *)
Cancel(r) ==
  /\ Kind[r] \notin {"AddOrder", "GetOrder"}
  /\ pc[r] \notin {"idle"} \cup Done /\ status = "serving" /\ client[r] # "cancelled"
  /\ client' = [client EXCEPT ![r] = "cancelled"]
  /\ UNCHANGED <<storeVars, status, raced, inMap, pc, msg, todo, ids, batchVars, known>>

-----------------------------------------------------------------------------
(* The map. *)

Conflict(r) == \E s \in inMap \ {r} : pc[r] \in WritePc \/ pc[s] \in WritePc

StartAccess(r) ==
  /\ status = "serving" /\ pc[r] \in ReadPc \cup WritePc /\ r \notin inMap
  /\ inMap' = inMap \cup {r}
  /\ raced' = (raced \/ Conflict(r))
  /\ UNCHANGED <<storeVars, status, callVars, batchVars, known>>

(* "fatal error: concurrent map read and map write", or two writes. *)
RaceFatal(r) ==
  /\ status = "serving" /\ r \in inMap /\ Conflict(r)
  /\ status' = "raceFatal"
  /\ UNCHANGED <<storeVars, raced, inMap, callVars, batchVars, known>>

(* PutAlone is the slip of making the map anew for every order. *)
PutAlone(id, o) == [x \in OrderId |-> IF x = id THEN o ELSE Nil]
Put(id, o) == [orders EXCEPT ![id] = o]

EndAccess(r) == r \in inMap /\ inMap' = inMap \ {r}
(* orders[id]; after a race the key may not be found. *)
Lookup(id) == {orders[id]} \cup (IF raced THEN {Nil} ELSE {})
HasAddress(o) == o # Nil /\ o.addr # Nil

-----------------------------------------------------------------------------
(* AddOrder, GetOrder, SearchOrders. *)

(* orders[id] = order; a raced map may lose it. *)
StoreOrder(r) ==
  /\ At(r, "store") /\ EndAccess(r)
  /\ \/ orders' = Put(msg[r].id, msg[r].order)
     \/ raced /\ UNCHANGED orders
  /\ had' = [had EXCEPT ![msg[r].id] = @ \cup {msg[r].order}]

AddOrder(r) ==
  /\ Kind[r] = "AddOrder" /\ StoreOrder(r)
  /\ Goto(r, "ok")
  /\ UNCHANGED <<status, raced, client, msg, todo, ids, batchVars, known>>

GetOrder(r) ==
  /\ At(r, "get") /\ EndAccess(r)
  /\ \E o \in Lookup(msg[r].id) :
       /\ msg' = [msg EXCEPT ![r].order = o]
       /\ Goto(r, IF o = Nil THEN "error" ELSE "ok")
  /\ UNCHANGED <<storeVars, status, raced, client, todo, ids, batchVars, known>>

(* A Go `range` visits every key the map has when it begins, in any order; a key
   added meanwhile may be visited or not, which `extra` decides beforehand. *)
SearchRange(r) ==
  /\ At(r, "range") /\ EndAccess(r)
  /\ \E extra \in SUBSET (OrderId \ Stored) : todo' = [todo EXCEPT ![r] = Stored \cup extra]
  /\ Goto(r, "scan")
  /\ UNCHANGED <<storeVars, status, raced, client, msg, ids, batchVars, known>>

(* The slip: one match is not enough. *)
MatchMany(o) == o # Nil /\ o.hits > 1
Match(o) == o # Nil /\ o.hits > 0

SearchVisit(r) ==
  /\ At(r, "scan") /\ EndAccess(r)
  /\ \E id \in todo[r] : \E o \in Lookup(id) :
       /\ todo' = [todo EXCEPT ![r] = @ \ {id}]
       /\ IF Match(o)
            THEN Goto(r, "match") /\ msg' = [msg EXCEPT ![r] = [id |-> id, order |-> o]]
            ELSE UNCHANGED <<pc, msg>>
  /\ UNCHANGED <<storeVars, status, raced, client, ids, batchVars, known>>

(* One Send for every item that matches. *)
SearchSend(r) ==
  /\ At(r, "match")
  /\ ids' = [ids EXCEPT ![r] = Append(@, msg[r].id)]
  /\ msg' = [msg EXCEPT ![r].order.hits = @ - 1]
  /\ Goto(r, IF msg[r].order.hits = 1 THEN "scan" ELSE "match")
  /\ UNCHANGED <<storeVars, status, raced, inMap, client, todo, batchVars, known>>

SearchDone(r) ==
  /\ At(r, "scan") /\ EndAccess(r) /\ todo[r] = {}
  /\ Goto(r, "ok")
  /\ UNCHANGED <<storeVars, status, raced, client, msg, todo, ids, batchVars, known>>

-----------------------------------------------------------------------------
(* UpdateOrders: the results of Recv are an order, io.EOF and another error. *)

AtRecv(r, method, side) == At(r, "recv") /\ Kind[r] = method /\ client[r] = side
More(r) == Len(ids[r]) < MaxMsgs

RecvOrder(r) ==
  /\ AtRecv(r, "UpdateOrders", "open") /\ More(r)
  /\ \E m \in Request(r) : msg' = [msg EXCEPT ![r] = m]
  /\ Goto(r, "store")
  /\ UNCHANGED <<storeVars, status, raced, inMap, client, todo, ids, batchVars, known>>

UpdateOrder(r) ==
  /\ Kind[r] = "UpdateOrders" /\ StoreOrder(r)
  /\ ids' = [ids EXCEPT ![r] = Append(@, msg[r].id)]
  /\ Goto(r, "recv")
  /\ UNCHANGED <<status, raced, client, msg, todo, batchVars, known>>

(* SendAndClose answers with the ids, or fails. *)
SendAndClose(r) ==
  /\ AtRecv(r, "UpdateOrders", "closed")
  /\ \E result \in Done : Goto(r, result)
  /\ UNCHANGED <<storeVars, status, raced, inMap, client, msg, todo, ids, batchVars, known>>

(* The error is not looked at: the nil order is dereferenced. *)
RecvPanic(r) ==
  /\ AtRecv(r, "UpdateOrders", "cancelled")
  /\ status' = "recvPanic"
  /\ UNCHANGED <<storeVars, raced, inMap, callVars, batchVars, known>>

-----------------------------------------------------------------------------
(* ProcessOrders. *)

RecvId(r) ==
  /\ AtRecv(r, "ProcessOrders", "open") /\ More(r)
  /\ \E m \in Request(r) : /\ msg' = [msg EXCEPT ![r] = m]
                           /\ ids' = [ids EXCEPT ![r] = Append(@, m.id)]
  /\ Goto(r, "dest")
  /\ UNCHANGED <<storeVars, status, raced, inMap, client, todo, batchVars, known>>

RecvEOF(r) ==
  /\ AtRecv(r, "ProcessOrders", "closed")
  /\ todo' = [todo EXCEPT ![r] = Keys(r)]
  /\ Goto(r, "drain")
  /\ UNCHANGED <<storeVars, status, raced, inMap, client, msg, ids, batchVars, known>>

(* The slip: the loop goes on to the next Recv, as the client's loop does. *)
AfterErrorContinue == "recv"
AfterError == "error"

RecvError(r) ==
  /\ AtRecv(r, "ProcessOrders", "cancelled")
  /\ Goto(r, AfterError)
  /\ UNCHANGED <<storeVars, status, raced, inMap, client, msg, todo, ids, batchVars, known>>

(* The map is read for the destination, if that is new for the shipment's Id,
   and once more for the order. *)
Destination(r) ==
  /\ At(r, "dest") /\ EndAccess(r)
  /\ \E o \in Lookup(msg[r].id) :
       /\ HasAddress(o)
       /\ dest' = [dest EXCEPT ![r] = o.addr]
       /\ Goto(r, IF o.addr \in Keys(r) THEN "append" ELSE "label")
  /\ UNCHANGED <<storeVars, status, raced, client, msg, todo, ids,
                 marker, combined, label, sent, flushed, known>>

ShipmentLabel(r) ==
  /\ At(r, "label") /\ EndAccess(r)
  /\ \E o \in Lookup(msg[r].id) : HasAddress(o) /\ label' = [label EXCEPT ![r] = o.addr]
  /\ Goto(r, "append")
  /\ UNCHANGED <<storeVars, status, raced, client, msg, todo, ids,
                 marker, combined, dest, sent, flushed, known>>

(* Addresses[0] of an order that is not there or has no address. *)
LookupPanic(r) ==
  /\ status = "serving" /\ pc[r] \in {"dest", "label"} /\ r \in inMap
  /\ \E o \in Lookup(msg[r].id) : ~HasAddress(o)
  /\ status' = "lookupPanic"
  /\ UNCHANGED <<storeVars, raced, inMap, callVars, batchVars, known>>

(* The slip: every entry points at the variable of the first id. *)
SharedEntry(r, o) == [n |-> Len(ids[r]), id |-> ids[r][1],
                      addr |-> IF o = Nil THEN Nil ELSE o.addr]
NewEntry(r, o) == [n |-> Len(ids[r]), id |-> msg[r].id,
                   addr |-> IF o = Nil THEN Nil ELSE o.addr]

(* The slip: the batch is tested after the marker's increment. *)
BatchOverfull(r) == marker[r] > BatchSize
BatchFull(r) == marker[r] = BatchSize

AppendOrder(r) ==
  /\ At(r, "append") /\ EndAccess(r)
  /\ \E o \in Lookup(msg[r].id) :
       combined' = [combined EXCEPT ![r][dest[r]] =
                      [label |-> IF @ = NoShipment THEN label[r] ELSE @.label,
                       list |-> @.list \cup {NewEntry(r, o)}]]
  /\ IF BatchFull(r)
       THEN /\ Goto(r, "ship") /\ UNCHANGED marker
            /\ todo' = [todo EXCEPT ![r] = Keys(r) \cup {dest[r]}]
       ELSE /\ Goto(r, "recv") /\ UNCHANGED todo
            /\ marker' = [marker EXCEPT ![r] = @ + 1]
  /\ UNCHANGED <<storeVars, status, raced, client, msg, ids, dest, label, sent, flushed, known>>

(* One stream.Send of the loop over the map, after a full batch or after EOF. *)
SendShipment(r) ==
  /\ status = "serving" /\ pc[r] \in {"ship", "drain"}
  /\ \E a \in todo[r] :
       /\ sent' = [sent EXCEPT ![r] = @ \cup {[after |-> flushed[r], dest |-> a,
                                                ship |-> combined[r][a]]}]
       /\ todo' = [todo EXCEPT ![r] = @ \ {a}]
  /\ UNCHANGED <<storeVars, status, raced, inMap, pc, client, msg, ids,
                 marker, combined, dest, label, flushed, known>>

(* stream.Send fails, in SearchOrders or ProcessOrders, and its error is returned. *)
SendError(r) ==
  /\ status = "serving" /\ client[r] = "cancelled"
  /\ pc[r] = "match" \/ (pc[r] \in {"ship", "drain"} /\ todo[r] # {})
  /\ Goto(r, "error")
  /\ UNCHANGED <<storeVars, status, raced, inMap, client, msg, todo, ids, batchVars, known>>

(* The slip: the map lives on after a batch. *)
KeepMap(r) == combined[r]
NewMap(r) == [a \in Address |-> NoShipment]

BatchDone(r) ==
  /\ At(r, "ship") /\ todo[r] = {}
  /\ marker' = [marker EXCEPT ![r] = 0]
  /\ combined' = [combined EXCEPT ![r] = NewMap(r)]
  /\ flushed' = [flushed EXCEPT ![r] = Len(ids[r])]
  /\ Goto(r, "recv")
  /\ UNCHANGED <<storeVars, status, raced, inMap, client, msg, todo, ids, dest, label, sent, known>>

(* The slip: returning from inside the loop. *)
FirstSent(r) == sent[r] # {} \/ todo[r] = {}
AllSent(r) == todo[r] = {}

DrainDone(r) ==
  /\ At(r, "drain") /\ AllSent(r)
  /\ Goto(r, "ok")
  /\ UNCHANGED <<storeVars, status, raced, inMap, client, msg, todo, ids, batchVars, known>>

-----------------------------------------------------------------------------
(* A message that Recv returns is the client's doing. *)
Client(r) == Call(r) \/ RecvOrder(r) \/ RecvId(r) \/ CloseSend(r) \/ Cancel(r)

Handler(r) ==
  \/ StartAccess(r) \/ RaceFatal(r) \/ AddOrder(r) \/ GetOrder(r)
  \/ SearchRange(r) \/ SearchVisit(r) \/ SearchSend(r) \/ SearchDone(r)
  \/ UpdateOrder(r) \/ SendAndClose(r) \/ RecvPanic(r)
  \/ RecvEOF(r) \/ RecvError(r)
  \/ Destination(r) \/ ShipmentLabel(r) \/ LookupPanic(r) \/ AppendOrder(r)
  \/ SendShipment(r) \/ SendError(r) \/ BatchDone(r) \/ DrainDone(r)

Next == \E r \in RPC : Client(r) \/ Handler(r)

Spec == Init /\ [][Next]_vars
(* The Go scheduler runs every goroutine; nothing obliges a client to go on. *)
FairSpec == Spec /\ \A r \in RPC : WF_vars(Handler(r))

-----------------------------------------------------------------------------
(* Properties. *)

TypeOK ==
  /\ orders \in [OrderId -> Order \cup {Nil}] /\ had \in [OrderId -> SUBSET Order]
  /\ status \in {"serving", "raceFatal", "lookupPanic", "recvPanic"}
  /\ raced \in BOOLEAN /\ inMap \subseteq RPC
  /\ pc \in [RPC -> Pc]
  /\ client \in [RPC -> {"open", "closed", "cancelled"}]
  /\ msg \in [RPC -> Message]
  /\ todo \in [RPC -> SUBSET (Address \cup OrderId)]
  /\ ids \in [RPC -> Seq(OrderId)]
  /\ marker \in [RPC -> 0..BatchSize]
  /\ combined \in [RPC -> [Address -> Shipment]]
  /\ dest \in [RPC -> Address \cup {Nil}] /\ label \in [RPC -> Address \cup {Nil}]
  /\ sent \in [RPC -> SUBSET [after : Nat, dest : Address, ship : Shipment]]
  /\ flushed \in [RPC -> Nat]
  /\ known \in [RPC -> SUBSET OrderId]

Streams == {r \in RPC : Kind[r] = "ProcessOrders"}
Handling(r) == pc[r] \in {"dest", "label", "append"}
Handled(r) == IF Handling(r) THEN Len(ids[r]) - 1 ELSE Len(ids[r])

(* The shipments not sent yet: of the loop over the map, those still to visit. *)
Waiting(r) ==
  {[after |-> flushed[r], dest |-> a, ship |-> combined[r][a]] :
     a \in IF pc[r] \in {"ship", "drain", "ok"} THEN todo[r] ELSE Keys(r)}
Places(S) == UNION {{e.n : e \in s.ship.list} : s \in S}
All(r) == sent[r] \cup Waiting(r)

(* Of the orders a ProcessOrders stream has taken, each is in exactly one
   shipment, once, sent or still to be sent, under the id received in its place;
   a call that ends without error has sent them all (order.go:92-134). *)
OrdersConserved ==
  \A r \in Streams :
    /\ Places(All(r)) = 1..Handled(r)
    /\ \A s, t \in All(r) : \A e \in s.ship.list, f \in t.ship.list :
         e.n = f.n => s = t /\ e = f
    /\ \A s \in All(r) : \A e \in s.ship.list : e.id = ids[r][e.n]
    /\ pc[r] = "ok" => Places(sent[r]) = 1..Len(ids[r])

(* Where the batches end.  batchMarker starts at 1 but is reset to 0: the first
   batch has orderBatchSize orders and every later one has one more, and never
   do more wait to be shipped (order.go:90, 122-133). *)
BatchBoundaries ==
  \A r \in Streams :
    /\ flushed[r] # 0 => flushed[r] % (BatchSize + 1) = BatchSize
    /\ \A s \in All(r) : \A e \in s.ship.list :
         e.n \in (s.after + 1)..(s.after + BatchSize + (IF s.after = 0 THEN 0 ELSE 1))

Addresses(id) == {o.addr : o \in had[id]}

(* ProcessOrders reads an order up to three times.  Calls that overwrite it in
   between can make the key of a shipment, its Id and the order in it disagree;
   but, short of a data race, each is an address the order has had.  So an order
   whose address never changes is shipped to it (order.go:107-119). *)
AddressesWereReal ==
  ~raced =>
    \A r \in Streams : \A s \in All(r) :
      /\ \A e \in s.ship.list : {s.dest, e.addr} \subseteq Addresses(e.id)
      /\ \E e \in s.ship.list : s.ship.label \in Addresses(e.id)

(* Short of a data race, ProcessOrders does not panic over an order that was
   stored before the call and never without an address (order.go:107, 115). *)
KnownOrdersAreSafe ==
  status = "lookupPanic" /\ ~raced =>
    \E r \in Streams : /\ Handling(r)
                       /\ msg[r].id \notin known[r] \/ Nil \in Addresses(msg[r].id)

(* Short of a data race, GetOrder finds an order that was stored before the call,
   whatever other calls store meanwhile (order.go:38-46). *)
GetFindsKnownOrders ==
  \A r \in RPC : Kind[r] = "GetOrder" /\ pc[r] = "error" /\ ~raced => msg[r].id \notin known[r]

(* Short of a data race, a complete SearchOrders sends every order as often as one
   of its versions has matching items; it may miss only an order that was not
   there when the call was made (order.go:52-61). *)
SearchAnswers ==
  \A r \in RPC : Kind[r] = "SearchOrders" /\ pc[r] = "ok" /\ ~raced =>
    \A id \in OrderId :
      LET times == Cardinality({i \in 1..Len(ids[r]) : ids[r][i] = id})
      IN times \in {o.hits : o \in had[id]} \/ (times = 0 /\ id \notin known[r])

(* Short of a data race, every id in the answer of UpdateOrders is stored when the
   client reads it (order.go:77-83). *)
AnsweredUpdatesAreStored ==
  \A r \in RPC : Kind[r] = "UpdateOrders" /\ ~raced =>
    \A i \in 1..Len(ids[r]) : ids[r][i] \in Stored

(* "We handle every Recv" (order.go:67): no result of Recv stops the server. *)
EveryRecvHandled == status # "recvPanic"

(* What a ProcessOrders stream promises: see OrderDelivery. *)
Delivery == INSTANCE OrderDelivery WITH
  Stream <- Streams,
  taken <- [r \in Streams |-> Len(ids[r])],
  delivered <- [r \in Streams |-> Places(sent[r])],
  outcome <- [r \in Streams |-> IF pc[r] \in Done THEN pc[r] ELSE "running"]
ImplementsDelivery == Delivery!Spec

(* A call whose client has closed or cancelled its stream ends, unless the server
   dies: no handler waits for another, whatever the order of their steps. *)
CallsEnd ==
  \A r \in RPC : (pc[r] # "idle" /\ client[r] # "open")
                    ~> (pc[r] \in Done \/ status # "serving")
=============================================================================
