------------------------ MODULE OrderManagementProofs ------------------------
(* What holds of OrderManagement for all its constants: any number of calls,
   orders, addresses and messages, and any batch size. *)
EXTENDS OrderManagement, FiniteSetTheorems, TLAPS

(* What the handler's place says about its local variables. *)
LocalsOK ==
  \A r \in RPC :
    /\ pc[r] = "store" => msg[r] \in [id : OrderId, order : Order]
    /\ pc[r] \in {"get", "dest", "label", "append"} => msg[r].id \in OrderId
    /\ pc[r] = "match" => /\ msg[r].id \in OrderId /\ msg[r].order \in Order
                          /\ msg[r].order.hits > 0
    /\ pc[r] \in {"label", "append"} => dest[r] \in Address
    /\ pc[r] \in {"scan", "match"} => todo[r] \subseteq OrderId
    /\ pc[r] \in {"ship", "drain"} => todo[r] \subseteq Address

TypeInv == TypeOK /\ LocalsOK

(* A message the clients send, and a value read from the map, have their types. *)
LEMMA RequestType ==
  ASSUME NEW r \in RPC, NEW m \in Request(r)
  PROVE  /\ m \in Message /\ m.id \in OrderId
         /\ Kind[r] \in {"AddOrder", "UpdateOrders"} => m \in [id : OrderId, order : Order]
  BY DEF Request, Message

LEMMA LookupType ==
  ASSUME TypeOK, NEW id \in OrderId, NEW o \in Lookup(id)
  PROVE  o \in Order \cup {Nil}
  BY DEF TypeOK, Lookup

LEMMA AppendType ==
  ASSUME TypeOK, NEW r \in RPC, NEW id \in OrderId,
         ids' = [ids EXCEPT ![r] = Append(@, id)]
  PROVE  ids' \in [RPC -> Seq(OrderId)]
<1>1. ids[r] \in Seq(OrderId) /\ ids \in [RPC -> Seq(OrderId)]
  BY DEF TypeOK
<1>2. Append(ids[r], id) \in Seq(OrderId)
  BY <1>1
<1> QED BY <1>1, <1>2

(* Every step of a call keeps the types. *)
LEMMA TypeClient ==
  ASSUME TypeInv, NEW r \in RPC, Client(r)
  PROVE  TypeInv'
<1>1. CASE Call(r)
  <2>1. PICK place \in {"store", "get", "range", "recv"} :
          /\ pc' = [pc EXCEPT ![r] = place]
          /\ place = "store" <=> Kind[r] = "AddOrder"
          /\ place = "get" <=> Kind[r] = "GetOrder"
    BY <1>1, KindAssumption DEF Call, Goto, Method
  <2>2. CASE Kind[r] \in {"AddOrder", "GetOrder"}
    <3>1. PICK m \in Request(r) : msg' = [msg EXCEPT ![r] = m]
      BY <1>1, <2>2 DEF Call
    <3>2. m \in Message /\ m.id \in OrderId
          /\ (Kind[r] = "AddOrder" => m \in [id : OrderId, order : Order])
      BY RequestType
    <3> QED
      BY <1>1, <2>1, <2>2, <3>1, <3>2 DEF TypeInv, TypeOK, LocalsOK, Call, Stored,
         Pc, Done, ReadPc, WritePc, storeVars, batchVars
  <2>3. CASE Kind[r] \notin {"AddOrder", "GetOrder"}
    BY <1>1, <2>1, <2>3 DEF TypeInv, TypeOK, LocalsOK, Call, Stored,
       Pc, Done, ReadPc, WritePc, storeVars, batchVars
  <2> QED BY <2>2, <2>3
<1>2. CASE RecvOrder(r)
  <2>1. PICK m \in Request(r) : msg' = [msg EXCEPT ![r] = m]
    BY <1>2 DEF RecvOrder
  <2>2. m \in Message /\ m \in [id : OrderId, order : Order]
    BY <1>2, RequestType DEF RecvOrder, AtRecv
  <2> QED
    BY <1>2, <2>1, <2>2 DEF TypeInv, TypeOK, LocalsOK, RecvOrder, Goto,
       Pc, WritePc, storeVars, batchVars
<1>5. CASE RecvId(r)
  <2>1. PICK m \in Request(r) : /\ msg' = [msg EXCEPT ![r] = m]
                                /\ ids' = [ids EXCEPT ![r] = Append(@, m.id)]
    BY <1>5 DEF RecvId
  <2>2. m \in Message /\ m.id \in OrderId
    BY RequestType
  <2>3. ids' \in [RPC -> Seq(OrderId)]
    BY <2>1, <2>2, AppendType DEF TypeInv
  <2> QED
    BY <1>5, <2>1, <2>2, <2>3 DEF TypeInv, TypeOK, LocalsOK, RecvId, Goto,
       Pc, ReadPc, storeVars, batchVars
<1>3. CASE CloseSend(r)
  BY <1>3 DEF TypeInv, TypeOK, LocalsOK, CloseSend, storeVars, batchVars
<1>4. CASE Cancel(r)
  BY <1>4 DEF TypeInv, TypeOK, LocalsOK, Cancel, storeVars, batchVars
<1> QED BY <1>1, <1>2, <1>3, <1>4, <1>5 DEF Client

LEMMA TypeHandler ==
  ASSUME TypeInv, NEW r \in RPC, Handler(r)
  PROVE  TypeInv'
<1> USE DEF TypeInv, TypeOK, LocalsOK, storeVars, callVars, batchVars
<1>1. CASE StartAccess(r)
  BY <1>1 DEF StartAccess
<1>2. CASE RaceFatal(r)
  BY <1>2 DEF RaceFatal
<1>3. CASE AddOrder(r) \/ UpdateOrder(r)
  <2>1. StoreOrder(r) /\ msg[r].id \in OrderId /\ msg[r].order \in Order
    BY <1>3 DEF AddOrder, UpdateOrder, StoreOrder, At
  <2>2. orders' \in [OrderId -> Order \cup {Nil}] /\ had' \in [OrderId -> SUBSET Order]
    BY <2>1 DEF StoreOrder, Put
  <2>3. PICK place \in {"ok", "recv"} : pc' = [pc EXCEPT ![r] = place]
    BY <1>3 DEF AddOrder, UpdateOrder, Goto
  <2>4. ids' \in [RPC -> Seq(OrderId)]
    <3>1. CASE AddOrder(r)
      BY <3>1 DEF AddOrder
    <3>2. CASE UpdateOrder(r)
      <4>1. ids' = [ids EXCEPT ![r] = Append(@, msg[r].id)]
        BY <3>2 DEF UpdateOrder
      <4> HIDE DEF TypeInv, TypeOK
      <4> QED BY <2>1, <4>1, AppendType DEF TypeInv
    <3> QED BY <1>3, <3>1, <3>2
  <2> QED
    BY <1>3, <2>1, <2>2, <2>3, <2>4 DEF AddOrder, UpdateOrder, StoreOrder, EndAccess, Pc, Done
<1>4. CASE GetOrder(r)
  <2>1. PICK o \in Lookup(msg[r].id) : msg' = [msg EXCEPT ![r].order = o]
    BY <1>4 DEF GetOrder
  <2>2. o \in Order \cup {Nil} /\ msg[r].id \in OrderId
    BY <1>4, <2>1, LookupType DEF GetOrder, At
  <2>3. msg' \in [RPC -> Message]
    BY <2>1, <2>2, ZenonT(30) DEF Message
  <2>4. PICK place \in Done : pc' = [pc EXCEPT ![r] = place]
    BY <1>4 DEF GetOrder, Goto, Done
  <2> QED
    BY <1>4, <2>1, <2>3, <2>4 DEF GetOrder, EndAccess, Pc, Done
<1>5. CASE SearchRange(r)
  BY <1>5 DEF SearchRange, At, EndAccess, Goto, Stored, Pc, Done, ReadPc, WritePc
<1>6. CASE SearchVisit(r)
  <2> DEFINE Visit(id, o) ==
        /\ todo' = [todo EXCEPT ![r] = @ \ {id}]
        /\ IF Match(o)
             THEN Goto(r, "match") /\ msg' = [msg EXCEPT ![r] = [id |-> id, order |-> o]]
             ELSE UNCHANGED <<pc, msg>>
  <2>1. PICK id \in todo[r] : \E o \in Lookup(id) : Visit(id, o)
    BY <1>6 DEF SearchVisit
  <2>2. PICK o \in Lookup(id) : Visit(id, o)
    BY <2>1
  <2>3. id \in OrderId /\ o \in Order \cup {Nil}
    BY <1>6, <2>1, LookupType DEF SearchVisit, At
  <2>4. CASE Match(o)
    <3>1. [id |-> id, order |-> o] \in Message /\ o \in Order
      BY <2>3, <2>4 DEF Message, Match
    <3> QED
      <4>1. /\ pc' = [pc EXCEPT ![r] = "match"]
            /\ msg' = [msg EXCEPT ![r] = [id |-> id, order |-> o]]
            /\ todo' = [todo EXCEPT ![r] = @ \ {id}]
        BY <2>2, <2>4 DEF Goto
      <4> QED
        <5>1. TypeOK'
          BY <1>6, <3>1, <4>1 DEF SearchVisit, EndAccess, Pc
        <5>2. todo[r] \subseteq OrderId
          BY <1>6 DEF SearchVisit, At
        <5>3. LocalsOK'
          BY <1>6, <2>3, <2>4, <3>1, <4>1, <5>2 DEF SearchVisit, Match
        <5> QED BY <5>1, <5>3
  <2>5. CASE ~Match(o)
    BY <1>6, <2>2, <2>5 DEF SearchVisit, EndAccess
  <2> QED BY <2>4, <2>5
<1>7. CASE SearchSend(r)
  <2>1. msg[r].id \in OrderId /\ msg[r].order \in Order /\ msg[r].order.hits > 0
    BY <1>7 DEF SearchSend, At
  <2>2. msg' = [msg EXCEPT ![r].order.hits = @ - 1] /\ msg'[r].id = msg[r].id
    BY <1>7 DEF SearchSend
  <2>3. msg'[r].order = [msg[r].order EXCEPT !.hits = @ - 1]
    BY <2>2 DEF Message
  <2>4. msg'[r].order \in Order
    <3>1. msg[r].order.hits - 1 \in 0..MaxHits
      BY <2>1, BoundAssumption DEF Order
    <3> QED BY <2>1, <2>3, <3>1 DEF Order
  <2>5. msg' \in [RPC -> Message]
    BY <2>2, <2>4 DEF Message
  <2>6. PICK place \in {"scan", "match"} :
          /\ pc' = [pc EXCEPT ![r] = place]
          /\ place = "match" => msg[r].order.hits # 1
    BY <1>7 DEF SearchSend, Goto
  <2>7. place = "match" => msg'[r].order.hits > 0
    BY <2>1, <2>3, <2>6, BoundAssumption DEF Order
  <2> QED
    <3>1. ids' \in [RPC -> Seq(OrderId)]
      <4>1. ids' = [ids EXCEPT ![r] = Append(@, msg[r].id)]
        BY <1>7 DEF SearchSend
      <4> HIDE DEF TypeInv, TypeOK
      <4> QED BY <2>1, <4>1, AppendType DEF TypeInv
    <3>2. pc' \in [RPC -> Pc]
      BY <2>6 DEF Pc, ReadPc
    <3>3. TypeOK'
      BY <1>7, <2>5, <3>1, <3>2 DEF SearchSend
    <3>4. LocalsOK'
      <4>1. \A q \in RPC \ {r} : msg'[q] = msg[q] /\ pc'[q] = pc[q]
        BY <2>2, <2>6
      <4>2. pc'[r] = place /\ todo' = todo /\ dest' = dest
        BY <1>7, <2>6 DEF SearchSend
      <4>3. todo[r] \subseteq OrderId
        BY <1>7 DEF SearchSend, At
      <4> QED BY <2>1, <2>2, <2>4, <2>6, <2>7, <4>1, <4>2, <4>3
    <3> QED BY <3>3, <3>4
<1>8. CASE SearchDone(r)
  BY <1>8 DEF SearchDone, At, EndAccess, Goto, Pc, Done, ReadPc, WritePc
<1>9. CASE RecvEOF(r)
  <2>1. /\ pc' = [pc EXCEPT ![r] = "drain"]
        /\ todo' = [todo EXCEPT ![r] = Keys(r)] /\ Keys(r) \subseteq Address
    BY <1>9 DEF RecvEOF, Goto, Keys
  <2> QED
    BY <1>9, <2>1 DEF RecvEOF, Pc
<1>10. CASE RecvError(r) \/ SendAndClose(r)
  <2>1. PICK place \in Done : pc' = [pc EXCEPT ![r] = place]
    BY <1>10 DEF RecvError, SendAndClose, AfterError, Goto, Done
  <2> QED
    BY <1>10, <2>1 DEF RecvError, SendAndClose, Pc, Done
<1>19. CASE RecvPanic(r)
  BY <1>19 DEF RecvPanic
<1>11. CASE Destination(r)
  BY <1>11, LookupType DEF Destination, At, EndAccess, Goto, HasAddress, Order, Pc, Done, ReadPc, WritePc
<1>12. CASE ShipmentLabel(r)
  BY <1>12, LookupType DEF ShipmentLabel, At, EndAccess, Goto, HasAddress, Order, Pc, Done, ReadPc, WritePc
<1>13. CASE LookupPanic(r)
  BY <1>13 DEF LookupPanic
<1>14. CASE AppendOrder(r)
  <2>1. PICK o \in Lookup(msg[r].id) :
          combined' = [combined EXCEPT ![r][dest[r]] =
                         [label |-> IF @ = NoShipment THEN label[r] ELSE @.label,
                          list |-> @.list \cup {NewEntry(r, o)}]]
    BY <1>14 DEF AppendOrder
  <2>2. /\ msg[r].id \in OrderId /\ dest[r] \in Address
        /\ o \in Order \cup {Nil}
    BY <1>14, <2>1, LookupType DEF AppendOrder, At
  <2>3. NewEntry(r, o) \in Entry
    BY <2>2 DEF NewEntry, Entry, Order
  <2>4. combined[r][dest[r]] \in Shipment
    BY <2>2
  <2>5. combined' \in [RPC -> [Address -> Shipment]]
    BY <2>1, <2>2, <2>3, <2>4 DEF Shipment
  <2>6. Keys(r) \cup {dest[r]} \subseteq Address
    BY <2>2 DEF Keys
  <2>7. CASE BatchFull(r)
    <3>1. /\ pc' = [pc EXCEPT ![r] = "ship"] /\ marker' = marker
          /\ todo' = [todo EXCEPT ![r] = Keys(r) \cup {dest[r]}]
      BY <1>14, <2>7 DEF AppendOrder, Goto
    <3> QED
      BY <1>14, <2>5, <2>6, <3>1 DEF AppendOrder, EndAccess, Pc
  <2>8. CASE ~BatchFull(r)
    <3>1. /\ pc' = [pc EXCEPT ![r] = "recv"] /\ todo' = todo
          /\ marker' = [marker EXCEPT ![r] = @ + 1]
      BY <1>14, <2>8 DEF AppendOrder, Goto
    <3>2. marker[r] + 1 \in 0..BatchSize
      BY <2>8, BatchAssumption DEF BatchFull
    <3> QED
      BY <1>14, <2>5, <3>1, <3>2 DEF AppendOrder, EndAccess, Pc
  <2> QED BY <2>7, <2>8
<1>15. CASE SendShipment(r)
  BY <1>15 DEF SendShipment
<1>16. CASE SendError(r)
  BY <1>16 DEF SendError, Goto, Pc, Done, ReadPc, WritePc
<1>17. CASE BatchDone(r)
  <2>1. NoShipment \in Shipment
    BY DEF NoShipment, Shipment
  <2>2. combined' \in [RPC -> [Address -> Shipment]]
    BY <1>17, <2>1 DEF BatchDone, NewMap
  <2> QED
    BY <1>17, <2>2, BatchAssumption DEF BatchDone, Goto, Pc
<1>18. CASE DrainDone(r)
  BY <1>18 DEF DrainDone, At, Goto, Pc, Done, ReadPc, WritePc
<1> HIDE DEF TypeInv, TypeOK, LocalsOK, storeVars, callVars, batchVars
<1> QED
  BY <1>1, <1>2, <1>3, <1>4, <1>5, <1>6, <1>7, <1>8, <1>9, <1>10, <1>11, <1>12,
     <1>13, <1>14, <1>15, <1>16, <1>17, <1>18, <1>19 DEF Handler

LEMMA TypeInit == Init => TypeInv
<1>1. NoShipment \in Shipment
  BY DEF NoShipment, Shipment
<1>2. ASSUME Init PROVE TypeInv
  <2>1. 1 \in 0..BatchSize /\ <<>> \in Seq(OrderId) /\ "idle" \in Pc
    BY BatchAssumption DEF Pc
  <2>2. TypeOK
    BY <1>1, <1>2, <2>1 DEF Init, TypeOK, Message
  <2> QED
    BY <1>2, <2>2 DEF Init, TypeInv, LocalsOK
<1> QED BY <1>2

(* TypeInv is inductive. *)
LEMMA TypeStep == TypeInv /\ [Next]_vars => TypeInv'
<1> SUFFICES ASSUME TypeInv, [Next]_vars PROVE TypeInv'
  OBVIOUS
<1>1. CASE Next
  BY <1>1, TypeClient, TypeHandler DEF Next
<1>2. CASE UNCHANGED vars
  BY <1>2 DEF TypeInv, TypeOK, LocalsOK, vars, storeVars, callVars, batchVars
<1> QED BY <1>1, <1>2

(* The types, and what the place of a handler says of its locals, always hold. *)
THEOREM TypeCorrect == Spec => []TypeOK
<1>1. Spec => []TypeInv
  BY TypeInit, TypeStep, PTL DEF Spec
<1>2. TypeInv => TypeOK
  BY DEF TypeInv
<1> QED BY <1>1, <1>2, PTL

-----------------------------------------------------------------------------
(* OrdersConserved.  It is not inductive: it needs to know which shipments a loop
   over the map has sent already, and which id is being worked on. *)

StreamPlaces == {"idle", "recv", "dest", "label", "append", "ship", "drain", "ok", "error"}
Carrier(r, a) == [after |-> flushed[r], dest |-> a, ship |-> combined[r][a]]

(* The shipments A carry the orders 1..h of the ids in log, each once. *)
Carries(A, h, log) ==
  /\ Places(A) = 1..h
  /\ \A s, t \in A : \A e \in s.ship.list, f \in t.ship.list : e.n = f.n => s = t /\ e = f
  /\ \A s \in A : \A e \in s.ship.list : e.id = log[e.n]

StreamInv(r) ==
  /\ pc[r] \in StreamPlaces
  /\ Carries(All(r), Handled(r), ids[r])
  /\ Handling(r) => Len(ids[r]) > 0 /\ ids[r][Len(ids[r])] = msg[r].id
  /\ pc[r] = "ok" => todo[r] = {}
  /\ pc[r] \in {"ship", "drain"} =>
       /\ todo[r] \subseteq Keys(r)
       /\ \A a \in Keys(r) \ todo[r] : Carrier(r, a) \in sent[r]
  /\ pc[r] \in {"idle", "recv", "dest", "label", "append"} =>
       \A a \in Keys(r) : Carrier(r, a) \notin sent[r]

ConservedInv == TypeInv /\ \A r \in Streams : StreamInv(r)

(* The shipments not sent yet are those of `todo` in a loop over the map, else
   all those of the map. *)
LEMMA WaitingIs ==
  ASSUME NEW r \in RPC
  PROVE  Waiting(r) = {Carrier(r, a) : a \in IF pc[r] \in {"ship", "drain", "ok"}
                                              THEN todo[r] ELSE Keys(r)}
  BY DEF Waiting, Carrier

LEMMA InPlaces ==
  ASSUME NEW A, NEW n
  PROVE  n \in Places(A) <=> \E s \in A : \E e \in s.ship.list : n = e.n
  BY DEF Places

(* One more id in the log: the shipments carry the same orders. *)
LEMMA CarriesLonger ==
  ASSUME NEW A, NEW log \in Seq(OrderId), NEW id \in OrderId, NEW h \in Nat, h <= Len(log),
         Carries(A, h, log)
  PROVE  Carries(A, h, Append(log, id))
<1>1. ASSUME NEW s \in A, NEW e \in s.ship.list
      PROVE  e.id = Append(log, id)[e.n]
  <2>1. e.n \in 1..h
    BY InPlaces DEF Carries
  <2>2. e.n \in 1..Len(log)
    BY <2>1
  <2>3. Append(log, id)[e.n] = log[e.n]
    BY <2>2
  <2> QED BY <2>3 DEF Carries
<1> QED BY <1>1 DEF Carries

(* The next order joins one shipment, which may be new. *)
LEMMA CarriesOneMore ==
  ASSUME NEW A, NEW h \in Nat, NEW log, Carries(A, h, log),
         NEW old, NEW new, NEW entry, new \notin A,
         old \in A \/ old.ship.list = {},
         new.ship.list = old.ship.list \cup {entry},
         entry.n = h + 1, entry.id = log[h + 1],
         NEW B, new \in B, A \ {old} \subseteq B, B \subseteq A \cup {new},
         old \notin B \/ old.ship.list = {}
  PROVE  Carries(B, h + 1, log)
<1>1. \A s \in A : \A e \in s.ship.list : e.n \in 1..h
  BY InPlaces DEF Carries
<1>2. \A e \in old.ship.list : e.n \in 1..h /\ e.id = log[e.n]
  BY <1>1 DEF Carries
<1>3. Places(B) = 1..(h + 1)
  <2>1. ASSUME NEW n \in Places(B) PROVE n \in 1..(h + 1)
    <3>1. PICK s \in B : \E e \in s.ship.list : n = e.n
      BY <2>1, InPlaces
    <3>2. CASE s = new
      BY <3>1, <3>2, <1>2
    <3>3. CASE s # new
      BY <3>1, <3>3, <1>1
    <3> QED BY <3>2, <3>3
  <2>2. ASSUME NEW n \in 1..(h + 1) PROVE n \in Places(B)
    <3>1. CASE n = h + 1
      <4>1. new \in B /\ entry \in new.ship.list
        OBVIOUS
      <4> QED BY <3>1, <4>1, InPlaces
    <3>2. CASE n # h + 1
      <4>1. n \in Places(A)
        BY <3>2 DEF Carries
      <4>2. PICK s \in A : \E e \in s.ship.list : n = e.n
        BY <4>1, InPlaces
      <4>3. CASE s = old
        <5>1. new \in B /\ old.ship.list \subseteq new.ship.list
          OBVIOUS
        <5> QED BY <4>2, <4>3, <5>1, InPlaces
      <4>4. CASE s # old
        <5>1. s \in B
          BY <4>4
        <5> QED BY <4>2, <5>1, InPlaces
      <4> QED BY <4>3, <4>4
    <3> QED BY <3>1, <3>2
  <2> QED BY <2>1, <2>2
<1>4. ASSUME NEW s \in B, NEW t \in B, NEW e \in s.ship.list, NEW f \in t.ship.list, e.n = f.n
      PROVE  s = t /\ e = f
  <2>1. CASE s = new /\ t = new
    <3>1. e \in old.ship.list \cup {entry} /\ f \in old.ship.list \cup {entry}
      BY <2>1
    <3>2. CASE e = entry \/ f = entry
      BY <1>2, <1>4, <2>1, <3>1, <3>2
    <3>3. CASE e \in old.ship.list /\ f \in old.ship.list
      BY <1>4, <2>1, <3>3 DEF Carries
    <3> QED BY <3>1, <3>2, <3>3
  <2>2. CASE s = new /\ t # new
    <3>1. t \in A /\ t # old /\ f.n \in 1..h
      BY <2>2, <1>1, <1>4
    <3>2. e # entry
      BY <1>4, <3>1
    <3>3. e \in old.ship.list /\ old \in A
      BY <2>2, <3>2
    <3> QED BY <1>4, <3>1, <3>3 DEF Carries
  <2>3. CASE s # new /\ t = new
    <3>1. s \in A /\ s # old /\ e.n \in 1..h
      BY <2>3, <1>1, <1>4
    <3>2. f # entry
      BY <1>4, <3>1
    <3>3. f \in old.ship.list /\ old \in A
      BY <2>3, <3>2
    <3> QED BY <1>4, <3>1, <3>3 DEF Carries
  <2>4. CASE s # new /\ t # new
    BY <1>4, <2>4 DEF Carries
  <2> QED BY <2>1, <2>2, <2>3, <2>4
<1>5. ASSUME NEW s \in B, NEW e \in s.ship.list PROVE e.id = log[e.n]
  BY <1>2 DEF Carries
<1> QED BY <1>3, <1>4, <1>5 DEF Carries

(* A step that leaves the shipments, the ids and the other locals of a stream
   alone, and moves its handler only between places of the same kind, keeps
   StreamInv; above all every step of another call does. *)
LEMMA StreamFrame ==
  ASSUME NEW r \in Streams, StreamInv(r),
         ids'[r] = ids[r], combined'[r] = combined[r],
         sent'[r] = sent[r], flushed'[r] = flushed[r],
         \/ pc'[r] = pc[r] /\ todo'[r] = todo[r] /\ msg'[r] = msg[r]
         \/ pc[r] \in {"idle", "recv"} /\ pc'[r] = "recv"
         \/ pc[r] = "dest" /\ pc'[r] \in {"label", "append"} /\ msg'[r] = msg[r]
         \/ pc[r] = "label" /\ pc'[r] = "append" /\ msg'[r] = msg[r]
  PROVE  StreamInv(r)'
<1>1. Keys(r)' = Keys(r) /\ \A a : Carrier(r, a)' = Carrier(r, a)
  BY DEF Keys, Carrier
<1>2. Waiting(r)' = Waiting(r)
  BY <1>1 DEF Waiting, Carrier
<1>3. Handled(r)' = Handled(r)
  BY DEF Handled, Handling
<1>4. Carries(All(r), Handled(r), ids[r])'
  BY <1>2, <1>3 DEF StreamInv, All, Carries, Places
<1> QED
  BY <1>1, <1>4 DEF StreamInv, StreamPlaces, Handling

(* A step of call r changes no variable at another call. *)
LEMMA OtherCalls ==
  ASSUME TypeOK, NEW r \in RPC, NEW q \in RPC \ {r}, Client(r) \/ Handler(r)
  PROVE  /\ pc'[q] = pc[q] /\ msg'[q] = msg[q] /\ todo'[q] = todo[q]
         /\ ids'[q] = ids[q] /\ combined'[q] = combined[q]
         /\ sent'[q] = sent[q] /\ flushed'[q] = flushed[q]
         /\ marker'[q] = marker[q] /\ dest'[q] = dest[q] /\ label'[q] = label[q]
         /\ known'[q] = known[q]
<1> USE DEF TypeOK, Goto, callVars, batchVars
<1>1. CASE Client(r)
  BY <1>1 DEF Client, Call, RecvOrder, RecvId, CloseSend, Cancel
<1>2. CASE StartAccess(r) \/ RaceFatal(r) \/ LookupPanic(r) \/ RecvPanic(r)
  BY <1>2 DEF StartAccess, RaceFatal, LookupPanic, RecvPanic
<1>3. CASE AddOrder(r) \/ UpdateOrder(r) \/ GetOrder(r)
  BY <1>3 DEF AddOrder, UpdateOrder, GetOrder
<1>4. CASE SearchRange(r) \/ SearchVisit(r) \/ SearchSend(r) \/ SearchDone(r)
  BY <1>4 DEF SearchRange, SearchVisit, SearchSend, SearchDone
<1>5. CASE RecvEOF(r) \/ RecvError(r) \/ SendAndClose(r)
  BY <1>5 DEF RecvEOF, RecvError, SendAndClose
<1>6. CASE Destination(r) \/ ShipmentLabel(r)
  BY <1>6 DEF Destination, ShipmentLabel
<1>7. CASE AppendOrder(r)
  BY <1>7 DEF AppendOrder
<1>8. CASE SendShipment(r) \/ SendError(r) \/ BatchDone(r) \/ DrainDone(r)
  BY <1>8 DEF SendShipment, SendError, BatchDone, DrainDone
<1> HIDE DEF TypeOK, Goto, callVars, batchVars
<1> QED
  BY <1>1, <1>2, <1>3, <1>4, <1>5, <1>6, <1>7, <1>8 DEF Handler

LEMMA StreamReceives ==
  ASSUME TypeInv, NEW r \in Streams, StreamInv(r), RecvId(r)
  PROVE  StreamInv(r)'
<1>1. r \in RPC /\ Kind[r] = "ProcessOrders" /\ ids[r] \in Seq(OrderId)
  BY DEF Streams, TypeInv, TypeOK
<1>2. PICK m \in Request(r) :
        /\ msg' = [msg EXCEPT ![r] = m]
        /\ pc' = [pc EXCEPT ![r] = "dest"] /\ ids' = [ids EXCEPT ![r] = Append(@, m.id)]
  BY <1>1 DEF RecvId, Goto
<1>3. m.id \in OrderId
  BY <1>1, <1>2, RequestType
<1>4. /\ pc[r] = "recv" /\ pc'[r] = "dest" /\ msg'[r] = m
      /\ ids'[r] = Append(ids[r], m.id)
      /\ combined' = combined /\ sent' = sent /\ flushed' = flushed
  BY <1>1, <1>2 DEF TypeInv, TypeOK, RecvId, AtRecv, At, batchVars
<1>5. Len(ids'[r]) = Len(ids[r]) + 1 /\ ids'[r][Len(ids'[r])] = m.id
  BY <1>1, <1>3, <1>4
<1>6. Keys(r)' = Keys(r) /\ \A a : Carrier(r, a)' = Carrier(r, a)
  BY <1>4 DEF Keys, Carrier
<1>7. All(r)' = All(r)
  BY <1>4, <1>6 DEF All, Waiting, Carrier
<1>8. Handled(r) = Len(ids[r]) /\ Handled(r)' = Len(ids[r])
  BY <1>1, <1>4, <1>5 DEF Handled, Handling
<1>9. Carries(All(r), Len(ids[r]), Append(ids[r], m.id))
  <2>1. Carries(All(r), Len(ids[r]), ids[r])
    BY <1>8 DEF StreamInv
  <2> QED BY <1>1, <1>3, <2>1, CarriesLonger
<1>10. Carries(All(r), Handled(r), ids[r])'
  BY <1>4, <1>7, <1>8, <1>9 DEF Carries, Places
<1>11. Len(ids'[r]) > 0
  BY <1>1, <1>5
<1> QED
  BY <1>4, <1>5, <1>6, <1>10, <1>11 DEF StreamInv, StreamPlaces, Handling

LEMMA StreamAppends ==
  ASSUME TypeInv, NEW r \in Streams, StreamInv(r), AppendOrder(r)
  PROVE  StreamInv(r)'
<1> DEFINE h == Len(ids[r]) - 1
<1>1. r \in RPC /\ ids[r] \in Seq(OrderId) /\ dest[r] \in Address /\ pc[r] = "append"
  BY DEF Streams, TypeInv, TypeOK, LocalsOK, AppendOrder, At
<1>d. PICK d \in Address : d = dest[r]
  BY <1>1
<1>2. PICK o \in Lookup(msg[r].id) :
        combined' = [combined EXCEPT ![r][d] =
                       [label |-> IF @ = NoShipment THEN label[r] ELSE @.label,
                        list |-> @.list \cup {NewEntry(r, o)}]]
  BY <1>d DEF AppendOrder
<1> DEFINE entry == NewEntry(r, o)
           old == Carrier(r, d)
           new == Carrier(r, d)'
<1>3. /\ combined'[r][d].list = combined[r][d].list \cup {entry}
      /\ \A a \in Address \ {d} : combined'[r][a] = combined[r][a]
  BY <1>1, <1>2 DEF TypeInv, TypeOK
<1>4. ids' = ids /\ sent' = sent /\ flushed' = flushed /\ msg' = msg
  BY DEF AppendOrder
<1>5. new.ship.list = old.ship.list \cup {entry}
  BY <1>3 DEF Carrier
<1>6. h \in Nat /\ entry.n = h + 1 /\ entry.id = ids[r][h + 1]
  BY <1>1 DEF StreamInv, Handling, NewEntry
<1>7. Carries(All(r), h, ids[r]) /\ All(r) = sent[r] \cup {Carrier(r, a) : a \in Keys(r)}
  BY <1>1 DEF StreamInv, Handled, Handling, All, Waiting, Carrier
<1>8. \A s \in All(r) : \A e \in s.ship.list : e.n \in 1..h
  BY <1>7, InPlaces DEF Carries
<1>9. new \notin All(r)
  BY <1>5, <1>6, <1>8
<1>10. old \in All(r) \/ old.ship.list = {}
  BY <1>1, <1>7 DEF Keys, NoShipment, Carrier
<1>11. Keys(r)' = Keys(r) \cup {d}
  <2>1. combined'[r][d] # NoShipment
    BY <1>3 DEF NoShipment
  <2> QED BY <1>1, <1>3, <2>1 DEF Keys
<1>12. \A a \in Keys(r) \ {d} : Carrier(r, a)' = Carrier(r, a) /\ Carrier(r, a) # old
  BY <1>3, <1>4 DEF Carrier, Keys
<1>13. All(r)' = sent[r] \cup {Carrier(r, a)' : a \in Keys(r) \cup {d}}
  <2>1. CASE BatchFull(r)
    <3>1. pc'[r] = "ship" /\ todo'[r] = Keys(r) \cup {d}
      BY <1>1, <1>d, <2>1 DEF AppendOrder, Goto, TypeInv, TypeOK
    <3> QED BY <1>4, <3>1 DEF All, Waiting, Carrier
  <2>2. CASE ~BatchFull(r)
    <3>1. pc'[r] = "recv"
      BY <1>1, <2>2 DEF AppendOrder, Goto, TypeInv, TypeOK
    <3> QED BY <1>4, <1>11, <3>1 DEF All, Waiting, Carrier
  <2> QED BY <2>1, <2>2
<1>14. All(r)' = sent[r] \cup {Carrier(r, a) : a \in Keys(r) \ {d}} \cup {new}
  BY <1>12, <1>13
<1>15. old \notin All(r)' \/ old.ship.list = {}
  <2>1. CASE d \in Keys(r)
    <3>1. old \notin sent[r]
      BY <1>1, <2>1 DEF StreamInv
    <3>2. old # new \/ old.ship.list = {}
      BY <1>7, <1>9, <1>10
    <3> QED BY <1>12, <1>14, <3>1, <3>2
  <2>2. CASE d \notin Keys(r)
    BY <1>1, <2>2 DEF Keys, NoShipment, Carrier
  <2> QED BY <2>1, <2>2
<1>16. /\ new \in All(r)' /\ All(r) \ {old} \subseteq All(r)'
       /\ All(r)' \subseteq All(r) \cup {new}
  BY <1>7, <1>14
<1>17. Carries(All(r)', h + 1, ids[r])
  <2> DEFINE A == All(r)
             B == All(r)'
             log == ids[r]
  <2>1. Carries(A, h, log) /\ h \in Nat
    BY <1>6, <1>7
  <2>2. /\ new \notin A /\ new \in B /\ A \ {old} \subseteq B /\ B \subseteq A \cup {new}
        /\ old \in A \/ old.ship.list = {}
        /\ old \notin B \/ old.ship.list = {}
    BY <1>9, <1>10, <1>15, <1>16
  <2>3. /\ new.ship.list = old.ship.list \cup {entry}
        /\ entry.n = h + 1 /\ entry.id = log[h + 1]
    BY <1>5, <1>6
  <2> HIDE DEF A, B, log, h, old, new, entry
  <2>4. Carries(B, h + 1, log)
    BY <2>1, <2>2, <2>3, CarriesOneMore
  <2> QED BY <2>4 DEF B, log
<1>18. pc'[r] \in {"ship", "recv"} /\ (pc'[r] = "ship" => todo'[r] = Keys(r) \cup {d})
  BY <1>1, <1>d DEF AppendOrder, Goto, TypeInv, TypeOK
<1>19. Handled(r)' = h + 1
  BY <1>1, <1>4, <1>18 DEF Handled, Handling
<1>20. Carries(All(r), Handled(r), ids[r])'
  BY <1>4, <1>17, <1>19 DEF Carries, Places
<1>21. \A a \in Keys(r)' : Carrier(r, a)' \notin sent[r]
  <2>1. new \notin sent[r]
    BY <1>7, <1>9
  <2> QED BY <1>1, <1>11, <1>12, <2>1 DEF StreamInv
<1> QED
  BY <1>4, <1>11, <1>18, <1>20, <1>21 DEF StreamInv, StreamPlaces, Handling

(* A shipment that is sent leaves `todo`: sent and waiting ones together stay. *)
LEMMA StreamSends ==
  ASSUME TypeInv, NEW r \in Streams, StreamInv(r), SendShipment(r)
  PROVE  StreamInv(r)'
<1>1. PICK a \in todo[r] :
        /\ sent' = [sent EXCEPT ![r] = @ \cup {Carrier(r, a)}]
        /\ todo' = [todo EXCEPT ![r] = @ \ {a}]
  BY DEF SendShipment, Carrier
<1>2. /\ r \in RPC /\ pc[r] \in {"ship", "drain"} /\ pc' = pc /\ ids' = ids
      /\ combined' = combined /\ flushed' = flushed
      /\ sent'[r] = sent[r] \cup {Carrier(r, a)} /\ todo'[r] = todo[r] \ {a}
  BY <1>1 DEF SendShipment, Streams, TypeInv, TypeOK
<1>3. Keys(r)' = Keys(r) /\ \A b : Carrier(r, b)' = Carrier(r, b)
  BY <1>2 DEF Keys, Carrier
<1>4. /\ All(r) = sent[r] \cup {Carrier(r, b) : b \in todo[r]}
      /\ All(r)' = sent'[r] \cup {Carrier(r, b) : b \in todo[r] \ {a}}
  BY <1>2 DEF All, Waiting, Carrier
<1>5. All(r)' = All(r)
  BY <1>2, <1>4
<1>6. Carries(All(r), Handled(r), ids[r])'
  BY <1>2, <1>5 DEF StreamInv, Carries, Places, Handled, Handling
<1> QED
  BY <1>2, <1>3, <1>6 DEF StreamInv, StreamPlaces, Handling

(* The beginning and the end of a loop over the map. *)
LEMMA StreamLoops ==
  ASSUME TypeInv, NEW r \in Streams, StreamInv(r),
         RecvEOF(r) \/ SendError(r) \/ BatchDone(r) \/ DrainDone(r)
  PROVE  StreamInv(r)'
<1>1. /\ r \in RPC /\ Kind[r] = "ProcessOrders" /\ ids' = ids /\ sent' = sent
      /\ ids[r] \in Seq(OrderId)
  BY DEF Streams, RecvEOF, SendError, BatchDone, DrainDone, batchVars, TypeInv, TypeOK
<1>2. SUFFICES /\ All(r)' = All(r) /\ Handled(r)' = Handled(r)
               /\ StreamInv(r)' \/ ~Carries(All(r), Handled(r), ids[r])'
  BY <1>1 DEF StreamInv, Carries, Places
<1>3. CASE RecvEOF(r)
  <2>1. /\ pc[r] = "recv" /\ pc'[r] = "drain" /\ todo'[r] = Keys(r)
        /\ combined' = combined /\ flushed' = flushed
    BY <1>1, <1>3 DEF RecvEOF, AtRecv, At, Goto, batchVars, TypeInv, TypeOK
  <2>2. Keys(r)' = Keys(r) /\ All(r)' = All(r)
    BY <1>1, <2>1 DEF All, Waiting, Keys
  <2> QED BY <1>1, <2>1, <2>2 DEF StreamInv, StreamPlaces, Handled, Handling
<1>4. CASE SendError(r)
  <2>1. /\ pc[r] \in {"ship", "drain"} /\ pc'[r] = "error" /\ todo' = todo
        /\ combined' = combined /\ flushed' = flushed
    BY <1>1, <1>4 DEF SendError, Goto, batchVars, TypeInv, TypeOK, StreamInv, StreamPlaces
  <2>2. Keys(r)' = Keys(r) /\ \A a : Carrier(r, a)' = Carrier(r, a)
    BY <2>1 DEF Keys, Carrier
  <2>3. /\ All(r) = sent[r] \cup {Carrier(r, a) : a \in todo[r]}
        /\ All(r)' = sent[r] \cup {Carrier(r, a) : a \in Keys(r)}
    BY <1>1, <2>1, <2>2 DEF All, Waiting, Carrier, Keys
  <2>4. All(r)' = All(r)
    BY <2>1, <2>3 DEF StreamInv
  <2> QED BY <1>1, <2>1, <2>4 DEF StreamInv, StreamPlaces, Handled, Handling
<1>5. CASE BatchDone(r)
  <2>1. /\ pc[r] = "ship" /\ todo[r] = {} /\ pc'[r] = "recv"
        /\ combined'[r] = [a \in Address |-> NoShipment]
    BY <1>1, <1>5 DEF BatchDone, NewMap, At, Goto, TypeInv, TypeOK
  <2>2. Keys(r)' = {}
    BY <2>1 DEF Keys
  <2>3. All(r)' = All(r)
    BY <1>1, <2>1, <2>2 DEF All, Waiting
  <2> QED BY <1>1, <2>1, <2>2, <2>3 DEF StreamInv, StreamPlaces, Handled, Handling
<1>6. CASE DrainDone(r)
  <2>1. /\ pc[r] = "drain" /\ todo[r] = {} /\ pc'[r] = "ok" /\ todo' = todo
        /\ combined' = combined /\ flushed' = flushed
    BY <1>1, <1>6 DEF DrainDone, AllSent, At, Goto, batchVars, TypeInv, TypeOK
  <2>2. All(r)' = All(r)
    BY <1>1, <2>1 DEF All, Waiting
  <2> QED BY <1>1, <2>1, <2>2 DEF StreamInv, StreamPlaces, Handled, Handling
<1> QED BY <1>3, <1>4, <1>5, <1>6

(* Every other step of a stream moves its handler within the map accesses. *)
LEMMA StreamStep ==
  ASSUME TypeInv, NEW r \in Streams, StreamInv(r), Client(r) \/ Handler(r)
  PROVE  StreamInv(r)'
<1>1. r \in RPC /\ Kind[r] = "ProcessOrders" /\ pc[r] \in StreamPlaces
  BY DEF Streams, StreamInv
<1>2. CASE RecvId(r)
  BY <1>2, StreamReceives
<1>3. CASE AppendOrder(r)
  BY <1>3, StreamAppends
<1>4. CASE SendShipment(r)
  BY <1>4, StreamSends
<1>5. CASE RecvEOF(r) \/ SendError(r) \/ BatchDone(r) \/ DrainDone(r)
  BY <1>5, StreamLoops
<1>6. CASE StartAccess(r) \/ RaceFatal(r) \/ LookupPanic(r) \/ CloseSend(r) \/ Cancel(r)
  BY <1>6, StreamFrame DEF StartAccess, RaceFatal, LookupPanic, CloseSend, Cancel,
     callVars, batchVars
<1>7. CASE Call(r)
  <2>1. pc[r] = "idle" /\ pc'[r] = "recv"
    BY <1>1, <1>7 DEF Call, At, Goto, TypeInv, TypeOK
  <2> QED BY <1>7, <2>1, StreamFrame DEF Call, batchVars
<1>8. CASE RecvError(r)
  <2>1. /\ pc[r] = "recv" /\ pc'[r] = "error" /\ ids' = ids /\ combined' = combined
        /\ sent' = sent /\ flushed' = flushed
    BY <1>1, <1>8 DEF RecvError, AfterError, AtRecv, At, Goto, batchVars, TypeInv, TypeOK
  <2>2. Handled(r)' = Handled(r) /\ All(r)' = All(r)
    BY <2>1 DEF Handled, Handling, All, Waiting, Keys
  <2> QED BY <2>1, <2>2 DEF StreamInv, StreamPlaces, Handling, Carries, Places
<1>9. CASE Destination(r)
  <2>1. pc[r] = "dest" /\ pc'[r] \in {"label", "append"}
    BY <1>1, <1>9 DEF Destination, At, Goto, TypeInv, TypeOK
  <2> QED BY <1>9, <2>1, StreamFrame DEF Destination
<1>10. CASE ShipmentLabel(r)
  <2>1. pc[r] = "label" /\ pc'[r] = "append"
    BY <1>1, <1>10 DEF ShipmentLabel, At, Goto, TypeInv, TypeOK
  <2> QED BY <1>10, <2>1, StreamFrame DEF ShipmentLabel
<1>11. /\ ~(AddOrder(r) \/ GetOrder(r) \/ SearchRange(r) \/ SearchVisit(r) \/ SearchSend(r))
       /\ ~(SearchDone(r) \/ RecvOrder(r) \/ UpdateOrder(r) \/ SendAndClose(r) \/ RecvPanic(r))
  BY <1>1 DEF AddOrder, UpdateOrder, StoreOrder, GetOrder, SearchRange, SearchVisit, SearchSend,
     SearchDone, RecvOrder, SendAndClose, RecvPanic, AtRecv, At, StreamPlaces
<1> QED
  BY <1>2, <1>3, <1>4, <1>5, <1>6, <1>7, <1>8, <1>9, <1>10, <1>11 DEF Client, Handler

LEMMA ConservedInit == Init => ConservedInv
<1> SUFFICES ASSUME Init PROVE ConservedInv
  OBVIOUS
<1>1. ASSUME NEW r \in Streams PROVE StreamInv(r)
  <2>1. /\ r \in RPC /\ pc[r] = "idle" /\ ids[r] = <<>> /\ sent[r] = {}
        /\ combined[r] = [a \in Address |-> NoShipment]
    BY DEF Init, Streams
  <2>2. Keys(r) = {}
    BY <2>1 DEF Keys
  <2>3. All(r) = {} /\ Handled(r) = 0
    BY <2>1, <2>2 DEF All, Waiting, Handled, Handling
  <2>4. Carries({}, 0, <<>>)
    BY DEF Carries, Places
  <2> QED BY <2>1, <2>2, <2>3, <2>4 DEF StreamInv, StreamPlaces, Handling
<1> QED BY <1>1, TypeInit DEF ConservedInv

LEMMA ConservedStep == ConservedInv /\ [Next]_vars => ConservedInv'
<1> SUFFICES ASSUME ConservedInv, [Next]_vars PROVE ConservedInv'
  OBVIOUS
<1>1. TypeInv'
  BY TypeStep DEF ConservedInv
<1>2. ASSUME NEW q \in Streams PROVE StreamInv(q)'
  <2>1. StreamInv(q) /\ TypeInv /\ TypeOK /\ q \in RPC
    BY DEF ConservedInv, TypeInv, Streams
  <2>2. CASE UNCHANGED vars
    BY <2>1, <2>2, StreamFrame DEF vars, callVars, batchVars
  <2>3. ASSUME NEW r \in RPC, Client(r) \/ Handler(r) PROVE StreamInv(q)'
    <3>1. CASE q = r
      BY <2>1, <2>3, <3>1, StreamStep
    <3>2. CASE q # r
      BY <2>1, <2>3, <3>2, OtherCalls, StreamFrame
    <3> QED BY <3>1, <3>2
  <2> QED BY <2>2, <2>3 DEF Next
<1> QED BY <1>1, <1>2 DEF ConservedInv

(* No order a stream has taken is lost, shipped twice or shipped under another
   id, whatever the other calls do to the map, and success means all were sent. *)
THEOREM OrdersAreConserved == Spec => []OrdersConserved
<1>1. Spec => []ConservedInv
  BY ConservedInit, ConservedStep, PTL DEF Spec
<1>2. ASSUME ConservedInv PROVE OrdersConserved
  <2> SUFFICES ASSUME NEW r \in Streams, pc[r] = "ok" PROVE Places(sent[r]) = 1..Len(ids[r])
    BY <1>2 DEF OrdersConserved, ConservedInv, StreamInv, Carries
  <2>1. StreamInv(r) /\ todo[r] = {}
    BY <1>2 DEF ConservedInv, StreamInv
  <2>2. All(r) = sent[r] /\ Handled(r) = Len(ids[r])
    BY <2>1 DEF All, Waiting, Handled, Handling
  <2> QED BY <2>1, <2>2 DEF StreamInv, Carries
<1> QED BY <1>1, <1>2, PTL

-----------------------------------------------------------------------------
(* The map and its history: what every query rests on. *)

(* Which handlers are at which places. *)
KindPlaces ==
  \A r \in RPC :
    /\ pc[r] \in {"dest", "label", "append", "ship", "drain"} => Kind[r] = "ProcessOrders"
    /\ pc[r] \in {"range", "scan", "match"} => Kind[r] = "SearchOrders"
    /\ pc[r] = "get" => Kind[r] = "GetOrder"
    /\ Kind[r] = "GetOrder" => pc[r] \in {"idle", "get", "ok", "error"}

(* What is stored has been stored by somebody, and short of a data race nothing that
   was ever stored is gone: the map only grows. *)
History ==
  /\ \A id \in OrderId : orders[id] \in had[id] \cup {Nil}
  /\ ~raced => \A id \in OrderId : had[id] # {} => orders[id] # Nil
  /\ ~raced => \A r \in RPC : known[r] \subseteq Stored

MapInv == TypeInv /\ KindPlaces /\ History

(* The steps that leave the handler's place and its variables alone. *)
Quiet(r) == StartAccess(r) \/ RaceFatal(r) \/ CloseSend(r) \/ Cancel(r)
            \/ LookupPanic(r) \/ RecvPanic(r)

LEMMA QuietStep ==
  ASSUME NEW r, Quiet(r)
  PROVE  UNCHANGED <<pc, msg, todo, ids, orders, had, known, batchVars>> /\ (raced => raced')
<1>1. CASE StartAccess(r)
  BY <1>1 DEF StartAccess, storeVars, callVars
<1>2. CASE RaceFatal(r) \/ LookupPanic(r) \/ RecvPanic(r)
  BY <1>2 DEF RaceFatal, LookupPanic, RecvPanic, storeVars, callVars
<1>3. CASE CloseSend(r) \/ Cancel(r)
  BY <1>3 DEF CloseSend, Cancel, storeVars
<1> QED BY <1>1, <1>2, <1>3 DEF Quiet

(* What a call can do, by its method. *)
LEMMA StepsByKind ==
  ASSUME KindPlaces, NEW r \in RPC, Client(r) \/ Handler(r)
  PROVE  \/ Quiet(r) \/ Call(r)
         \/ Kind[r] = "AddOrder" /\ AddOrder(r)
         \/ Kind[r] = "GetOrder" /\ GetOrder(r)
         \/ Kind[r] = "SearchOrders" /\ (SearchRange(r) \/ SearchVisit(r) \/ SearchSend(r)
                                         \/ SearchDone(r) \/ SendError(r))
         \/ Kind[r] = "UpdateOrders" /\ (RecvOrder(r) \/ UpdateOrder(r) \/ SendAndClose(r))
         \/ Kind[r] = "ProcessOrders" /\
              (RecvId(r) \/ RecvEOF(r) \/ RecvError(r) \/ Destination(r) \/ ShipmentLabel(r)
               \/ AppendOrder(r) \/ SendShipment(r) \/ SendError(r) \/ BatchDone(r) \/ DrainDone(r))
<1>1. GetOrder(r) => Kind[r] = "GetOrder"
  BY DEF KindPlaces, GetOrder, At
<1>2. SearchRange(r) \/ SearchVisit(r) \/ SearchSend(r) \/ SearchDone(r) => Kind[r] = "SearchOrders"
  BY DEF KindPlaces, SearchRange, SearchVisit, SearchSend, SearchDone, At
<1>3. /\ AddOrder(r) => Kind[r] = "AddOrder"
      /\ RecvOrder(r) \/ UpdateOrder(r) \/ SendAndClose(r) => Kind[r] = "UpdateOrders"
      /\ RecvId(r) \/ RecvEOF(r) \/ RecvError(r) => Kind[r] = "ProcessOrders"
  BY DEF AddOrder, RecvOrder, UpdateOrder, SendAndClose, RecvId, RecvEOF, RecvError, AtRecv
<1>4. Destination(r) \/ ShipmentLabel(r) \/ AppendOrder(r) => Kind[r] = "ProcessOrders"
  BY DEF KindPlaces, Destination, ShipmentLabel, AppendOrder, At
<1>5. SendShipment(r) \/ BatchDone(r) \/ DrainDone(r) => Kind[r] = "ProcessOrders"
  BY DEF KindPlaces, SendShipment, BatchDone, DrainDone, At
<1>6. SendError(r) => Kind[r] \in {"SearchOrders", "ProcessOrders"}
  BY DEF KindPlaces, SendError
<1> QED BY <1>1, <1>2, <1>3, <1>4, <1>5, <1>6 DEF Client, Handler, Quiet

LEMMA PlacesStep ==
  ASSUME TypeInv, KindPlaces, NEW r \in RPC, Client(r) \/ Handler(r)
  PROVE  KindPlaces'
<1>1. \A q \in RPC \ {r} : pc'[q] = pc[q]
  BY OtherCalls DEF TypeInv
<1> SUFFICES
      /\ pc'[r] \in {"dest", "label", "append", "ship", "drain"} => Kind[r] = "ProcessOrders"
      /\ pc'[r] \in {"range", "scan", "match"} => Kind[r] = "SearchOrders"
      /\ pc'[r] = "get" => Kind[r] = "GetOrder"
      /\ Kind[r] = "GetOrder" => pc'[r] \in {"idle", "get", "ok", "error"}
  BY <1>1 DEF KindPlaces
<1> USE DEF TypeInv, TypeOK, Goto
<1>2. CASE Quiet(r)
  BY <1>2, QuietStep DEF KindPlaces
<1>3. CASE Call(r)
  BY <1>3, KindAssumption DEF Call, Method
<1>4. CASE Kind[r] = "AddOrder" /\ AddOrder(r)
  BY <1>4 DEF AddOrder
<1>5. CASE Kind[r] = "GetOrder" /\ GetOrder(r)
  BY <1>5 DEF GetOrder
<1>6. CASE Kind[r] = "SearchOrders" /\ (SearchRange(r) \/ SearchVisit(r) \/ SearchSend(r)
                                         \/ SearchDone(r) \/ SendError(r))
  <2>1. pc'[r] \in {"scan", "match", "ok", "error"}
    BY <1>6 DEF SearchRange, SearchVisit, SearchSend, SearchDone, SendError, At
  <2> QED BY <1>6, <2>1
<1>7. CASE Kind[r] = "UpdateOrders" /\ (RecvOrder(r) \/ UpdateOrder(r) \/ SendAndClose(r))
  <2>1. pc'[r] \in {"store", "recv", "ok", "error"}
    BY <1>7 DEF RecvOrder, UpdateOrder, SendAndClose, Done
  <2> QED BY <1>7, <2>1
<1>8. CASE Kind[r] = "ProcessOrders" /\
             (RecvId(r) \/ RecvEOF(r) \/ RecvError(r) \/ Destination(r) \/ ShipmentLabel(r)
              \/ AppendOrder(r) \/ SendShipment(r) \/ SendError(r) \/ BatchDone(r) \/ DrainDone(r))
  <2>1. pc'[r] \in {"dest", "drain", "error", "append", "label", "ship", "recv", "ok"}
    BY <1>8 DEF RecvId, RecvEOF, RecvError, AfterError, Destination, ShipmentLabel, AppendOrder,
       SendShipment, SendError, BatchDone, DrainDone
  <2> QED BY <1>8, <2>1
<1> HIDE DEF TypeInv, TypeOK, Goto
<1> QED BY <1>2, <1>3, <1>4, <1>5, <1>6, <1>7, <1>8, StepsByKind

(* Only StoreOrder writes to the map, only Call takes a note of what is stored. *)
LEMMA StoreStep ==
  ASSUME KindPlaces, NEW r \in RPC, Client(r) \/ Handler(r)
  PROVE  /\ raced => raced'
         /\ UNCHANGED <<orders, had>> \/ StoreOrder(r)
         /\ UNCHANGED known \/ Call(r)
<1>1. CASE Quiet(r)
  BY <1>1, QuietStep
<1>2. CASE Call(r)
  BY <1>2 DEF Call, storeVars
<1>3. CASE AddOrder(r) \/ UpdateOrder(r)
  BY <1>3 DEF AddOrder, UpdateOrder
<1>4. CASE GetOrder(r) \/ SearchRange(r) \/ SearchVisit(r) \/ SearchSend(r) \/ SearchDone(r)
  BY <1>4 DEF GetOrder, SearchRange, SearchVisit, SearchSend, SearchDone, storeVars
<1>5. CASE RecvOrder(r) \/ SendAndClose(r) \/ RecvId(r) \/ RecvEOF(r) \/ RecvError(r)
  BY <1>5 DEF RecvOrder, SendAndClose, RecvId, RecvEOF, RecvError, storeVars
<1>6. CASE Destination(r) \/ ShipmentLabel(r) \/ AppendOrder(r)
  BY <1>6 DEF Destination, ShipmentLabel, AppendOrder, storeVars
<1>7. CASE SendShipment(r) \/ SendError(r) \/ BatchDone(r) \/ DrainDone(r)
  BY <1>7 DEF SendShipment, SendError, BatchDone, DrainDone, storeVars
<1> QED BY <1>1, <1>2, <1>3, <1>4, <1>5, <1>6, <1>7, StepsByKind

LEMMA HistoryStep ==
  ASSUME MapInv, NEW r \in RPC, Client(r) \/ Handler(r)
  PROVE  /\ History'
         /\ \A id \in OrderId : had[id] \subseteq had'[id]
         /\ ~raced' => Stored \subseteq Stored'
<1> USE DEF MapInv, History, TypeInv, TypeOK
<1>1. raced => raced'
  BY StoreStep
<1>2. CASE UNCHANGED <<orders, had>>
  <2>1. Stored' = Stored
    BY <1>2 DEF Stored
  <2>2. CASE UNCHANGED known
    BY <1>1, <1>2, <2>1, <2>2
  <2>3. CASE Call(r)
    BY <1>1, <1>2, <2>1, <2>3 DEF Call
  <2> QED BY <1>2, <2>1, <2>2, <2>3, StoreStep
<1>3. CASE StoreOrder(r)
  <2>1. msg[r].id \in OrderId /\ msg[r].order \in Order /\ msg[r].order # Nil
    BY <1>3, NilAssumption DEF StoreOrder, At, LocalsOK
  <2>2. /\ had' = [had EXCEPT ![msg[r].id] = @ \cup {msg[r].order}]
        /\ orders' = [orders EXCEPT ![msg[r].id] = msg[r].order] \/ (raced /\ orders' = orders)
    BY <1>3 DEF StoreOrder, Put
  <2>3. UNCHANGED known
    BY <1>3, StoreStep DEF Call, StoreOrder, At
  <2>4. \A id \in OrderId : had[id] \subseteq had'[id]
    BY <2>1, <2>2
  <2>5. \A id \in OrderId : orders'[id] \in had'[id] \cup {Nil}
    BY <2>1, <2>2
  <2>6. ASSUME ~raced' PROVE /\ Stored \subseteq Stored'
                             /\ \A id \in OrderId : had'[id] # {} => orders'[id] # Nil
    <3>1. orders' = [orders EXCEPT ![msg[r].id] = msg[r].order] /\ ~raced
      BY <1>1, <2>2, <2>6
    <3>2. Stored \subseteq Stored'
      BY <2>1, <3>1 DEF Stored
    <3> QED BY <2>1, <2>2, <3>1, <3>2
  <2> QED BY <1>1, <2>3, <2>4, <2>5, <2>6
<1> HIDE DEF MapInv, History, TypeInv, TypeOK
<1> QED BY <1>2, <1>3, StoreStep DEF MapInv

LEMMA MapInit == Init => MapInv
<1>1. Init => KindPlaces /\ History
  BY DEF Init, KindPlaces, History, Stored
<1> QED BY <1>1, TypeInit DEF MapInv

LEMMA MapStep == MapInv /\ [Next]_vars => MapInv'
<1> SUFFICES ASSUME MapInv, [Next]_vars PROVE MapInv'
  OBVIOUS
<1>1. TypeInv'
  BY TypeStep DEF MapInv
<1>2. CASE UNCHANGED vars
  BY <1>1, <1>2 DEF MapInv, KindPlaces, History, Stored, vars, storeVars, callVars
<1>3. ASSUME NEW r \in RPC, Client(r) \/ Handler(r) PROVE MapInv'
  BY <1>1, <1>3, PlacesStep, HistoryStep DEF MapInv
<1> QED BY <1>2, <1>3 DEF Next

LEMMA MapInduction == Spec => []MapInv
BY MapInit, MapStep, PTL DEF Spec

-----------------------------------------------------------------------------
(* GetOrder, UpdateOrders and the lookups of ProcessOrders. *)

LEMMA FindStep == MapInv /\ GetFindsKnownOrders /\ [Next]_vars => GetFindsKnownOrders'
<1> SUFFICES ASSUME MapInv, GetFindsKnownOrders, [Next]_vars,
                    NEW q \in RPC, Kind[q] = "GetOrder", pc'[q] = "error", ~raced'
             PROVE  msg'[q].id \notin known'[q]
  BY DEF GetFindsKnownOrders
<1> USE DEF MapInv, TypeInv, TypeOK
<1>1. CASE UNCHANGED vars
  BY <1>1 DEF GetFindsKnownOrders, vars, callVars
<1>2. ASSUME NEW r \in RPC \ {q}, Client(r) \/ Handler(r) PROVE msg'[q].id \notin known'[q]
  BY <1>2, OtherCalls, StoreStep DEF GetFindsKnownOrders
<1>3. CASE Client(q) \/ Handler(q)
  <2>1. CASE Quiet(q)
    BY <1>3, <2>1, QuietStep, StoreStep DEF GetFindsKnownOrders
  <2>2. CASE Call(q)
    BY <2>2 DEF Call, Goto
  <2>3. CASE GetOrder(q)
    <3>1. /\ ~raced /\ orders[msg[q].id] = Nil /\ msg'[q].id = msg[q].id /\ known' = known
          /\ msg[q].id \in OrderId
      BY <2>3 DEF GetOrder, Goto, At, Lookup, LocalsOK
    <3> QED BY <3>1 DEF History, Stored
  <2> QED BY <1>3, <2>1, <2>2, <2>3, StepsByKind
<1> QED BY <1>1, <1>2, <1>3 DEF Next

(* dev/grpc/basic/server/order.go:38-46: GetOrder finds what was there when the call
   was made, whatever is stored meanwhile. *)
THEOREM KnownOrdersAreFound == Spec => []GetFindsKnownOrders
<1>1. Init => GetFindsKnownOrders
  BY DEF Init, GetFindsKnownOrders
<1> QED BY <1>1, FindStep, MapInduction, PTL DEF Spec

LEMMA UpdateStep == MapInv /\ AnsweredUpdatesAreStored /\ [Next]_vars => AnsweredUpdatesAreStored'
<1> SUFFICES ASSUME MapInv, AnsweredUpdatesAreStored, [Next]_vars,
                    NEW q \in RPC, Kind[q] = "UpdateOrders", ~raced',
                    NEW i \in 1..Len(ids'[q])
             PROVE  ids'[q][i] \in Stored'
  BY DEF AnsweredUpdatesAreStored
<1>t. ids[q] \in Seq(OrderId) /\ TypeOK /\ MapInv
  BY DEF MapInv, TypeInv, TypeOK
<1>1. CASE UNCHANGED vars
  BY <1>1 DEF AnsweredUpdatesAreStored, Stored, vars, storeVars, callVars
<1>2. ASSUME NEW r \in RPC, Client(r) \/ Handler(r), ids'[q] = ids[q]
      PROVE  ids'[q][i] \in Stored'
  <2>1. ~raced /\ Stored \subseteq Stored'
    BY <1>2, StoreStep, HistoryStep DEF MapInv
  <2> QED BY <1>2, <2>1 DEF AnsweredUpdatesAreStored
<1>3. ASSUME NEW r \in RPC \ {q}, Client(r) \/ Handler(r) PROVE ids'[q] = ids[q]
  BY <1>3, <1>t, OtherCalls
<1>4. CASE Client(q) \/ Handler(q)
  <2>1. CASE Quiet(q) \/ Call(q) \/ RecvOrder(q) \/ SendAndClose(q)
    <3>1. ids' = ids
      BY <2>1, QuietStep DEF Call, RecvOrder, SendAndClose
    <3> QED BY <1>2, <1>4, <3>1
  <2>2. CASE UpdateOrder(q)
    <3>1. ~raced /\ Stored \subseteq Stored'
      BY <1>4, StoreStep, HistoryStep DEF MapInv
    <3>2. msg[q].id \in OrderId /\ msg[q].order \in Order /\ msg[q].order # Nil
      BY <2>2, NilAssumption DEF UpdateOrder, StoreOrder, At, MapInv, TypeInv, LocalsOK
    <3>3. orders' = [orders EXCEPT ![msg[q].id] = msg[q].order]
      BY <2>2, <3>1 DEF UpdateOrder, StoreOrder, Put
    <3>4. msg[q].id \in Stored'
      BY <3>2, <3>3 DEF MapInv, TypeInv, TypeOK, Stored
    <3>5. ids'[q] = Append(ids[q], msg[q].id)
      BY <2>2, <1>t DEF UpdateOrder, TypeOK
    <3>6. (i \in 1..Len(ids[q]) /\ ids'[q][i] = ids[q][i]) \/ ids'[q][i] = msg[q].id
      BY <1>t, <3>2, <3>5
    <3> QED BY <3>1, <3>4, <3>6 DEF AnsweredUpdatesAreStored
  <2> QED BY <1>4, <2>1, <2>2, StepsByKind DEF MapInv
<1> QED BY <1>1, <1>2, <1>3, <1>4 DEF Next

(* order.go:77-83: what an answer of UpdateOrders names is in the map. *)
THEOREM UpdatesAreStored == Spec => []AnsweredUpdatesAreStored
<1>1. Init => AnsweredUpdatesAreStored
  BY DEF Init, AnsweredUpdatesAreStored
<1> QED BY <1>1, UpdateStep, MapInduction, PTL DEF Spec

(* A process that has stopped takes no step. *)
LEMMA OnlyServing ==
  ASSUME KindPlaces, NEW r \in RPC, Client(r) \/ Handler(r)
  PROVE  status = "serving"
<1>1. CASE Quiet(r)
  BY <1>1 DEF Quiet, StartAccess, RaceFatal, CloseSend, Cancel, LookupPanic, RecvPanic, AtRecv, At
<1>2. CASE Call(r) \/ AddOrder(r) \/ UpdateOrder(r) \/ GetOrder(r) \/ RecvOrder(r)
  BY <1>2 DEF Call, AddOrder, UpdateOrder, StoreOrder, GetOrder, RecvOrder, AtRecv, At
<1>3. CASE SearchRange(r) \/ SearchVisit(r) \/ SearchSend(r) \/ SearchDone(r)
  BY <1>3 DEF SearchRange, SearchVisit, SearchSend, SearchDone, At
<1>4. CASE SendAndClose(r) \/ RecvId(r) \/ RecvEOF(r) \/ RecvError(r)
  BY <1>4 DEF SendAndClose, RecvId, RecvEOF, RecvError, AtRecv, At
<1>5. CASE Destination(r) \/ ShipmentLabel(r) \/ AppendOrder(r)
  BY <1>5 DEF Destination, ShipmentLabel, AppendOrder, At
<1>6. CASE SendShipment(r) \/ SendError(r) \/ BatchDone(r) \/ DrainDone(r)
  BY <1>6 DEF SendShipment, SendError, BatchDone, DrainDone, At
<1> QED BY <1>1, <1>2, <1>3, <1>4, <1>5, <1>6, StepsByKind

LEMMA PanicStep == MapInv /\ KnownOrdersAreSafe /\ [Next]_vars => KnownOrdersAreSafe'
<1> SUFFICES ASSUME MapInv, KnownOrdersAreSafe, [Next]_vars, status' = "lookupPanic", ~raced'
             PROVE  \E r \in Streams :
                      (/\ Handling(r)
                       /\ msg[r].id \notin known[r] \/ Nil \in Addresses(msg[r].id))'
  BY DEF KnownOrdersAreSafe
<1>1. CASE UNCHANGED vars
  BY <1>1 DEF KnownOrdersAreSafe, Handling, Addresses, vars, storeVars, callVars
<1>2. ASSUME NEW r \in RPC, Client(r) \/ Handler(r)
      PROVE  \E s \in Streams :
               (/\ Handling(s)
                /\ msg[s].id \notin known[s] \/ Nil \in Addresses(msg[s].id))'
  <2>1. status = "serving" /\ ~raced
    BY <1>2, OnlyServing, StoreStep DEF MapInv
  <2>2. LookupPanic(r)
    <3>1. CASE Quiet(r)
      BY <2>1, <3>1 DEF Quiet, StartAccess, RaceFatal, CloseSend, Cancel, RecvPanic
    <3>2. ~Quiet(r) => status' = status
      BY <1>2, StepsByKind DEF MapInv, Call, AddOrder, GetOrder, SearchRange, SearchVisit, SearchSend,
         SearchDone, SendError, RecvOrder, UpdateOrder, SendAndClose, RecvId, RecvEOF, RecvError,
         Destination, ShipmentLabel, AppendOrder, SendShipment, BatchDone, DrainDone
    <3> QED BY <2>1, <3>1, <3>2
  <2>3. /\ pc[r] \in {"dest", "label"} /\ r \in Streams /\ msg[r].id \in OrderId
        /\ UNCHANGED <<pc, msg, known, had>>
    BY <2>2 DEF LookupPanic, MapInv, KindPlaces, TypeInv, LocalsOK, Streams, storeVars, callVars
  <2>4. ~HasAddress(orders[msg[r].id])
    BY <2>1, <2>2 DEF LookupPanic, Lookup
  <2>5. CASE orders[msg[r].id] = Nil
    BY <2>1, <2>3, <2>5 DEF MapInv, History, Stored, Handling
  <2>6. CASE orders[msg[r].id] # Nil
    <3>1. orders[msg[r].id] \in had[msg[r].id] /\ orders[msg[r].id].addr = Nil
      BY <2>3, <2>4, <2>6 DEF MapInv, History, HasAddress
    <3> QED BY <2>3, <3>1 DEF Addresses, Handling
  <2> QED BY <2>5, <2>6
<1> QED BY <1>1, <1>2 DEF Next

(* order.go:107, 115: the panic over a missing order or address is the fault of the
   request or of an order stored without address, never of another call's timing. *)
THEOREM KnownOrdersDoNotPanic == Spec => []KnownOrdersAreSafe
<1>1. Init => KnownOrdersAreSafe
  BY DEF Init, KnownOrdersAreSafe
<1> QED BY <1>1, PanicStep, MapInduction, PTL DEF Spec

-----------------------------------------------------------------------------
(* SearchOrders. *)

(* How often a call has answered with an id. *)
Times(log, id) == Cardinality({i \in 1..Len(log) : log[i] = id})

LEMMA TimesEmpty == ASSUME NEW id PROVE Times(<<>>, id) = 0
<1>1. {i \in 1..Len(<<>>) : <<>>[i] = id} = {}
  OBVIOUS
<1> QED BY <1>1, FS_EmptySet DEF Times

LEMMA TimesAppend ==
  ASSUME NEW log \in Seq(OrderId), NEW x \in OrderId, NEW id
  PROVE  /\ Times(log, id) \in Nat
         /\ Times(Append(log, x), id) = Times(log, id) + (IF x = id THEN 1 ELSE 0)
<1> DEFINE Found(l) == {i \in 1..Len(l) : l[i] = id}
<1>1. IsFiniteSet(Found(log)) /\ Times(log, id) \in Nat
  <2>1. IsFiniteSet(1..Len(log))
    BY FS_Interval
  <2>2. Found(log) \subseteq 1..Len(log)
    OBVIOUS
  <2>3. IsFiniteSet(Found(log))
    BY <2>1, <2>2, FS_Subset
  <2> QED BY <2>3, FS_CardinalityType DEF Times
<1>2. Len(Append(log, x)) = Len(log) + 1 /\ Append(log, x)[Len(log) + 1] = x
      /\ \A i \in 1..Len(log) : Append(log, x)[i] = log[i]
  OBVIOUS
<1>3. Len(log) + 1 \notin Found(log) /\ Len(log) \in Nat
  OBVIOUS
<1>4. CASE x = id
  <2>1. Found(Append(log, x)) = Found(log) \cup {Len(log) + 1}
    BY <1>2, <1>3, <1>4
  <2>2. Cardinality(Found(log) \cup {Len(log) + 1}) = Cardinality(Found(log)) + 1
    BY <1>1, <1>3, FS_AddElement
  <2> QED BY <1>1, <1>4, <2>1, <2>2 DEF Times
<1>5. CASE x # id
  <2>1. Found(Append(log, x)) = Found(log)
    BY <1>2, <1>3, <1>5
  <2>2. Times(Append(log, x), id) = Times(log, id)
    BY <2>1 DEF Times
  <2> QED BY <1>1, <1>5, <2>2
<1> QED BY <1>1, <1>4, <1>5

HitsOf(id) == {o.hits : o \in had[id]}
Answered(r, id) ==
  Times(ids[r], id) \in HitsOf(id) \/ (Times(ids[r], id) = 0 /\ id \notin known[r])

(* order.go:52-61: what the loop has not visited has not been answered; what it has
   visited has, but for the order whose items are being sent. *)
SearchInv(r) ==
  /\ pc[r] \in {"idle", "range"} => ids[r] = <<>>
  /\ pc[r] \in {"scan", "match"} => \A id \in todo[r] : Times(ids[r], id) = 0
  /\ pc[r] = "scan" => \A id \in OrderId \ todo[r] : Answered(r, id)
  /\ pc[r] = "match" =>
       /\ msg[r].id \notin todo[r]
       /\ \A id \in OrderId \ (todo[r] \cup {msg[r].id}) : Answered(r, id)
       /\ Times(ids[r], msg[r].id) + msg[r].order.hits \in HitsOf(msg[r].id)
  /\ pc[r] = "ok" => \A id \in OrderId : Answered(r, id)

Searches == {r \in RPC : Kind[r] = "SearchOrders"}
AllSearches == ~raced => \A r \in Searches : SearchInv(r)

(* A search is not disturbed by what is stored meanwhile. *)
LEMMA SearchFrame ==
  ASSUME NEW r \in RPC, SearchInv(r), TypeInv,
         pc'[r] = pc[r], msg'[r] = msg[r], todo'[r] = todo[r], ids'[r] = ids[r],
         known'[r] = known[r], \A id \in OrderId : had[id] \subseteq had'[id]
  PROVE  SearchInv(r)'
<1>1. \A id \in OrderId : HitsOf(id) \subseteq HitsOf(id)'
  BY DEF HitsOf
<1>2. \A id \in OrderId : Answered(r, id) => Answered(r, id)'
  BY <1>1 DEF Answered
<1>3. pc[r] = "match" => msg[r].id \in OrderId
  BY DEF TypeInv, LocalsOK
<1> QED BY <1>1, <1>2, <1>3 DEF SearchInv

LEMMA SearchMoves ==
  ASSUME MapInv, NEW r \in Searches, SearchInv(r), ~raced, known'[r] = known[r] \/ Call(r),
         had' = had,
         Call(r) \/ SearchRange(r) \/ SearchVisit(r) \/ SearchSend(r) \/ SearchDone(r) \/ SendError(r)
  PROVE  SearchInv(r)'
<1>1. /\ r \in RPC /\ Kind[r] = "SearchOrders" /\ ids[r] \in Seq(OrderId)
      /\ todo[r] \in SUBSET (Address \cup OrderId)
      /\ pc \in [RPC -> Pc] /\ msg \in [RPC -> Message]
      /\ ids \in [RPC -> Seq(OrderId)] /\ todo \in [RPC -> SUBSET (Address \cup OrderId)]
  BY DEF Searches, MapInv, TypeInv, TypeOK
<1>2. \A id : HitsOf(id)' = HitsOf(id)
  BY DEF HitsOf
<1>3. CASE Call(r)
  BY <1>1, <1>3 DEF Call, Goto, At, SearchInv
<1>4. CASE SearchRange(r)
  <2>1. PICK extra \in SUBSET (OrderId \ Stored) : todo' = [todo EXCEPT ![r] = Stored \cup extra]
    BY <1>4 DEF SearchRange
  <2>2. pc[r] = "range" /\ pc'[r] = "scan" /\ ids' = ids /\ ids[r] = <<>> /\ known'[r] = known[r]
    BY <1>1, <1>4 DEF SearchRange, At, Goto, SearchInv, Call
  <2>3. \A id : Times(ids'[r], id) = 0
    BY <2>2, TimesEmpty
  <2>4. \A id \in OrderId \ todo'[r] : id \notin known[r]
    BY <1>1, <2>1 DEF MapInv, History
  <2> QED BY <2>2, <2>3, <2>4 DEF SearchInv, Answered
<1>5. CASE SearchVisit(r)
  <2> DEFINE Visit(id, o) ==
        /\ todo' = [todo EXCEPT ![r] = @ \ {id}]
        /\ IF Match(o)
             THEN Goto(r, "match") /\ msg' = [msg EXCEPT ![r] = [id |-> id, order |-> o]]
             ELSE UNCHANGED <<pc, msg>>
  <2>1. PICK id \in todo[r] : \E o \in Lookup(id) : Visit(id, o)
    BY <1>5 DEF SearchVisit
  <2>2. PICK o \in Lookup(id) : Visit(id, o)
    BY <2>1
  <2>a. pc[r] = "scan" /\ ids' = ids /\ known'[r] = known[r]
    BY <1>5 DEF SearchVisit, At, Call
  <2>b. id \in OrderId
    BY <1>1, <2>1, <2>a DEF MapInv, TypeInv, LocalsOK
  <2>c. o = orders[id]
    BY <2>2 DEF Lookup
  <2>d. o \in Order \cup {Nil}
    BY <2>2, <2>b, LookupType DEF MapInv, TypeInv
  <2>3. /\ id \in OrderId /\ o = orders[id] /\ o \in Order \cup {Nil}
        /\ pc[r] = "scan" /\ ids' = ids /\ known'[r] = known[r]
    BY <2>a, <2>b, <2>c, <2>d
  <2>4. /\ Times(ids[r], id) = 0 /\ todo'[r] = todo[r] \ {id}
        /\ \A x \in todo'[r] : Times(ids[r], x) = 0
        /\ \A x \in OrderId \ todo[r] : Answered(r, x)
    BY <1>1, <2>2, <2>3 DEF SearchInv
  <2>5. \A x : Answered(r, x)' <=> Answered(r, x)
    BY <1>2, <2>3 DEF Answered
  <2>6. CASE Match(o)
    <3>1. pc'[r] = "match" /\ msg'[r] = [id |-> id, order |-> o]
      BY <1>1, <2>2, <2>6 DEF Goto
    <3>2. o.hits \in HitsOf(id) /\ o.hits \in Nat
      BY <2>3, <2>6, BoundAssumption DEF Match, MapInv, History, HitsOf, Order
    <3>3. Times(ids[r], id) + o.hits = o.hits
      BY <2>4, <3>2
    <3> QED BY <1>2, <2>3, <2>4, <2>5, <3>1, <3>2, <3>3 DEF SearchInv
  <2>7. CASE ~Match(o)
    <3>1. pc' = pc /\ msg' = msg
      BY <2>2, <2>7
    <3>2. Answered(r, id)
      <4>1. CASE o = Nil
        BY <1>1, <2>3, <2>4, <4>1 DEF Answered, MapInv, History, Stored
      <4>2. CASE o # Nil
        <5>1. o \in had[id] /\ o.hits = 0
          BY <2>3, <2>7, <4>2, BoundAssumption DEF Match, MapInv, History, Order
        <5> QED BY <2>4, <5>1 DEF Answered, HitsOf
      <4> QED BY <4>1, <4>2
    <3> QED BY <2>3, <2>4, <2>5, <3>1, <3>2 DEF SearchInv
  <2> QED BY <2>6, <2>7
<1>6. CASE SearchSend(r)
  <2>1. /\ pc[r] = "match" /\ msg[r].id \in OrderId /\ msg[r].order \in Order
        /\ msg[r].order.hits > 0 /\ msg[r].order.hits \in Nat
        /\ ids'[r] = Append(ids[r], msg[r].id) /\ todo' = todo /\ known'[r] = known[r]
        /\ msg' = [msg EXCEPT ![r].order.hits = @ - 1]
        /\ pc'[r] = IF msg[r].order.hits = 1 THEN "scan" ELSE "match"
    BY <1>1, <1>6, BoundAssumption DEF SearchSend, At, Goto, MapInv, TypeInv, LocalsOK, Call, Order
  <2>2. msg'[r].id = msg[r].id /\ msg'[r].order.hits = msg[r].order.hits - 1
    BY <1>1, <2>1 DEF Message, Order
  <2>3. /\ \A id : id # msg[r].id => Times(ids'[r], id) = Times(ids[r], id)
        /\ Times(ids'[r], msg[r].id) = Times(ids[r], msg[r].id) + 1
        /\ Times(ids[r], msg[r].id) \in Nat
    BY <1>1, <2>1, TimesAppend
  <2>4. Times(ids'[r], msg[r].id) + (msg[r].order.hits - 1) \in HitsOf(msg[r].id)
    <3>1. Times(ids[r], msg[r].id) + msg[r].order.hits \in HitsOf(msg[r].id)
      BY <2>1 DEF SearchInv
    <3>2. (Times(ids[r], msg[r].id) + 1) + (msg[r].order.hits - 1)
            = Times(ids[r], msg[r].id) + msg[r].order.hits
      <4>1. Times(ids[r], msg[r].id) \in Nat /\ msg[r].order.hits \in Nat
        BY <2>1, <2>3
      <4> QED BY <4>1
    <3> QED BY <2>3, <3>1, <3>2
  <2>5. \A id \in OrderId \ (todo[r] \cup {msg[r].id}) : Answered(r, id)'
    BY <1>2, <2>1, <2>3 DEF SearchInv, Answered
  <2>6. /\ \A id \in todo[r] : Times(ids'[r], id) = 0
        /\ msg[r].id \notin todo[r]
    BY <2>1, <2>3 DEF SearchInv
  <2>7. CASE msg[r].order.hits = 1
    <3>1. Times(ids'[r], msg[r].id) \in Nat
      BY <2>3
    <3>2. Times(ids'[r], msg[r].id) + (msg[r].order.hits - 1) = Times(ids'[r], msg[r].id)
      BY <2>7, <3>1
    <3>3. Answered(r, msg[r].id)'
      <4>1. Times(ids'[r], msg[r].id) \in HitsOf(msg[r].id)'
        BY <1>2, <2>2, <2>4, <3>2
      <4> QED BY <2>2, <4>1 DEF Answered
    <3>4. \A id \in OrderId \ todo[r] : Answered(r, id)'
      BY <2>2, <2>5, <3>3
    <3> QED BY <2>1, <2>6, <2>7, <3>4 DEF SearchInv
  <2>8. CASE msg[r].order.hits # 1
    BY <1>2, <2>1, <2>2, <2>4, <2>5, <2>6, <2>8 DEF SearchInv
  <2> QED BY <2>7, <2>8
<1>7. CASE SearchDone(r)
  <2>1. /\ pc[r] = "scan" /\ todo[r] = {} /\ pc'[r] = "ok" /\ ids' = ids
        /\ known'[r] = known[r]
    BY <1>1, <1>7 DEF SearchDone, At, Goto, Call
  <2> QED BY <1>2, <2>1 DEF SearchInv, Answered
<1>8. CASE SendError(r)
  BY <1>1, <1>8 DEF SendError, Goto, SearchInv
<1> QED BY <1>3, <1>4, <1>5, <1>6, <1>7, <1>8

LEMMA SearchStep == MapInv /\ AllSearches /\ [Next]_vars => AllSearches'
<1> SUFFICES ASSUME MapInv, AllSearches, [Next]_vars, ~raced', NEW q \in Searches
             PROVE  SearchInv(q)'
  BY DEF AllSearches, Searches
<1>t. TypeOK /\ TypeInv /\ KindPlaces /\ q \in RPC
  BY DEF MapInv, TypeInv, Searches
<1>1. CASE UNCHANGED vars
  BY <1>1, <1>t, SearchFrame DEF AllSearches, vars, storeVars, callVars
<1>2. ASSUME NEW r \in RPC, Client(r) \/ Handler(r) PROVE SearchInv(q)'
  <2>1. ~raced /\ \A id \in OrderId : had[id] \subseteq had'[id]
    BY <1>2, <1>t, StoreStep, HistoryStep
  <2>2. SearchInv(q)
    BY <2>1 DEF AllSearches
  <2>3. CASE q # r
    BY <1>2, <1>t, <2>1, <2>2, <2>3, OtherCalls, SearchFrame
  <2>4. CASE q = r
    <3>1. CASE Quiet(r)
      BY <1>t, <2>1, <2>2, <2>4, <3>1, QuietStep, SearchFrame
    <3>2. ASSUME Call(q) \/ SearchRange(q) \/ SearchVisit(q) \/ SearchSend(q) \/ SearchDone(q)
                 \/ SendError(q)
          PROVE  SearchInv(q)'
      <4>1. had' = had
        BY <3>2 DEF Call, SearchRange, SearchVisit, SearchSend, SearchDone, SendError, storeVars
      <4>2. known'[q] = known[q] \/ Call(q)
        BY <1>2, <1>t, <2>4, StoreStep
      <4> QED BY <2>1, <2>2, <3>2, <4>1, <4>2, SearchMoves
    <3>3. Kind[q] = "SearchOrders"
      BY DEF Searches
    <3> QED BY <1>2, <1>t, <2>4, <3>1, <3>2, <3>3, StepsByKind
  <2> QED BY <2>3, <2>4
<1> QED BY <1>1, <1>2 DEF Next

(* order.go:49-64: a complete answer of SearchOrders has every order as often as one
   of its versions asked for, and misses only orders that came after the call. *)
THEOREM SearchesAreComplete == Spec => []SearchAnswers
<1>1. Init => AllSearches
  BY DEF Init, AllSearches, Searches, SearchInv
<1>2. Spec => []AllSearches
  BY <1>1, SearchStep, MapInduction, PTL DEF Spec
<1>3. AllSearches => SearchAnswers
  BY DEF AllSearches, SearchAnswers, Searches, SearchInv, Answered, Times, HitsOf
<1> QED BY <1>2, <1>3, PTL

-----------------------------------------------------------------------------
(* Where the batches of ProcessOrders end. *)

First(f) == IF f = 0 THEN 1 ELSE 0
(* The last place in the batch that begins after f. *)
Limit(f) == f + BatchSize + 1 - First(f)
InBatch(s) == \A e \in s.ship.list : e.n \in (s.after + 1)..Limit(s.after)

(* batchMarker, order.go:90, 122-133, counts the orders since the last full batch, but
   before the first one it is one ahead. *)
BatchInv(r) ==
  /\ flushed[r] # 0 => \E k \in Nat : flushed[r] = k * (BatchSize + 1) + BatchSize
  /\ pc[r] \notin {"ship", "error"} => Handled(r) = flushed[r] + marker[r] - First(flushed[r])
  /\ pc[r] = "ship" => Handled(r) = Limit(flushed[r])
  /\ flushed[r] <= Handled(r) /\ Handled(r) <= Limit(flushed[r])
  /\ \A s \in sent[r] : InBatch(s)
  /\ \A a \in Keys(r) : InBatch(Carrier(r, a))

AllBatches == \A r \in Streams : BatchInv(r)

(* (k (b + 1) + b) mod (b + 1) = b. *)
LEMMA BatchRemainder ==
  ASSUME NEW b \in Nat, NEW k \in Nat
  PROVE  (k * (b + 1) + b) % (b + 1) = b
BY SMTT(30)

LEMMA BatchFrame ==
  ASSUME NEW r \in RPC, BatchInv(r),
         pc'[r] = pc[r] \/ (Handling(r) /\ pc'[r] \in {"dest", "label", "append"})
           \/ (pc[r] \notin {"ship"} \cup {"dest", "label", "append"}
               /\ pc'[r] \in {"recv", "drain", "ok", "error"}),
         ids'[r] = ids[r], marker'[r] = marker[r], combined'[r] = combined[r],
         sent'[r] = sent[r], flushed'[r] = flushed[r],
         pc[r] = "error" => pc'[r] = "error"
  PROVE  BatchInv(r)'
<1>1. Handled(r)' = Handled(r)
  BY DEF Handled, Handling
<1>2. Keys(r)' = Keys(r) /\ \A a : Carrier(r, a)' = Carrier(r, a)
  BY DEF Keys, Carrier
<1>3. pc'[r] = "ship" <=> pc[r] = "ship"
  BY DEF Handling
<1> QED BY <1>1, <1>2, <1>3 DEF BatchInv, InBatch

LEMMA BatchAppends ==
  ASSUME TypeInv, NEW r \in Streams, StreamInv(r), BatchInv(r), AppendOrder(r)
  PROVE  BatchInv(r)'
<1>1. /\ r \in RPC /\ ids[r] \in Seq(OrderId) /\ dest[r] \in Address /\ pc[r] = "append"
      /\ marker[r] \in 0..BatchSize /\ flushed[r] \in Nat
  BY DEF Streams, TypeInv, TypeOK, LocalsOK, AppendOrder, At
<1>2. ids' = ids /\ sent' = sent /\ flushed' = flushed
  BY DEF AppendOrder
<1>3. Len(ids[r]) \in Nat \ {0} /\ Handled(r) = Len(ids[r]) - 1
  BY <1>1 DEF StreamInv, Handled, Handling
<1>4. \/ pc'[r] = "ship" /\ marker[r] = BatchSize /\ marker' = marker
      \/ pc'[r] = "recv" /\ marker[r] # BatchSize /\ marker'[r] = marker[r] + 1
  BY <1>1 DEF AppendOrder, BatchFull, Goto, TypeInv, TypeOK
<1>5. Handled(r)' = Handled(r) + 1
  BY <1>2, <1>3, <1>4 DEF Handled, Handling
<1>6. Handled(r) = flushed[r] + marker[r] - First(flushed[r])
  BY <1>1 DEF BatchInv
<1>7. /\ flushed[r] <= Handled(r)' /\ Handled(r)' <= Limit(flushed[r])
      /\ pc'[r] = "ship" => Handled(r)' = Limit(flushed[r])
      /\ pc'[r] # "ship" => Handled(r)' = flushed[r] + marker'[r] - First(flushed[r])
  <2>1. flushed[r] <= Handled(r)' /\ First(flushed[r]) \in {0, 1}
    BY <1>1, <1>3, <1>5 DEF BatchInv, First
  <2>2. Limit(flushed[r]) = flushed[r] + BatchSize + 1 - First(flushed[r])
    BY DEF Limit
  <2>3. \A f, m, l, h \in Int : l \in {0, 1} /\ m \in 0..BatchSize /\ h = f + m - l
          => /\ h + 1 <= f + BatchSize + 1 - l
             /\ m = BatchSize => h + 1 = f + BatchSize + 1 - l
             /\ h + 1 = f + (m + 1) - l
    BY BatchAssumption
  <2>4. /\ Handled(r)' <= Limit(flushed[r])
        /\ marker[r] = BatchSize => Handled(r)' = Limit(flushed[r])
        /\ Handled(r)' = flushed[r] + (marker[r] + 1) - First(flushed[r])
    <3>1. Handled(r) \in Int /\ First(flushed[r]) \in Int /\ flushed[r] \in Int /\ marker[r] \in Int
      BY <1>1, <1>3, <2>1, BatchAssumption
    <3> QED BY <1>1, <1>5, <1>6, <2>1, <2>2, <2>3, <3>1, SMTT(30)
  <2> QED BY <1>4, <2>1, <2>4
<1>d. PICK d \in Address : d = dest[r]
  BY <1>1
<1>8. PICK o \in Lookup(msg[r].id) :
        combined' = [combined EXCEPT ![r][d] =
                       [label |-> IF @ = NoShipment THEN label[r] ELSE @.label,
                        list |-> @.list \cup {NewEntry(r, o)}]]
  BY <1>d DEF AppendOrder
<1>9. /\ combined'[r][d].list = combined[r][d].list \cup {NewEntry(r, o)}
      /\ \A a \in Address \ {d} : combined'[r][a] = combined[r][a]
  BY <1>1, <1>8 DEF TypeInv, TypeOK
<1>10. NewEntry(r, o).n \in (flushed[r] + 1)..Limit(flushed[r])
  <2>1. NewEntry(r, o).n = Handled(r) + 1
    BY <1>3 DEF NewEntry
  <2>2. First(flushed[r]) \in {0, 1} /\ Limit(flushed[r]) \in Nat
    BY <1>1, BatchAssumption DEF First, Limit
  <2> QED BY <1>1, <1>3, <1>5, <1>7, <2>1, <2>2 DEF BatchInv
<1>11. \A a \in Keys(r)' : InBatch(Carrier(r, a))'
  <2>1. ASSUME NEW a \in Keys(r)', a # d PROVE InBatch(Carrier(r, a)) /\ Carrier(r, a)' = Carrier(r, a)
    BY <1>2, <1>9, <2>1 DEF Keys, BatchInv, Carrier
  <2>2. InBatch(Carrier(r, d))'
    <3>1. \A e \in combined[r][d].list : e.n \in (flushed[r] + 1)..Limit(flushed[r])
      BY DEF BatchInv, InBatch, Carrier, Keys, NoShipment
    <3> QED BY <1>2, <1>9, <1>10, <3>1 DEF InBatch, Carrier
  <2> QED BY <2>1, <2>2 DEF InBatch
<1> QED BY <1>2, <1>4, <1>7, <1>11 DEF BatchInv, InBatch

LEMMA BatchStepOne ==
  ASSUME TypeInv, KindPlaces, NEW r \in Streams, StreamInv(r), BatchInv(r), Client(r) \/ Handler(r)
  PROVE  BatchInv(r)'
<1>1. /\ r \in RPC /\ Kind[r] = "ProcessOrders" /\ ids[r] \in Seq(OrderId) /\ flushed[r] \in Nat
      /\ marker[r] \in 0..BatchSize /\ pc \in [RPC -> Pc]
  BY DEF Streams, TypeInv, TypeOK
<1>2. CASE Quiet(r)
  BY <1>2, <1>1, QuietStep, BatchFrame DEF batchVars
<1>3. CASE Call(r)
  BY <1>1, <1>3, BatchFrame DEF Call, Goto, At, batchVars
<1>4. CASE RecvId(r)
  <2>1. PICK m \in Request(r) : ids' = [ids EXCEPT ![r] = Append(@, m.id)]
    BY <1>4 DEF RecvId
  <2>2. Len(ids'[r]) = Len(ids[r]) + 1
    BY <1>1, <2>1 DEF TypeInv, TypeOK
  <2>3. /\ pc[r] = "recv" /\ pc'[r] = "dest" /\ marker' = marker /\ combined' = combined
        /\ sent' = sent /\ flushed' = flushed
    BY <1>1, <1>4 DEF RecvId, AtRecv, At, Goto, batchVars
  <2>4. Handled(r)' = Handled(r)
    BY <1>1, <2>2, <2>3 DEF Handled, Handling
  <2>5. Keys(r)' = Keys(r) /\ \A a : Carrier(r, a)' = Carrier(r, a)
    BY <2>3 DEF Keys, Carrier
  <2> QED BY <2>3, <2>4, <2>5 DEF BatchInv, InBatch
<1>5. CASE RecvEOF(r) \/ RecvError(r) \/ Destination(r) \/ ShipmentLabel(r) \/ DrainDone(r)
  <2>1. UNCHANGED <<ids, marker, combined, sent, flushed>>
    BY <1>5 DEF RecvEOF, RecvError, Destination, ShipmentLabel, DrainDone, batchVars
  <2>2. \/ pc[r] = "recv" /\ pc'[r] \in {"drain", "error"}
        \/ pc[r] \in {"dest", "label"} /\ pc'[r] \in {"label", "append"}
        \/ pc[r] = "drain" /\ pc'[r] = "ok"
    BY <1>1, <1>5 DEF RecvEOF, RecvError, AfterError, Destination, ShipmentLabel, DrainDone,
       AtRecv, At, Goto
  <2> QED BY <1>1, <2>1, <2>2, BatchFrame DEF Handling
<1>6. CASE AppendOrder(r)
  BY <1>6, BatchAppends
<1>7. CASE SendShipment(r)
  <2>1. PICK a \in todo[r] : sent' = [sent EXCEPT ![r] = @ \cup {Carrier(r, a)}]
    BY <1>7 DEF SendShipment, Carrier
  <2>2. /\ a \in Keys(r) /\ sent'[r] = sent[r] \cup {Carrier(r, a)}
        /\ UNCHANGED <<pc, ids, marker, combined, flushed>>
    BY <1>1, <1>7, <2>1 DEF SendShipment, StreamInv, TypeInv, TypeOK
  <2>3. Handled(r)' = Handled(r) /\ Keys(r)' = Keys(r) /\ \A b : Carrier(r, b)' = Carrier(r, b)
    BY <2>2 DEF Handled, Handling, Keys, Carrier
  <2> QED BY <2>2, <2>3 DEF BatchInv, InBatch
<1>8. CASE SendError(r)
  <2>1. pc[r] \in {"match", "ship", "drain"} /\ pc'[r] = "error"
        /\ UNCHANGED <<ids, marker, combined, sent, flushed>>
    BY <1>1, <1>8 DEF SendError, Goto, batchVars
  <2>2. Handled(r)' = Handled(r) /\ Keys(r)' = Keys(r) /\ \A b : Carrier(r, b)' = Carrier(r, b)
    BY <2>1 DEF Handled, Handling, Keys, Carrier
  <2> QED BY <2>1, <2>2 DEF BatchInv, InBatch
<1>9. CASE BatchDone(r)
  <2>1. /\ pc[r] = "ship" /\ pc'[r] = "recv" /\ marker'[r] = 0 /\ ids' = ids /\ sent' = sent
        /\ combined'[r] = [a \in Address |-> NoShipment] /\ flushed'[r] = Len(ids[r])
    BY <1>1, <1>9 DEF BatchDone, NewMap, At, Goto, TypeInv, TypeOK
  <2>2. Keys(r)' = {} /\ Handled(r)' = Len(ids[r]) /\ Handled(r) = Len(ids[r])
    BY <2>1 DEF Keys, Handled, Handling
  <2>3. flushed'[r] = Limit(flushed[r]) /\ flushed'[r] \in Nat \ {0}
    BY <1>1, <2>1, <2>2, BatchAssumption DEF BatchInv, Limit, First
  <2>4. \E k \in Nat : flushed'[r] = k * (BatchSize + 1) + BatchSize
    <3>1. CASE flushed[r] = 0
      <4>1. flushed'[r] = 0 * (BatchSize + 1) + BatchSize
        BY <2>3, <3>1, BatchAssumption DEF Limit, First
      <4> QED BY <4>1
    <3>2. CASE flushed[r] # 0
      <4>1. PICK k \in Nat : flushed[r] = k * (BatchSize + 1) + BatchSize
        BY <3>2 DEF BatchInv
      <4>2. flushed'[r] = flushed[r] + BatchSize + 1
        BY <1>1, <2>3, <3>2, BatchAssumption DEF Limit, First
      <4>3. (k + 1) * (BatchSize + 1) = k * (BatchSize + 1) + BatchSize + 1
        BY BatchAssumption
      <4>4. k * (BatchSize + 1) \in Nat
        BY BatchAssumption
      <4>5. flushed'[r] = (k + 1) * (BatchSize + 1) + BatchSize
        BY <4>1, <4>2, <4>3, <4>4, BatchAssumption
      <4> QED BY <4>5
    <3> QED BY <3>1, <3>2
  <2>5. Handled(r)' <= Limit(flushed[r])' /\ First(flushed'[r]) = 0
    BY <2>1, <2>2, <2>3, BatchAssumption DEF Limit, First
  <2>6. Handled(r)' = flushed'[r] + marker'[r] - First(flushed'[r])
    BY <2>1, <2>2, <2>3, <2>5
  <2>7. flushed'[r] <= Handled(r)'
    BY <2>1, <2>2, <2>3
  <2> QED BY <2>1, <2>2, <2>4, <2>5, <2>6, <2>7 DEF BatchInv, InBatch
<1> QED BY <1>1, <1>2, <1>3, <1>4, <1>5, <1>6, <1>7, <1>8, <1>9, StepsByKind

LEMMA BatchStep == MapInv /\ ConservedInv /\ AllBatches /\ [Next]_vars => AllBatches'
<1> SUFFICES ASSUME MapInv, ConservedInv, AllBatches, [Next]_vars, NEW q \in Streams
             PROVE  BatchInv(q)'
  BY DEF AllBatches, Streams
<1>t. TypeOK /\ TypeInv /\ KindPlaces /\ q \in RPC /\ StreamInv(q) /\ BatchInv(q)
  BY DEF MapInv, TypeInv, Streams, ConservedInv, AllBatches
<1>1. CASE UNCHANGED vars
  BY <1>1, <1>t, BatchFrame DEF vars, callVars, batchVars
<1>2. ASSUME NEW r \in RPC, Client(r) \/ Handler(r) PROVE BatchInv(q)'
  <2>1. CASE q = r
    BY <1>2, <1>t, <2>1, BatchStepOne
  <2>2. CASE q # r
    BY <1>2, <1>t, <2>2, OtherCalls, BatchFrame
  <2> QED BY <2>1, <2>2
<1> QED BY <1>1, <1>2 DEF Next

LEMMA StreamInduction == Spec => [](MapInv /\ ConservedInv)
BY ConservedInit, ConservedStep, MapInduction, PTL DEF Spec

(* order.go:90, 122-133: the first batch has orderBatchSize orders and every later one
   one more, whatever orderBatchSize is. *)
THEOREM BatchesEndWhereTheyShould == Spec => []BatchBoundaries
<1>1. Init => AllBatches
  <2> SUFFICES ASSUME Init, NEW r \in Streams PROVE BatchInv(r)
    BY DEF AllBatches
  <2>1. /\ r \in RPC /\ pc[r] = "idle" /\ ids[r] = <<>> /\ sent[r] = {} /\ marker[r] = 1
        /\ flushed[r] = 0 /\ combined[r] = [a \in Address |-> NoShipment]
    BY DEF Init, Streams
  <2>2. Keys(r) = {} /\ Handled(r) = 0
    BY <2>1 DEF Keys, Handled, Handling
  <2> QED BY <2>1, <2>2, BatchAssumption DEF BatchInv, First, Limit
<1>2. Spec => []AllBatches
  BY <1>1, BatchStep, StreamInduction, PTL DEF Spec
<1>3. ASSUME MapInv, ConservedInv, AllBatches PROVE BatchBoundaries
  <2> SUFFICES ASSUME NEW r \in Streams
               PROVE  /\ flushed[r] # 0 => flushed[r] % (BatchSize + 1) = BatchSize
                      /\ \A s \in All(r) : InBatch(s)
    BY <1>3 DEF BatchBoundaries, InBatch, Limit, First, All, Waiting
  <2>1. BatchInv(r) /\ StreamInv(r)
    BY <1>3 DEF AllBatches, ConservedInv
  <2>2. flushed[r] # 0 => flushed[r] % (BatchSize + 1) = BatchSize
    BY <2>1, BatchRemainder, BatchAssumption DEF BatchInv
  <2>3. All(r) \subseteq sent[r] \cup {Carrier(r, a) : a \in Keys(r)}
    BY <2>1 DEF All, Waiting, Carrier, StreamInv
  <2> QED BY <2>1, <2>2, <2>3 DEF BatchInv
<1> QED BY <1>2, <1>3, StreamInduction, PTL

-----------------------------------------------------------------------------
(* Where the addresses of the shipments come from. *)

Real(s) == /\ \A e \in s.ship.list : {s.dest, e.addr} \subseteq Addresses(e.id)
           /\ \E e \in s.ship.list : s.ship.label \in Addresses(e.id)

(* order.go:107-119: between the reads of an order the handler carries its address in
   destination and, for a new shipment, in the Id. *)
RealInv(r) ==
  /\ \A s \in sent[r] : Real(s)
  /\ \A a \in Keys(r) : Real(Carrier(r, a))
  /\ pc[r] \in {"label", "append"} => dest[r] \in Addresses(msg[r].id)
  /\ pc[r] = "append" /\ dest[r] \notin Keys(r) => label[r] \in Addresses(msg[r].id)

AllReal == ~raced => \A r \in Streams : RealInv(r)

(* An address that an order has had stays one that it has had. *)
LEMMA AddressesGrow ==
  ASSUME TypeOK, \A id \in OrderId : had[id] \subseteq had'[id]
  PROVE  /\ \A id \in OrderId : Addresses(id) \subseteq Addresses(id)'
         /\ \A r \in RPC : \A s \in sent[r] : Real(s) => Real(s)'
         /\ \A r \in RPC, a \in Address : Real(Carrier(r, a)) =>
              /\ \A e \in combined[r][a].list : {a, e.addr} \subseteq Addresses(e.id)'
              /\ \E e \in combined[r][a].list : combined[r][a].label \in Addresses(e.id)'
<1>1. \A id \in OrderId : Addresses(id) \subseteq Addresses(id)'
  BY DEF Addresses
<1>2. ASSUME NEW r \in RPC, NEW s \in sent[r] PROVE Real(s) => Real(s)'
  <2>1. \A e \in s.ship.list : e.id \in OrderId
    BY DEF TypeOK, Shipment, Entry
  <2> QED BY <1>1, <2>1 DEF Real
<1>3. ASSUME NEW r \in RPC, NEW a \in Address, Real(Carrier(r, a))
      PROVE  /\ \A e \in combined[r][a].list : {a, e.addr} \subseteq Addresses(e.id)'
             /\ \E e \in combined[r][a].list : combined[r][a].label \in Addresses(e.id)'
  <2>1. \A e \in combined[r][a].list : e.id \in OrderId
    BY DEF TypeOK, Shipment, Entry
  <2> QED BY <1>1, <1>3, <2>1 DEF Real, Carrier
<1> QED BY <1>1, <1>2, <1>3

LEMMA RealFrame ==
  ASSUME TypeInv, NEW r \in RPC, RealInv(r), \A id \in OrderId : had[id] \subseteq had'[id],
         combined'[r] = combined[r], sent'[r] = sent[r],
         \/ pc'[r] \notin {"label", "append"}
         \/ pc'[r] = pc[r] /\ msg'[r] = msg[r] /\ dest'[r] = dest[r] /\ label'[r] = label[r]
  PROVE  RealInv(r)'
<1>1. Keys(r)' = Keys(r) /\ Keys(r) \subseteq Address
  BY DEF Keys
<1>2. TypeOK /\ (pc[r] \in {"label", "append"} => msg[r].id \in OrderId)
  BY DEF TypeInv, LocalsOK
<1>3. \A a \in Keys(r) : Real(Carrier(r, a))'
  BY <1>1, <1>2, AddressesGrow DEF RealInv, Real, Carrier
<1>4. \A s \in sent[r] : Real(s)'
  BY <1>2, AddressesGrow DEF RealInv
<1> QED BY <1>1, <1>2, <1>3, <1>4, AddressesGrow DEF RealInv

LEMMA RealMoves ==
  ASSUME MapInv, NEW r \in Streams, RealInv(r), StreamInv(r), ~raced, had' = had,
         Destination(r) \/ ShipmentLabel(r) \/ AppendOrder(r) \/ SendShipment(r) \/ BatchDone(r)
  PROVE  RealInv(r)'
<1>1. /\ r \in RPC /\ pc \in [RPC -> Pc] /\ dest \in [RPC -> Address \cup {Nil}]
      /\ label \in [RPC -> Address \cup {Nil}] /\ TypeOK
      /\ \A id : Addresses(id)' = Addresses(id)
  BY DEF Streams, MapInv, TypeInv, TypeOK, Addresses
<1>2. \A s : Real(s)' <=> Real(s)
  BY <1>1 DEF Real
<1>3. ASSUME NEW o \in Lookup(msg[r].id), HasAddress(o), msg[r].id \in OrderId
      PROVE  o.addr \in Addresses(msg[r].id)
  BY <1>3 DEF Lookup, HasAddress, MapInv, History, Addresses
<1>4. CASE Destination(r)
  <2>1. PICK o \in Lookup(msg[r].id) :
          /\ HasAddress(o) /\ dest' = [dest EXCEPT ![r] = o.addr]
          /\ Goto(r, IF o.addr \in Keys(r) THEN "append" ELSE "label")
    BY <1>4 DEF Destination
  <2>2. msg[r].id \in OrderId /\ UNCHANGED <<combined, sent, flushed, msg, label>>
    BY <1>1, <1>4 DEF Destination, At, MapInv, TypeInv, LocalsOK
  <2>3. /\ dest'[r] = o.addr /\ dest'[r] \in Addresses(msg[r].id)
        /\ pc'[r] \in {"append", "label"} /\ (pc'[r] = "append" => dest'[r] \in Keys(r))
    BY <1>1, <1>3, <2>1, <2>2 DEF Goto
  <2>4. Keys(r)' = Keys(r) /\ \A a : Carrier(r, a)' = Carrier(r, a)
    BY <2>2 DEF Keys, Carrier
  <2> QED BY <1>1, <1>2, <2>2, <2>3, <2>4 DEF RealInv
<1>5. CASE ShipmentLabel(r)
  <2>1. PICK o \in Lookup(msg[r].id) : HasAddress(o) /\ label' = [label EXCEPT ![r] = o.addr]
    BY <1>5 DEF ShipmentLabel
  <2>2. /\ msg[r].id \in OrderId /\ UNCHANGED <<combined, sent, flushed, msg, dest>>
        /\ pc[r] = "label"
    BY <1>1, <1>5 DEF ShipmentLabel, At, MapInv, TypeInv, LocalsOK
  <2>3. label'[r] \in Addresses(msg[r].id)
    BY <1>1, <1>3, <2>1, <2>2
  <2>4. Keys(r)' = Keys(r) /\ \A a : Carrier(r, a)' = Carrier(r, a)
    BY <2>2 DEF Keys, Carrier
  <2> QED BY <1>1, <1>2, <2>2, <2>3, <2>4 DEF RealInv
<1>6. CASE AppendOrder(r)
  <2>d. PICK d \in Address : d = dest[r]
    BY <1>1, <1>6 DEF AppendOrder, At, MapInv, TypeInv, LocalsOK
  <2>1. PICK o \in Lookup(msg[r].id) :
          combined' = [combined EXCEPT ![r][d] =
                         [label |-> IF @ = NoShipment THEN label[r] ELSE @.label,
                          list |-> @.list \cup {NewEntry(r, o)}]]
    BY <1>6, <2>d DEF AppendOrder
  <2>2. /\ msg[r].id \in OrderId /\ UNCHANGED <<sent, flushed, msg, dest, label>>
        /\ pc[r] = "append" /\ pc'[r] \in {"recv", "ship"}
    BY <1>1, <1>6 DEF AppendOrder, At, Goto, MapInv, TypeInv, LocalsOK
  <2>3. /\ combined'[r][d].list = combined[r][d].list \cup {NewEntry(r, o)}
        /\ combined'[r][d].label = IF d \in Keys(r) THEN combined[r][d].label ELSE label[r]
        /\ \A a \in Address \ {d} : combined'[r][a] = combined[r][a]
    BY <1>1, <2>1 DEF TypeOK, Keys
  <2>4. d \in Addresses(msg[r].id)
    BY <2>d, <2>2 DEF RealInv
  <2>5. o \in had[msg[r].id] /\ o # Nil
    BY <2>2, <2>4 DEF Addresses, Lookup, MapInv, History
  <2>6. NewEntry(r, o).id = msg[r].id /\ NewEntry(r, o).addr \in Addresses(msg[r].id)
    BY <2>5 DEF NewEntry, Addresses
  <2>7. /\ Carrier(r, d)'.ship = combined'[r][d] /\ Carrier(r, d)'.dest = d
        /\ Carrier(r, d).ship = combined[r][d] /\ Carrier(r, d).dest = d
    BY DEF Carrier
  <2>8. Real(Carrier(r, d)')
    <3>1. CASE d \in Keys(r)
      <4>1. Real(Carrier(r, d))
        BY <3>1 DEF RealInv
      <4> QED BY <2>3, <2>4, <2>6, <2>7, <3>1, <4>1 DEF Real
    <3>2. CASE d \notin Keys(r)
      <4>1. combined[r][d].list = {} /\ label[r] \in Addresses(msg[r].id)
        BY <2>d, <2>2, <3>2 DEF RealInv, Keys, NoShipment
      <4> QED BY <2>3, <2>4, <2>6, <2>7, <3>2, <4>1 DEF Real
    <3> QED BY <3>1, <3>2
  <2>9. \A a \in Keys(r)' : a = d \/ (a \in Keys(r) /\ Carrier(r, a)' = Carrier(r, a))
    BY <2>2, <2>3 DEF Keys, Carrier
  <2>10. \A a \in Keys(r)' : Real(Carrier(r, a))'
    <3>1. \A a : Real(Carrier(r, a))' <=> Real(Carrier(r, a)')
      BY <1>1 DEF Real
    <3> QED BY <2>8, <2>9, <3>1 DEF RealInv
  <2> QED BY <1>2, <2>2, <2>10 DEF RealInv
<1>7. CASE SendShipment(r)
  <2>1. PICK a \in todo[r] : sent' = [sent EXCEPT ![r] = @ \cup {Carrier(r, a)}]
    BY <1>7 DEF SendShipment, Carrier
  <2>2. /\ a \in Keys(r) /\ sent'[r] = sent[r] \cup {Carrier(r, a)}
        /\ UNCHANGED <<pc, combined, flushed>> /\ pc[r] \notin {"label", "append"}
    BY <1>1, <1>7, <2>1 DEF SendShipment, StreamInv, TypeOK
  <2>3. Keys(r)' = Keys(r) /\ \A b : Carrier(r, b)' = Carrier(r, b)
    BY <2>2 DEF Keys, Carrier
  <2> QED BY <1>2, <2>2, <2>3 DEF RealInv
<1>8. CASE BatchDone(r)
  <2>1. /\ pc'[r] = "recv" /\ sent' = sent /\ combined'[r] = [a \in Address |-> NoShipment]
    BY <1>1, <1>8 DEF BatchDone, NewMap, Goto, TypeOK
  <2>2. Keys(r)' = {}
    BY <2>1 DEF Keys
  <2> QED BY <1>2, <2>1, <2>2 DEF RealInv
<1> QED BY <1>4, <1>5, <1>6, <1>7, <1>8

LEMMA RealStep == MapInv /\ ConservedInv /\ AllReal /\ [Next]_vars => AllReal'
<1> SUFFICES ASSUME MapInv, ConservedInv, AllReal, [Next]_vars, ~raced', NEW q \in Streams
             PROVE  RealInv(q)'
  BY DEF AllReal, Streams
<1>t. TypeOK /\ TypeInv /\ KindPlaces /\ q \in RPC /\ StreamInv(q) /\ Kind[q] = "ProcessOrders"
  BY DEF MapInv, TypeInv, Streams, ConservedInv
<1>1. CASE UNCHANGED vars
  <2>1. RealInv(q)
    BY <1>1 DEF AllReal, vars
  <2> QED BY <1>1, <1>t, <2>1, RealFrame DEF vars, storeVars, callVars, batchVars
<1>2. ASSUME NEW r \in RPC, Client(r) \/ Handler(r) PROVE RealInv(q)'
  <2>1. ~raced /\ \A id \in OrderId : had[id] \subseteq had'[id]
    BY <1>2, <1>t, StoreStep, HistoryStep
  <2>2. RealInv(q)
    BY <2>1 DEF AllReal
  <2>3. CASE q # r
    BY <1>2, <1>t, <2>1, <2>2, <2>3, OtherCalls, RealFrame
  <2>4. CASE q = r
    <3>1. CASE Quiet(q)
      BY <1>t, <2>1, <2>2, <3>1, QuietStep, RealFrame DEF batchVars
    <3>2. CASE Call(q) \/ RecvId(q) \/ RecvEOF(q) \/ RecvError(q) \/ SendError(q) \/ DrainDone(q)
      <4>1. combined' = combined /\ sent' = sent
        BY <3>2 DEF Call, RecvId, RecvEOF, RecvError, SendError, DrainDone, batchVars
      <4>2. pc'[q] \in {"recv", "dest", "drain", "error", "ok"}
        BY <1>t, <3>2 DEF Call, RecvId, RecvEOF, RecvError, AfterError, SendError, DrainDone, Goto,
           TypeOK
      <4> QED BY <1>t, <2>1, <2>2, <4>1, <4>2, RealFrame
    <3>3. ASSUME Destination(q) \/ ShipmentLabel(q) \/ AppendOrder(q) \/ SendShipment(q) \/ BatchDone(q)
          PROVE  RealInv(q)'
      <4>1. had' = had
        BY <3>3 DEF Destination, ShipmentLabel, AppendOrder, SendShipment, BatchDone, storeVars
      <4> QED BY <1>t, <2>1, <2>2, <3>3, <4>1, RealMoves
    <3> QED BY <1>2, <1>t, <2>4, <3>1, <3>2, <3>3, StepsByKind
  <2> QED BY <2>3, <2>4
<1> QED BY <1>1, <1>2 DEF Next

(* order.go:107-119: though an order is read three times, and may be overwritten in
   between, it is never shipped under an address that it has not had. *)
THEOREM AddressesAreReal == Spec => []AddressesWereReal
<1>1. Init => AllReal
  <2> SUFFICES ASSUME Init, NEW r \in Streams PROVE RealInv(r)
    BY DEF AllReal
  <2>1. /\ r \in RPC /\ pc[r] = "idle" /\ sent[r] = {}
        /\ combined[r] = [a \in Address |-> NoShipment]
    BY DEF Init, Streams
  <2>2. Keys(r) = {}
    BY <2>1 DEF Keys
  <2> QED BY <2>1, <2>2 DEF RealInv
<1>2. Spec => []AllReal
  BY <1>1, RealStep, StreamInduction, PTL DEF Spec
<1>3. ASSUME MapInv, ConservedInv, AllReal PROVE AddressesWereReal
  <2> SUFFICES ASSUME ~raced, NEW r \in Streams PROVE \A s \in All(r) : Real(s)
    BY DEF AddressesWereReal, Real
  <2>1. RealInv(r) /\ StreamInv(r)
    BY <1>3 DEF AllReal, ConservedInv
  <2>2. All(r) \subseteq sent[r] \cup {Carrier(r, a) : a \in Keys(r)}
    BY <2>1 DEF All, Waiting, Carrier, StreamInv
  <2> QED BY <2>1, <2>2 DEF RealInv
<1> QED BY <1>2, <1>3, StreamInduction, PTL

-----------------------------------------------------------------------------
(* The refinement: a stream keeps the promise of OrderDelivery. *)

LEMMA DeliveryInit == Init => Delivery!Init
<1> SUFFICES ASSUME Init PROVE Delivery!Init
  OBVIOUS
<1>1. \A r \in Streams : r \in RPC /\ ids[r] = <<>> /\ sent[r] = {} /\ pc[r] = "idle"
  BY DEF Init, Streams
<1>2. \A r \in Streams : Len(ids[r]) = 0 /\ Places(sent[r]) = {} /\ pc[r] \notin Done
  BY <1>1 DEF Places, Done
<1> QED BY <1>2 DEF Delivery!Init

Outcome(r) == IF pc[r] \in Done THEN pc[r] ELSE "running"

(* A step that leaves what a stream has taken, sent and answered leaves the promise
   alone; all others are steps of one stream. *)
LEMMA DeliveryStutter ==
  ASSUME \A r \in Streams : /\ ids'[r] = ids[r] /\ sent'[r] = sent[r]
                            /\ Outcome(r)' = Outcome(r)
  PROVE  UNCHANGED Delivery!vars
  BY DEF Delivery!vars, Outcome, Places

LEMMA DeliveryTakes ==
  ASSUME NEW r \in Streams, Outcome(r) = "running", Len(ids'[r]) = Len(ids[r]) + 1,
         \A q \in Streams \ {r} : ids'[q] = ids[q],
         \A q \in Streams : sent'[q] = sent[q] /\ Outcome(q)' = Outcome(q)
  PROVE  Delivery!Take(r)
  BY DEF Delivery!Take, Outcome, Places

LEMMA DeliveryDelivers ==
  ASSUME NEW r \in Streams, Outcome(r) = "running", NEW group, group # {},
         group \subseteq (1..Len(ids[r])) \ Places(sent[r]),
         Places(sent[r])' = Places(sent[r]) \cup group,
         \A q \in Streams \ {r} : sent'[q] = sent[q],
         \A q \in Streams : ids'[q] = ids[q] /\ Outcome(q)' = Outcome(q)
  PROVE  Delivery!Deliver(r)
<1> DEFINE taken == [q \in Streams |-> Len(ids[q])]
           delivered == [q \in Streams |-> Places(sent[q])]
<1>1. delivered' = [delivered EXCEPT ![r] = @ \cup group]
  BY DEF Places
<1>2. group \in (SUBSET ((1..taken[r]) \ delivered[r])) \ {{}}
  OBVIOUS
<1>3. UNCHANGED <<taken, [q \in Streams |-> IF pc[q] \in Done THEN pc[q] ELSE "running"]>>
  BY DEF Outcome
<1>4. [q \in Streams |-> IF pc[q] \in Done THEN pc[q] ELSE "running"][r] = "running"
  BY DEF Outcome
<1> QED BY <1>1, <1>2, <1>3, <1>4 DEF Delivery!Deliver

LEMMA DeliveryFinishes ==
  ASSUME NEW r \in Streams, Outcome(r) = "running",
         \/ Outcome(r)' = "error"
         \/ Outcome(r)' = "ok" /\ Places(sent[r]) = 1..Len(ids[r]),
         \A q \in Streams \ {r} : Outcome(q)' = Outcome(q),
         \A q \in Streams : ids'[q] = ids[q] /\ sent'[q] = sent[q]
  PROVE  Delivery!Finish(r)
  BY DEF Delivery!Finish, Outcome, Places

LEMMA DeliveryStreamStep ==
  ASSUME MapInv, ConservedInv, NEW r \in Streams, Client(r) \/ Handler(r)
  PROVE  [Delivery!Next]_(Delivery!vars)
<1>1. /\ r \in RPC /\ Kind[r] = "ProcessOrders" /\ StreamInv(r) /\ TypeOK /\ KindPlaces
      /\ ids[r] \in Seq(OrderId) /\ pc \in [RPC -> Pc] /\ Streams \subseteq RPC
  BY DEF Streams, MapInv, ConservedInv, TypeInv, TypeOK
<1>2. \A q \in Streams \ {r} : /\ ids'[q] = ids[q] /\ sent'[q] = sent[q]
                               /\ Outcome(q)' = Outcome(q)
  BY <1>1, OtherCalls DEF Outcome
<1>3. CASE Quiet(r)
  <2>1. ids'[r] = ids[r] /\ sent'[r] = sent[r] /\ Outcome(r)' = Outcome(r)
    BY <1>3, QuietStep DEF Outcome, batchVars
  <2> QED BY <1>2, <2>1, DeliveryStutter
<1>4. CASE Call(r) \/ RecvEOF(r) \/ Destination(r) \/ ShipmentLabel(r) \/ AppendOrder(r) \/ BatchDone(r)
  <2>1. ids' = ids /\ sent' = sent
    BY <1>4 DEF Call, RecvEOF, Destination, ShipmentLabel, AppendOrder, BatchDone, batchVars
  <2>2. pc[r] \notin Done
    BY <1>4 DEF Call, RecvEOF, Destination, ShipmentLabel, AppendOrder, BatchDone, AtRecv, At, Done
  <2>3. pc'[r] \notin Done
    BY <1>1, <1>4 DEF Call, RecvEOF, Destination, ShipmentLabel, AppendOrder, BatchDone, Goto, Done
  <2> QED BY <1>2, <2>1, <2>2, <2>3, DeliveryStutter DEF Outcome
<1>5. CASE RecvId(r)
  <2>1. PICK m \in Request(r) : ids' = [ids EXCEPT ![r] = Append(@, m.id)]
    BY <1>5 DEF RecvId
  <2>2. Len(ids'[r]) = Len(ids[r]) + 1
    BY <1>1, <2>1 DEF TypeOK
  <2>3. pc[r] = "recv" /\ pc'[r] = "dest" /\ sent' = sent
    BY <1>1, <1>5 DEF RecvId, AtRecv, At, Goto, batchVars
  <2>4. Delivery!Take(r)
    BY <1>2, <2>2, <2>3, DeliveryTakes DEF Outcome, Done
  <2> QED BY <2>4 DEF Delivery!Next
<1>6. CASE SendShipment(r)
  <2>1. PICK a \in todo[r] : sent' = [sent EXCEPT ![r] = @ \cup {Carrier(r, a)}]
    BY <1>6 DEF SendShipment, Carrier
  <2> DEFINE group == Places({Carrier(r, a)}) \ Places(sent[r])
  <2>2. /\ sent'[r] = sent[r] \cup {Carrier(r, a)} /\ ids' = ids /\ pc' = pc
        /\ pc[r] \in {"ship", "drain"}
    BY <1>1, <1>6, <2>1 DEF SendShipment, TypeOK
  <2>3. Places(sent[r])' = Places(sent[r]) \cup group
    BY <2>2 DEF Places
  <2>4. group \subseteq (1..Len(ids[r])) \ Places(sent[r])
    <3>1. Carrier(r, a) \in All(r) /\ Handled(r) = Len(ids[r])
      BY <2>2 DEF All, Waiting, Carrier, Handled, Handling
    <3>2. Places({Carrier(r, a)}) \subseteq Places(All(r))
      BY <3>1 DEF Places
    <3> QED BY <1>1, <3>1, <3>2 DEF StreamInv, Carries
  <2>5. Outcome(r) = "running" /\ Outcome(r)' = Outcome(r)
    BY <2>2 DEF Outcome, Done
  <2>6. CASE group = {}
    <3>1. Places(sent[r])' = Places(sent[r])
      BY <2>3, <2>6
    <3> QED BY <1>2, <2>2, <2>5, <3>1 DEF Delivery!vars, Outcome, Places
  <2>7. CASE group # {}
    <3> HIDE DEF group
    <3>1. Delivery!Deliver(r)
      BY <1>2, <2>2, <2>3, <2>4, <2>5, <2>7, DeliveryDelivers
    <3> QED BY <3>1 DEF Delivery!Next
  <2> QED BY <2>6, <2>7
<1>7. CASE RecvError(r) \/ SendError(r) \/ DrainDone(r)
  <2>1. ids' = ids /\ sent' = sent /\ pc[r] \notin Done
    BY <1>7 DEF RecvError, SendError, DrainDone, AtRecv, At, Done, batchVars
  <2>3. CASE DrainDone(r)
    <3>1. pc[r] = "drain" /\ pc'[r] = "ok" /\ todo[r] = {}
      BY <1>1, <2>3 DEF DrainDone, AllSent, At, Goto
    <3>2. All(r) = sent[r] /\ Handled(r) = Len(ids[r])
      BY <3>1 DEF All, Waiting, Handled, Handling
    <3>3. Places(sent[r]) = 1..Len(ids[r])
      BY <1>1, <3>2 DEF StreamInv, Carries
    <3>4. Delivery!Finish(r)
      BY <1>2, <2>1, <3>1, <3>3, DeliveryFinishes DEF Outcome, Done
    <3> QED BY <3>4 DEF Delivery!Next
  <2>4. CASE pc'[r] = "error"
    <3>1. Delivery!Finish(r)
      BY <1>2, <2>1, <2>4, DeliveryFinishes DEF Outcome, Done
    <3> QED BY <3>1 DEF Delivery!Next
  <2> QED BY <1>1, <1>7, <2>3, <2>4 DEF RecvError, AfterError, SendError, Goto
<1> QED BY <1>1, <1>3, <1>4, <1>5, <1>6, <1>7, StepsByKind

LEMMA DeliveryStep == MapInv /\ ConservedInv /\ [Next]_vars => [Delivery!Next]_(Delivery!vars)
<1> SUFFICES ASSUME MapInv, ConservedInv, [Next]_vars PROVE [Delivery!Next]_(Delivery!vars)
  OBVIOUS
<1>1. CASE UNCHANGED vars
  BY <1>1, DeliveryStutter DEF Outcome, vars, callVars, batchVars
<1>2. ASSUME NEW r \in Streams, Client(r) \/ Handler(r) PROVE [Delivery!Next]_(Delivery!vars)
  BY <1>2, DeliveryStreamStep
<1>3. ASSUME NEW r \in RPC, r \notin Streams, Client(r) \/ Handler(r)
      PROVE  [Delivery!Next]_(Delivery!vars)
  <2>1. TypeOK /\ \A q \in Streams : q \in RPC \ {r}
    BY <1>3 DEF MapInv, TypeInv, Streams
  <2> QED BY <1>3, <2>1, OtherCalls, DeliveryStutter DEF Outcome
<1> QED BY <1>1, <1>2, <1>3 DEF Next

(* dev/grpc/basic/order/order.proto:45-46, server/order.go:88-135: seen from outside,
   ProcessOrders takes orders, delivers each in one group and ends well only when
   nothing is missing, in any company of other calls. *)
THEOREM ImplementsOrderDelivery == Spec => ImplementsDelivery
BY DeliveryInit, DeliveryStep, StreamInduction, PTL DEF Spec, ImplementsDelivery, Delivery!Spec
=============================================================================
