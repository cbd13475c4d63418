-------------------------- MODULE OrderClientProofs --------------------------
(* Proofs about the order client: for any number of messages and of answers, main
   returns only when the whole call has had its effect, and fails only when the call
   has failed. *)
EXTENDS OrderClient, SequenceTheorems, TLAPS

(* Where the steps of main, of the sender and of the server can meet. *)
Places ==
  /\ call = "UnaryRPC" => main \in {"start", "unary", "returned", "panicked"} /\ sender = "idle"
  /\ main = "unary" => call = "UnaryRPC"
  /\ main = "start" => sender = "idle" /\ outcome["client"] = "running"
  /\ call # "UnaryRPC" /\ main \in {"recv", "returned", "spin"} => sender # "idle"
  /\ sender = "sending" => call \in {"clientStream", "bidirectionalStream"}
  /\ sender = "idle" => sent = 0 /\ outcome["client"] = "running"
  /\ sender = "closed" => sent = (IF call = "serverStream" THEN 1 ELSE Orders)

(* ServerFinish ends a call well only when everything has been taken and shipped. *)
EndsWhole ==
  /\ taken["client"] <= sent
  /\ outcome["client"] = "ok" =>
       /\ sender = "closed" /\ taken["client"] = sent
       /\ call = "bidirectionalStream" => delivered["client"] = 1..taken["client"]
  /\ call = "clientStream" /\ (inFlight # <<>> \/ got # <<>>) => outcome["client"] = "ok"
  /\ main = "returned" /\ call # "UnaryRPC" => outcome["client"] = "ok"

(* No order is in two shipments. *)
Apart ==
  /\ \A i, j \in DOMAIN got : i # j => got[i] \cap got[j] = {}
  /\ \A i, j \in DOMAIN inFlight : i # j => inFlight[i] \cap inFlight[j] = {}
  /\ \A i \in DOMAIN got, j \in DOMAIN inFlight : got[i] \cap inFlight[j] = {}

Got(o) == \E i \in DOMAIN got : o \in got[i]
Flying(o) == \E j \in DOMAIN inFlight : o \in inFlight[j]

(* What has been shipped is what main has received and, while the connection holds,
   what is on its way. *)
Shipped ==
  call = "bidirectionalStream" =>
    /\ Apart
    /\ \A o : Got(o) \/ Flying(o) => o \in delivered["client"]
    /\ connection = "up" => \A o \in delivered["client"] : Got(o) \/ Flying(o)
    /\ main = "returned" => \A o \in delivered["client"] : Got(o)

ClientInv == TypeOK /\ Places /\ EndsWhole /\ Shipped /\ FailsOnlyWithTheCall

-----------------------------------------------------------------------------
LEMMA ClientInit == Init => ClientInv
<1> SUFFICES ASSUME Init PROVE ClientInv
  OBVIOUS
<1> USE OrdersAssumption DEF Init, Server!Init, Client, Function
<1>1. TypeOK
  BY DEF TypeOK
<1>2. Places /\ EndsWhole /\ FailsOnlyWithTheCall
  BY DEF Places, EndsWhole, FailsOnlyWithTheCall
<1>3. Shipped
  BY DEF Shipped, Apart, Got, Flying
<1> QED BY <1>1, <1>2, <1>3 DEF ClientInv

(* What each step leaves alone, and what it does to the two sequences. *)
LEMMA MainStep == ClientInv /\ Main => ClientInv'
<1> SUFFICES ASSUME ClientInv, Main PROVE ClientInv'
  OBVIOUS
<1> USE OrdersAssumption
    DEF ClientInv, TypeOK, Places, EndsWhole, FailsOnlyWithTheCall, serverVars, End, Client, Function
<1>1. ASSUME Unary PROVE ClientInv'
  BY <1>1 DEF Unary, Shipped, Apart, Got, Flying
<1>2. ASSUME Open PROVE ClientInv'
  BY <1>2 DEF Open, Shipped, Apart, Got, Flying
<1>3. ASSUME RecvAnswer PROVE ClientInv'
  <2>1. inFlight # <<>> /\ got' = Append(got, Head(inFlight)) /\ inFlight' = Tail(inFlight)
    BY <1>3 DEF RecvAnswer
  <2>2. /\ DOMAIN got' = 1..(Len(got) + 1) /\ Len(got) \in Nat /\ DOMAIN got = 1..Len(got)
        /\ \A i \in DOMAIN got : got'[i] = got[i]
        /\ got'[Len(got) + 1] = inFlight[1]
    BY <2>1
  <2>3. /\ Len(inFlight) \in Nat \ {0} /\ DOMAIN inFlight = 1..Len(inFlight)
        /\ DOMAIN inFlight' = 1..(Len(inFlight) - 1)
        /\ \A i \in DOMAIN inFlight' : inFlight'[i] = inFlight[i + 1]
    BY <2>1
  <2>4. TypeOK'
    BY <1>3 DEF RecvAnswer, AfterAnswer
  <2>5. Places' /\ EndsWhole' /\ FailsOnlyWithTheCall'
    BY <1>3 DEF RecvAnswer, AfterAnswer, CanRecv
  <2>6. Shipped'
    <3> SUFFICES ASSUME call = "bidirectionalStream" PROVE Shipped'
      BY <1>3 DEF RecvAnswer, Shipped
    <3>1. Apart'
      <4>1. Apart
        BY DEF Shipped
      <4>2. \A i, j \in DOMAIN got' : i # j => got'[i] \cap got'[j] = {}
        <5>1. 1 \in DOMAIN inFlight
          BY <2>3
        <5> QED BY <4>1, <5>1, <2>2 DEF Apart
      <4>3. \A i, j \in DOMAIN inFlight' : i # j => inFlight'[i] \cap inFlight'[j] = {}
        <5>1. \A i \in DOMAIN inFlight' : i + 1 \in DOMAIN inFlight /\ i \in Int
          BY <2>3
        <5>2. ASSUME NEW i \in DOMAIN inFlight', NEW j \in DOMAIN inFlight', i # j
              PROVE  inFlight[i + 1] \cap inFlight[j + 1] = {}
          <6>1. i + 1 # j + 1 /\ i + 1 \in DOMAIN inFlight /\ j + 1 \in DOMAIN inFlight
            BY <5>1, <5>2
          <6> QED BY <4>1, <6>1 DEF Apart
        <5> QED BY <2>3, <5>2
      <4>4. \A i \in DOMAIN got', j \in DOMAIN inFlight' : got'[i] \cap inFlight'[j] = {}
        <5>1. \A j \in DOMAIN inFlight' : j + 1 \in DOMAIN inFlight /\ 1 # j + 1
          BY <2>3
        <5>2. 1 \in DOMAIN inFlight
          BY <2>3
        <5>3. \A j \in DOMAIN inFlight' : inFlight[1] \cap inFlight'[j] = {}
          BY <2>3, <4>1, <5>1, <5>2 DEF Apart
        <5>4. \A i \in DOMAIN got, j \in DOMAIN inFlight' : got[i] \cap inFlight'[j] = {}
          BY <2>3, <4>1, <5>1 DEF Apart
        <5> QED BY <2>2, <5>3, <5>4
      <4> QED BY <4>2, <4>3, <4>4 DEF Apart
    <3>2. \A o : Got(o)' \/ Flying(o)' <=> Got(o) \/ Flying(o)
      <4> SUFFICES ASSUME NEW o PROVE Got(o)' \/ Flying(o)' <=> Got(o) \/ Flying(o)
        OBVIOUS
      <4>1. Got(o)' <=> Got(o) \/ o \in inFlight[1]
        BY <2>2, SMTT(30) DEF Got
      <4>2. Flying(o) <=> Flying(o)' \/ o \in inFlight[1]
        <5>1. \A j \in DOMAIN inFlight : j = 1 \/ (j - 1 \in DOMAIN inFlight' /\ inFlight'[j - 1] = inFlight[j])
          BY <2>3
        <5>2. \A j \in DOMAIN inFlight' : j + 1 \in DOMAIN inFlight
          BY <2>3
        <5>3. 1 \in DOMAIN inFlight
          BY <2>3
        <5> QED BY <5>1, <5>2, <5>3, <2>3 DEF Flying
      <4> QED BY <4>1, <4>2
    <3>3. main' # "returned" /\ UNCHANGED <<call, connection, delivered>>
      BY <1>3 DEF RecvAnswer, AfterAnswer
    <3> HIDE DEF ClientInv
    <3>4. Shipped
      BY DEF ClientInv
    <3> QED BY <3>1, <3>2, <3>3, <3>4 DEF Shipped
  <2> QED BY <2>4, <2>5, <2>6
<1>4. ASSUME RecvEOF PROVE ClientInv'
  <2>1. \A o : ~Flying(o)
    BY <1>4 DEF RecvEOF, Flying
  <2>2. UNCHANGED <<got, inFlight, delivered, connection, call>> /\ connection = "up"
    BY <1>4 DEF RecvEOF
  <2>3. Shipped'
    BY <2>1, <2>2 DEF Shipped, Apart, Got, Flying
  <2> QED BY <1>4, <2>3 DEF RecvEOF, AfterEOF, CanRecv
<1>5. ASSUME RecvError PROVE ClientInv'
  <2>1. Shipped'
    BY <1>5 DEF RecvError, AfterError, Shipped, Apart, Got, Flying
  <2> QED BY <1>5, <2>1 DEF RecvError, AfterError, CanRecv
<1> QED BY <1>1, <1>2, <1>3, <1>4, <1>5 DEF Main

LEMMA SenderStep == ClientInv /\ Sender => ClientInv'
<1> SUFFICES ASSUME ClientInv, Sender PROVE ClientInv'
  OBVIOUS
<1> USE OrdersAssumption
    DEF ClientInv, TypeOK, Places, EndsWhole, FailsOnlyWithTheCall, serverVars, End, Client, Function,
        Running, Sends
<1>1. Shipped'
  BY DEF Sender, Send, SendError, CloseSend, Shipped, Apart, Got, Flying
<1>2. ASSUME Send PROVE ClientInv'
  BY <1>1, <1>2 DEF Send
<1>3. ASSUME SendError PROVE ClientInv'
  BY <1>1, <1>3 DEF SendError
<1>4. ASSUME CloseSend PROVE ClientInv'
  BY <1>1, <1>4 DEF CloseSend, HalfClosed
<1> QED BY <1>2, <1>3, <1>4 DEF Sender

LEMMA ServeStep == ClientInv /\ (Serve \/ ServerHit \/ ServerFail \/ Break) => ClientInv'
<1> SUFFICES ASSUME ClientInv, Serve \/ ServerHit \/ ServerFail \/ Break PROVE ClientInv'
  OBVIOUS
<1> USE OrdersAssumption
    DEF ClientInv, TypeOK, Places, EndsWhole, FailsOnlyWithTheCall, serverVars, End, Client, Function
<1>1. ASSUME ServerTake PROVE ClientInv'
  BY <1>1, SMTT(30) DEF ServerTake, Server!Take, Shipped, Apart, Got, Flying
<1>2. ASSUME ServerShip PROVE ClientInv'
  <2>1. PICK group \in (SUBSET ((1..taken["client"]) \ delivered["client"])) \ {{}} :
          delivered' = [delivered EXCEPT !["client"] = @ \cup group]
    BY <1>2 DEF ServerShip, Server!Deliver
  <2>2. delivered'["client"] = delivered["client"] \cup group
    BY <2>1
  <2>3. inFlight' = Append(inFlight, group) /\ group \cap delivered["client"] = {}
    BY <1>2, <2>2 DEF ServerShip
  <2>4. group \in SUBSET (1..Orders)
    BY <2>1
  <2>5. TypeOK'
    <3>1. inFlight' \in Seq(SUBSET (1..Orders))
      BY <2>3, <2>4
    <3>2. delivered' \in [Client -> SUBSET (1..Orders)]
      BY <2>1, <2>4
    <3> QED BY <1>2, <3>1, <3>2 DEF ServerShip, Server!Deliver
  <2>6. Places' /\ EndsWhole' /\ FailsOnlyWithTheCall'
    BY <1>2 DEF ServerShip, Server!Deliver
  <2>7. /\ DOMAIN inFlight' = 1..(Len(inFlight) + 1) /\ Len(inFlight) \in Nat
        /\ DOMAIN inFlight = 1..Len(inFlight)
        /\ \A i \in DOMAIN inFlight : inFlight'[i] = inFlight[i]
        /\ inFlight'[Len(inFlight) + 1] = group
    BY <2>3
  <2>8. Apart'
    BY <1>2, <2>3, <2>7 DEF ServerShip, Shipped, Apart, Got, Flying
  <2>9. \A o : (Got(o)' <=> Got(o)) /\ (Flying(o)' <=> Flying(o) \/ o \in group)
    <3>1. got' = got
      BY <1>2 DEF ServerShip
    <3> QED BY <2>7, <3>1, SMTT(30) DEF Got, Flying
  <2>10. UNCHANGED <<call, main, connection>> /\ outcome["client"] = "running"
    BY <1>2 DEF ServerShip, Server!Deliver
  <2>11. main = "returned" => call = "UnaryRPC"
    BY <2>10
  <2>12. Shipped'
    BY <2>2, <2>8, <2>9, <2>10, <2>11 DEF Shipped
  <2> QED BY <2>5, <2>6, <2>12
<1>3. ASSUME ServerFinish PROVE ClientInv'
  <2>1. call = "bidirectionalStream" => UNCHANGED <<inFlight, got, delivered, connection, main>>
    BY <1>3 DEF ServerFinish, Answering, Server!Finish
  <2>2. Shipped'
    BY <1>3, <2>1 DEF ServerFinish, Shipped, Apart, Got, Flying
  <2>3. outcome' = [outcome EXCEPT !["client"] = "ok"] /\ UNCHANGED <<taken, delivered>>
    BY <1>3 DEF ServerFinish, Server!Finish
  <2>4. /\ sender = "closed" /\ taken["client"] = sent
        /\ call = "bidirectionalStream" => delivered["client"] = 1..taken["client"]
    BY <1>3, <2>3 DEF ServerFinish, Server!Finish
  <2>5. inFlight' \in Seq(SUBSET (1..Orders))
    BY <1>3 DEF ServerFinish
  <2> QED BY <1>3, <2>2, <2>3, <2>4, <2>5 DEF ServerFinish, Answering
<1>6. ASSUME ServerFail PROVE ClientInv'
  <2>1. Shipped'
    BY <1>6 DEF ServerFail, Answering, Shipped, Apart, Got, Flying
  <2> QED BY <1>6, <2>1 DEF ServerFail, Answering
<1>4. ASSUME ServerHit PROVE ClientInv'
  <2>1. inFlight' \in Seq(SUBSET (1..Orders))
    BY <1>4 DEF ServerHit
  <2> QED BY <1>4, <2>1 DEF ServerHit, Shipped
<1>5. ASSUME Break PROVE ClientInv'
  <2>1. PICK n \in 0..Len(inFlight) : inFlight' = SubSeq(inFlight, 1, n)
    BY <1>5 DEF Break
  <2>2. /\ inFlight' \in Seq(SUBSET (1..Orders)) /\ DOMAIN inFlight' = 1..n
        /\ \A i \in 1..n : i \in DOMAIN inFlight /\ inFlight'[i] = inFlight[i]
    BY <2>1
  <2>3. inFlight' # <<>> => inFlight # <<>>
    BY <2>1, <2>2
  <2>4. Apart' \/ call # "bidirectionalStream"
    BY <1>5, <2>2 DEF Break, Shipped, Apart
  <2>5. \A o : (Got(o)' <=> Got(o)) /\ (Flying(o)' => Flying(o))
    BY <1>5, <2>2 DEF Break, Got, Flying
  <2>6. Shipped'
    BY <1>5, <2>4, <2>5 DEF Break, Shipped
  <2> QED BY <1>5, <2>2, <2>3, <2>6 DEF Break
<1> QED BY <1>1, <1>2, <1>3, <1>4, <1>5, <1>6 DEF Serve

LEMMA ClientInduction == Spec => []ClientInv
<1>1. ClientInv /\ UNCHANGED vars => ClientInv'
  BY DEF vars, serverVars, ClientInv, TypeOK, Places, EndsWhole, Shipped, Apart, Got, Flying,
         FailsOnlyWithTheCall, End
<1>2. ClientInv /\ [Next]_vars => ClientInv'
  BY <1>1, MainStep, SenderStep, ServeStep DEF Next
<1> QED BY <1>2, ClientInit, PTL DEF Spec

LEMMA ClientMeaning == ClientInv => ReturnMeansDone
<1> SUFFICES ASSUME ClientInv, main = "returned", call # "UnaryRPC" PROVE ReturnMeansDone
  BY DEF ReturnMeansDone
<1>1. /\ sender = "closed" /\ taken["client"] = sent
      /\ sent = (IF call = "serverStream" THEN 1 ELSE Orders)
  BY DEF ClientInv, Places, EndsWhole
<1>2. ASSUME call = "bidirectionalStream"
      PROVE  /\ UNION ToSet(got) = 1..Orders
             /\ \A i, j \in DOMAIN got : i # j => got[i] \cap got[j] = {}
  <2>1. delivered["client"] = 1..Orders
    BY <1>1, <1>2 DEF ClientInv, EndsWhole
  <2>2. \A o : Got(o) <=> o \in 1..Orders
    BY <1>2, <2>1 DEF ClientInv, Shipped
  <2>3. \A o : Got(o) <=> o \in UNION ToSet(got)
    BY DEF Got, ToSet
  <2> QED BY <1>2, <2>2, <2>3 DEF ClientInv, Shipped, Apart
<1> QED BY <1>1, <1>2 DEF ReturnMeansDone

-----------------------------------------------------------------------------
(* dev/grpc/basic/client/main.go:89-175: when main returns from a streaming call,
   everything has been sent, taken and, in ProcessOrders, come back exactly once,
   however the goroutines, the server and the connection took their steps. *)
THEOREM ReturningMeansDone == Spec => []ReturnMeansDone
BY ClientInduction, ClientMeaning, PTL

(* client/main.go:139-145, 154-174: a panic or the endless loop of serverStream is
   never the work of the scheduler: the call has failed, or the connection. *)
THEOREM FailingMeansFailed == Spec => []FailsOnlyWithTheCall
<1>1. ClientInv => FailsOnlyWithTheCall
  BY DEF ClientInv
<1> QED BY <1>1, ClientInduction, PTL

(* The variables stay within their types. *)
THEOREM ClientTypes == Spec => []TypeOK
<1>1. ClientInv => TypeOK
  BY DEF ClientInv
<1> QED BY <1>1, ClientInduction, PTL
=============================================================================
