----------------------------- MODULE OrderClient -----------------------------
(* dev/grpc/basic/client/main.go at work with a server that keeps the promise of
   OrderDelivery.  main makes one of four calls (three are commented out in the
   code); for ProcessOrders a goroutine of its own sends while main receives.  A
   stream ends for the client with the server's status, or with an error when the
   connection breaks, which a server that panics does. *)
EXTENDS Naturals, SequencesExt, FiniteSets

CONSTANTS Orders,  \* messages that a client stream sends, two in the code
          MaxHits  \* bound: answers of SearchOrders

ASSUME OrdersAssumption == Orders \in Nat \ {0} /\ MaxHits \in Nat

Function == {"UnaryRPC", "clientStream", "serverStream", "bidirectionalStream"}
Client == {"client"}

VARIABLES
  call,        \* the function that main calls
  main,        \* where main is: "start", "unary", "recv", "spin", "returned" or "panicked"
  sender,      \* who sends: "idle", "sending" or "closed"
  sent,        \* messages that Send has accepted
  connection,  \* "up" or "broken"
  inFlight,    \* the answers on their way, each a set of orders
  got,         \* the answers received
  taken, delivered, outcome  \* the server's side: see OrderDelivery

serverVars == <<taken, delivered, outcome>>
vars == <<call, main, sender, sent, connection, inFlight, got, serverVars>>

Server == INSTANCE OrderDelivery WITH Stream <- Client

Init == /\ call \in Function /\ main = "start" /\ sender = "idle" /\ sent = 0
        /\ connection = "up" /\ inFlight = <<>> /\ got = <<>>
        /\ Server!Init

(* How the stream ended, once the answers in flight have been read. *)
End == IF connection = "broken" THEN "error" ELSE outcome["client"]
Running == main \in {"start", "unary", "recv", "spin"}

-----------------------------------------------------------------------------
(* main *)

(* AddOrder and then GetOrder, which finds the order: see GetFindsKnownOrders of
   OrderManagement.  A failure of either is a panic. *)
Unary ==
  /\ call = "UnaryRPC" /\ main \in {"start", "unary"}
  /\ \/ connection = "up" /\ main' = IF main = "start" THEN "unary" ELSE "returned"
     \/ connection = "broken" /\ main' = "panicked"
  /\ UNCHANGED <<call, sender, sent, connection, inFlight, got, serverVars>>

(* The query of SearchOrders is sent, and the stream half closed, by the stub. *)
Open ==
  /\ main = "start" /\ call # "UnaryRPC"
  /\ IF connection = "broken"
       THEN main' = "panicked" /\ UNCHANGED <<sender, sent>>
       ELSE /\ main' = "recv"
            /\ sender' = IF call = "serverStream" THEN "closed" ELSE "sending"
            /\ sent' = IF call = "serverStream" THEN 1 ELSE 0
  /\ UNCHANGED <<call, connection, inFlight, got, serverVars>>

(* CloseAndRecv receives only after the last Send, on the same goroutine. *)
CanRecv == main = "recv" /\ (call = "clientStream" => sender = "closed")

(* What main does after an answer.  The slip: the first answer is taken for all. *)
OneAnswer(c) == "returned"
AfterAnswer(c) == IF c = "clientStream" THEN "returned" ELSE "recv"

RecvAnswer ==
  /\ CanRecv /\ inFlight # <<>>
  /\ got' = Append(got, Head(inFlight)) /\ inFlight' = Tail(inFlight)
  /\ main' = AfterAnswer(call)
  /\ UNCHANGED <<call, sender, sent, connection, serverVars>>

(* The slip is to look at EOF as at any other error. *)
EOFIsError == "panicked"
AfterEOF == "returned"

RecvEOF ==
  /\ CanRecv /\ inFlight = <<>> /\ End = "ok"
  /\ main' = AfterEOF
  /\ UNCHANGED <<call, sender, sent, connection, inFlight, got, serverVars>>

(* serverStream goes on to the next Recv, which fails at once again, for ever;
   bidirectionalStream dereferences the message that is not there.  The slip is to
   return, as at EOF. *)
ErrorIsEnd(c) == IF c = "clientStream" THEN "panicked" ELSE "returned"
AfterError(c) == IF c = "serverStream" THEN "spin" ELSE "panicked"

RecvError ==
  /\ CanRecv /\ inFlight = <<>> /\ End = "error"
  /\ main' = AfterError(call)
  /\ UNCHANGED <<call, sender, sent, connection, inFlight, got, serverVars>>

-----------------------------------------------------------------------------
(* The goroutine that sends, or main in its place.  Send fails once the stream has
   ended and may do so from then on only after some messages have been lost. *)
Sends == Orders

Send ==
  /\ Running /\ sender = "sending" /\ sent < Sends
  /\ sent' = sent + 1
  /\ UNCHANGED <<call, main, sender, connection, inFlight, got, serverVars>>

SendError ==
  /\ Running /\ sender = "sending" /\ sent < Sends /\ End # "running"
  /\ main' = "panicked"
  /\ UNCHANGED <<call, sender, sent, connection, inFlight, got, serverVars>>

(* The slip: the stream is never half closed. *)
LeftOpen == "idle"
HalfClosed == "closed"

CloseSend ==
  /\ Running /\ sender = "sending" /\ sent = Sends
  /\ sender' = HalfClosed
  /\ UNCHANGED <<call, main, sent, connection, inFlight, got, serverVars>>

-----------------------------------------------------------------------------
(* The server and the connection. *)

ServerTake ==
  /\ connection = "up" /\ taken["client"] < sent
  /\ Server!Take("client")
  /\ UNCHANGED <<call, main, sender, sent, connection, inFlight, got>>

(* A shipment of ProcessOrders. *)
ServerShip ==
  /\ call = "bidirectionalStream" /\ connection = "up"
  /\ Server!Deliver("client")
  /\ inFlight' = Append(inFlight, delivered'["client"] \ delivered["client"])
  /\ UNCHANGED <<call, main, sender, sent, connection, got>>

(* An order that SearchOrders finds. *)
ServerHit ==
  /\ call = "serverStream" /\ connection = "up" /\ outcome["client"] = "running"
  /\ taken["client"] = 1 /\ Len(inFlight) + Len(got) < MaxHits
  /\ inFlight' = Append(inFlight, {})
  /\ UNCHANGED <<call, main, sender, sent, connection, got, serverVars>>

(* The call ends with EOF from the client, UpdateOrders with an answer.  What
   ProcessOrders owes is OrderDelivery's condition for "ok". *)
Answering == connection = "up" /\ main = "recv" /\ outcome["client"] = "running"

ServerFinish ==
  /\ Answering /\ sender = "closed" /\ taken["client"] = sent
  /\ IF call = "bidirectionalStream" THEN Server!Finish("client") /\ outcome'["client"] = "ok"
     ELSE outcome' = [outcome EXCEPT !["client"] = "ok"] /\ UNCHANGED <<taken, delivered>>
  /\ inFlight' = IF call = "clientStream" THEN Append(inFlight, {}) ELSE inFlight
  /\ UNCHANGED <<call, main, sender, sent, connection, got>>

(* The call ends with an error, which nothing obliges the server to. *)
ServerFail ==
  /\ Answering /\ outcome' = [outcome EXCEPT !["client"] = "error"]
  /\ UNCHANGED <<taken, delivered, inFlight, call, main, sender, sent, connection, got>>

(* Answers in flight may be lost, from some point on. *)
Break ==
  /\ connection = "up" /\ connection' = "broken"
  /\ \E n \in 0..Len(inFlight) : inFlight' = SubSeq(inFlight, 1, n)
  /\ UNCHANGED <<call, main, sender, sent, got, serverVars>>

-----------------------------------------------------------------------------
Main == Unary \/ Open \/ RecvAnswer \/ RecvEOF \/ RecvError
Sender == Send \/ SendError \/ CloseSend
Serve == ServerTake \/ ServerShip \/ ServerFinish

Next == Main \/ Sender \/ Serve \/ ServerHit \/ ServerFail \/ Break
Spec == Init /\ [][Next]_vars
(* Both goroutines run, and the server's handler takes, ships and, when the client has
   closed, ends: see CallsEnd of OrderManagement.  It need not fail. *)
FairSpec == Spec /\ WF_vars(Main) /\ WF_vars(Sender) /\ WF_vars(Serve)

-----------------------------------------------------------------------------
(* Properties. *)

TypeOK ==
  /\ call \in Function /\ sender \in {"idle", "sending", "closed"} /\ sent \in 0..Orders
  /\ main \in {"start", "unary", "recv", "spin", "returned", "panicked"}
  /\ connection \in {"up", "broken"}
  /\ inFlight \in Seq(SUBSET (1..Orders)) /\ got \in Seq(SUBSET (1..Orders))
  /\ taken \in [Client -> 0..Orders] /\ delivered \in [Client -> SUBSET (1..Orders)]
  /\ outcome \in [Client -> {"running", "ok", "error"}]

(* client/main.go:89-175: when main returns, the call has had its whole effect, how
   ever the steps of the two goroutines, the server and the connection fell: all
   messages have been sent and taken, and every order of ProcessOrders has come back
   in exactly one shipment; main does not return under the sender's feet. *)
ReturnMeansDone ==
  main = "returned" /\ call # "UnaryRPC" =>
    /\ sender = "closed"
    /\ taken["client"] = sent /\ sent = (IF call = "serverStream" THEN 1 ELSE Orders)
    /\ call = "bidirectionalStream" =>
         /\ UNION ToSet(got) = 1..Orders
         /\ \A i, j \in DOMAIN got : i # j => got[i] \cap got[j] = {}

(* client/main.go:139-145, 154-174: the client panics or spins only if the server
   has failed the call or the connection has broken, never over the order in which
   the two goroutines run. *)
FailsOnlyWithTheCall == main \in {"panicked", "spin"} => End = "error"

(* client/main.go:133-175: the program comes to an end, but for the loop of
   serverStream after an error, which nothing ends. *)
ClientEnds == <>(~Running \/ main = "spin")
=============================================================================
