-------------------------- MODULE DemoServicesProofs --------------------------
(* Proofs about the demo services behind Envoys: along which way a request can reach
   which server, and what an answer may say.  The instance is the real one; what the
   proofs add to its enumeration is why it holds. *)
EXTENDS MCDemoServices, SequenceTheorems, TLAPS

(* Only one of the demos is at work. *)
LEMMA EachDemoSteps ==
  [DemoNext]_<<demo, vars, chainVars>> => [Next]_vars /\ [Chain!Next]_(Chain!vars)
BY DEF DemoNext, vars, chainVars, Chain!vars

-----------------------------------------------------------------------------
(* The flow.  What a call can be, by the servers that have handled the request. *)

Outside(c) == c.id = "none" /\ c.address # "127.0.0.1"
Through(listener, path, id) ==
  [at |-> listener, path |-> path, address |-> "elsewhere", id |-> id]

(* policy.rego of the three services and the routes of their Envoys: a call that comes
   after web's handler was made by web, and is refused by the db's OPA unless backend's
   handler came in between. *)
FlowInv ==
  /\ calls \in Seq(Call)
  /\ pc \in {"arrive", "route", "handle"} => calls # <<>>
  /\ withOPA /\ pc \in {"arrive", "route", "handle"} =>
       \/ visited = <<>> /\ Outside(Now)
       \/ /\ visited = <<"web">>
          /\ Now \in {Local("web:8001", "/good/backend"), Local("web:8001", "/good/db"),
                      Through("backend:8001", "/good/backend", "web-server"),
                      Through("db:8001", "/good/db", "web-server")}
       \/ /\ visited = <<"web", "backend">>
          /\ Now \in {Local("backend:8002", "/good/db"),
                      Through("db:8001", "/good/db", "backend-server")}
  /\ withOPA /\ pc \in {"route", "handle"} => Allowed(Now)
  /\ pc = "handle" => Cluster(Now) \in Server
  /\ withOPA => visited \in {<<>>, <<"web">>, <<"web", "backend">>, <<"web", "backend", "db">>}

LEMMA FlowInit == Init => FlowInv
<1> SUFFICES ASSUME Init PROVE FlowInv
  OBVIOUS
<1>1. PICK c \in Call : Outside(c) /\ calls = <<c>>
  BY DEF Init, Outside
<1>2. calls \in Seq(Call) /\ calls # <<>> /\ Now = c
  BY <1>1 DEF Now, Last
<1> QED BY <1>1, <1>2 DEF Init, FlowInv

(* A call that is put on top is the last one. *)
LEMMA NowAppend ==
  ASSUME NEW S, calls \in Seq(S), NEW c \in S, calls' = Append(calls, c)
  PROVE  calls' \in Seq(S) /\ calls' # <<>> /\ Now' = c
BY DEF Now, Last

(* From outside only web's own paths get past an OPA, and they go to web. *)
LEMMA OutsideAllowed ==
  ASSUME NEW c \in Call, Outside(c), Allowed(c)
  PROVE  Cluster(c) = "web" /\ c.path \in {"/hello", "/the/good/path", "/the/bad/path"}
BY DEF Outside, Allowed, Web, Backend, Db, Cluster, Call, Listener

(* What the Envoys on the way make of a call. *)
LEMMA WayOn ==
  /\ Cluster(Local("web:8001", "/good/backend")) = "backend:8001"
  /\ Cluster(Local("web:8001", "/good/db")) = "db:8001"
  /\ Cluster(Local("backend:8002", "/good/db")) = "db:8001"
  /\ \A id : /\ Cluster(Through("backend:8001", "/good/backend", id)) = "backend"
             /\ Cluster(Through("db:8001", "/good/db", id)) = "db"
  /\ ~Allowed(Through("db:8001", "/good/db", "web-server"))
BY DEF Cluster, Local, Through, Allowed, Db

LEMMA AppendToTuple ==
  ASSUME NEW x, NEW y, NEW z
  PROVE  /\ Append(<<>>, x) = <<x>>
         /\ Append(<<x>>, y) = <<x, y>>
         /\ Append(<<x, y>>, z) = <<x, y, z>>
<1> DEFINE S == {x, y, z}
<1>1. Append(<<>>, x) = <<x>>
  OBVIOUS
<1>2. Append(<<x>>, y) = <<x, y>>
  <2>1. Append(<<x>>, y) \in Seq(S) /\ <<x, y>> \in Seq(S)
    OBVIOUS
  <2>2. Len(Append(<<x>>, y)) = 2 /\ \A i \in 1..2 : Append(<<x>>, y)[i] = <<x, y>>[i]
    OBVIOUS
  <2> QED BY <2>1, <2>2, SeqEqual
<1>3. Append(<<x, y>>, z) = <<x, y, z>>
  <2>1. Append(<<x, y>>, z) \in Seq(S) /\ <<x, y, z>> \in Seq(S)
    OBVIOUS
  <2>2. Len(Append(<<x, y>>, z)) = 3 /\ \A i \in 1..3 : Append(<<x, y>>, z)[i] = <<x, y, z>>[i]
    OBVIOUS
  <2> QED BY <2>1, <2>2, SeqEqual
<1> QED BY <1>1, <1>2, <1>3

(* policy.rego of the three services: which handler a call can have got to. *)
LEMMA Handling ==
  ASSUME FlowInv, pc = "handle", withOPA
  PROVE  \/ /\ visited = <<>> /\ Cluster(Now) = "web"
            /\ Now.path \in {"/hello", "/the/good/path", "/the/bad/path"}
         \/ visited = <<"web">> /\ Cluster(Now) = "backend" /\ Now.path = "/good/backend"
         \/ visited = <<"web", "backend">> /\ Cluster(Now) = "db" /\ Now.path = "/good/db"
<1>1. Allowed(Now) /\ Cluster(Now) \in Server /\ Now \in Call
  BY DEF FlowInv, Now, Last
<1>2. CASE Outside(Now)
  <2>1. visited = <<>>
    BY <1>2 DEF FlowInv, Local, Through, Outside
  <2> QED BY <1>1, <1>2, <2>1, OutsideAllowed
<1>3. CASE ~Outside(Now)
  <2>1. "backend:8001" \notin Server /\ "db:8001" \notin Server
    BY DEF Server
  <2>2. \/ visited = <<"web">> /\ Now = Through("backend:8001", "/good/backend", "web-server")
        \/ /\ visited = <<"web", "backend">>
           /\ Now = Through("db:8001", "/good/db", "backend-server")
    BY <1>1, <1>3, <2>1, WayOn DEF FlowInv
  <2> QED BY <2>2, WayOn DEF Through
<1> QED BY <1>2, <1>3

LEMMA FlowStep == FlowInv /\ [Next]_vars => FlowInv'
<1> SUFFICES ASSUME FlowInv, [Next]_vars PROVE FlowInv'
  OBVIOUS
<1>0. pc \in {"arrive", "route", "handle"} => Now \in Call
  BY DEF FlowInv, Now, Last
<1>1. ASSUME calls' = calls, visited' = visited, withOPA' = withOPA, pc' \notin {"route", "handle"},
             pc' \in {"reply", "done"} \/ pc' = pc
      PROVE  FlowInv'
  BY <1>1 DEF FlowInv, Now
<1>2. CASE Authorize
  <2>1. CASE pc' = "route"
    BY <1>2, <2>1 DEF Authorize, FlowInv, Now, Replies, Allowed, Web, Backend, Db
  <2>2. CASE pc' # "route"
    BY <1>1, <1>2, <2>2 DEF Authorize, Replies
  <2> QED BY <2>1, <2>2
<1>3. CASE Route
  <2>1. CASE Cluster(Now) \in Server
    <3>1. pc = "route" /\ pc' = "handle" /\ UNCHANGED <<calls, visited, withOPA>>
      BY <1>3, <2>1, Server \cap Listener = {} DEF Route, Server, Listener
    <3>2. Now' = Now /\ Cluster(Now)' = Cluster(Now) /\ Allowed(Now)' = Allowed(Now)
      BY <3>1 DEF Now
    <3> QED BY <2>1, <3>1, <3>2 DEF FlowInv
  <2>2. CASE Cluster(Now) \in Listener
    <3>1. Cluster(Now) \notin Server
      BY <2>2 DEF Listener, Server
    <3> DEFINE next == Through(Cluster(Now), Now.path, IdentityOf(Now.at))
    <3>2. calls' = Append(calls, next) /\ pc' = "arrive" /\ UNCHANGED <<withOPA, visited>>
      BY <1>3, <2>2, <3>1 DEF Route, Through
    <3>3. next \in Call
      BY <1>0, <1>3, <2>2 DEF Route, Through, Call, IdentityOf, Identity, Address
    <3>4. calls' \in Seq(Call) /\ calls' # <<>> /\ Now' = next
      BY <3>2, <3>3, NowAppend DEF FlowInv
    <3>5. withOPA => \/ /\ visited = <<"web">>
                        /\ next \in {Through("backend:8001", "/good/backend", "web-server"),
                                     Through("db:8001", "/good/db", "web-server")}
                     \/ /\ visited = <<"web", "backend">>
                        /\ next = Through("db:8001", "/good/db", "backend-server")
      <4> SUFFICES ASSUME withOPA
                   PROVE  \/ /\ visited = <<"web">>
                             /\ next \in {Through("backend:8001", "/good/backend", "web-server"),
                                          Through("db:8001", "/good/db", "web-server")}
                          \/ /\ visited = <<"web", "backend">>
                             /\ next = Through("db:8001", "/good/db", "backend-server")
        OBVIOUS
      <4>1. Allowed(Now) /\ pc = "route"
        BY <1>3 DEF Route, FlowInv
      <4>2. ~Outside(Now)
        BY <1>0, <2>2, <4>1, OutsideAllowed DEF Listener
      <4>3. "backend" \notin Listener /\ "db" \notin Listener
        BY DEF Listener
      <4>4. \/ /\ visited = <<"web">>
               /\ Now \in {Local("web:8001", "/good/backend"), Local("web:8001", "/good/db")}
            \/ visited = <<"web", "backend">> /\ Now = Local("backend:8002", "/good/db")
        BY <2>2, <4>1, <4>2, <4>3, WayOn DEF FlowInv
      <4> QED BY <4>4, WayOn DEF Local, IdentityOf
    <3> QED BY <3>2, <3>4, <3>5 DEF FlowInv
  <2>3. CASE Cluster(Now) \notin Server \cup Listener
    BY <1>1, <1>3, <2>3 DEF Route, Replies
  <2> QED BY <2>1, <2>2, <2>3
<1>4. CASE RouteFails
  BY <1>1, <1>4 DEF RouteFails, Replies
<1>t. /\ Append(<<>>, "web") = <<"web">>
      /\ Append(<<"web">>, "backend") = <<"web", "backend">>
      /\ Append(<<"web", "backend">>, "db") = <<"web", "backend", "db">>
  BY AppendToTuple
<1>6. CASE serveGoodDb
  <2>1. withOPA => visited' \in {<<"web">>, <<"web", "backend", "db">>}
    BY <1>6, <1>t, Handling DEF serveGoodDb
  <2> QED BY <1>6, <2>1 DEF serveGoodDb, Replies, FlowInv
<1>7. CASE serveAndCall
  <2>1. withOPA => visited' \in {<<"web">>, <<"web", "backend">>}
    BY <1>7, <1>t, Handling DEF serveAndCall
  <2>2. CASE pc' = "reply"
    BY <1>7, <2>1, <2>2 DEF serveAndCall, FlowInv
  <2>3. CASE pc' = "arrive" /\ calls' = Append(calls, Onward(Now.path))
    <3>1. Now.path \in {"/the/good/path", "/the/bad/path", "/good/backend"}
      BY <1>0, <1>7 DEF serveAndCall, FlowInv, Cluster, Server
    <3>2. Onward(Now.path) \in {Local("web:8001", "/good/backend"), Local("web:8001", "/good/db"),
                                Local("backend:8002", "/good/db")}
      BY <3>1 DEF Onward
    <3>3. Onward(Now.path) \in Call
      BY <3>2 DEF Local, Call, Listener, Path, Address, Identity
    <3>4. calls' \in Seq(Call) /\ calls' # <<>> /\ Now' = Onward(Now.path)
      BY <2>3, <3>3, NowAppend DEF FlowInv
    <3>5. withOPA => \/ /\ visited' = <<"web">>
                        /\ Now' \in {Local("web:8001", "/good/backend"),
                                     Local("web:8001", "/good/db")}
                     \/ visited' = <<"web", "backend">> /\ Now' = Local("backend:8002", "/good/db")
      BY <1>7, <1>t, <3>1, <3>4, Handling DEF serveAndCall, Onward
    <3> QED BY <1>7, <2>3, <3>4, <3>5 DEF FlowInv, serveAndCall
  <2> QED BY <1>7, <2>2, <2>3 DEF serveAndCall, Replies
<1>8. CASE Return \/ AnswerLost
  <2>1. pc' \in {"reply", "done"} /\ UNCHANGED <<withOPA, visited>> /\ calls' = Front(calls)
    BY <1>8 DEF Return, AnswerLost
  <2>2. calls' \in Seq(Call)
    BY <2>1 DEF Front, FlowInv
  <2> QED BY <2>1, <2>2 DEF FlowInv
<1>9. CASE UNCHANGED vars
  BY <1>9 DEF vars, FlowInv, Now
<1> QED BY <1>2, <1>3, <1>4, <1>6, <1>7, <1>8, <1>9 DEF Next

(* policy.rego of the three services, README.md:98-126 of envoy-spire-ext-authz: by
   whatever Envoy, with whatever path and from wherever a request comes in, the db's
   handler runs only after web's and backend's. *)
THEOREM PoliciesKeepTheFlow == DemoSpec => []FlowHonoured
<1>1. DemoInit => FlowInv
  BY FlowInit DEF DemoInit
<1>2. FlowInv /\ [DemoNext]_<<demo, vars, chainVars>> => FlowInv'
  BY FlowStep, EachDemoSteps
<1>3. FlowInv => FlowHonoured
  <2>1. IsPrefix(<<>>, <<"web", "backend", "db">>)
    BY DEF IsPrefix
  <2>2. IsPrefix(<<"web">>, <<"web", "backend", "db">>)
    BY DEF IsPrefix
  <2>3. IsPrefix(<<"web", "backend">>, <<"web", "backend", "db">>)
    BY DEF IsPrefix
  <2>4. IsPrefix(<<"web", "backend", "db">>, <<"web", "backend", "db">>)
    BY DEF IsPrefix
  <2> QED BY <2>1, <2>2, <2>3, <2>4 DEF FlowInv, FlowHonoured
<1> QED BY <1>1, <1>2, <1>3, PTL DEF DemoSpec

LEMMA Appended ==
  ASSUME NEW S, NEW s \in Seq(S), NEW x \in S
  PROVE  /\ Append(s, x) \in Seq(S) /\ Len(Append(s, x)) = Len(s) + 1 /\ Len(s) \in Nat
         /\ Append(s, x)[Len(s) + 1] = x /\ \A j \in 1..Len(s) : Append(s, x)[j] = s[j]
OBVIOUS

LEMMA ToSetSmall ==
  ToSet(<<>>) = {} /\ \A x : ToSet(<<x>>) = {x}
<1>1. DOMAIN <<>> = {} /\ \A x : DOMAIN <<x>> = {1} /\ <<x>>[1] = x
  OBVIOUS
<1> QED BY <1>1 DEF ToSet

(* A call that is done is taken off. *)
LEMMA FrontCalls ==
  ASSUME calls \in Seq(Call), Len(calls) \in Nat \ {0}, calls' = Front(calls)
  PROVE  /\ calls' \in Seq(Call) /\ Len(calls') = Len(calls) - 1
         /\ \A i \in 1..(Len(calls) - 1) : calls'[i] = calls[i]
<1> DEFINE k == Len(calls) - 1
<1>1. k \in Nat /\ k <= Len(calls)
  OBVIOUS
<1>2. calls' = SubSeq(calls, 1, k)
  BY DEF Front
<1>3. \A i \in 1..k : calls[i] \in Call
  BY <1>1, ElementOfSeq
<1> HIDE DEF k
<1>4. calls' \in Seq(Call) /\ Len(calls') = k /\ \A i \in 1..k : calls'[i] = calls[i]
  BY <1>1, <1>2, <1>3
<1> QED BY <1>4 DEF k

-----------------------------------------------------------------------------
(* Refusals.  Which statuses can come back, and what a refusal of the bad path says of
   the db. *)

BadPath == "/the/bad/path"
Onwards == {"arrive", "route", "handle"}

(* Whoever made a call on behalf of the bad path serves no other path. *)
BadBelow == \A i \in 1..(Len(calls) - 1) : Cluster(calls[i]) \in Server => calls[i].path = BadPath

(* What web calls on the bad path, before its Envoy and at the db's. *)
BadNow == {Local("web:8001", "/good/db"), Through("db:8001", "/good/db", "web-server")}

(* web-server/main.go:66-82, policy.rego of the three services: with all in order, only the
   bad path's call is refused once a request has got through; a request for the bad path
   gets to no handler but web's. *)
RefusalInv ==
  /\ \A i \in 2..Len(calls) : calls[i].path # BadPath
  /\ Len(calls) > 1 /\ pc \in {"arrive", "route"} => Cluster(Now) # "none"
  /\ pc = "reply" /\ ~failed =>
       answer.status = 200 \/ (BadBelow /\ (answer.status = 403 \/ Len(calls) = 1))
  /\ withOPA /\ pc \in Onwards => /\ Now \in BadNow => BadBelow
                                  /\ visited = <<>> => Len(calls) = 1
  /\ withOPA /\ pc # "done" /\ calls[1].path = BadPath =>
       /\ visited \in {<<>>, <<"web">>}
       /\ visited = <<"web">> /\ pc \in Onwards => Now \in BadNow
  /\ withOPA /\ pc \in {"reply", "done"} /\ answer.verdict = "Forbidden" =>
       "db" \notin ToSet(visited)
  /\ pc # "done" => calls # <<>>

LEMMA RefusalInit == Init => RefusalInv
<1> SUFFICES ASSUME Init PROVE RefusalInv
  OBVIOUS
<1>1. PICK c \in Call : c.id = "none" /\ c.address # "127.0.0.1" /\ calls = <<c>>
  BY DEF Init
<1>2. calls # <<>> /\ Len(calls) = 1 /\ pc = "arrive" /\ visited = <<>> /\ Now = c
  BY <1>1 DEF Init, Now, Last
<1>3. Now \notin BadNow
  BY <1>1, <1>2 DEF BadNow, Local, Through
<1> QED BY <1>2, <1>3 DEF RefusalInv, Onwards

(* A request for the bad path that is in a handler is in web's own. *)
LEMMA HandlingBad ==
  ASSUME FlowInv, RefusalInv, pc = "handle", withOPA, calls[1].path = BadPath
  PROVE  visited = <<>> /\ Cluster(Now) = "web" /\ Now.path = BadPath /\ Len(calls) = 1
<1>1. visited # <<"web">>
  <2> SUFFICES ASSUME visited = <<"web">> PROVE FALSE
    OBVIOUS
  <2>1. Now \in BadNow
    BY DEF RefusalInv, Onwards
  <2>2. Now.path = "/good/backend"
    BY Handling
  <2> QED BY <2>1, <2>2 DEF BadNow, Local, Through
<1>2. visited = <<>> /\ Len(calls) = 1
  BY <1>1 DEF RefusalInv, Onwards
<1>3. Now = calls[1]
  BY <1>2 DEF Now, Last
<1> QED BY <1>2, <1>3, Handling

(* What a hop or a handler that calls makes of Now. *)
Hop(c) == /\ pc = "route" /\ Cluster(Now) \in Listener /\ visited' = visited
          /\ c = Through(Cluster(Now), Now.path, IdentityOf(Now.at))
Serves(c) == /\ pc = "handle" /\ Cluster(Now) \in Server /\ c = Onward(Now.path)
             /\ Now.path \in {"/the/good/path", BadPath, "/good/backend"}
             /\ visited' = Append(visited, Cluster(Now))

LEMMA RefusalPush ==
  ASSUME FlowInv, RefusalInv, withOPA' = withOPA, pc' = "arrive",
         NEW c \in Call, calls' = Append(calls, c), Hop(c) \/ Serves(c)
  PROVE  RefusalInv'
<1> DEFINE n == Len(calls)
<1>1. /\ n \in Nat \ {0} /\ Len(calls') = n + 1 /\ calls' # <<>> /\ Now' = c
      /\ \A i \in 1..n : calls'[i] = calls[i]
      /\ calls'[n + 1] = c
      /\ calls \in Seq(Call)
  <2>1. calls \in Seq(Call) /\ calls # <<>>
    BY DEF FlowInv, Hop, Serves
  <2>2. Now' = c /\ calls' # <<>>
    BY <2>1, NowAppend
  <2>3. Len(calls) \in Nat \ {0}
    BY <2>1
  <2> QED BY <2>1, <2>2, <2>3, Appended
<1>2. Now = calls[n]
  BY DEF Now, Last
<1>3. /\ c.path \in {"/good/backend", "/good/db"} /\ Cluster(c) # "none"
      /\ Hop(c) => c \in {Through("backend:8001", "/good/backend", IdentityOf(Now.at)),
                          Through("db:8001", "/good/db", IdentityOf(Now.at))}
      /\ Hop(c) => c.id # "none"
  <2>1. CASE Hop(c)
    <3>1. \/ Cluster(Now) = "backend:8001" /\ Now.path = "/good/backend"
          \/ Cluster(Now) = "db:8001" /\ Now.path = "/good/db"
      BY <2>1 DEF Hop, Cluster, Listener
    <3>2. c \in {Through("backend:8001", "/good/backend", IdentityOf(Now.at)),
                 Through("db:8001", "/good/db", IdentityOf(Now.at))}
      BY <2>1, <3>1 DEF Hop
    <3>3. c.path \in {"/good/backend", "/good/db"} /\ c.id = IdentityOf(Now.at)
      BY <3>2 DEF Through
    <3> QED BY <3>2, <3>3, WayOn DEF IdentityOf
  <2>2. CASE Serves(c)
    <3>1. ~Hop(c)
      BY <2>2 DEF Hop, Serves
    <3>2. c \in {Local("web:8001", "/good/backend"), Local("web:8001", "/good/db"),
                 Local("backend:8002", "/good/db")}
      BY <2>2 DEF Serves, Onward, BadPath
    <3> QED BY <3>1, <3>2, WayOn DEF Local
  <2> QED BY <2>1, <2>2
<1>4. \A i \in 2..Len(calls') : calls'[i].path # BadPath
  <2>1. ASSUME NEW i \in 2..(n + 1) PROVE calls'[i].path # BadPath
    <3>1. CASE i = n + 1
      BY <1>1, <1>3, <3>1 DEF BadPath
    <3>2. CASE i # n + 1
      <4>1. i \in 2..n /\ i \in 1..n
        BY <1>1, <3>2
      <4> QED BY <1>1, <4>1 DEF RefusalInv
    <3> QED BY <3>1, <3>2
  <2> QED BY <1>1, <2>1
<1>5. ASSUME withOPA, Hop(c)
      PROVE  Now \in {Local("web:8001", "/good/backend"), Local("web:8001", "/good/db"),
                      Local("backend:8002", "/good/db")} /\ visited # <<>>
  <2>1. Allowed(Now) /\ Now \in Call /\ Cluster(Now) \notin {"web", "backend", "db"}
    <3>1. Cluster(Now) \in Listener /\ pc = "route"
      BY <1>5 DEF Hop
    <3> QED BY <1>1, <1>5, <3>1 DEF FlowInv, Listener, Now, Last
  <2>2. ~Outside(Now)
    BY <2>1, OutsideAllowed
  <2>3. \/ /\ visited = <<"web">>
           /\ Now \in {Local("web:8001", "/good/backend"), Local("web:8001", "/good/db"),
                       Through("backend:8001", "/good/backend", "web-server"),
                       Through("db:8001", "/good/db", "web-server")}
        \/ /\ visited = <<"web", "backend">>
           /\ Now \in {Local("backend:8002", "/good/db"),
                       Through("db:8001", "/good/db", "backend-server")}
    BY <1>5, <2>2 DEF FlowInv, Hop
  <2>4. Now \in {Local("web:8001", "/good/backend"), Local("web:8001", "/good/db"),
                 Local("backend:8002", "/good/db")}
    BY <2>1, <2>3, WayOn, Zenon
  <2>5. visited # <<>>
    <3>1. <<"web">> # <<>> /\ <<"web", "backend">> # <<>>
      OBVIOUS
    <3> QED BY <2>3, <3>1, Zenon
  <2> QED BY <2>4, <2>5
<1>6. ASSUME withOPA, c \in BadNow PROVE BadBelow'
  <2>1. ASSUME NEW i \in 1..n, Cluster(calls[i]) \in Server PROVE calls[i].path = BadPath
    <3>1. CASE Serves(c)
      <4>1. Now.path = BadPath
        BY <1>6, <3>1 DEF Serves, Onward, BadNow, Local, Through, BadPath
      <4>2. n = 1
        <5>1. n \notin 2..n
          BY <1>2, <4>1 DEF RefusalInv
        <5>2. \A m \in Nat \ {0} : m \notin 2..m => m = 1
          OBVIOUS
        <5> QED BY <1>1, <5>1, <5>2, Zenon
      <4> QED BY <1>2, <4>1, <4>2
    <3>2. CASE Hop(c)
      <4>1. c.path = "/good/db" /\ c.id = "web-server" /\ c.address = "elsewhere"
        BY <1>3, <1>6, <3>2 DEF BadNow, Local, Through
      <4>2. Now.at = "web:8001" /\ Now.path = "/good/db" /\ Cluster(Now) \notin Server
        BY <3>2, <4>1 DEF Hop, Through, IdentityOf, Listener, Server
      <4>3. Now \in BadNow /\ pc = "route"
        BY <1>5, <1>6, <3>2, <4>2 DEF BadNow, Local, Hop
      <4>4. BadBelow
        BY <1>6, <4>3 DEF RefusalInv, Onwards
      <4>5. i # n
        BY <1>2, <2>1, <4>2
      <4> QED BY <1>1, <2>1, <4>4, <4>5 DEF BadBelow
    <3> QED BY <3>1, <3>2
  <2>2. ASSUME NEW i \in 1..(Len(calls') - 1) PROVE i \in 1..n /\ calls'[i] = calls[i]
    BY <1>1
  <2> QED BY <2>1, <2>2 DEF BadBelow
<1>7. ASSUME withOPA PROVE visited' # <<>>
  <2>1. CASE Serves(c)
    <3>1. visited \in {<<>>, <<"web">>, <<"web", "backend">>, <<"web", "backend", "db">>}
      BY <1>7 DEF FlowInv
    <3>2. Len(visited') = Len(visited) + 1 /\ Len(visited) \in Nat
      BY <2>1, <3>1 DEF Serves
    <3> QED BY <3>2
  <2>2. CASE Hop(c)
    BY <1>5, <1>7, <2>2 DEF Hop
  <2> QED BY <2>1, <2>2
<1>8. ASSUME withOPA, calls'[1].path = BadPath PROVE visited' = <<"web">> /\ c \in BadNow
  <2>1. calls[1].path = BadPath
    BY <1>1, <1>8
  <2>2. CASE Serves(c)
    <3>1. visited = <<>> /\ Cluster(Now) = "web" /\ Now.path = BadPath
      BY <1>8, <2>1, <2>2, HandlingBad DEF Serves
    <3>2. visited' = <<"web">>
      BY <2>2, <3>1, AppendToTuple DEF Serves
    <3> QED BY <2>2, <3>1, <3>2 DEF Serves, Onward, BadNow, BadPath
  <2>3. CASE Hop(c)
    <3>1. visited = <<"web">> /\ Now \in BadNow
      BY <1>5, <1>8, <2>1, <2>3 DEF RefusalInv, Hop, Onwards
    <3>2. Now = Local("web:8001", "/good/db")
      BY <1>5, <1>8, <2>3, <3>1 DEF BadNow, Local, Through
    <3>3. Cluster(Now) = "db:8001" /\ Now.path = "/good/db" /\ IdentityOf(Now.at) = "web-server"
      BY <3>2, WayOn DEF Local, IdentityOf
    <3> QED BY <2>3, <3>1, <3>3 DEF Hop, BadNow
  <2> QED BY <2>2, <2>3
<1> HIDE DEF n
<1>9. /\ Cluster(Now)' = Cluster(c) /\ (Now \in BadNow)' = (c \in BadNow)
  BY <1>1 DEF BadNow, Local, Through
<1> QED BY <1>1, <1>3, <1>4, <1>6, <1>7, <1>8, <1>9 DEF RefusalInv, Onwards

(* An answer to the call itself.  Unless something is out of order it is a 200, the
   refusal of a policy or, if there is no such route, a 404. *)
LEMMA RefusalReply ==
  ASSUME FlowInv, RefusalInv, withOPA' = withOPA, pc \in Onwards, pc' = "reply", calls' = calls,
         answer'.verdict = "none",
         \/ visited' = visited
         \/ pc = "handle" /\ visited' = Append(visited, Cluster(Now)),
         \/ failed'
         \/ answer'.status = 200
         \/ answer'.status = 403 /\ pc = "arrive" /\ withOPA /\ ~Allowed(Now)
         \/ pc = "route" /\ Cluster(Now) = "none"
  PROVE  RefusalInv'
<1>1. calls # <<>> /\ calls \in Seq(Call) /\ Len(calls) \in Nat \ {0}
  BY DEF FlowInv, Onwards
<1>2. ASSUME ~failed', answer'.status # 200
      PROVE  BadBelow /\ (answer'.status = 403 \/ Len(calls) = 1)
  <2>1. CASE Len(calls) = 1
    BY <2>1 DEF BadBelow
  <2>2. CASE Len(calls) # 1
    <3>1. answer'.status = 403 /\ pc = "arrive" /\ withOPA /\ ~Allowed(Now)
      <4>1. Len(calls) > 1
        <5>1. \A m \in Nat \ {0} : m # 1 => m > 1
          OBVIOUS
        <5> QED BY <1>1, <2>2, <5>1, Zenon
      <4>2. ~(pc = "route" /\ Cluster(Now) = "none")
        BY <4>1 DEF RefusalInv
      <4> QED BY <1>2, <4>2
    <3>2. Now \in BadNow
      <4>1. visited # <<>>
        BY <2>2, <3>1 DEF RefusalInv, Onwards
      <4>2. /\ Allowed(Local("web:8001", "/good/backend"))
            /\ Allowed(Through("backend:8001", "/good/backend", "web-server"))
            /\ Allowed(Local("backend:8002", "/good/db"))
            /\ Allowed(Through("db:8001", "/good/db", "backend-server"))
        BY DEF Allowed, Web, Backend, Db, Local, Through
      <4> QED BY <3>1, <4>1, <4>2 DEF FlowInv, BadNow
    <3> QED BY <3>1, <3>2 DEF RefusalInv, Onwards
  <2> QED BY <2>1, <2>2
<1>3. ASSUME withOPA, calls[1].path = BadPath PROVE visited' \in {<<>>, <<"web">>}
  <2>1. CASE visited' = visited
    BY <1>3, <2>1 DEF RefusalInv, Onwards
  <2>2. CASE pc = "handle" /\ visited' = Append(visited, Cluster(Now))
    BY <1>3, <2>2, HandlingBad, AppendToTuple
  <2> QED BY <2>1, <2>2
<1>4. BadBelow' = BadBelow /\ calls'[1] = calls[1]
  BY DEF BadBelow
<1> QED BY <1>1, <1>2, <1>3, <1>4 DEF RefusalInv, Onwards

(* An answer that the call before the last one gets. *)
LEMMA RefusalPop ==
  ASSUME FlowInv, RefusalInv, withOPA' = withOPA, visited' = visited, pc = "reply", pc' = "reply",
         calls' = Front(calls), Len(calls) # 1,
         \/ failed' /\ answer'.verdict = "none"
         \/ answer' = answer /\ failed' = failed
         \/ /\ Cluster(calls[Len(calls) - 1]) \in Server /\ (failed => failed')
            /\ \E n \in 0..Len(answer.body) :
                 answer' = Answer(calls[Len(calls) - 1].path, answer, n)
  PROVE  RefusalInv'
<1> DEFINE k == Len(calls) - 1
<1>1. calls \in Seq(Call) /\ calls # <<>> /\ k \in Nat \ {0} /\ Len(calls) = k + 1
  <2>1. calls \in Seq(Call) /\ calls # <<>>
    BY DEF FlowInv, RefusalInv
  <2>2. \A m \in Nat \ {0} : m # 1 => m - 1 \in Nat \ {0} /\ m = (m - 1) + 1
    OBVIOUS
  <2>3. Len(calls) \in Nat \ {0}
    BY <2>1
  <2> QED BY <2>1, <2>2, <2>3
<1>2. Len(calls') = k /\ (\A i \in 1..k : calls'[i] = calls[i]) /\ calls' \in Seq(Call)
  <2>1. Len(calls) \in Nat \ {0}
    BY <1>1
  <2> QED BY <1>1, <2>1, FrontCalls, Zenon
<1>3. calls' # <<>> /\ calls'[1] = calls[1]
  BY <1>1, <1>2
<1>4. \A i \in 2..Len(calls') : calls'[i].path # BadPath
  <2>1. \A i \in 2..k : i \in 2..Len(calls) /\ calls'[i] = calls[i]
    BY <1>1, <1>2
  <2> QED BY <1>2, <2>1 DEF RefusalInv
<1>5. BadBelow => BadBelow'
  <2>1. ASSUME NEW i \in 1..(Len(calls') - 1)
        PROVE  i \in 1..(Len(calls) - 1) /\ calls'[i] = calls[i]
    <3>1. i \in 1..k
      BY <1>1, <1>2
    <3> QED BY <1>2, <3>1
  <2> QED BY <2>1 DEF BadBelow
<1>6. CASE failed' /\ answer'.verdict = "none"
  BY <1>2, <1>3, <1>4, <1>6 DEF RefusalInv, Onwards
<1>7. CASE answer' = answer /\ failed' = failed
  <2>1. pc' = "reply" /\ ~failed' /\ answer'.status # 200 => BadBelow' /\ answer'.status = 403
    BY <1>5, <1>7 DEF RefusalInv
  <2> QED BY <1>2, <1>3, <1>4, <1>7, <2>1 DEF RefusalInv, Onwards
<1>8. ASSUME Cluster(calls[k]) \in Server, failed => failed', NEW n \in 0..Len(answer.body),
             answer' = Answer(calls[k].path, answer, n)
      PROVE  RefusalInv'
  <2>1. CASE answer'.status = 200
    <3>1. answer'.verdict # "Forbidden"
      BY <1>8, <2>1 DEF Answer, Complete, Says, Empty
    <3> QED BY <1>2, <1>3, <1>4, <2>1, <3>1 DEF RefusalInv, Onwards
  <2>2. CASE answer'.status # 200
    <3>1. calls[k].path = BadPath /\ answer'.status = answer.status /\ answer.status # 200
      BY <1>8, <2>2 DEF Answer, Complete, Says, Empty, BadPath
    <3>2. k = 1
      <4>1. k \notin 2..Len(calls)
        BY <3>1 DEF RefusalInv
      <4> QED BY <1>1, <4>1
    <3>3. calls[1].path = BadPath
      BY <3>1, <3>2
    <3>4. withOPA => "db" \notin ToSet(visited)
      <4>1. withOPA => visited \in {<<>>, <<"web">>}
        BY <3>3 DEF RefusalInv
      <4>2. ToSet(<<>>) = {} /\ ToSet(<<"web">>) = {"web"}
        BY ToSetSmall
      <4> QED BY <4>1, <4>2
    <3>5. ~failed' => BadBelow'
      BY <1>5, <1>8, <3>1 DEF RefusalInv
    <3>6. Len(calls') = 1
      BY <1>2, <3>2
    <3> QED BY <1>3, <1>4, <3>1, <3>3, <3>4, <3>5, <3>6 DEF RefusalInv, Onwards
  <2> QED BY <2>1, <2>2
<1> HIDE DEF k
<1>9. ASSUME Cluster(calls[Len(calls) - 1]) \in Server, failed => failed',
             \E n \in 0..Len(answer.body) : answer' = Answer(calls[Len(calls) - 1].path, answer, n)
      PROVE  RefusalInv'
  BY <1>8, <1>9 DEF k
<1> QED BY <1>6, <1>7, <1>9

LEMMA RefusalStep == FlowInv /\ RefusalInv /\ [Next]_vars => RefusalInv'
<1> SUFFICES ASSUME FlowInv, RefusalInv, [Next]_vars PROVE RefusalInv'
  OBVIOUS
<1>0. pc \in Onwards => Now \in Call
  BY DEF FlowInv, Now, Last, Onwards
<1>1. ASSUME UNCHANGED <<withOPA, calls, visited>>, pc \in {"arrive", "route"}, pc' \in {"route", "handle"}
      PROVE  RefusalInv'
  BY <1>1 DEF RefusalInv, Onwards, Now, BadBelow, BadNow, Local, Through
<1>2. CASE Authorize
  <2>1. CASE pc' = "route"
    BY <1>1, <1>2, <2>1 DEF Authorize
  <2>2. CASE pc' # "route"
    <3>1. /\ pc = "arrive" /\ pc' = "reply" /\ UNCHANGED <<withOPA, calls, visited>> /\ withOPA
          /\ answer' = Empty(403) /\ (failed' \/ ~Allowed(Now))
      BY <1>2, <2>2 DEF Authorize, Replies
    <3>2. answer'.verdict = "none" /\ answer'.status = 403
      BY <3>1 DEF Empty, Says
    <3> QED BY <3>1, <3>2, RefusalReply DEF Onwards
  <2> QED BY <2>1, <2>2
<1>3. CASE Route
  <2>t. Server \cap Listener = {} /\ "none" \notin Server /\ "none" \notin Listener
    BY DEF Server, Listener
  <2>0. pc = "route" /\ UNCHANGED <<withOPA, visited>>
    BY <1>3 DEF Route
  <2>1. CASE Cluster(Now) \in Server
    <3>1. pc' = "handle" /\ calls' = calls
      BY <1>3, <2>1, <2>t DEF Route
    <3> QED BY <1>1, <2>0, <3>1
  <2>2. CASE Cluster(Now) \in Listener
    <3> DEFINE next == Through(Cluster(Now), Now.path, IdentityOf(Now.at))
    <3>1. calls' = Append(calls, next) /\ pc' = "arrive"
      BY <1>3, <2>2, <2>t DEF Route, Through
    <3>2. next \in Call
      BY <1>0, <2>0, <2>2 DEF Onwards, Through, Call, IdentityOf, Identity, Address
    <3>3. Hop(next)
      BY <2>0, <2>2 DEF Hop
    <3> HIDE DEF next
    <3> QED BY <2>0, <3>1, <3>2, <3>3, RefusalPush
  <2>3. CASE Cluster(Now) \notin Server \cup Listener
    <3>1. pc' = "reply" /\ answer' = Empty(404) /\ calls' = calls
      BY <1>3, <2>3 DEF Route, Replies
    <3>2. answer'.verdict = "none"
      BY <3>1 DEF Empty, Says
    <3>3. Cluster(Now) = "none"
      BY <2>3 DEF Cluster, Server, Listener
    <3> QED BY <2>0, <3>1, <3>2, <3>3, RefusalReply DEF Onwards
  <2> QED BY <2>1, <2>2, <2>3
<1>4. CASE RouteFails
  <2>1. /\ pc = "route" /\ pc' = "reply" /\ UNCHANGED <<withOPA, calls, visited>> /\ failed'
        /\ answer' = Empty(503)
    BY <1>4 DEF RouteFails, Replies
  <2>2. answer'.verdict = "none"
    BY <2>1 DEF Empty, Says
  <2> QED BY <2>1, <2>2, RefusalReply DEF Onwards
<1>5. CASE serveGoodDb
  <2>1. /\ pc = "handle" /\ pc' = "reply" /\ UNCHANGED <<withOPA, calls>>
        /\ visited' = Append(visited, Cluster(Now))
        /\ answer' = Says(200, "none", <<Cluster(Now)>>) \/ (answer' = Empty(503) /\ failed')
    BY <1>5 DEF serveGoodDb, Replies
  <2>2. answer'.verdict = "none" /\ (answer'.status = 200 \/ failed')
    BY <2>1 DEF Empty, Says
  <2> QED BY <2>1, <2>2, RefusalReply DEF Onwards
<1>6. CASE serveAndCall
  <2>1. /\ pc = "handle" /\ UNCHANGED withOPA /\ visited' = Append(visited, Cluster(Now))
        /\ Now.path \notin {"/hello", "/good/db"} /\ Cluster(Now) \in Server
    BY <1>6 DEF serveAndCall, FlowInv
  <2>2. CASE pc' = "reply"
    <3>1. answer' = Empty(200) /\ calls' = calls
      BY <1>6, <2>2 DEF serveAndCall, Replies
    <3>2. answer'.verdict = "none" /\ answer'.status = 200
      BY <3>1 DEF Empty, Says
    <3> QED BY <2>1, <2>2, <3>1, <3>2, RefusalReply DEF Onwards
  <2>3. CASE pc' # "reply"
    <3>1. pc' = "arrive" /\ calls' = Append(calls, Onward(Now.path))
      BY <1>6, <2>3 DEF serveAndCall, Replies
    <3>2. Now.path \in {"/the/good/path", BadPath, "/good/backend"}
      BY <1>0, <2>1 DEF Onwards, Cluster, Server, BadPath
    <3>3. Onward(Now.path) \in Call
      BY <3>2 DEF BadPath, Onward, Local, Call, Listener, Path, Address, Identity
    <3>4. Serves(Onward(Now.path))
      BY <2>1, <3>2 DEF Serves
    <3> QED BY <2>1, <3>1, <3>3, <3>4, RefusalPush
  <2> QED BY <2>2, <2>3
<1>7. CASE Return
  <2>1. pc = "reply" /\ calls' = Front(calls) /\ UNCHANGED <<withOPA, visited>>
    BY <1>7 DEF Return
  <2>2. CASE Len(calls) = 1
    <3>1. pc' = "done" /\ answer' = answer
      BY <1>7, <2>2 DEF Return
    <3>2. Len(calls') = 0
      BY <2>1, <2>2 DEF Front
    <3> QED BY <2>1, <3>1, <3>2 DEF RefusalInv, Onwards
  <2>3. CASE Len(calls) # 1
    <3>1. pc' = "reply"
      BY <1>7, <2>1, <2>3 DEF Return
    <3>2. \/ answer' = answer /\ failed' = failed
          \/ /\ Cluster(calls[Len(calls) - 1]) \in Server /\ (failed => failed')
             /\ \E n \in 0..Len(answer.body) :
                  answer' = Answer(calls[Len(calls) - 1].path, answer, n)
      BY <1>7, <2>3, Zenon DEF Return
    <3> QED BY <2>1, <2>3, <3>1, <3>2, RefusalPop
  <2> QED BY <2>2, <2>3
<1>8. CASE AnswerLost
  <2>1. /\ pc = "reply" /\ pc' = "reply" /\ Len(calls) > 1 /\ calls' = Front(calls)
        /\ failed' = TRUE /\ UNCHANGED <<withOPA, visited>>
        /\ answer' = Empty(503) \/ answer' = Empty(200)
    BY <1>8 DEF AnswerLost
  <2>3. Len(calls) # 1
    <3>1. Len(calls) \in Nat
      BY DEF FlowInv
    <3>2. \A m \in Nat : m > 1 => m # 1
      OBVIOUS
    <3> QED BY <2>1, <3>1, <3>2, Zenon
  <2>2. answer'.verdict = "none"
    BY <2>1 DEF Empty, Says
  <2> QED BY <2>1, <2>2, <2>3, RefusalPop
<1>9. CASE UNCHANGED vars
  BY <1>9 DEF vars, RefusalInv, Now, BadBelow, BadNow, Local, Through, Onwards
<1> QED BY <1>2, <1>3, <1>4, <1>5, <1>6, <1>7, <1>8, <1>9 DEF Next

-----------------------------------------------------------------------------
(* The answers of the SPIFFE demo. *)

LEMMA PrefixByElements ==
  ASSUME NEW S, NEW s \in Seq(S), NEW t \in Seq(S), Len(s) <= Len(t),
         \A j \in 1..Len(s) : s[j] = t[j]
  PROVE  IsPrefix(s, t)
<1>1. Len(s) \in Nat /\ Len(t) \in Nat /\ SubSeq(s, 1, Len(s)) = s
  BY SubSeqFull
<1>2. /\ SubSeq(t, 1, Len(s)) \in Seq(S) /\ Len(SubSeq(t, 1, Len(s))) = Len(s)
      /\ \A j \in 1..Len(s) : SubSeq(t, 1, Len(s))[j] = t[j]
  BY <1>1
<1>3. SubSeq(t, 1, Len(s)) = s
  BY <1>2, SeqEqual
<1> QED BY <1>1, <1>3 DEF IsPrefix

(* How many handlers have run before each call of the stack was made: one more after
   each call that a handler has got and passed on. *)
Base(b, cs, vs) ==
  /\ b \in [1..Len(cs) -> 0..Len(vs)] /\ b[1] = 0
  /\ \A i \in 1..(Len(cs) - 1) :
       IF Cluster(cs[i]) \in Server
         THEN /\ b[i] < Len(vs) /\ b[i + 1] = b[i] + 1 /\ vs[b[i] + 1] = Cluster(cs[i])
              /\ cs[i].path \notin {"/hello", "/good/db"}
         ELSE b[i + 1] = b[i]

(* A body names handlers in their order, from the one after the k-th on. *)
Names(body, vs, k) ==
  k + Len(body) <= Len(vs) /\ \A j \in 1..Len(body) : body[j] = vs[k + j]

Answers == [status : Nat, verdict : Verdict, body : Seq(Server)]

(* What an answer tells the call before which k handlers had run.  Unless it is
   "Forbidden path", it names handlers that have run since; if it is a 200, all of them
   exactly if nothing was out of order; and "Forbidden path" is no 200. *)
Tells(a, f, vs, k) ==
  /\ a.verdict # "Forbidden" => Names(a.body, vs, k)
  /\ a.status = 200 => (f <=> k + Len(a.body) # Len(vs))
  /\ a.verdict = "Forbidden" => a.status # 200 /\ (a.status = 403 \/ f)

(* web-server/main.go:40-49, 71-82: what the answer tells the call it is for, at any depth
   of the stack, and the client in the end. *)
StackInv ==
  /\ calls \in Seq(Call) /\ visited \in Seq(Server)
  /\ answer \in Answers /\ failed \in BOOLEAN
  /\ pc \in {"arrive", "route", "handle", "reply", "done"}
  /\ pc = "handle" => Cluster(Now) \in Server
  /\ pc \in Onwards => ~failed
  /\ pc = "done" => /\ answer.verdict # "Forbidden" => IsPrefix(answer.body, visited)
                    /\ answer.status = 200 => (failed <=> answer.body # visited)
                    /\ answer.verdict = "Forbidden" => answer.status = 403 \/ failed
  /\ pc # "done" => calls # <<>>
  /\ pc # "done" => \E b : /\ Base(b, calls, visited)
                           /\ pc = "reply" => Tells(answer, failed, visited, b[Len(calls)])
                           /\ pc # "reply" => Len(visited) = b[Len(calls)]

LEMMA StackInit == Init => StackInv
<1> SUFFICES ASSUME Init PROVE StackInv
  OBVIOUS
<1>1. PICK c \in Call : calls = <<c>>
  BY DEF Init
<1>2. calls \in Seq(Call) /\ calls # <<>> /\ Len(calls) = 1 /\ visited = <<>> /\ Len(visited) = 0
  BY <1>1 DEF Init
<1>3. Base([i \in 1..1 |-> 0], calls, visited)
  BY <1>2 DEF Base
<1>4. pc = "arrive" /\ answer \in Answers /\ visited \in Seq(Server) /\ failed = FALSE
  BY DEF Init, Empty, Says, Answers, Verdict
<1>5. Len(visited) = [i \in 1..1 |-> 0][Len(calls)]
  BY <1>2
<1> QED BY <1>2, <1>3, <1>4, <1>5 DEF StackInv

(* A call that is passed on, by an Envoy or by a handler that has run. *)
LEMMA Push ==
  ASSUME StackInv, pc \in {"route", "handle"}, pc' = "arrive", UNCHANGED <<answer, failed>>,
         NEW c \in Call, calls' = Append(calls, c),
         \/ Cluster(Now) \notin Server /\ visited' = visited
         \/ /\ Cluster(Now) \in Server /\ visited' = Append(visited, Cluster(Now))
            /\ Now.path \notin {"/hello", "/good/db"}
  PROVE  StackInv'
<1>1. PICK b : Base(b, calls, visited) /\ Len(visited) = b[Len(calls)]
  BY DEF StackInv
<1> DEFINE n == Len(calls)
           d == [i \in 1..(n + 1) |-> IF i <= n THEN b[i] ELSE Len(visited')]
<1>2. /\ n \in Nat \ {0} /\ calls' \in Seq(Call) /\ calls' # <<>> /\ Len(calls') = n + 1
      /\ \A i \in 1..n : calls'[i] = calls[i]
  BY DEF StackInv
<1>3. Now = calls[n]
  BY DEF Now, Last
<1>4. /\ Len(visited) \in Nat /\ visited' \in Seq(Server)
      /\ \A j \in 1..Len(visited) : visited'[j] = visited[j]
      /\ Len(visited') = Len(visited) + (IF Cluster(Now) \in Server THEN 1 ELSE 0)
      /\ Cluster(Now) \in Server => visited'[Len(visited) + 1] = Cluster(Now)
  <2>1. visited \in Seq(Server)
    BY DEF StackInv
  <2>2. CASE Cluster(Now) \in Server
    <3>1. visited' = Append(visited, Cluster(Now))
      BY <2>2
    <3> HIDE DEF d, n
    <3> QED BY <2>1, <2>2, <3>1, Appended
  <2>3. CASE Cluster(Now) \notin Server
    BY <2>1, <2>3
  <2> QED BY <2>2, <2>3
<1>5. d \in [1..Len(calls') -> 0..Len(visited')] /\ d[1] = 0
  BY <1>1, <1>2, <1>4 DEF Base
<1>6. ASSUME NEW i \in 1..(Len(calls') - 1)
      PROVE  IF Cluster(calls'[i]) \in Server
               THEN /\ d[i] < Len(visited') /\ d[i + 1] = d[i] + 1
                    /\ visited'[d[i] + 1] = Cluster(calls'[i])
                    /\ calls'[i].path \notin {"/hello", "/good/db"}
               ELSE d[i + 1] = d[i]
  <2>1. calls'[i] = calls[i] /\ i \in 1..n /\ d[i] = b[i] /\ b[i] \in 0..Len(visited)
    BY <1>1, <1>2 DEF Base
  <2>2. CASE i = n
    <3>1. d[i + 1] = Len(visited') /\ d[i] = Len(visited)
      BY <1>1, <1>2, <2>1, <2>2
    <3> QED BY <1>3, <1>4, <2>1, <2>2, <3>1
  <2>3. CASE i # n
    <3>1. i \in 1..(n - 1) /\ d[i + 1] = b[i + 1]
      BY <1>2, <2>1, <2>3
    <3>2. IF Cluster(calls[i]) \in Server
            THEN /\ b[i] < Len(visited) /\ b[i + 1] = b[i] + 1
                 /\ visited[b[i] + 1] = Cluster(calls[i])
                 /\ calls[i].path \notin {"/hello", "/good/db"}
            ELSE b[i + 1] = b[i]
      BY <1>1, <3>1 DEF Base
    <3> QED BY <1>4, <2>1, <3>1, <3>2, SMTT(30)
  <2> QED BY <2>2, <2>3
<1>7. Base(d, calls', visited')
  BY <1>5, <1>6 DEF Base
<1>8. Len(visited') = d[Len(calls')]
  BY <1>2
<1>9. answer' \in Answers /\ failed' = FALSE
  BY DEF StackInv, Onwards
<1> HIDE DEF d, n
<1> QED BY <1>2, <1>4, <1>7, <1>8, <1>9 DEF StackInv

(* An answer that the call itself gets, with at most its own handler's name. *)
LEMMA Reply ==
  ASSUME StackInv, pc \in {"arrive", "route", "handle"}, pc' = "reply", calls' = calls,
         answer' \in Answers, answer'.verdict = "none", failed' \in BOOLEAN,
         answer'.status = 200 => (failed' <=> Len(visited) + Len(answer'.body) # Len(visited')),
         \/ visited' = visited /\ answer'.body = <<>>
         \/ /\ Cluster(Now) \in Server /\ visited' = Append(visited, Cluster(Now))
            /\ answer'.body \in {<<>>, <<Cluster(Now)>>}
  PROVE  StackInv'
<1> DEFINE body == answer'.body
<1>1. PICK b : Base(b, calls, visited) /\ Len(visited) = b[Len(calls)]
  BY DEF StackInv
<1>2. /\ Len(visited) \in Nat /\ visited' \in Seq(Server) /\ Len(visited') >= Len(visited)
      /\ Len(visited') \in Nat
      /\ \A j \in 1..Len(visited) : visited'[j] = visited[j]
      /\ body # <<>> => /\ Len(body) = 1 /\ Len(visited') = Len(visited) + 1
                        /\ body[1] = visited'[Len(visited) + 1]
  <2>1. visited \in Seq(Server)
    BY DEF StackInv
  <2>2. CASE visited' = visited /\ body = <<>>
    BY <2>1, <2>2
  <2>3. CASE /\ Cluster(Now) \in Server /\ visited' = Append(visited, Cluster(Now))
             /\ body \in {<<>>, <<Cluster(Now)>>}
    BY <2>1, <2>3, Appended
  <2> QED BY <2>2, <2>3
<1>3. Base(b, calls, visited')
  <2>1. /\ b \in [1..Len(calls) -> 0..Len(visited')] /\ b[1] = 0
        /\ Len(calls) \in Nat
    BY <1>1, <1>2 DEF Base, StackInv
  <2>2. ASSUME NEW i \in 1..(Len(calls) - 1), Cluster(calls[i]) \in Server
        PROVE  b[i] < Len(visited') /\ visited'[b[i] + 1] = visited[b[i] + 1]
    <3>1. b[i] \in 0..Len(visited) /\ b[i] < Len(visited)
      BY <1>1, <2>1, <2>2 DEF Base
    <3>2. b[i] + 1 \in 1..Len(visited) /\ b[i] < Len(visited')
      BY <1>2, <3>1, SMTT(30)
    <3> QED BY <1>2, <3>2
  <2> QED BY <1>1, <2>1, <2>2 DEF Base
<1>4. Names(body, visited', b[Len(calls)])
  <2>1. CASE body = <<>>
    BY <1>1, <1>2, <2>1 DEF Names
  <2>2. CASE body # <<>>
    <3>1. /\ Len(body) = 1 /\ body[1] = visited'[b[Len(calls)] + 1]
          /\ b[Len(calls)] + 1 <= Len(visited')
      BY <1>1, <1>2, <2>2
    <3> QED BY <3>1 DEF Names
  <2> QED BY <2>1, <2>2
<1>5. Tells(answer', failed', visited', b[Len(calls)])
  BY <1>1, <1>4 DEF Tells
<1> QED BY <1>2, <1>3, <1>5 DEF StackInv, Onwards

(* The handler puts its own name in front of what it has read. *)
LEMMA AnswerTells ==
  ASSUME NEW cs, NEW vs \in Seq(Server), NEW b, NEW i \in 1..(Len(cs) - 1), Base(b, cs, vs),
         cs[i] \in Call, Cluster(cs[i]) \in Server, Len(cs) \in Nat,
         NEW a \in Answers, NEW n \in 0..Len(a.body), NEW f \in BOOLEAN,
         Tells(a, f, vs, b[i + 1]),
         ~f => a.status = 200 \/ (cs[i].path = BadPath /\ a.status = 403)
  PROVE  /\ Answer(cs[i].path, a, n) \in Answers
         /\ Tells(Answer(cs[i].path, a, n), f \/ n < Len(a.body), vs, b[i])
<1>1. /\ b[i] \in Nat /\ b[i] < Len(vs) /\ b[i + 1] = b[i] + 1 /\ Len(vs) \in Nat
      /\ vs[b[i] + 1] = Cluster(cs[i]) /\ cs[i].path \notin {"/hello", "/good/db"}
  BY SMTT(30) DEF Base
<1> DEFINE me == Own(cs[i].path)
           rest == SubSeq(a.body, 1, n)
<1>2. Cluster(cs[i]) = me /\ me \in Server
  BY <1>1 DEF Cluster, Server, Own
<1>3. /\ rest \in Seq(Server) /\ Len(rest) = n /\ n \in Nat /\ n <= Len(a.body)
      /\ \A j \in 1..n : rest[j] = a.body[j]
      /\ a.status \in Nat /\ a.verdict \in Verdict /\ a.body \in Seq(Server) /\ Len(a.body) \in Nat
  <2>1. a.status \in Nat /\ a.verdict \in Verdict /\ a.body \in Seq(Server) /\ Len(a.body) \in Nat
    BY DEF Answers
  <2> QED BY <2>1
<1>4. <<me>> \in Seq(Server) /\ Len(<<me>>) = 1 /\ <<me>>[1] = me
  BY <1>2
<1> HIDE DEF me, rest
<1>5. /\ <<me>> \o rest \in Seq(Server) /\ Len(<<me>> \o rest) = 1 + n
      /\ \A j \in 1..(1 + n) : (<<me>> \o rest)[j] = IF j = 1 THEN me ELSE rest[j - 1]
  BY <1>3, <1>4, ConcatProperties
<1>6. CASE a.status # 200
  <2>1. CASE cs[i].path = BadPath
    <3>1. /\ Answer(cs[i].path, a, n) = Says(a.status, "Forbidden", <<"web", "db">>)
          /\ <<"web", "db">> \in Seq(Server)
      BY <1>6, <2>1 DEF Answer, BadPath, Server
    <3> QED BY <1>3, <1>6, <3>1 DEF Says, Tells, Answers, Verdict
  <2>2. CASE cs[i].path # BadPath
    <3>1. Answer(cs[i].path, a, n) = Says(200, "none", <<>>) /\ f /\ <<>> \in Seq(Server)
      BY <1>6, <2>2 DEF Answer, BadPath, Empty
    <3>2. Names(<<>>, vs, b[i]) /\ b[i] + Len(<<>>) # Len(vs)
      BY <1>1 DEF Names
    <3> QED BY <3>1, <3>2 DEF Says, Tells, Answers, Verdict
  <2> QED BY <2>1, <2>2
<1>7. CASE a.status = 200
  <2>0. Names(a.body, vs, b[i + 1]) /\ (f <=> b[i + 1] + Len(a.body) # Len(vs))
    BY <1>7 DEF Tells
  <2>1. PICK v \in {"none", "Allowed"} : Answer(cs[i].path, a, n) = Says(200, v, <<me>> \o rest)
    BY <1>7 DEF Answer, Complete, me, rest
  <2>2. b[i] + (1 + n) <= Len(vs)
    <3>1. b[i + 1] + Len(a.body) <= Len(vs) /\ b[i] \in Nat /\ b[i + 1] = b[i] + 1
      BY <1>1, <2>0 DEF Names
    <3>2. n \in Nat /\ n <= Len(a.body) /\ Len(a.body) \in Nat /\ Len(vs) \in Nat
      BY <1>1, <1>3
    <3>3. \A x, m, k, l \in Nat : x + 1 + k <= l /\ m <= k => x + (1 + m) <= l
      OBVIOUS
    <3> QED BY ONLY <3>1, <3>2, <3>3
  <2>3. ASSUME NEW j \in 1..(1 + n) PROVE (<<me>> \o rest)[j] = vs[b[i] + j]
    <3>1. CASE j = 1
      BY <1>1, <1>2, <1>5, <3>1
    <3>2. CASE j # 1
      <4>1. j - 1 \in 1..n /\ j - 1 \in 1..Len(a.body) /\ b[i + 1] + (j - 1) = b[i] + j
        <5>1. j \in Nat /\ 1 <= j /\ j <= 1 + n /\ Len(a.body) \in Nat
          BY <1>3
        <5>2. j - 1 \in 1..n /\ j - 1 \in 1..Len(a.body)
          BY <1>3, <3>2, <5>1
        <5>3. b[i] \in Nat /\ b[i + 1] = b[i] + 1
          BY <1>1
        <5>4. \A x, y, m \in Int : y = x + 1 => y + (m - 1) = x + m
          OBVIOUS
        <5>6. b[i] \in Int /\ b[i + 1] \in Int /\ j \in Int
          BY <5>1, <5>3
        <5>5. b[i + 1] + (j - 1) = b[i] + j
          BY ONLY <5>3, <5>4, <5>6, Zenon
        <5> QED BY <5>2, <5>5
      <4>2. a.body[j - 1] = vs[b[i + 1] + (j - 1)]
        BY <2>0, <4>1 DEF Names
      <4> QED BY <1>3, <1>5, <3>2, <4>1, <4>2, SMTT(30)
    <3> QED BY <3>1, <3>2
  <2>4. Names(<<me>> \o rest, vs, b[i])
    BY <1>5, <2>2, <2>3 DEF Names
  <2>5. (f \/ n < Len(a.body)) <=> b[i] + (1 + n) # Len(vs)
    <3>2. b[i + 1] + Len(a.body) <= Len(vs)
      BY <2>0 DEF Names
    <3>3. b[i + 1] \in Nat
      <4>1. \A x \in Nat : x + 1 \in Nat
        OBVIOUS
      <4>2. b[i] + 1 \in Nat
        BY <1>1, <4>1
      <4> QED BY <1>1, <4>2, Zenon
    <3>4. (b[i + 1] + Len(a.body) # Len(vs) \/ n < Len(a.body)) <=> b[i] + (1 + n) # Len(vs)
      <4> DEFINE x == b[i]
                 y == b[i + 1]
                 l == Len(a.body)
                 t == Len(vs)
      <4>1. x \in Nat /\ y \in Nat /\ n \in Nat /\ l \in Nat /\ t \in Nat
            /\ y = x + 1 /\ n <= l /\ y + l <= t
        BY <1>1, <1>3, <3>2, <3>3, Zenon
      <4> HIDE DEF x, y, l, t
      <4>2. (y + l # t \/ n < l) <=> x + (1 + n) # t
        BY <4>1
      <4> QED BY <4>2, Zenon DEF x, y, l, t
    <3> QED BY <2>0, <3>4, Zenon
  <2> QED BY <1>5, <2>1, <2>4, <2>5 DEF Says, Tells, Answers, Verdict
<1> QED BY <1>6, <1>7

(* An answer goes back one call, and tells that call what it should. *)
LEMMA PopOne ==
  ASSUME StackInv, pc = "reply", pc' = "reply", Len(calls) # 1, calls' = Front(calls),
         visited' = visited, answer' \in Answers, failed' \in BOOLEAN,
         \A b : /\ Base(b, calls, visited)
                /\ Tells(answer, failed, visited, b[Len(calls)])
                => Tells(answer', failed', visited, b[Len(calls) - 1])
  PROVE  StackInv'
<1>1. calls \in Seq(Call) /\ visited \in Seq(Server) /\ Len(calls) \in Nat \ {0}
  BY DEF StackInv
<1>2. PICK b : Base(b, calls, visited) /\ Tells(answer, failed, visited, b[Len(calls)])
  BY DEF StackInv
<1>4. /\ calls' \in Seq(Call) /\ Len(calls') = Len(calls) - 1
      /\ \A i \in 1..(Len(calls) - 1) : calls'[i] = calls[i]
  BY <1>1, FrontCalls
<1> DEFINE k == Len(calls) - 1
           d == [i \in 1..k |-> b[i]]
<1>5. k \in Nat \ {0} /\ k + 1 = Len(calls)
  <2>1. \A m \in Nat \ {0} : m # 1 => m - 1 \in Nat \ {0} /\ (m - 1) + 1 = m
    OBVIOUS
  <2> QED BY <1>1, <2>1
<1>6. Base(d, calls', visited')
  <2>1. d \in [1..Len(calls') -> 0..Len(visited')] /\ d[1] = 0
    BY <1>1, <1>2, <1>4, <1>5 DEF Base
  <2>2. ASSUME NEW i \in 1..(Len(calls') - 1)
        PROVE  d[i] = b[i] /\ d[i + 1] = b[i + 1] /\ calls'[i] = calls[i]
               /\ i \in 1..(Len(calls) - 1)
    BY <1>4, <1>5
  <2> HIDE DEF d, k
  <2> QED BY <1>1, <1>2, <2>1, <2>2 DEF Base
<1>7. d[Len(calls')] = b[Len(calls) - 1] /\ calls' # <<>>
  BY <1>4, <1>5
<1>8. Tells(answer', failed', visited', d[Len(calls')])
  BY <1>2, <1>7
<1> HIDE DEF d, k
<1> QED BY <1>1, <1>4, <1>6, <1>7, <1>8 DEF StackInv, Onwards

LEMMA Pop == StackInv /\ RefusalInv /\ Return => StackInv'
<1> SUFFICES ASSUME StackInv, RefusalInv, Return PROVE StackInv'
  OBVIOUS
<1>1. /\ pc = "reply" /\ calls' = Front(calls) /\ visited' = visited /\ calls # <<>>
      /\ calls \in Seq(Call) /\ visited \in Seq(Server) /\ answer \in Answers /\ failed \in BOOLEAN
  BY DEF Return, StackInv
<1>3. Len(calls) \in Nat \ {0} /\ Len(visited) \in Nat /\ answer.body \in Seq(Server)
  BY <1>1 DEF Answers
<1>4. CASE Len(calls) = 1
  <2>1. pc' = "done" /\ answer' = answer /\ failed' = failed
    BY <1>4 DEF Return
  <2>2. PICK b : Base(b, calls, visited) /\ Tells(answer, failed, visited, b[1])
    BY <1>1, <1>4 DEF StackInv
  <2>3. Tells(answer, failed, visited, 0)
    BY <2>2 DEF Base
  <2>4. ASSUME Names(answer.body, visited, 0) PROVE IsPrefix(answer.body, visited)
    <3>1. Len(answer.body) <= Len(visited) /\ \A j \in 1..Len(answer.body) : answer.body[j] = visited[j]
      BY <1>3, <2>4 DEF Names
    <3> QED BY <1>1, <1>3, <3>1, PrefixByElements
  <2>5. ASSUME Names(answer.body, visited, 0)
        PROVE  0 + Len(answer.body) # Len(visited) <=> answer.body # visited
    <3>1. Len(answer.body) = Len(visited) => answer.body = visited
      <4>1. \A j \in 1..Len(answer.body) : answer.body[j] = visited[j]
        BY <2>5 DEF Names
      <4> QED BY <1>1, <1>3, <4>1, SeqEqual
    <3> QED BY <1>3, <3>1
  <2>6. /\ answer.verdict # "Forbidden" => IsPrefix(answer.body, visited)
        /\ answer.status = 200 => (failed <=> answer.body # visited)
        /\ answer.verdict = "Forbidden" => answer.status = 403 \/ failed
    BY <2>3, <2>4, <2>5, Zenon DEF Tells
  <2>7. calls' \in Seq(Call)
    BY <1>1, <1>3, FrontCalls
  <2> QED BY <1>1, <2>1, <2>6, <2>7 DEF StackInv, Onwards
<1>5. CASE Len(calls) # 1
  <2> DEFINE k == Len(calls) - 1
  <2>1. k \in Nat \ {0} /\ k + 1 = Len(calls) /\ k \in 1..(Len(calls) - 1) /\ calls[k] \in Call
    <3>1. k \in Nat \ {0} /\ k + 1 = Len(calls) /\ k \in 1..(Len(calls) - 1)
      <4>1. \A m \in Nat \ {0} : m # 1 => /\ m - 1 \in Nat \ {0} /\ (m - 1) + 1 = m
                                         /\ m - 1 \in 1..(m - 1)
        OBVIOUS
      <4> QED BY <1>3, <1>5, <4>1
    <3>2. k \in 1..Len(calls)
      BY <1>3, <3>1
    <3> QED BY <1>1, <3>1, <3>2, ElementOfSeq
  <2>2. pc' = "reply"
    BY <1>1, <1>5 DEF Return
  <2>3. CASE Cluster(calls[k]) \in Server
    <3>1. PICK n \in 0..Len(answer.body) : /\ answer' = Answer(calls[k].path, answer, n)
                                           /\ failed' = (failed \/ n < Len(answer.body))
      BY <1>5, <2>3 DEF Return
    <3>2. ~failed => answer.status = 200 \/ (calls[k].path = BadPath /\ answer.status = 403)
      BY <1>1, <1>5, <2>1, <2>3, SMTT(30) DEF RefusalInv, BadBelow
    <3> HIDE DEF k
    <3>3. ASSUME NEW b, Base(b, calls, visited), Tells(answer, failed, visited, b[Len(calls)])
          PROVE  answer' \in Answers /\ Tells(answer', failed', visited, b[k])
      <4>1. Tells(answer, failed, visited, b[k + 1])
        BY <2>1, <3>3
      <4> QED BY <1>1, <1>3, <2>1, <2>3, <3>1, <3>2, <3>3, <4>1, AnswerTells, SMTT(30)
    <3>4. answer' \in Answers
      BY <1>1, <3>3 DEF StackInv
    <3>5. failed' \in BOOLEAN
      BY <1>1, <3>1
    <3> QED BY <1>1, <1>5, <2>2, <3>3, <3>4, <3>5, PopOne DEF k
  <2>4. CASE Cluster(calls[k]) \notin Server
    <3>1. answer' = answer /\ failed' = failed
      BY <1>5, <2>4 DEF Return
    <3> HIDE DEF k
    <3>2. ASSUME NEW b, Base(b, calls, visited), Tells(answer, failed, visited, b[Len(calls)])
          PROVE  Tells(answer', failed', visited, b[k])
      <4>1. b[k + 1] = b[k]
        BY <2>1, <2>4, <3>2 DEF Base
      <4> QED BY <2>1, <3>1, <3>2, <4>1
    <3> QED BY <1>1, <1>5, <2>2, <3>1, <3>2, PopOne DEF k
  <2> QED BY <2>3, <2>4
<1> QED BY <1>4, <1>5

LEMMA Lose == StackInv /\ AnswerLost => StackInv'
<1> SUFFICES ASSUME StackInv, AnswerLost PROVE StackInv'
  OBVIOUS
<1>1. /\ pc = "reply" /\ pc' = "reply" /\ calls' = Front(calls) /\ visited' = visited
      /\ calls \in Seq(Call) /\ visited \in Seq(Server) /\ failed' = TRUE
  BY DEF AnswerLost, StackInv
<1>2. Len(calls) \in Nat \ {0} /\ Len(visited) \in Nat /\ Len(calls) # 1 /\ Len(calls) > 1
  <2>1. Len(calls) > 1
    BY DEF AnswerLost
  <2>2. \A m \in Nat : m > 1 => m # 1 /\ m # 0
    OBVIOUS
  <2>3. Len(calls) \in Nat /\ Len(visited) \in Nat
    BY <1>1
  <2> QED BY <2>1, <2>2, <2>3, Zenon
<1>3. PICK status \in {200, 503} : /\ answer' = Says(status, "none", <<>>)
                                   /\ status = 200 => Cluster(calls[Len(calls) - 1]) \in Server
  BY DEF AnswerLost, Empty
<1>4. answer' \in Answers
  BY <1>3, <<>> \in Seq(Server) DEF Answers, Says, Verdict
<1>5. ASSUME NEW b, Base(b, calls, visited)
      PROVE  Tells(answer', failed', visited, b[Len(calls) - 1])
  <2> DEFINE k == Len(calls) - 1
  <2>1. k \in 1..(Len(calls) - 1) /\ k \in 1..Len(calls)
    BY <1>2
  <2> HIDE DEF k
  <2>2. b[k] \in 0..Len(visited) /\ (Cluster(calls[k]) \in Server => b[k] < Len(visited))
    BY <1>5, <2>1 DEF Base
  <2>3. Names(<<>>, visited, b[k]) /\ (Cluster(calls[k]) \in Server => b[k] + Len(<<>>) # Len(visited))
    BY <1>2, <2>2 DEF Names
  <2> QED BY <1>1, <1>3, <2>3 DEF Tells, Says, k
<1> QED BY <1>1, <1>2, <1>4, <1>5, PopOne

LEMMA StackStep == StackInv /\ RefusalInv /\ [Next]_vars => StackInv'
<1> SUFFICES ASSUME StackInv, RefusalInv, [Next]_vars PROVE StackInv'
  OBVIOUS
<1>0. Now \in Call \/ pc = "done"
  BY DEF StackInv, Now, Last
<1>s. /\ 200 \in Nat /\ 403 \in Nat \ {200} /\ 404 \in Nat \ {200} /\ 503 \in Nat \ {200}
      /\ <<>> \in Seq(Server)
  OBVIOUS
<1>r. ASSUME pc \in Onwards, pc' = "reply", calls' = calls, visited' = visited, failed' \in BOOLEAN,
             \E status \in Nat \ {200} : answer' = Says(status, "none", <<>>)
      PROVE  StackInv'
  <2>1. /\ answer' \in Answers /\ answer'.verdict = "none" /\ answer'.body = <<>>
        /\ answer'.status # 200
    BY <1>r, <1>s DEF Says, Answers, Verdict
  <2> QED BY <1>r, <2>1, Reply DEF Onwards
<1>1. CASE Authorize
  <2>1. CASE pc' = "route"
    <3>1. UNCHANGED <<answer, calls, visited, failed>> /\ pc = "arrive"
      BY <1>1, <2>1 DEF Authorize, Replies
    <3> QED BY <2>1, <3>1 DEF StackInv, Onwards
  <2>2. CASE pc' # "route"
    <3>1. /\ pc = "arrive" /\ pc' = "reply" /\ UNCHANGED <<calls, visited>>
          /\ answer' = Says(403, "none", <<>>) /\ failed' \in BOOLEAN
      BY <1>1, <2>2 DEF Authorize, Replies, Empty, StackInv
    <3> QED BY <1>s, <1>r, <3>1 DEF Onwards
  <2> QED BY <2>1, <2>2
<1>2. CASE Route
  <2>t. Server \cap Listener = {}
    BY DEF Server, Listener
  <2>1. CASE Cluster(Now) \in Server
    <3>1. /\ pc = "route" /\ pc' = "handle" /\ UNCHANGED <<answer, calls, visited, failed>>
          /\ Now' = Now /\ Cluster(Now)' = Cluster(Now)
      BY <1>2, <2>1, <2>t DEF Route, Now
    <3> QED BY <2>1, <3>1 DEF StackInv, Onwards
  <2>2. CASE Cluster(Now) \in Listener
    <3>1. /\ pc = "route" /\ pc' = "arrive" /\ UNCHANGED <<answer, visited, failed>>
          /\ Cluster(Now) \notin Server
      BY <1>2, <2>2, <2>t DEF Route
    <3> DEFINE next == [at |-> Cluster(Now), path |-> Now.path, address |-> "elsewhere",
                        id |-> IdentityOf(Now.at)]
    <3>2. calls' = Append(calls, next)
      BY <1>2, <2>2, <2>t DEF Route
    <3>3. next \in Call
      BY <1>0, <2>2, <3>1 DEF Call, IdentityOf, Identity, Address
    <3> HIDE DEF next
    <3> QED BY <3>1, <3>2, <3>3, Push
  <2>3. CASE Cluster(Now) \notin Server \cup Listener
    <3>1. /\ pc = "route" /\ pc' = "reply" /\ UNCHANGED <<calls, visited>>
          /\ answer' = Says(404, "none", <<>>) /\ failed' \in BOOLEAN
      BY <1>2, <2>3 DEF Route, Replies, Empty, StackInv
    <3> QED BY <1>s, <1>r, <3>1 DEF Onwards
  <2> QED BY <2>1, <2>2, <2>3
<1>3. CASE RouteFails
  <2>1. /\ pc = "route" /\ pc' = "reply" /\ UNCHANGED <<calls, visited>>
        /\ answer' = Says(503, "none", <<>>) /\ failed' \in BOOLEAN
    BY <1>3 DEF RouteFails, Replies, Empty
  <2> QED BY <1>s, <1>r, <2>1 DEF Onwards
<1>4. CASE serveGoodDb
  <2>1. /\ Cluster(Now) \in Server /\ <<Cluster(Now)>> \in Seq(Server) /\ failed = FALSE
        /\ visited \in Seq(Server) /\ pc = "handle" /\ pc' = "reply" /\ calls' = calls
        /\ visited' = Append(visited, Cluster(Now))
    BY <1>4 DEF serveGoodDb, StackInv, Replies, Onwards
  <2>2. Len(visited') = Len(visited) + 1 /\ Len(<<Cluster(Now)>>) = 1
    BY <2>1, Appended
  <2>3. CASE answer' = Says(200, "none", <<Cluster(Now)>>) /\ failed' = failed
    <3>1. failed' <=> Len(visited) + Len(<<Cluster(Now)>>) # Len(visited')
      BY <2>1, <2>2, <2>3
    <3>2. /\ answer' \in Answers /\ answer'.verdict = "none" /\ answer'.body = <<Cluster(Now)>>
          /\ failed' \in BOOLEAN
      <4>1. /\ answer' = [status |-> 200, verdict |-> "none", body |-> <<Cluster(Now)>>]
            /\ <<Cluster(Now)>> \in Seq(Server) /\ failed' = FALSE
        BY <2>1, <2>3 DEF Says
      <4>2. /\ answer' \in [status : Nat, verdict : Verdict, body : Seq(Server)]
            /\ answer'.verdict = "none" /\ answer'.body = <<Cluster(Now)>>
        <5>1. 200 \in Nat /\ "none" \in Verdict
          BY DEF Verdict
        <5> HIDE DEF Verdict
        <5> QED BY <4>1, <5>1
      <4> QED BY <4>1, <4>2 DEF Answers
    <3> QED BY <2>1, <3>1, <3>2, Reply
  <2>4. CASE answer' = Says(503, "none", <<>>) /\ failed' = TRUE
    <3>1. /\ answer' \in Answers /\ answer'.verdict = "none" /\ answer'.body = <<>>
          /\ failed' \in BOOLEAN /\ answer'.status # 200
      BY <1>s, <2>4 DEF Says, Answers, Verdict
    <3> QED BY <2>1, <3>1, Reply
  <2> QED BY <1>4, <2>3, <2>4 DEF serveGoodDb, Replies, Empty
<1>5. CASE serveAndCall
  <2>1. /\ pc = "handle" /\ Cluster(Now) \in Server /\ visited' = Append(visited, Cluster(Now))
        /\ Now.path \notin {"/hello", "/good/db"}
    BY <1>5 DEF serveAndCall, StackInv
  <2>2. CASE pc' = "reply"
    <3>1. /\ answer' = Says(200, "none", <<>>) /\ failed' = TRUE /\ calls' = calls
          /\ visited \in Seq(Server)
      BY <1>5, <2>2 DEF serveAndCall, Replies, Empty, StackInv
    <3>2. Len(visited) + Len(<<>>) # Len(visited')
      <4>1. Len(visited) \in Nat /\ Len(visited') = Len(visited) + 1
        BY <2>1, <3>1, Appended
      <4> QED BY <4>1
    <3>3. /\ answer' \in Answers /\ answer'.verdict = "none" /\ answer'.body = <<>>
          /\ failed' = TRUE
      BY <1>s, <3>1 DEF Says, Answers, Verdict
    <3> QED BY <2>1, <2>2, <3>1, <3>2, <3>3, Reply
  <2>3. CASE pc' # "reply"
    <3>1. pc' = "arrive" /\ UNCHANGED <<answer, failed>> /\ calls' = Append(calls, Onward(Now.path))
      BY <1>5, <2>3 DEF serveAndCall, Replies
    <3>2. Now.path \in {"/the/good/path", "/the/bad/path", "/good/backend"}
      BY <1>0, <2>1 DEF Cluster, Server
    <3>3. Onward(Now.path) \in Call
      BY <3>2 DEF Onward, Local, Call, Listener, Path, Address, Identity
    <3> QED BY <2>1, <3>1, <3>3, Push
  <2> QED BY <2>2, <2>3
<1>6. CASE UNCHANGED vars
  <2>1. UNCHANGED <<calls, pc, answer, visited, failed>> /\ Now' = Now /\ Cluster(Now)' = Cluster(Now)
    BY <1>6 DEF vars, Now
  <2> QED BY <2>1 DEF StackInv, Onwards
<1> QED BY <1>1, <1>2, <1>3, <1>4, <1>5, <1>6, Pop, Lose DEF Next

-----------------------------------------------------------------------------
(* The documented answers.  From web's subnet, and as long as nothing is out of
   order, the stack of calls is a beginning of one of two, and the answer is settled by
   its length. *)

GoodWay == <<[at |-> "web:8001", path |-> "/the/good/path",
              address |-> "172.28.0.0/16", id |-> "none"],
             Local("web:8001", "/good/backend"),
             Through("backend:8001", "/good/backend", "web-server"),
             Local("backend:8002", "/good/db"),
             Through("db:8001", "/good/db", "backend-server")>>
GoodAnswer(n) == CASE n \in {4, 5} -> Says(200, "none", <<"db">>)
                   [] n \in {2, 3} -> Says(200, "none", <<"backend", "db">>)
                   [] n = 1 -> Says(200, "Allowed", <<"web", "backend", "db">>)

BadWay == <<[at |-> "web:8001", path |-> "/the/bad/path",
             address |-> "172.28.0.0/16", id |-> "none"],
            Local("web:8001", "/good/db"),
            Through("db:8001", "/good/db", "web-server")>>
Refused(n) == CASE n \in {2, 3} -> Empty(403)
                [] n = 1 -> Says(403, "Forbidden", <<"web", "db">>)

On(way, n) == Len(calls) \in 1..n /\ \A i \in 1..Len(calls) : calls[i] = way[i]

OnGoodWay == /\ On(GoodWay, 5)
             /\ pc = "handle" => Len(calls) \in {1, 3, 5}
             /\ pc = "reply" => answer = GoodAnswer(Len(calls))
OnBadWay == /\ On(BadWay, 3)
            /\ pc = "route" => Len(calls) # 3
            /\ pc = "handle" => Len(calls) = 1
            /\ pc = "reply" => answer = Refused(Len(calls))

HealthyInv ==
  /\ calls \in Seq(Call)
  /\ pc # "done" => calls # <<>> /\ calls[1].id = "none"
  /\ withOPA /\ pc # "done" /\ ~failed /\ calls[1] = GoodWay[1] => OnGoodWay
  /\ withOPA /\ pc # "done" /\ ~failed /\ calls[1] = BadWay[1] => OnBadWay

LEMMA OnPush ==
  ASSUME NEW way, NEW m \in Nat, On(way, m), calls \in Seq(Call), Len(calls) < m,
         way[Len(calls) + 1] \in Call, calls' = Append(calls, way[Len(calls) + 1])
  PROVE  On(way, m)' /\ Len(calls') = Len(calls) + 1
<1>1. /\ Len(calls') = Len(calls) + 1 /\ calls'[Len(calls) + 1] = way[Len(calls) + 1]
      /\ \A i \in 1..Len(calls) : calls'[i] = calls[i]
  BY Appended
<1> QED BY <1>1 DEF On

LEMMA OnPop ==
  ASSUME NEW way, NEW m \in Nat, On(way, m), calls \in Seq(Call), Len(calls) # 1,
         calls' = Front(calls)
  PROVE  On(way, m)' /\ Len(calls') = Len(calls) - 1
<1>1. /\ Len(calls) \in Nat \ {0} /\ Len(calls) \in 1..m
      /\ \A i \in 1..Len(calls) : calls[i] = way[i]
  BY DEF On
<1>2. /\ Len(calls') = Len(calls) - 1
      /\ \A i \in 1..(Len(calls) - 1) : calls'[i] = calls[i]
  BY <1>1, FrontCalls
<1>3. Len(calls') \in 1..m /\ \A i \in 1..Len(calls') : i \in 1..Len(calls)
  BY <1>1, <1>2
<1> QED BY <1>1, <1>2, <1>3 DEF On

LEMMA JoinPair ==
  ASSUME NEW x, NEW y PROVE <<x>> \o <<y>> = <<x, y>>
<1>1. <<x>> \o <<y>> \in Seq({x, y}) /\ <<x, y>> \in Seq({x, y}) /\ Len(<<x>> \o <<y>>) = 2
      /\ \A i \in 1..2 : (<<x>> \o <<y>>)[i] = <<x, y>>[i]
  OBVIOUS
<1> QED BY <1>1, SeqEqual

LEMMA JoinTriple ==
  ASSUME NEW x, NEW y, NEW z PROVE <<x>> \o <<y, z>> = <<x, y, z>>
<1>1. /\ <<x>> \o <<y, z>> \in Seq({x, y, z}) /\ <<x, y, z>> \in Seq({x, y, z})
      /\ Len(<<x>> \o <<y, z>>) = 3
      /\ \A i \in 1..3 : (<<x>> \o <<y, z>>)[i] = <<x, y, z>>[i]
  OBVIOUS
<1> QED BY <1>1, SeqEqual

(* web/conf/envoy.yaml and backend/conf/envoy.yaml, the policies, web-server/main.go:21-24,
   backend-server/main.go:21-24: how one call of the flow leads to the next. *)
LEMMA GoodTable ==
  /\ \A n \in 1..5 : Allowed(GoodWay[n]) /\ GoodWay[n] \in Call
  /\ \A n \in {1, 3, 5} : Cluster(GoodWay[n]) \in Server /\ Cluster(GoodWay[n]) \notin Listener
  /\ \A n \in {1, 3} : /\ GoodWay[n].path \notin {"/hello", "/good/db"}
                       /\ Onward(GoodWay[n].path) = GoodWay[n + 1]
  /\ \A n \in {2, 4} :
       /\ Cluster(GoodWay[n]) \in Listener /\ Cluster(GoodWay[n]) \notin Server
       /\ Through(Cluster(GoodWay[n]), GoodWay[n].path, IdentityOf(GoodWay[n].at)) = GoodWay[n + 1]
  /\ GoodWay[1].path = "/the/good/path" /\ GoodWay[3].path = "/good/backend"
  /\ GoodWay[5].path = "/good/db" /\ Cluster(GoodWay[5]) = "db"
<1> DEFINE g1 == [at |-> "web:8001", path |-> "/the/good/path",
                  address |-> "172.28.0.0/16", id |-> "none"]
<1>1. /\ GoodWay[1] = g1 /\ GoodWay[2] = Local("web:8001", "/good/backend")
      /\ GoodWay[3] = Through("backend:8001", "/good/backend", "web-server")
      /\ GoodWay[4] = Local("backend:8002", "/good/db")
      /\ GoodWay[5] = Through("db:8001", "/good/db", "backend-server")
  BY DEF GoodWay
<1>2. \A n \in 1..5 : Allowed(GoodWay[n]) /\ GoodWay[n] \in Call
  <2>1. /\ Allowed(GoodWay[1]) /\ Allowed(GoodWay[2]) /\ Allowed(GoodWay[3])
        /\ Allowed(GoodWay[4]) /\ Allowed(GoodWay[5])
    BY <1>1 DEF Allowed, Web, Backend, Db, Local, Through
  <2>2. /\ GoodWay[1] \in Call /\ GoodWay[2] \in Call /\ GoodWay[3] \in Call
        /\ GoodWay[4] \in Call /\ GoodWay[5] \in Call
    BY <1>1 DEF Call, Listener, Path, Address, Identity, Local, Through
  <2>3. 1..5 = {1, 2, 3, 4, 5}
    OBVIOUS
  <2> QED BY <2>1, <2>2, <2>3
<1>3. /\ GoodWay[1].path = "/the/good/path" /\ GoodWay[3].path = "/good/backend"
      /\ GoodWay[5].path = "/good/db"
  BY <1>1 DEF Through
<1>4. /\ Cluster(GoodWay[1]) = "web" /\ Cluster(GoodWay[2]) = "backend:8001"
      /\ Cluster(GoodWay[3]) = "backend" /\ Cluster(GoodWay[4]) = "db:8001"
      /\ Cluster(GoodWay[5]) = "db"
  BY <1>1 DEF Cluster, Local, Through
<1>5. Onward("/the/good/path") = GoodWay[2] /\ Onward("/good/backend") = GoodWay[4]
  BY <1>1 DEF Onward
<1>6. /\ Through("backend:8001", GoodWay[2].path, IdentityOf(GoodWay[2].at)) = GoodWay[3]
      /\ Through("db:8001", GoodWay[4].path, IdentityOf(GoodWay[4].at)) = GoodWay[5]
  BY <1>1 DEF IdentityOf, Local, Through
<1> HIDE DEF g1
<1>7. \A n \in {1, 3, 5} : Cluster(GoodWay[n]) \in Server /\ Cluster(GoodWay[n]) \notin Listener
  BY <1>4 DEF Server, Listener
<1>8. \A n \in {1, 3} : /\ GoodWay[n].path \notin {"/hello", "/good/db"}
                        /\ Onward(GoodWay[n].path) = GoodWay[n + 1]
  BY <1>3, <1>5, 1 + 1 = 2, 3 + 1 = 4
<1>9. ASSUME NEW n \in {2, 4}
      PROVE  /\ Cluster(GoodWay[n]) \in Listener /\ Cluster(GoodWay[n]) \notin Server
             /\ Through(Cluster(GoodWay[n]), GoodWay[n].path, IdentityOf(GoodWay[n].at))
                   = GoodWay[n + 1]
  <2>1. CASE n = 2
    BY <1>4, <1>6, <2>1 DEF Server, Listener
  <2>2. CASE n = 4
    BY <1>4, <1>6, <2>2 DEF Server, Listener
  <2> QED BY <2>1, <2>2
<1> QED BY <1>2, <1>3, <1>4, <1>7, <1>8, <1>9

LEMMA GoodStep ==
  ASSUME calls \in Seq(Call), OnGoodWay, withOPA, pc # "done", pc' # "done",
         ~failed, ~failed', Next
  PROVE  OnGoodWay'
<1>n. PICK n \in {1, 2, 3, 4, 5} : Len(calls) = n /\ Now = GoodWay[n]
  <2>1. Len(calls) \in 1..5 /\ \A i \in 1..Len(calls) : calls[i] = GoodWay[i]
    BY DEF OnGoodWay, On
  <2>2. Len(calls) \in 1..Len(calls) /\ Len(calls) \in {1, 2, 3, 4, 5}
    <3>1. \A m \in 1..5 : m \in 1..m /\ m \in {1, 2, 3, 4, 5}
      OBVIOUS
    <3> QED BY <2>1, <3>1
  <2> QED BY <2>1, <2>2 DEF Now, Last
<1>1. /\ n \in 1..5 /\ n \in Nat /\ On(GoodWay, 5)
      /\ n \in {1, 2, 3, 4} => n < 5 /\ n + 1 \in 1..5
      /\ n \in {2, 4} => n - 1 \in {1, 3}
      /\ n \in {3, 5} => n - 1 \in {2, 4}
  BY DEF OnGoodWay
<1>u. ASSUME calls' = calls PROVE On(GoodWay, 5)' /\ Len(calls') = n
  BY <1>1, <1>n, <1>u DEF On
<1>p. ASSUME n \in {1, 2, 3, 4}, calls' = Append(calls, GoodWay[n + 1]) PROVE On(GoodWay, 5)'
  <2>1. GoodWay[n + 1] \in Call
    BY <1>p, <1>1, GoodTable
  <2> QED BY <1>1, <1>n, <1>p, <2>1, OnPush
<1>2. CASE Authorize
  <2>1. Allowed(Now)
    BY <1>1, <1>n, GoodTable
  <2>2. pc' = "route" /\ calls' = calls
    BY <1>2, <2>1 DEF Authorize
  <2> QED BY <1>u, <2>2 DEF OnGoodWay
<1>3. CASE Route
  <2>1. CASE n \in {1, 3, 5}
    <3>1. Cluster(Now) \in Server /\ Cluster(Now) \notin Listener
      BY <1>n, <2>1, GoodTable
    <3>2. pc' = "handle" /\ calls' = calls
      BY <1>3, <3>1 DEF Route
    <3> QED BY <1>u, <2>1, <3>2 DEF OnGoodWay
  <2>2. CASE n \in {2, 4}
    <3>1. /\ Cluster(Now) \in Listener /\ Cluster(Now) \notin Server
          /\ Through(Cluster(Now), Now.path, IdentityOf(Now.at)) = GoodWay[n + 1]
      BY <1>n, <2>2, GoodTable
    <3>2. pc' = "arrive" /\ calls' = Append(calls, GoodWay[n + 1])
      BY <1>3, <3>1 DEF Route, Through
    <3> QED BY <1>p, <2>2, <3>2 DEF OnGoodWay
  <2> QED BY <2>1, <2>2
<1>4. CASE RouteFails
  BY <1>4 DEF RouteFails
<1>5. CASE serveGoodDb
  <2>1. n = 5
    <3>1. n \in {1, 3, 5}
      BY <1>n, <1>5 DEF serveGoodDb, OnGoodWay
    <3> QED BY <1>n, <1>5, <3>1, GoodTable DEF serveGoodDb
  <2>2. answer' = Says(200, "none", <<"db">>) /\ calls' = calls /\ pc' = "reply"
    BY <1>n, <1>5, <2>1, GoodTable DEF serveGoodDb, Replies
  <2>3. GoodAnswer(5) = Says(200, "none", <<"db">>)
    BY DEF GoodAnswer
  <2> QED BY <1>u, <2>1, <2>2, <2>3 DEF OnGoodWay
<1>6. CASE serveAndCall
  <2>1. n \in {1, 3} /\ Onward(Now.path) = GoodWay[n + 1]
    <3>1. n \in {1, 3, 5}
      BY <1>n, <1>6 DEF serveAndCall, OnGoodWay
    <3> QED BY <1>n, <1>6, <3>1, GoodTable DEF serveAndCall
  <2>2. pc' = "arrive" /\ calls' = Append(calls, GoodWay[n + 1])
    BY <1>6, <2>1 DEF serveAndCall
  <2> QED BY <1>p, <2>1, <2>2 DEF OnGoodWay
<1>7. CASE Return
  <2>1. /\ n # 1 /\ calls' = Front(calls) /\ pc' = "reply" /\ answer = GoodAnswer(n)
    BY <1>7, <1>n DEF Return, OnGoodWay
  <2>2. On(GoodWay, 5)' /\ Len(calls') = n - 1
    BY <1>1, <1>n, <2>1, OnPop
  <2>3. calls[n - 1] = GoodWay[n - 1]
    BY <1>1, <1>n, <2>1 DEF On
  <2>4. answer' = GoodAnswer(n - 1)
    <3>1. ASSUME Cluster(calls[n - 1]) \in Server, answer.status = 200, Len(answer.body) \in Nat,
                 calls[n - 1].path \in {"/good/backend", "/the/good/path"}
          PROVE  answer' = Complete(calls[n - 1].path, answer, Len(answer.body))
      <4>1. PICK m \in 0..Len(answer.body) :
              /\ answer' = Answer(calls[n - 1].path, answer, m)
              /\ failed' = (failed \/ m < Len(answer.body))
        BY <1>7, <1>n, <2>1, <3>1 DEF Return
      <4>2. ~(m < Len(answer.body))
        BY <4>1
      <4>3. m = Len(answer.body)
        BY <3>1, <4>2
      <4> QED BY <3>1, <4>1, <4>3 DEF Answer
    <3>2. CASE n = 2
      <4>1. answer.status = 200 /\ answer.body = <<"backend", "db">>
        BY <2>1, <3>2 DEF GoodAnswer, Says
      <4>2. Cluster(calls[n - 1]) \in Server /\ calls[n - 1].path = "/the/good/path"
        BY <2>3, <3>2, 2 - 1 = 1, GoodTable
      <4>3. Len(answer.body) = 2
        BY <4>1
      <4>4. <<"web">> \o SubSeq(answer.body, 1, 2) = <<"web", "backend", "db">>
        <5>1. SubSeq(<<"backend", "db">>, 1, 2) = <<"backend", "db">>
          <6>1. <<"backend", "db">> \in Seq(Server) /\ Len(<<"backend", "db">>) = 2
            BY DEF Server
          <6> QED BY <6>1, SubSeqFull
        <5>2. <<"web">> \o <<"backend", "db">> = <<"web", "backend", "db">>
          BY JoinTriple, Zenon
        <5> QED BY <4>1, <5>1, <5>2, ZenonT(30)
      <4>5. answer' = Says(200, "Allowed", <<"web", "backend", "db">>)
        BY <3>1, <4>1, <4>2, <4>3, <4>4 DEF Complete, Own
      <4>6. GoodAnswer(1) = Says(200, "Allowed", <<"web", "backend", "db">>)
        BY DEF GoodAnswer
      <4> QED BY <3>2, <4>5, <4>6
    <3>3. CASE n = 4
      <4>1. answer.status = 200 /\ answer.body = <<"db">>
        BY <2>1, <3>3 DEF GoodAnswer, Says
      <4>2. Cluster(calls[n - 1]) \in Server /\ calls[n - 1].path = "/good/backend"
        BY <2>3, <3>3, 4 - 1 = 3, GoodTable
      <4>3. Len(answer.body) = 1
        BY <4>1
      <4>4. <<"backend">> \o SubSeq(answer.body, 1, 1) = <<"backend", "db">>
        <5>1. SubSeq(<<"db">>, 1, 1) = <<"db">>
          <6>1. <<"db">> \in Seq(Server) /\ Len(<<"db">>) = 1
            BY DEF Server
          <6> QED BY <6>1, SubSeqFull
        <5>2. <<"backend">> \o <<"db">> = <<"backend", "db">>
          BY JoinPair, Zenon
        <5> QED BY <4>1, <5>1, <5>2, ZenonT(30)
      <4>5. answer' = Says(200, "none", <<"backend", "db">>)
        BY <3>1, <4>1, <4>2, <4>3, <4>4 DEF Complete, Own
      <4>6. GoodAnswer(3) = Says(200, "none", <<"backend", "db">>)
        BY DEF GoodAnswer
      <4> QED BY <3>3, <4>5, <4>6
    <3>4. CASE n \in {3, 5}
      <4>1. Cluster(calls[n - 1]) \notin Server
        BY <1>1, <2>3, <3>4, GoodTable
      <4>2. answer' = answer
        BY <1>7, <1>n, <2>1, <4>1 DEF Return
      <4>3. GoodAnswer(3) = GoodAnswer(2) /\ GoodAnswer(5) = GoodAnswer(4)
        BY DEF GoodAnswer
      <4> QED BY <2>1, <3>4, <4>2, <4>3
    <3> QED BY <2>1, <3>2, <3>3, <3>4
  <2> QED BY <2>1, <2>2, <2>4 DEF OnGoodWay
<1>8. ~AnswerLost
  BY DEF AnswerLost
<1> QED BY <1>2, <1>3, <1>4, <1>5, <1>6, <1>7, <1>8 DEF Next

LEMMA BadTable ==
  /\ BadWay[1] \in Call /\ BadWay[2] \in Call /\ BadWay[3] \in Call
  /\ BadWay[1].path = "/the/bad/path"
  /\ Cluster(BadWay[1]) = "web" /\ Onward("/the/bad/path") = BadWay[2]
  /\ Allowed(BadWay[1]) /\ Allowed(BadWay[2]) /\ ~Allowed(BadWay[3])
  /\ Cluster(BadWay[2]) = "db:8001"
  /\ Through("db:8001", BadWay[2].path, IdentityOf(BadWay[2].at)) = BadWay[3]
<1> DEFINE b1 == [at |-> "web:8001", path |-> "/the/bad/path",
                  address |-> "172.28.0.0/16", id |-> "none"]
<1>1. /\ BadWay[1] = b1 /\ BadWay[2] = Local("web:8001", "/good/db")
      /\ BadWay[3] = Through("db:8001", "/good/db", "web-server")
  BY DEF BadWay
<1>2. BadWay[1] \in Call /\ BadWay[2] \in Call /\ BadWay[3] \in Call
  BY <1>1 DEF Call, Listener, Path, Address, Identity, Local, Through
<1>3. Allowed(BadWay[1]) /\ Allowed(BadWay[2]) /\ ~Allowed(BadWay[3])
  BY <1>1 DEF Allowed, Web, Backend, Db, Local, Through
<1>4. Cluster(BadWay[1]) = "web" /\ Cluster(BadWay[2]) = "db:8001"
  BY <1>1 DEF Cluster, Local
<1>5. BadWay[1].path = "/the/bad/path" /\ Onward("/the/bad/path") = BadWay[2]
  BY <1>1 DEF Onward
<1>6. Through("db:8001", BadWay[2].path, IdentityOf(BadWay[2].at)) = BadWay[3]
  BY <1>1 DEF IdentityOf, Local, Through
<1> QED BY <1>2, <1>3, <1>4, <1>5, <1>6

(* README.md:124-126: the bad path is refused at the db, and web passes that on. *)
LEMMA BadStep ==
  ASSUME calls \in Seq(Call), OnBadWay, withOPA, pc # "done", pc' # "done",
         ~failed, ~failed', Next
  PROVE  OnBadWay'
<1>n. PICK n \in {1, 2, 3} : Len(calls) = n /\ Now = BadWay[n]
  <2>1. Len(calls) \in 1..3 /\ \A i \in 1..Len(calls) : calls[i] = BadWay[i]
    BY DEF OnBadWay, On
  <2>2. Len(calls) \in 1..Len(calls) /\ Len(calls) \in {1, 2, 3}
    <3>1. \A m \in 1..3 : m \in 1..m /\ m \in {1, 2, 3}
      OBVIOUS
    <3> QED BY <2>1, <3>1
  <2> QED BY <2>1, <2>2 DEF Now, Last
<1>1. n \in Nat /\ On(BadWay, 3)
  BY DEF OnBadWay
<1>u. ASSUME calls' = calls PROVE On(BadWay, 3)' /\ Len(calls') = n
  BY <1>1, <1>n, <1>u DEF On
<1>p. ASSUME n \in {1, 2}, calls' = Append(calls, BadWay[n + 1]) PROVE On(BadWay, 3)'
  <2>1. BadWay[n + 1] \in Call /\ n < 3
    BY <1>p, BadTable
  <2> QED BY <1>1, <1>n, <1>p, <2>1, OnPush
<1>2. CASE Authorize
  <2>1. CASE n = 3
    <3>1. ~Allowed(Now)
      BY <1>n, <2>1, BadTable
    <3>2. pc' = "reply" /\ answer' = Refused(3) /\ calls' = calls
      BY <1>2, <3>1 DEF Authorize, Replies, Refused
    <3> QED BY <1>u, <2>1, <3>2 DEF OnBadWay
  <2>2. CASE n # 3
    <3>1. Allowed(Now)
      BY <1>n, <2>2, BadTable
    <3>2. pc' = "route" /\ calls' = calls
      BY <1>2, <3>1 DEF Authorize
    <3> QED BY <1>u, <2>2, <3>2 DEF OnBadWay
  <2> QED BY <2>1, <2>2
<1>3. CASE Route
  <2>0. n # 3
    BY <1>3, <1>n DEF Route, OnBadWay
  <2>t. Server \cap Listener = {} /\ "web" \in Server /\ "db:8001" \in Listener
    BY DEF Server, Listener
  <2>1. CASE n = 1
    <3>1. Cluster(Now) \in Server /\ Cluster(Now) \notin Listener
      BY <1>n, <2>1, <2>t, BadTable
    <3>2. pc' = "handle" /\ calls' = calls
      BY <1>3, <3>1 DEF Route
    <3> QED BY <1>u, <2>1, <3>2 DEF OnBadWay
  <2>2. CASE n = 2
    <3>1. /\ Cluster(Now) \in Listener /\ Cluster(Now) \notin Server
          /\ Through(Cluster(Now), Now.path, IdentityOf(Now.at)) = BadWay[n + 1]
      BY <1>n, <2>2, <2>t, 2 + 1 = 3, BadTable
    <3>2. pc' = "arrive" /\ calls' = Append(calls, BadWay[n + 1])
      BY <1>3, <3>1 DEF Route, Through
    <3> QED BY <1>p, <2>2, <3>2 DEF OnBadWay
  <2> QED BY <2>0, <2>1, <2>2
<1>4. CASE RouteFails
  BY <1>4 DEF RouteFails
<1>5. CASE serveGoodDb
  <2>1. n = 1
    BY <1>5, <1>n DEF serveGoodDb, OnBadWay
  <2> QED BY <1>n, <1>5, <2>1, BadTable DEF serveGoodDb
<1>6. CASE serveAndCall
  <2>1. n = 1
    BY <1>6, <1>n DEF serveAndCall, OnBadWay
  <2>2. Onward(Now.path) = BadWay[n + 1]
    BY <1>n, <2>1, 1 + 1 = 2, BadTable
  <2>3. pc' = "arrive" /\ calls' = Append(calls, BadWay[n + 1])
    BY <1>6, <2>2 DEF serveAndCall
  <2> QED BY <1>p, <2>1, <2>3 DEF OnBadWay
<1>7. CASE Return
  <2>1. /\ n # 1 /\ calls' = Front(calls) /\ pc' = "reply" /\ answer = Refused(n)
    BY <1>7, <1>n DEF Return, OnBadWay
  <2>2. On(BadWay, 3)' /\ Len(calls') = n - 1
    BY <1>1, <1>n, <2>1, OnPop
  <2>3. calls[n - 1] = BadWay[n - 1]
    BY <1>n, <2>1 DEF On, OnBadWay
  <2>t. "web" \in Server /\ "db:8001" \notin Server
    BY DEF Server
  <2>4. answer' = Refused(n - 1)
    <3>1. CASE n = 2
      <4>1. Cluster(calls[n - 1]) \in Server /\ calls[n - 1].path = "/the/bad/path"
        BY <2>3, <2>t, <3>1, 2 - 1 = 1, BadTable
      <4>2. PICK k \in 0..Len(answer.body) : answer' = Answer("/the/bad/path", answer, k)
        BY <1>7, <1>n, <2>1, <4>1 DEF Return
      <4>3. answer.status = 403
        BY <2>1, <3>1 DEF Refused, Empty, Says
      <4> QED BY <3>1, <4>2, <4>3, 2 - 1 = 1 DEF Answer, Refused
    <3>2. CASE n = 3
      <4>1. Cluster(calls[n - 1]) \notin Server
        BY <2>3, <2>t, <3>2, 3 - 1 = 2, BadTable
      <4>2. answer' = answer
        BY <1>7, <1>n, <2>1, <4>1 DEF Return
      <4> QED BY <2>1, <3>2, <4>2, 3 - 1 = 2 DEF Refused
    <3> QED BY <2>1, <3>1, <3>2
  <2> QED BY <2>1, <2>2, <2>4 DEF OnBadWay
<1>8. ~AnswerLost
  BY DEF AnswerLost
<1> QED BY <1>2, <1>3, <1>4, <1>5, <1>6, <1>7, <1>8 DEF Next

LEMMA FirstStays ==
  ASSUME calls \in Seq(Call), calls # <<>>, pc # "done", Next, pc' # "done"
  PROVE  /\ calls' # <<>> /\ calls'[1] = calls[1] /\ withOPA' = withOPA
         /\ failed => failed'
<1>1. withOPA' = withOPA /\ (failed => failed')
  BY DEF Next, Authorize, Route, RouteFails, serveGoodDb, serveAndCall, Return, AnswerLost
<1>l. Len(calls) \in Nat \ {0}
  BY Appended
<1>2. CASE calls' = calls
  BY <1>1, <1>2
<1>3. CASE \E c : calls' = Append(calls, c)
  <2>1. PICK c : calls' = Append(calls, c)
    BY <1>3
  <2> QED BY <1>1, <1>l, <2>1
<1>4. CASE Return \/ AnswerLost
  <2>0. \A m \in Nat : m > 1 => m # 1
    OBVIOUS
  <2>1. Len(calls) # 1 /\ calls' = Front(calls)
    BY <1>4, <1>l, <2>0 DEF Return, AnswerLost
  <2> QED BY <1>1, <1>l, <2>1, FrontCalls
<1>5. calls' = calls \/ (\E c : calls' = Append(calls, c)) \/ Return \/ AnswerLost
  BY DEF Next, Authorize, Route, RouteFails, serveGoodDb, serveAndCall
<1> QED BY <1>2, <1>3, <1>4, <1>5

LEMMA HealthyInit == Init => HealthyInv
<1> SUFFICES ASSUME Init PROVE HealthyInv
  OBVIOUS
<1>1. PICK c \in Call : c.id = "none" /\ calls = <<c>>
  BY DEF Init
<1>2. calls \in Seq(Call) /\ calls # <<>> /\ Len(calls) = 1 /\ calls[1] = c
  BY <1>1
<1>3. \A i \in 1..1 : i = 1
  OBVIOUS
<1>4. pc = "arrive"
  BY DEF Init
<1>5. ASSUME calls[1] = GoodWay[1] PROVE OnGoodWay
  <2>1. On(GoodWay, 5)
    BY <1>2, <1>3, <1>5, 1 \in 1..5 DEF On
  <2> QED BY <1>4, <2>1 DEF OnGoodWay
<1>6. ASSUME calls[1] = BadWay[1] PROVE OnBadWay
  <2>1. On(BadWay, 3)
    BY <1>2, <1>3, <1>6, 1 \in 1..3 DEF On
  <2> QED BY <1>4, <2>1 DEF OnBadWay
<1> QED BY <1>1, <1>2, <1>5, <1>6 DEF HealthyInv

LEMMA HealthyStep == HealthyInv /\ FlowInv' /\ [Next]_vars => HealthyInv'
<1> SUFFICES ASSUME HealthyInv, FlowInv', [Next]_vars PROVE HealthyInv'
  OBVIOUS
<1>1. CASE UNCHANGED vars
  BY <1>1 DEF vars, HealthyInv, OnGoodWay, OnBadWay, On
<1>2. CASE Next
  <2>1. calls \in Seq(Call) /\ calls' \in Seq(Call)
    BY DEF HealthyInv, FlowInv
  <2>2. CASE pc' = "done"
    BY <2>1, <2>2 DEF HealthyInv
  <2>3. CASE pc' # "done"
    <3>1. pc # "done" /\ calls # <<>>
      BY <1>2 DEF Next, Authorize, Route, RouteFails, serveGoodDb, serveAndCall, Return,
           AnswerLost, HealthyInv
    <3>2. /\ calls' # <<>> /\ calls'[1] = calls[1] /\ withOPA' = withOPA
          /\ failed => failed'
      BY <1>2, <2>1, <2>3, <3>1, FirstStays
    <3>3. ASSUME withOPA, ~failed', calls[1] = GoodWay[1] PROVE OnGoodWay'
      BY <1>2, <2>1, <2>3, <3>1, <3>2, <3>3, GoodStep DEF HealthyInv
    <3>4. ASSUME withOPA, ~failed', calls[1] = BadWay[1] PROVE OnBadWay'
      BY <1>2, <2>1, <2>3, <3>1, <3>2, <3>4, BadStep DEF HealthyInv
    <3>5. calls'[1].id = "none"
      BY <3>1, <3>2 DEF HealthyInv
    <3>6. /\ withOPA' /\ ~failed' /\ calls'[1] = GoodWay[1] => OnGoodWay'
          /\ withOPA' /\ ~failed' /\ calls'[1] = BadWay[1] => OnBadWay'
      BY <3>2, <3>3, <3>4
    <3>7. GoodWay' = GoodWay /\ BadWay' = BadWay
      BY DEF GoodWay, BadWay, Local, Through
    <3> QED BY <2>1, <3>2, <3>5, <3>6, <3>7 DEF HealthyInv
  <2> QED BY <2>2, <2>3
<1> QED BY <1>1, <1>2

LEMMA HealthyIsDocumented == HealthyInv => HealthyAnswers
<1> SUFFICES ASSUME HealthyInv, withOPA, pc = "reply", Len(calls) = 1, ~failed,
                    Now.at = "web:8001", Now.address = "172.28.0.0/16"
             PROVE  /\ Now.path = "/the/good/path" =>
                         answer = Says(200, "Allowed", <<"web", "backend", "db">>)
                    /\ Now.path = "/the/bad/path" =>
                         answer = Says(403, "Forbidden", <<"web", "db">>)
  BY DEF HealthyAnswers
<1>1. Now = calls[1] /\ Now \in Call /\ Now.id = "none"
  BY DEF HealthyInv, Now, Last
<1>2. Now = [at |-> Now.at, path |-> Now.path, address |-> Now.address, id |-> Now.id]
  BY <1>1 DEF Call
<1>3. CASE Now.path = "/the/good/path"
  <2>1. calls[1] = GoodWay[1]
    BY <1>1, <1>2, <1>3 DEF GoodWay
  <2>2. answer = GoodAnswer(1)
    BY <2>1 DEF HealthyInv, OnGoodWay
  <2> QED BY <1>3, <2>2 DEF GoodAnswer
<1>4. CASE Now.path = "/the/bad/path"
  <2>1. calls[1] = BadWay[1]
    BY <1>1, <1>2, <1>4 DEF BadWay
  <2> QED BY <1>4, <2>1 DEF HealthyInv, OnBadWay, Refused
<1> QED BY <1>3, <1>4

LEMMA StackIsTrue == StackInv /\ RefusalInv => AnswerIsTrue
BY DEF StackInv, RefusalInv, AnswerIsTrue

-----------------------------------------------------------------------------
(* The answers of the monitoring demo. *)

Text == {"CallingServiceB", "HelloFromServiceA", "B", "C", "error", "cut"}
OfB == {<<>>, <<"B">>, <<"error">>, <<"cut">>}
OfC == {<<>>, <<"C">>, <<"error">>, <<"cut">>}
Half(b) == <<"CallingServiceB">> \o b \o <<"HelloFromServiceA">>
Unlost == {<<"CallingServiceB">>, Half(<<"B">>)}
Full == <<"CallingServiceB", "B", "HelloFromServiceA", "C">>
Whole(w) == \E b \in OfB, c \in OfC : w = Half(b) \o c

(* service_a/main.go:29-69: what A has written by each point of its handler, and that it
   is without what was lost.  A text of a service comes from a response of its handler. *)
ChainInv ==
  /\ handler \in {"begin", "call", "read", "finish", "panicked", "end"} /\ callee \in {"B", "C"}
  /\ written \in Seq(Text) /\ ran \in Seq({"B", "C"}) /\ lost \in BOOLEAN
  /\ handler = "begin" => written = <<>> /\ callee = "B" /\ lost = FALSE
  /\ handler = "read" => /\ text \in {callee, "error"} /\ (text = callee => callee \in ToSet(ran))
                         /\ lost = (text = "error" \/ written \notin Unlost)
  /\ handler = "call" => lost = (written \notin Unlost)
  /\ handler \in {"call", "read"} =>
       \/ callee = "B" /\ written = <<"CallingServiceB">>
       \/ callee = "C" /\ \E b \in OfB : written = Half(b)
  /\ handler = "finish" => Whole(written) /\ lost = (written # Full)
  /\ reply = "200" => handler = "end" /\ Whole(written) /\ lost = (written # Full)
  /\ ToSet(written) \cap {"B", "C"} \subseteq ToSet(ran)

(* Which answers are without a loss. *)
LEMMA HalfParts ==
  ASSUME NEW b \in Seq(Text), Len(b) <= 1
  PROVE  /\ Half(b) \in Seq(Text) /\ Len(Half(b)) = Len(b) + 2
         /\ Len(b) = 1 => Half(b)[2] = b[1] /\ Half(b)[3] = "HelloFromServiceA"
         /\ Half(b)[1] = "CallingServiceB"
<1> DEFINE h == <<"CallingServiceB">>
           t == <<"HelloFromServiceA">>
<1>1. /\ h \in Seq(Text) /\ t \in Seq(Text) /\ Len(h) = 1 /\ Len(t) = 1
      /\ h[1] = "CallingServiceB" /\ t[1] = "HelloFromServiceA"
  BY DEF Text
<1>0. Len(b) \in {0, 1}
  <2>1. Len(b) \in Nat
    OBVIOUS
  <2>2. \A m \in Nat : m <= 1 => m \in {0, 1}
    OBVIOUS
  <2> QED BY <2>1, <2>2, Zenon
<1> HIDE DEF h, t
<1>2. /\ h \o b \in Seq(Text) /\ Len(h \o b) = 1 + Len(b) /\ (h \o b)[1] = h[1]
      /\ Len(b) = 1 => (h \o b)[2] = b[1]
  BY <1>0, <1>1, ConcatProperties
<1>3. /\ (h \o b) \o t \in Seq(Text) /\ Len((h \o b) \o t) = Len(b) + 2
      /\ ((h \o b) \o t)[1] = (h \o b)[1]
      /\ Len(b) = 1 => ((h \o b) \o t)[2] = (h \o b)[2] /\ ((h \o b) \o t)[3] = t[1]
  BY <1>0, <1>1, <1>2, ConcatProperties
<1> QED BY <1>1, <1>2, <1>3 DEF Half, h, t

LEMMA TextTypes ==
  /\ \A b \in OfB : b \in Seq(Text) /\ Len(b) <= 1 /\ (Len(b) = 1 /\ b[1] = "B" => b = <<"B">>)
  /\ \A c \in OfC : c \in Seq(Text) /\ Len(c) <= 1 /\ (Len(c) = 1 /\ c[1] = "C" => c = <<"C">>)
BY DEF OfB, OfC, Text

LEMMA HalfUnlost == \A b \in OfB : Half(b) \in Unlost <=> b = <<"B">>
<1> SUFFICES ASSUME NEW b \in OfB, Half(b) \in Unlost PROVE b = <<"B">>
  BY DEF Unlost
<1>1. Len(Half(b)) = Len(b) + 2 /\ (Len(b) = 1 => Half(b)[2] = b[1]) /\ Len(b) \in Nat
  BY TextTypes, HalfParts
<1>2. /\ <<"B">> \in Seq(Text) /\ Len(<<"B">>) = 1 /\ <<"B">>[1] = "B"
      /\ Len(<<"CallingServiceB">>) = 1
  BY DEF Text
<1>3. Len(Half(<<"B">>)) = 3 /\ Half(<<"B">>)[2] = "B"
  <2>1. Len(<<"B">>) <= 1 /\ Len(<<"B">>) + 2 = 3
    BY <1>2
  <2> QED BY <1>2, <2>1, HalfParts
<1>4. Half(b) = Half(<<"B">>)
  <2>1. Half(b) # <<"CallingServiceB">>
    BY <1>1, <1>2
  <2> QED BY <2>1 DEF Unlost
<1>5. Len(b) = 1 /\ b[1] = "B"
  <2>0. \A m \in Nat : m + 2 = 3 => m = 1
    OBVIOUS
  <2>1. Len(b) = 1
    BY <1>1, <1>3, <1>4, <2>0, Zenon
  <2> QED BY <1>1, <1>3, <1>4, <2>1
<1> QED BY <1>5, TextTypes

LEMMA WholeFull ==
  \A b \in OfB, c \in OfC : Half(b) \o c = Full <=> b = <<"B">> /\ c = <<"C">>
<1> SUFFICES ASSUME NEW b \in OfB, NEW c \in OfC
             PROVE  Half(b) \o c = Full <=> b = <<"B">> /\ c = <<"C">>
  OBVIOUS
<1>1. /\ b \in Seq(Text) /\ Len(b) \in {0, 1} /\ c \in Seq(Text) /\ Len(c) \in {0, 1}
      /\ Half(b) \in Seq(Text) /\ Len(Half(b)) = Len(b) + 2
      /\ Half(b)[1] = "CallingServiceB"
      /\ Len(b) = 1 => Half(b)[2] = b[1] /\ Half(b)[3] = "HelloFromServiceA"
  <2>1. b \in Seq(Text) /\ c \in Seq(Text) /\ Len(b) <= 1 /\ Len(c) <= 1
    BY TextTypes
  <2>2. Len(b) \in {0, 1} /\ Len(c) \in {0, 1}
    <3>1. Len(b) \in Nat /\ Len(c) \in Nat
      BY <2>1
    <3>2. \A m \in Nat : m <= 1 => m \in {0, 1}
      OBVIOUS
    <3> QED BY <2>1, <3>1, <3>2, Zenon
  <2> QED BY <2>1, <2>2, HalfParts, Zenon
<1> DEFINE h == Half(b)
<1> HIDE DEF h
<1>2. /\ h \o c \in Seq(Text) /\ Len(h \o c) = Len(h) + Len(c)
      /\ \A i \in 1..Len(h) : (h \o c)[i] = h[i]
      /\ Len(c) = 1 => (h \o c)[Len(h) + 1] = c[1]
  <2>1. h \in Seq(Text) /\ Len(h) \in Nat /\ c \in Seq(Text)
    BY <1>1 DEF h
  <2> QED BY <2>1, ConcatProperties
<1>3. Full \in Seq(Text) /\ Len(Full) = 4 /\ Full[1] = "CallingServiceB" /\ Full[2] = "B"
      /\ Full[3] = "HelloFromServiceA" /\ Full[4] = "C"
  BY DEF Full, Text
<1>4. ASSUME Half(b) \o c = Full PROVE b = <<"B">> /\ c = <<"C">>
  <2>1. h \o c = Full
    BY <1>4 DEF h
  <2>2. Len(h) = Len(b) + 2
    BY <1>1 DEF h
  <2>3. Len(b) = 1 /\ Len(c) = 1 /\ Len(h) = 3
    <3>1. Len(h) + Len(c) = 4
      BY <1>2, <1>3, <2>1
    <3>2. \A i, j \in {0, 1} : (i + 2) + j = 4 => i = 1 /\ j = 1 /\ i + 2 = 3
      OBVIOUS
    <3> QED BY <1>1, <2>2, <3>1, <3>2, Zenon
  <2>4. b[1] = "B" /\ c[1] = "C"
    <3>1. 2 \in 1..Len(h) /\ Len(h) + 1 = 4
      BY <2>3
    <3>2. h[2] = b[1]
      BY <1>1, <2>3 DEF h
    <3> QED BY <1>2, <1>3, <2>1, <2>3, <3>1, <3>2
  <2> QED BY <2>3, <2>4, TextTypes
<1>5. ASSUME b = <<"B">>, c = <<"C">> PROVE h \o c = Full
  <2>1. Len(b) = 1 /\ b[1] = "B" /\ Len(c) = 1 /\ c[1] = "C"
    BY <1>5
  <2>2. /\ Len(h) = 3 /\ h[1] = "CallingServiceB" /\ h[2] = "B"
        /\ h[3] = "HelloFromServiceA"
    BY <1>1, <2>1 DEF h
  <2>3. Len(h \o c) = 4 /\ \A i \in 1..4 : (h \o c)[i] = Full[i]
    <3>1. 1..4 = {1, 2, 3, 4} /\ 1..3 = {1, 2, 3}
      OBVIOUS
    <3>2. /\ (h \o c)[1] = Full[1] /\ (h \o c)[2] = Full[2]
          /\ (h \o c)[3] = Full[3] /\ (h \o c)[4] = Full[4]
      BY <1>2, <1>3, <2>1, <2>2, <3>1
    <3>3. Len(h \o c) = 4
      BY <1>2, <2>1, <2>2
    <3> QED BY <3>1, <3>2, <3>3
  <2> QED BY <1>2, <1>3, <2>3, SeqEqual
<1> QED BY <1>4, <1>5 DEF h

LEMMA ToSetConcat ==
  ASSUME NEW S, NEW s \in Seq(S), NEW t \in Seq(S)
  PROVE  ToSet(s \o t) \subseteq ToSet(s) \cup ToSet(t)
<1>1. /\ Len(s) \in Nat /\ Len(t) \in Nat /\ Len(s \o t) = Len(s) + Len(t)
      /\ DOMAIN s = 1..Len(s) /\ DOMAIN t = 1..Len(t) /\ DOMAIN (s \o t) = 1..(Len(s) + Len(t))
  OBVIOUS
<1>2. ASSUME NEW i \in 1..(Len(s) + Len(t)) PROVE (s \o t)[i] \in ToSet(s) \cup ToSet(t)
  <2>1. CASE i \in 1..Len(s)
    BY <1>1, <2>1 DEF ToSet
  <2>2. CASE i \notin 1..Len(s)
    <3>1. i - Len(s) \in 1..Len(t) /\ (s \o t)[i] = t[i - Len(s)]
      BY <1>1, <2>2
    <3> QED BY <1>1, <3>1 DEF ToSet
  <2> QED BY <2>1, <2>2
<1> QED BY <1>1, <1>2 DEF ToSet

LEMMA ToSetAppend ==
  ASSUME NEW S, NEW s \in Seq(S), NEW x \in S
  PROVE  Append(s, x) \in Seq(S) /\ ToSet(Append(s, x)) = ToSet(s) \cup {x}
<1>1. /\ Append(s, x) \in Seq(S) /\ Len(Append(s, x)) = Len(s) + 1 /\ Len(s) \in Nat
      /\ Append(s, x)[Len(s) + 1] = x /\ \A j \in 1..Len(s) : Append(s, x)[j] = s[j]
      /\ DOMAIN s = 1..Len(s) /\ DOMAIN Append(s, x) = 1..(Len(s) + 1)
  BY Appended
<1>2. 1..(Len(s) + 1) = 1..Len(s) \cup {Len(s) + 1}
  BY <1>1
<1> QED BY <1>1, <1>2 DEF ToSet

LEMMA ChainInit == Chain!Init => ChainInv
<1> SUFFICES ASSUME Chain!Init PROVE ChainInv
  OBVIOUS
<1>1. /\ handler = "begin" /\ callee = "B" /\ written = <<>> /\ reply = "none" /\ ran = <<>>
      /\ lost = FALSE
  BY DEF Chain!Init
<1>2. <<>> \in Seq(Text) /\ <<>> \in Seq({"B", "C"})
  OBVIOUS
<1>3. ToSet(written) = {}
  BY <1>1, ToSetSmall
<1> QED BY <1>1, <1>2, <1>3 DEF ChainInv

LEMMA ReadAllStep == ChainInv /\ Chain!ReadAll => ChainInv'
<1> SUFFICES ASSUME ChainInv, Chain!ReadAll PROVE ChainInv'
  OBVIOUS
<1>1. /\ handler = "read" /\ UNCHANGED <<text, reply, ran>>
      /\ text \in {callee, "error"} /\ (text = callee => callee \in ToSet(ran))
  BY DEF Chain!ReadAll, ChainInv
<1>2. PICK part \in {<<text>>, <<"cut">>, <<>>} :
        /\ written' = written \o part
                         \o (IF callee = "B" THEN <<"HelloFromServiceA">> ELSE <<>>)
        /\ lost' = (lost \/ part # <<text>>)
  BY DEF Chain!ReadAll, Chain!Read
<1>3. /\ part \in Seq(Text) /\ <<"HelloFromServiceA">> \in Seq(Text) /\ <<>> \in Seq(Text)
      /\ <<"CallingServiceB">> \in Seq(Text) /\ written \in Seq(Text)
  <2>1. text \in Text
    BY <1>1 DEF Text, ChainInv
  <2>2. <<text>> \in Seq(Text) /\ <<"cut">> \in Seq(Text) /\ <<>> \in Seq(Text)
    BY <2>1 DEF Text
  <2>3. <<"HelloFromServiceA">> \in Seq(Text) /\ <<"CallingServiceB">> \in Seq(Text)
    BY DEF Text
  <2> QED BY <1>2, <2>2, <2>3 DEF ChainInv
<1>4. reply # "200"
  BY <1>1 DEF ChainInv
<1>5. ToSet(part) \cap {"B", "C"} \subseteq ToSet(ran)
  <2>1. CASE part = <<text>>
    BY <1>1, <2>1, ToSetSmall
  <2>2. CASE part = <<"cut">>
    BY <2>2, ToSetSmall
  <2>3. CASE part = <<>>
    BY <2>3, ToSetSmall
  <2> QED BY <1>2, <2>1, <2>2, <2>3
<1>6. written \o part \in Seq(Text)
      /\ ToSet(written \o part) \cap {"B", "C"} \subseteq ToSet(ran)
  BY <1>3, <1>5, ToSetConcat DEF ChainInv
<1>l. lost = (text = "error" \/ written \notin Unlost) /\ lost' \in BOOLEAN
  BY <1>1, <1>2 DEF ChainInv
<1>7. CASE callee = "B"
  <2>1. handler' = "call" /\ callee' = "C"
    BY <1>7 DEF Chain!ReadAll
  <2>2. written' = (written \o part) \o <<"HelloFromServiceA">>
    BY <1>2, <1>7
  <2>3. written = <<"CallingServiceB">>
    BY <1>1, <1>7 DEF ChainInv
  <2>4. part \in OfB
    BY <1>1, <1>2, <1>7 DEF OfB
  <2>5. written' \in Seq(Text)
    BY <1>3, <1>6, <2>2
  <2>6. ToSet(written') \cap {"B", "C"} \subseteq ToSet(ran)
    <3>1. ToSet(<<"HelloFromServiceA">>) = {"HelloFromServiceA"}
      BY ToSetSmall
    <3> QED BY <1>3, <1>6, <2>2, <3>1, ToSetConcat
  <2>7. written' = Half(part)
    BY <2>2, <2>3 DEF Half
  <2>8. lost' = (written' \notin Unlost)
    <3>1. lost = (text = "error")
      BY <1>l, <2>3 DEF Unlost
    <3>2. lost' = (part # <<"B">>)
      <4>1. <<text>> = <<"B">> <=> text = "B"
        OBVIOUS
      <4>2. <<"error">> # <<"B">> /\ <<"cut">> # <<"B">> /\ <<>> # <<"B">>
        OBVIOUS
      <4> QED BY <1>1, <1>2, <1>7, <3>1, <4>1, <4>2
    <3> QED BY <2>4, <2>7, <3>2, HalfUnlost
  <2> QED BY <1>1, <1>4, <1>l, <2>1, <2>4, <2>5, <2>6, <2>7, <2>8 DEF ChainInv
<1>8. CASE callee = "C"
  <2>1. handler' = "finish" /\ callee' = "C"
    BY <1>8 DEF Chain!ReadAll
  <2>2. written' = written \o part
    <3>1. written' = (written \o part) \o <<>>
      BY <1>2, <1>8
    <3> QED BY <1>6, <3>1, ConcatEmptySeq
  <2>3. PICK b \in OfB : written = Half(b)
    BY <1>1, <1>8 DEF ChainInv
  <2>4. part \in OfC
    BY <1>1, <1>2, <1>8 DEF OfC
  <2>5. Whole(written')
    BY <2>2, <2>3, <2>4 DEF Whole
  <2>6. lost' = (written' # Full)
    <3>1. lost = (text = "error" \/ b # <<"B">>)
      BY <1>l, <2>3, HalfUnlost
    <3>2. lost' = (b # <<"B">> \/ part # <<"C">>)
      <4>1. <<text>> = <<"C">> <=> text = "C"
        OBVIOUS
      <4>2. <<"error">> # <<"C">> /\ <<"cut">> # <<"C">> /\ <<>> # <<"C">>
        OBVIOUS
      <4> QED BY <1>1, <1>2, <1>8, <3>1, <4>1, <4>2
    <3> QED BY <2>2, <2>3, <2>4, <3>2, WholeFull
  <2> QED BY <1>1, <1>4, <1>6, <1>l, <2>1, <2>2, <2>5, <2>6 DEF ChainInv
<1> QED BY <1>7, <1>8 DEF ChainInv

LEMMA ChainStep == ChainInv /\ [Chain!Next]_(Chain!vars) => ChainInv'
<1> SUFFICES ASSUME ChainInv, [Chain!Next]_(Chain!vars) PROVE ChainInv'
  OBVIOUS
<1>0. ran \in Seq({"B", "C"}) /\ callee \in {"B", "C"}
  BY DEF ChainInv
<1>a. /\ Append(ran, callee) \in Seq({"B", "C"})
      /\ ToSet(Append(ran, callee)) = ToSet(ran) \cup {callee}
  BY <1>0, ToSetAppend
<1>1. CASE Chain!Begin
  <2>1. <<"CallingServiceB">> \in Seq(Text) /\ ToSet(<<"CallingServiceB">>) = {"CallingServiceB"}
    BY ToSetSmall DEF Text
  <2> QED BY <1>1, <2>1 DEF Chain!Begin, ChainInv, Unlost
<1>2. CASE Chain!Responds
  <2>1. /\ handler = "call" /\ handler' = "read" /\ UNCHANGED <<callee, written, reply>>
        /\ lost' = (lost \/ text' = "error") /\ ran' \in {ran, Append(ran, callee)}
        /\ text' \in {callee, "error"} /\ (text' = callee => ran' = Append(ran, callee))
    BY <1>2, <1>0 DEF Chain!Responds
  <2>2. /\ ran' \in Seq({"B", "C"}) /\ ToSet(ran) \subseteq ToSet(ran')
        /\ text' = callee => callee \in ToSet(ran')
    BY <1>0, <1>a, <2>1
  <2>3. lost' \in BOOLEAN /\ lost' = (text' = "error" \/ written' \notin Unlost)
    BY <2>1 DEF ChainInv
  <2> QED BY <2>1, <2>2, <2>3 DEF ChainInv
<1>3. CASE Chain!CallFails
  BY <1>3, <1>a DEF Chain!CallFails, Chain!NilResponse, ChainInv
<1>4. CASE Chain!ReadAll
  BY <1>4, ReadAllStep
<1>5. CASE Chain!Finish
  <2>1. /\ handler \in {"finish", "panicked"} /\ handler' = "end"
        /\ UNCHANGED <<callee, text, written, ran, lost>>
        /\ reply' = "200" => handler = "finish"
    BY <1>5 DEF Chain!Finish, ChainInv
  <2> QED BY <2>1 DEF ChainInv
<1>6. CASE Chain!GivesUp
  BY <1>6 DEF Chain!GivesUp, ChainInv
<1>7. CASE UNCHANGED Chain!vars
  BY <1>7 DEF Chain!vars, ChainInv
<1> QED BY <1>1, <1>2, <1>3, <1>4, <1>5, <1>6, <1>7 DEF Chain!Next

(* web-server/main.go:40-49, 71-82, backend-server/main.go:40-50, service_a/main.go:29-69: an
   answer but "Forbidden path" names no service that has not handled the request; one with
   status 200 names all that have, or has all texts, exactly if nothing was refused, failed,
   lost or cut behind it; "Forbidden path" goes with a refusal or a failure, and the db has
   not been reached then. *)
THEOREM AnswersNameTheirServices == DemoSpec => []AnswersAreTrue
<1>1. DemoInit => FlowInv /\ RefusalInv /\ StackInv /\ ChainInv
  BY FlowInit, RefusalInit, StackInit, ChainInit DEF DemoInit
<1>2. FlowInv /\ RefusalInv /\ StackInv /\ ChainInv /\ [DemoNext]_<<demo, vars, chainVars>>
      => FlowInv' /\ RefusalInv' /\ StackInv' /\ ChainInv'
  BY FlowStep, RefusalStep, StackStep, ChainStep, EachDemoSteps
<1>3. StackInv /\ RefusalInv /\ ChainInv => AnswersAreTrue
  <2>1. ChainInv => Chain!AnswerIsTrue
    <3>1. ChainInv => /\ reply = "200" => Whole(written) /\ (lost <=> written # Full)
                      /\ ToSet(written) \cap {"B", "C"} \subseteq ToSet(ran)
      BY DEF ChainInv
    <3>2. Chain!ToSet(written) = ToSet(written) /\ Chain!ToSet(ran) = ToSet(ran)
      BY DEF Chain!ToSet, ToSet
    <3> QED BY <3>1, <3>2, Zenon DEF Whole, Half, Full, OfB, OfC, Chain!AnswerIsTrue
  <2> QED BY <2>1, StackIsTrue DEF AnswersAreTrue
<1> QED BY <1>1, <1>2, <1>3, PTL DEF DemoSpec

(* README.md:104-126 of envoy-spire-ext-authz: as long as nothing is out of order, calls
   from web's subnet get the documented answers. *)
THEOREM HealthyFlowAnswers == DemoSpec => []HealthyAnswers
<1>1. DemoInit => FlowInv /\ HealthyInv
  BY FlowInit, HealthyInit DEF DemoInit
<1>2. FlowInv /\ HealthyInv /\ [DemoNext]_<<demo, vars, chainVars>> => FlowInv' /\ HealthyInv'
  BY FlowStep, HealthyStep, EachDemoSteps
<1> QED BY <1>1, <1>2, HealthyIsDocumented, PTL DEF DemoSpec
=============================================================================
