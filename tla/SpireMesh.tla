------------------------------ MODULE SpireMesh ------------------------------
(* The demo services web, backend and db of istio/envoy/security, each behind an
   Envoy that speaks mutual TLS with identities from SPIRE, and one request on its
   way.  In envoy-spire-ext-authz every Envoy asks its OPA first; in spire-example the
   same three programs and routes do without.  A server calls the next one by way of
   its own Envoy, on localhost. *)
EXTENDS Naturals, SequencesExt

Listener == {"web:8001", "backend:8001", "backend:8002", "db:8001"}
Path == {"/hello", "/the/good/path", "/the/bad/path", "/good/backend", "/good/db", "/other"}
Identity == {"web-server", "backend-server", "none"}
Address == {"172.28.0.0/16", "elsewhere", "127.0.0.1"}
Call == [at : Listener, path : Path, address : Address, id : Identity]
Server == {"web", "backend", "db"}
Verdict == {"Allowed", "Forbidden", "none"}

VARIABLES
  withOPA,  \* which of the two demos it is
  calls,    \* the calls under way, each made on behalf of the one before it
  pc,       \* of the last: "arrive", "route", "handle" or "reply"; "done" in the end
  answer,   \* its status, and what its body says of the path of which services
  visited,  \* history: the servers whose handlers have run
  failed    \* history: something was out of order or a body was cut short

vars == <<withOPA, calls, pc, answer, visited, failed>>

Says(status, verdict, body) == [status |-> status, verdict |-> verdict, body |-> body]
Empty(status) == Says(status, "none", <<>>)

(* Requests come in from outside at any Envoy, with any path and no certificate. *)
Init ==
  /\ \E c \in Call : c.id = "none" /\ c.address # "127.0.0.1" /\ calls = <<c>>
  /\ withOPA \in BOOLEAN
  /\ pc = "arrive" /\ answer = Empty(0)
  /\ visited = <<>> /\ failed = FALSE

Now == Last(calls)
Replies(a) == answer' = a /\ pc' = "reply"

-----------------------------------------------------------------------------
(* The policies of the three OPAs.  The slip: any identity may call the db. *)
Web(c) == \/ /\ c.path \in {"/hello", "/the/good/path", "/the/bad/path"}
             /\ c.address = "172.28.0.0/16"
          \/ c.path \in {"/good/backend", "/good/db"} /\ c.address = "127.0.0.1"
Backend(c) == \/ c.path = "/good/backend" /\ c.id = "web-server"
              \/ c.path = "/good/db" /\ c.address = "127.0.0.1"
AnyPeer(c) == c.path = "/good/db" /\ c.id # "none"
Db(c) == c.path = "/good/db" /\ c.id = "backend-server"

Allowed(c) == CASE c.at = "web:8001" -> Web(c)
                [] c.at \in {"backend:8001", "backend:8002"} -> Backend(c)
                [] c.at = "db:8001" -> Db(c)

(* Without an answer of the OPA the Envoy refuses, too. *)
Authorize ==
  /\ pc = "arrive"
  /\ \/ (withOPA => Allowed(Now)) /\ pc' = "route" /\ UNCHANGED <<answer, failed>>
     \/ withOPA /\ ~Allowed(Now) /\ Replies(Empty(403)) /\ UNCHANGED failed
     \/ withOPA /\ Replies(Empty(403)) /\ failed' = TRUE
  /\ UNCHANGED <<withOPA, calls, visited>>

(* Where an Envoy sends a call: to its server, to another Envoy or nowhere. *)
Cluster(c) ==
  CASE c.at = "web:8001" /\ c.path \in {"/hello", "/the/good/path", "/the/bad/path"} -> "web"
    [] c.at = "web:8001" /\ c.path = "/good/backend" -> "backend:8001"
    [] c.at = "web:8001" /\ c.path = "/good/db" -> "db:8001"
    [] c.at = "backend:8001" /\ c.path = "/good/backend" -> "backend"
    [] c.at = "backend:8002" /\ c.path = "/good/db" -> "db:8001"
    [] c.at = "db:8001" /\ c.path = "/good/db" -> "db"
    [] OTHER -> "none"

(* The identity that an Envoy shows to the others; the slip is one name for all. *)
DbIdentity(listener) == "db-server"
IdentityOf(listener) == IF listener = "web:8001" THEN "web-server" ELSE "backend-server"

Route ==
  /\ pc = "route"
  /\ CASE Cluster(Now) \in Server -> pc' = "handle" /\ UNCHANGED <<calls, answer>>
       [] Cluster(Now) \in Listener ->
            /\ calls' = Append(calls, [at |-> Cluster(Now), path |-> Now.path,
                                       address |-> "elsewhere", id |-> IdentityOf(Now.at)])
            /\ pc' = "arrive" /\ UNCHANGED answer
       [] OTHER -> Replies(Empty(404)) /\ UNCHANGED calls
  /\ UNCHANGED <<withOPA, visited, failed>>

(* The server or the other Envoy does not answer, or one of the identities is not
   there yet. *)
RouteFails ==
  /\ pc = "route" /\ Cluster(Now) # "none"
  /\ Replies(Empty(503)) /\ failed' = TRUE
  /\ UNCHANGED <<withOPA, calls, visited>>

-----------------------------------------------------------------------------
(* The servers. *)

Local(listener, path) == [at |-> listener, path |-> path, address |-> "127.0.0.1", id |-> "none"]

(* What a handler calls: by the path of its own call. *)
Onward(path) == CASE path = "/the/good/path" -> Local("web:8001", "/good/backend")
                  [] path = "/the/bad/path" -> Local("web:8001", "/good/db")
                  [] path = "/good/backend" -> Local("backend:8002", "/good/db")

serveGoodDb ==
  /\ pc = "handle" /\ Now.path \in {"/hello", "/good/db"}
  /\ visited' = Append(visited, Cluster(Now))
  /\ \/ Replies(Says(200, "none", <<Cluster(Now)>>)) /\ UNCHANGED failed
     \/ Replies(Empty(503)) /\ failed' = TRUE  \* too late for its Envoy
  /\ UNCHANGED <<withOPA, calls>>

serveAndCall ==
  /\ pc = "handle" /\ Now.path \notin {"/hello", "/good/db"}
  /\ visited' = Append(visited, Cluster(Now))
  /\ UNCHANGED withOPA
  /\ \/ calls' = Append(calls, Onward(Now.path)) /\ pc' = "arrive" /\ UNCHANGED <<answer, failed>>
     \/ Replies(Empty(200)) /\ failed' = TRUE /\ UNCHANGED calls  \* Do fails: return

(* The handler for path has the answer a, of which tryRead reads no more than the
   first n names.  Unless that is 200, good paths end with an empty 200, and the bad
   path with the same status and "Forbidden path: WEB -> DB", whatever the reason.  The
   slips: the status is not passed on, and not looked at. *)
Own(path) == IF path = "/good/backend" THEN "backend" ELSE "web"
Complete(path, a, n) ==
  Says(200, IF path = "/good/backend" THEN "none" ELSE "Allowed",
       <<Own(path)>> \o SubSeq(a.body, 1, n))
NoStatus(path, a, n) == IF a.status # 200 THEN Empty(200) ELSE Complete(path, a, n)
AnyStatus(path, a, n) == Complete(path, a, n)
Answer(path, a, n) ==
  IF a.status = 200 THEN Complete(path, a, n)
  ELSE IF path = "/the/bad/path" THEN Says(a.status, "Forbidden", <<"web", "db">>)
  ELSE Empty(200)

(* The answer goes back: to the server that made the call, or through an Envoy. *)
Return ==
  /\ pc = "reply"
  /\ calls' = Front(calls)
  /\ IF Len(calls) = 1 THEN pc' = "done" /\ UNCHANGED <<answer, failed>>
     ELSE LET caller == calls[Len(calls) - 1]
          IN  /\ UNCHANGED pc
              /\ IF Cluster(caller) \in Server
                   THEN \E n \in 0..Len(answer.body) :
                          /\ answer' = Answer(caller.path, answer, n)
                          /\ failed' = (failed \/ n < Len(answer.body))
                   ELSE UNCHANGED <<answer, failed>>
  /\ UNCHANGED <<withOPA, visited>>

(* The answer does not arrive, because a connection breaks or an Envoy has waited long
   enough: that Envoy answers for itself, or Do fails in a server that called. *)
AnswerLost ==
  /\ pc = "reply" /\ Len(calls) > 1
  /\ calls' = Front(calls) /\ failed' = TRUE
  /\ \/ answer' = Empty(503)
     \/ Cluster(calls[Len(calls) - 1]) \in Server /\ answer' = Empty(200)
  /\ UNCHANGED <<withOPA, pc, visited>>

Next == Authorize \/ Route \/ RouteFails \/ serveGoodDb \/ serveAndCall \/ Return \/ AnswerLost

Spec == Init /\ [][Next]_vars

-----------------------------------------------------------------------------
(* Properties. *)

TypeOK == /\ withOPA \in BOOLEAN /\ calls \in Seq(Call) /\ Len(calls) <= 6
          /\ pc \in {"arrive", "route", "handle", "reply", "done"}
          /\ answer.status \in {0, 200, 403, 404, 503}
          /\ answer.verdict \in Verdict /\ answer.body \in Seq(Server)
          /\ visited \in Seq(Server) /\ failed \in BOOLEAN

(* README.md:98-126 of envoy-spire-ext-authz, policy.rego of the three services, by
   whatever Envoy and with whatever path a request comes in, the handlers it reaches
   are those of the allowed flow, in its order; the db is reached through web and
   backend only. *)
FlowHonoured == withOPA => IsPrefix(visited, <<"web", "backend", "db">>)

(* web-server/main.go:40-49, 71-82, backend-server/main.go:40-50: what the client can
   tell from the answer, wherever a call was refused or failed, an answer was lost or a
   body cut.  But for "Forbidden path", it names services whose handlers have run for
   this request, in their order and from the first on.  A refusal or a failure behind
   backend comes out as a 200, so that the status tells nothing; but such an answer
   does not name all that have run, and one for which all was in order does.
   "Forbidden path: WEB -> DB" goes with a refusal or a failure, and with the policies in
   force the db has not been reached then. *)
AnswerIsTrue ==
  pc = "done" =>
    /\ answer.verdict # "Forbidden" => IsPrefix(answer.body, visited)
    /\ answer.status = 200 => (failed <=> answer.body # visited)
    /\ answer.verdict = "Forbidden" => /\ answer.status = 403 \/ failed
                                       /\ withOPA => "db" \notin ToSet(visited)

(* README.md:104-126: with all services in order, web's answers to calls from its
   subnet are the documented ones: the whole flow for the good path and 403 for the
   bad path. *)
HealthyAnswers ==
  /\ withOPA /\ pc = "reply" /\ Len(calls) = 1 /\ ~failed
  /\ Now.at = "web:8001" /\ Now.address = "172.28.0.0/16"
  => /\ Now.path = "/the/good/path" => answer = Says(200, "Allowed", <<"web", "backend", "db">>)
     /\ Now.path = "/the/bad/path" => answer = Says(403, "Forbidden", <<"web", "db">>)
=============================================================================
