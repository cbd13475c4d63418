---------------------------- MODULE MCDemoServices ----------------------------
(* The demo services behind Envoys, by the names of their directories; one of the
   demos in each behaviour. *)
EXTENDS SpireMesh, TLC

VARIABLES demo, handler, callee, text, written, reply, ran, lost

Chain == INSTANCE ServiceChain WITH pc <- handler, answer <- written

chainVars == <<handler, callee, text, written, reply, ran, lost>>

DemoInit ==
  /\ demo \in {"security", "monitoring"} /\ Init /\ Chain!Init
  /\ demo = "monitoring" =>
       withOPA /\ calls = <<[at |-> "db:8001", path |-> "/other", address |-> "elsewhere", id |-> "none"]>>

DemoNext ==
  /\ UNCHANGED demo
  /\ \/ demo = "security" /\ Next /\ UNCHANGED chainVars
     \/ demo = "monitoring" /\ Chain!Next /\ UNCHANGED vars

DemoSpec == DemoInit /\ [][DemoNext]_<<demo, vars, chainVars>>

(* web-server/main.go:40-49, 71-82 and backend-server/main.go:40-50, see SpireMesh, and
   service_a/main.go:29-69, see ServiceChain: no answer but "Forbidden path" names a
   service that has not handled the request, and one with status 200, of which the
   status does not tell whether something was refused, failed, lost or cut on the way,
   tells so by what it names. *)
AnswersAreTrue == AnswerIsTrue /\ Chain!AnswerIsTrue
=============================================================================
