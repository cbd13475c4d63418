----------------------------- MODULE ServiceChain -----------------------------
(* The demo services of istio/envoy/monitoring-and-tracing/monitoring, and of
   monitoring-and-accesslog, whose programs are the same: service A calls B and then
   C, each by way of Envoys, and puts together one answer.  One request, which an
   Envoy in front of A has passed on. *)
EXTENDS SequencesExt

VARIABLES
  pc,      \* A's handler: "begin", "call", "read", "finish", "panicked" or "end"
  callee,  \* "B" or "C", whom it calls
  text,    \* what the response says: "B" or "C", or "error" if it is an Envoy's
  answer,  \* the texts that A has written
  reply,   \* what the client gets: "none" yet, "200" or "failed"
  ran,     \* history: the services whose handlers have run
  lost     \* history: an Envoy answered for a service, or a body was cut short

vars == <<pc, callee, text, answer, reply, ran, lost>>

Init == /\ pc = "begin" /\ callee = "B" /\ text = "none" /\ answer = <<>>
        /\ reply = "none" /\ ran = <<>> /\ lost = FALSE

Begin == /\ pc = "begin" /\ pc' = "call"
         /\ answer' = <<"CallingServiceB">>
         /\ UNCHANGED <<callee, text, reply, ran, lost>>

(* The Envoys answer in place of a service that fails or is late, and B's aborts a
   share of the calls: A takes that for an answer, since it ignores the status. *)
Responds ==
  /\ pc = "call" /\ pc' = "read"
  /\ \/ ran' = Append(ran, callee) /\ text' \in {callee, "error"}
     \/ text' = "error" /\ UNCHANGED ran
  /\ lost' = (lost \/ text' = "error")
  /\ UNCHANGED <<callee, answer, reply>>

(* Without a response the error is printed and the response, nil, is dereferenced;
   the slip is to return there. *)
ReturnEarly == "finish"
NilResponse == "panicked"
CallFails ==
  /\ pc = "call" /\ pc' = NilResponse
  /\ ran' \in {ran, Append(ran, callee)}
  /\ UNCHANGED <<callee, text, answer, reply, lost>>

(* The body may be cut short; what there is of it is used. *)
Read(t) == {<<t>>, <<"cut">>, <<>>}
ReadAll ==
  /\ pc = "read"
  /\ \E part \in Read(text) :
       /\ lost' = (lost \/ part # <<text>>)
       /\ answer' = answer \o part \o (IF callee = "B" THEN <<"HelloFromServiceA">> ELSE <<>>)
  /\ IF callee = "B" THEN callee' = "C" /\ pc' = "call"
                     ELSE pc' = "finish" /\ UNCHANGED callee
  /\ UNCHANGED <<text, reply, ran>>

(* net/http recovers from the panic and closes the connection, with all that the
   handler wrote still in its buffers: the client gets an Envoy's error. *)
Finish == /\ pc \in {"finish", "panicked"} /\ pc' = "end"
          /\ reply' = CASE reply # "none" -> reply
                        [] reply = "none" /\ pc = "panicked" -> "failed"
                        [] OTHER -> "200"
          /\ UNCHANGED <<callee, text, answer, ran, lost>>

(* The Envoy in front gives up; the handler does not notice. *)
GivesUp == /\ reply = "none" /\ reply' = "failed"
           /\ UNCHANGED <<pc, callee, text, answer, ran, lost>>

Next == Begin \/ Responds \/ CallFails \/ ReadAll \/ Finish \/ GivesUp

Spec == Init /\ [][Next]_vars

-----------------------------------------------------------------------------
(* Properties. *)

TypeOK == /\ pc \in {"begin", "call", "read", "finish", "panicked", "end"}
          /\ callee \in {"B", "C"} /\ text \in {"none", "B", "C", "error"}
          /\ answer \in Seq({"CallingServiceB", "HelloFromServiceA", "B", "C", "error", "cut"})
          /\ reply \in {"none", "200", "failed"} /\ ran \in Seq({"B", "C"})
          /\ lost \in BOOLEAN

(* service_a/main.go:29-69: an answer with status 200 is one for which both calls
   were answered: it has A's own text in its place and at most one text of each call
   around it, and names only services that have handled the request.  A ignores the
   status and the errors of its calls, but whatever stood in for a service's text, or
   cut it, shows: the answer has the texts of both services exactly if nothing did.  A
   call that fails altogether leaves no half answer. *)
AnswerIsTrue ==
  /\ reply = "200" =>
       /\ \E b \in {<<>>, <<"B">>, <<"error">>, <<"cut">>}, c \in {<<>>, <<"C">>, <<"error">>, <<"cut">>} :
            answer = <<"CallingServiceB">> \o b \o <<"HelloFromServiceA">> \o c
       /\ lost <=> answer # <<"CallingServiceB", "B", "HelloFromServiceA", "C">>
  /\ ToSet(answer) \cap {"B", "C"} \subseteq ToSet(ran)
=============================================================================
