------------------------------- MODULE HttpBody -------------------------------
(* The plugin istio/envoy/wasm-go/http_body/main.go and one stream: the body of the
   request, or of the response, is held until its last part has come and is then
   appended to, prepended to or replaced; configured as "echo", the plugin answers a
   request with its own body.  The host keeps the parts for which a callback returned
   ActionPause; trailers, for which the plugin has no callback, let them go. *)
EXTENDS Naturals, SequencesExt

CONSTANT MaxParts  \* bound: parts of a body, each of size 1

VARIABLES
  shouldEchoBody,   \* from the plugin's configuration
  cumulative,       \* whether the host's bodySize includes the parts it has kept
  modifyResponse,   \* "buffer-replace-at: response"
  bufferOperation,  \* "none" until the request's headers have set it
  total,            \* totalRequestBodySize and totalResponseBodySize
  phase,            \* of request and response: "before", "body", "end" or "stopped"
  reply,            \* who answers: "none" yet, "upstream", "refused" (400) or "echo" (200)
  length,           \* whether the message has a content-length header
  came,             \* how many parts of the body have come
  held,             \* how many of them the host keeps
  sent,             \* what went on: numbers of parts, and 0 for the plugin's own text
  edited            \* history: the directions whose body the host then edited

context == <<modifyResponse, bufferOperation, total>>
config == <<shouldEchoBody, cumulative>>
body == <<came, held, sent, edited>>
vars == <<config, context, phase, reply, length, body>>

Dir == {"request", "response"}
Operations == {"append", "prepend", "replace"}

Init ==
  /\ shouldEchoBody \in BOOLEAN /\ cumulative \in BOOLEAN
  /\ modifyResponse = FALSE /\ bufferOperation = "none"
  /\ phase = [d \in Dir |-> "before"] /\ reply = "none" /\ length \in [Dir -> BOOLEAN]
  /\ total = [d \in Dir |-> 0] /\ came = [d \in Dir |-> 0] /\ held = [d \in Dir |-> 0]
  /\ sent = [d \in Dir |-> <<>>] /\ edited = {}

(* Without a length the plugin answers 400, after it has set modifyResponse but not
   the operation; the slip is to set both before. *)
OperationFirst(op) == op
OperationOfRefused(op) == bufferOperation

(* The operation of the header buffer-operation, "other" when that is missing or
   unknown; the slip is to take it as it comes. *)
OperationAsSent(header) == header
Operation(header) == IF header \in Operations THEN header ELSE "replace"

OnHttpRequestHeaders(header, inResponse) ==
  /\ phase["request"] = "before" /\ ~shouldEchoBody
  /\ modifyResponse' = inResponse
  /\ IF length["request"]
       THEN /\ length' = [length EXCEPT !["request"] = FALSE]
            /\ bufferOperation' = Operation(header)
            /\ phase' = [phase EXCEPT !["request"] = "body"] /\ UNCHANGED reply
       ELSE /\ reply' = "refused" /\ length' = [length EXCEPT !["response"] = TRUE]
            /\ bufferOperation' = OperationOfRefused(Operation(header))
            /\ phase' = [phase EXCEPT !["request"] = "stopped"]
  /\ UNCHANGED <<config, total, body>>

(* The echo context has no callback for headers. *)
EchoRequestHeaders ==
  /\ phase["request"] = "before" /\ shouldEchoBody
  /\ phase' = [phase EXCEPT !["request"] = "body"]
  /\ UNCHANGED <<config, context, reply, length, body>>

(* Whether the response keeps its length; the slip is always to keep it. *)
LengthKept == length["response"]
LengthAfter == length["response"] /\ ~modifyResponse

(* The response of the upstream, or the plugin's own 400, which the host takes along
   the same callbacks. *)
OnHttpResponseHeaders ==
  /\ phase["response"] = "before"
  /\ \/ phase["request"] = "end" /\ reply' = "upstream"
     \/ reply = "refused" /\ UNCHANGED reply
  /\ phase' = [phase EXCEPT !["response"] = "body"]
  /\ length' = [length EXCEPT !["response"] = LengthAfter]
  /\ UNCHANGED <<config, context, body>>

(* Whether the parts of d are kept for an edit; the slip is to do so with every
   response. *)
HoldsResponses(d) == IF d = "request" THEN shouldEchoBody \/ ~modifyResponse ELSE TRUE
Holds(d) == IF shouldEchoBody THEN d = "request" ELSE modifyResponse <=> d = "response"

(* A part of size k: the body from the first part that the host has kept, and the
   counter.  The slip is not to add up the parts. *)
Body(d, k) == [i \in 1..held[d] + k |-> came[d] - held[d] + i]
BodySize(d, k) == IF cumulative THEN held[d] + k ELSE k
LastSize(d, k) == BodySize(d, k)
Total(d, k) == total[d] + BodySize(d, k)

(* A body that has come to its end, by a last part (which may be empty) or by
   trailers; the other directions of the stream go on. *)
Comes(d, k, last) ==
  /\ phase[d] = "body" /\ came[d] + k <= MaxParts /\ (k = 1 \/ last)
  /\ came' = [came EXCEPT ![d] = @ + k]
  /\ UNCHANGED config
Goes(d, b, last) ==
  /\ sent' = [sent EXCEPT ![d] = @ \o b] /\ held' = [held EXCEPT ![d] = 0]
  /\ phase' = IF last THEN [phase EXCEPT ![d] = "end"] ELSE phase

PassPart(d, k, last) ==
  /\ ~Holds(d) /\ Comes(d, k, last) /\ Goes(d, Body(d, k), last)
  /\ UNCHANGED <<context, reply, length, edited>>

HoldPart(d) ==
  /\ Holds(d) /\ Comes(d, 1, FALSE)
  /\ held' = [held EXCEPT ![d] = @ + 1]
  /\ total' = [total EXCEPT ![d] = Total(d, 1)]
  /\ UNCHANGED <<modifyResponse, bufferOperation, phase, reply, length, sent, edited>>

Edit(b) == CASE bufferOperation = "append" -> Append(b, 0)
             [] bufferOperation = "prepend" -> <<0>> \o b
             [] bufferOperation = "replace" -> <<0>>
             [] OTHER -> b

(* An empty body cannot be read; ok says whether the host reads and edits it. *)
Reads(d, k, ok) == ok /\ Total(d, k) > 0
LastPart(d, k, ok) ==
  LET b == Body(d, k)
      edits == Reads(d, k, ok) /\ bufferOperation # "none"
  IN  /\ Holds(d) /\ ~shouldEchoBody /\ Comes(d, k, TRUE)
      /\ Goes(d, IF edits THEN Edit(b) ELSE b, TRUE)
      /\ total' = [total EXCEPT ![d] = Total(d, k)]
      /\ edited' = IF edits THEN edited \cup {d} ELSE edited
      /\ UNCHANGED <<modifyResponse, bufferOperation, reply, length>>

(* The request becomes the response, which has no further callbacks; the body is empty
   when the host does not hand it out. *)
EchoLast(k, ok) ==
  LET b == Body("request", k)
      n == IF ok THEN Min({Len(b), Total("request", k)}) ELSE 0
  IN  /\ shouldEchoBody /\ Comes("request", k, TRUE)
      /\ total' = [total EXCEPT !["request"] = Total("request", k)]
      /\ reply' = "echo" /\ phase' = [request |-> "stopped", response |-> "end"]
      /\ sent' = [sent EXCEPT !["response"] = SubSeq(b, 1, n)]
      /\ length' = [length EXCEPT !["response"] = TRUE]
      /\ UNCHANGED <<modifyResponse, bufferOperation, held, edited>>

Trailers(d) ==
  /\ phase[d] = "body"
  /\ Goes(d, Body(d, 0), TRUE)
  /\ UNCHANGED <<config, context, reply, length, came, edited>>

(* The host refuses to remove a header or to send the reply. *)
Panics ==
  /\ \/ phase["request"] = "before" /\ ~shouldEchoBody
     \/ phase["request"] = "body" /\ shouldEchoBody
     \/ phase["response"] = "before" /\ modifyResponse
  /\ phase' = [d \in Dir |-> "stopped"]
  /\ UNCHANGED <<config, context, reply, length, body>>

Next ==
  \/ \E header \in Operations \cup {"other"}, inResponse \in BOOLEAN :
       OnHttpRequestHeaders(header, inResponse)
  \/ EchoRequestHeaders \/ OnHttpResponseHeaders \/ Panics
  \/ \E d \in Dir, k \in 0..1 :
       \/ \E last \in BOOLEAN : PassPart(d, k, last)
       \/ \E ok \in BOOLEAN : LastPart(d, k, ok)
  \/ \E d \in Dir : HoldPart(d) \/ Trailers(d)
  \/ \E k \in 0..1, ok \in BOOLEAN : EchoLast(k, ok)

Spec == Init /\ [][Next]_vars

-----------------------------------------------------------------------------
(* Properties. *)

Whole(d) == [i \in 1..came[d] |-> i]

TypeOK ==
  /\ shouldEchoBody \in BOOLEAN /\ cumulative \in BOOLEAN /\ modifyResponse \in BOOLEAN
  /\ bufferOperation \in Operations \cup {"none"}
  /\ phase \in [Dir -> {"before", "body", "end", "stopped"}]
  /\ reply \in {"none", "upstream", "refused", "echo"} /\ length \in [Dir -> BOOLEAN]
  /\ came \in [Dir -> 0..MaxParts] /\ held \in [Dir -> 0..MaxParts]
  /\ total \in [Dir -> Nat]
  /\ sent \in [Dir -> Seq(0..MaxParts)]
  /\ edited \subseteq Dir

(* main.go:110-212: however a body is cut into parts and however it ends, what goes
   on is the body as it came or as it came and edited, whole and in order; nothing of
   the body that is to be edited, and only that, goes on before its end; and an echo
   is all of the request or, when the host did not hand it out, empty, whether or not
   the host counts the parts it has kept again. *)
Chosen == IF modifyResponse THEN "response" ELSE "request"
WholeOrHeld ==
  /\ edited \subseteq {Chosen}
  /\ \A d \in Dir :
       IF phase[d] = "body" /\ d = Chosen
         THEN sent[d] = <<>> /\ held[d] = came[d]
         ELSE reply = "echo" \/ phase[d] = "stopped"
                \/ sent[d] = IF d \in edited THEN Edit(Whole(d)) ELSE Whole(d)
  /\ reply = "echo" => sent["response"] \in {<<>>, Whole("request")}

(* main.go:80-95, 149-152: a message whose body was edited has no content-length,
   although that was decided before any of the body was seen, and is not the plugin's
   own 400, which passes through the response callbacks with modifyResponse perhaps
   set. *)
EditsFit == \A d \in edited : ~length[d] /\ reply # "refused"
=============================================================================
