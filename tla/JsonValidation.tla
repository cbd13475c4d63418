---------------------------- MODULE JsonValidation ----------------------------
(* The plugin istio/envoy/wasm-go/json_validation/main.go: its configuration, and one
   request whose body is held until its last part has come, read and validated.
   Trailers, for which the plugin has no callback, let a held body go. *)
EXTENDS Naturals, FiniteSets

CONSTANTS Key,      \* keys of the configuration and of the payload
          NoKey,    \* the empty key, none of them
          MaxParts  \* bound: parts of a body, each of size 1

VARIABLES
  configured,    \* the plugin's configuration, with the members of its requiredKeys
  plugin,        \* "new", "started" or "failed"
  requiredKeys,  \* what the plugin made of them
  contentType,   \* whether the request's is application/json
  payload,       \* the body as a whole, with its keys if it is JSON
  fate,          \* "new", "body", "forwarded", "refused" (403) or "stopped"
  came,          \* parts that have come, all of them kept by the host
  total,         \* totalRequestBodySize
  way            \* history: how the request came to its fate

request == <<contentType, payload>>
vars == <<configured, plugin, requiredKeys, request, fate, came, total, way>>

Invalid == [json |-> FALSE, keys |-> {}]  \* a configuration may be unreadable, too
Member == Key \cup {"number"}
Text(S) == [json : {TRUE}, keys : SUBSET S] \cup {Invalid}
Configuration == Text(Member)
Payload == Text(Key \cup {NoKey})

Init ==
  /\ configured \in Configuration /\ plugin = "new" /\ requiredKeys = {}
  /\ contentType \in BOOLEAN /\ payload \in Payload /\ fate = "new"
  /\ came = 0 /\ total = 0 /\ way = "none"

(* A member that is not a string becomes the empty key.  No configuration asks for
   nothing, as does one without requiredKeys. *)
parsePluginConfiguration(c) == {IF m \in Key THEN m ELSE NoKey : m \in c.keys}

OnPluginStart ==
  /\ plugin = "new"
  /\ IF ~configured.json
       THEN plugin' = "failed" /\ UNCHANGED requiredKeys
       ELSE plugin' = "started" /\ requiredKeys' = parsePluginConfiguration(configured)
  /\ UNCHANGED <<configured, request, fate, came, total, way>>

(* end: the request has no body. *)
Accepted == contentType

OnHttpRequestHeaders(end, sent) ==
  /\ plugin = "started" /\ fate = "new"
  /\ CASE ~Accepted -> fate' = (IF sent THEN "refused" ELSE "stopped") /\ way' = "type"
       [] Accepted /\ end -> fate' = "forwarded" /\ way' = "noBody"
       [] OTHER -> fate' = "body" /\ UNCHANGED way
  /\ UNCHANGED <<configured, plugin, requiredKeys, request, came, total>>

Comes(k) == /\ fate = "body" /\ came + k <= MaxParts
            /\ came' = came + k /\ total' = total + k

HoldPart == /\ Comes(1)
            /\ UNCHANGED <<configured, plugin, requiredKeys, request, fate, way>>

(* The size asked for; the slip is to ask for the last part alone. *)
LastSize(k) == k
BodySize(k) == total + k

(* What was read: a prefix of the body, which is no JSON unless it is all of it. *)
Read(k) == IF BodySize(k) >= came + k THEN payload ELSE Invalid

(* The slip is to look for one of the required keys. *)
validateAny(p) == p.json /\ (requiredKeys = {} \/ requiredKeys \cap p.keys # {})
validatePayload(p) == p.json /\ requiredKeys \subseteq p.keys

(* An empty body cannot be read; ok says whether the host hands out another. *)
LastPart(k, ok, sent) ==
  /\ Comes(k)
  /\ CASE ~ok \/ BodySize(k) = 0 -> fate' = "forwarded" /\ way' = "unread"
       [] ok /\ BodySize(k) > 0 /\ validatePayload(Read(k)) -> fate' = "forwarded" /\ way' = "valid"
       [] OTHER -> fate' = (IF sent THEN "refused" ELSE "stopped") /\ way' = "invalid"
  /\ UNCHANGED <<configured, plugin, requiredKeys, request>>

Trailers ==
  /\ fate = "body" /\ fate' = "forwarded" /\ way' = "trailers"
  /\ UNCHANGED <<configured, plugin, requiredKeys, request, came, total>>

Next == \/ OnPluginStart \/ HoldPart \/ Trailers
        \/ \E sent \in BOOLEAN :
             \/ \E end \in BOOLEAN : OnHttpRequestHeaders(end, sent)
             \/ \E k \in 0..1, ok \in BOOLEAN : LastPart(k, ok, sent)

Spec == Init /\ [][Next]_vars

-----------------------------------------------------------------------------
(* Properties. *)

TypeOK ==
  /\ configured \in Configuration /\ plugin \in {"new", "started", "failed"}
  /\ requiredKeys \subseteq Key \cup {NoKey} /\ contentType \in BOOLEAN /\ payload \in Payload
  /\ fate \in {"new", "body", "forwarded", "refused", "stopped"}
  /\ came \in 0..MaxParts /\ total \in 0..came
  /\ way \in {"none", "type", "noBody", "unread", "trailers", "valid", "invalid"}

(* The reference: what the configuration, as it was written, asks of a payload. *)
Satisfies(p, c) == /\ p.json /\ c.keys \cap Key \subseteq p.keys
                   /\ "number" \in c.keys => NoKey \in p.keys

(* main.go:101-161: however its body is cut into parts, a request whose body was read
   went on exactly if the payload, as a whole, is JSON with every key that the
   configuration names; no request went on without the content type, and none at
   all through a plugin that could not understand its configuration. *)
VerdictIsRight ==
  /\ way = "valid" => Satisfies(payload, configured)
  /\ way = "invalid" => ~Satisfies(payload, configured)
  /\ fate \in {"body", "forwarded"} => contentType /\ plugin = "started"
  /\ fate = "forwarded" => way \in {"valid", "noBody", "unread", "trailers"}

(* json_validation/README.md:3-4: the request is refused if it does not have a JSON
   payload.  The plugin looks at a payload only where its callback for bodies is
   called for the last part: a request without a body passes. *)
PayloadRequired == fate = "forwarded" => way # "noBody" /\ came > 0
=============================================================================
