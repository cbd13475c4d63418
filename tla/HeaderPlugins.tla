---------------------------- MODULE HeaderPlugins ----------------------------
(* The plugins istio/envoy/wasm-go/http_routing, http_headers and properties: a
   configuration, then callbacks for headers only.  One of the plugins and one
   request; every call of the host may fail. *)
EXTENDS Naturals

VARIABLES
  program,     \* which of the plugins
  configured,  \* http_routing: the first byte; http_headers: what the JSON has
  plugin,      \* "new", "started" or "failed"
  setting,     \* what the plugin made of it: diceOverride, or the header's name
  requires,    \* properties: the header that the metadata of the route names
  carries,     \* whether the request has that header
  fate,        \* "new", "continued", "stuck" (paused for ever), "refused" (401) or "answered"
  value,       \* the dice
  canary,      \* whether the authority has been given its suffix
  extra,       \* headers that the plugin has added to the response
  failed       \* history: whether a call of the host has failed in a callback

config == <<program, configured, requires, carries>>
vars == <<config, plugin, setting, fate, value, canary, extra, failed>>

(* "empty" stands for no configuration, "error" for one that cannot be read. *)
Configured == [http_routing |-> {"empty", "error", "byte0", "byte1", "byte2"},
               http_headers |-> {"empty", "error", "noJSON", "incomplete", "complete"},
               properties |-> {"empty"}]

Init ==
  /\ program \in DOMAIN Configured /\ configured \in Configured[program]
  /\ requires \in (IF program = "properties" THEN BOOLEAN ELSE {FALSE})
  /\ carries \in (IF requires THEN BOOLEAN ELSE {FALSE})
  /\ plugin = "new" /\ setting = 0 /\ fate = "new" /\ value = 0
  /\ canary = FALSE /\ extra = {} /\ failed = FALSE

(* http_headers asks whether there is data before it asks for the error, so that a
   configuration that cannot be read counts as none. *)
Starts ==
  \/ program = "http_routing" /\ configured # "error"
  \/ program = "http_headers" /\ configured \in {"empty", "error", "complete"}
  \/ program = "properties"

OnPluginStart ==
  /\ plugin = "new" /\ plugin' = IF Starts THEN "started" ELSE "failed"
  /\ setting' = CASE configured \in {"byte1", "complete"} -> 1 [] configured = "byte2" -> 2 [] OTHER -> 0
  /\ UNCHANGED <<config, fate, value, canary, extra, failed>>

Requested(p) == program = p /\ plugin = "started" /\ fate = "new"

(* The byte 0 is as good as none.  Even values go to the canary cluster, if the
   authority can be read and replaced. *)
RouteRequest(dice, ok) ==
  /\ Requested("http_routing")
  /\ value' = IF setting # 0 THEN setting ELSE dice
  /\ fate' = IF value' % 2 = 1 \/ ok THEN "continued" ELSE "stuck"
  /\ canary' = (value' % 2 = 0 /\ ok) /\ failed' = (value' % 2 = 0 /\ ~ok)
  /\ UNCHANGED <<config, plugin, setting, extra>>

LogRequest ==
  /\ Requested("http_headers") /\ fate' = "continued"
  /\ UNCHANGED <<config, plugin, setting, value, canary, extra, failed>>

(* The response: what cannot be added is left out. *)
AddHeaders(constant, header) ==
  /\ program = "http_headers" /\ fate = "continued" /\ fate' = "answered"
  /\ extra' = (IF constant THEN {"x-proxy-wasm-go-sdk-example"} ELSE {})
              \cup (IF setting # 0 /\ header THEN {"configured"} ELSE {})
  /\ failed' = ~(constant /\ header)
  /\ UNCHANGED <<config, plugin, setting, value, canary>>

(* known: the host could read the property, read: the headers.  The name is empty when
   the property could not be read, and no header has that name.  The slip is to let
   the request go on after any error. *)
OpenRoute(known) == ~requires \/ ~known
NoAuth(known) == ~requires /\ known

(* The error of SendHttpResponse is dropped. *)
Authenticate(known, read, sent) ==
  /\ Requested("properties")
  /\ fate' = CASE NoAuth(known) \/ (known /\ read /\ carries) -> "continued"
               [] OTHER -> IF sent THEN "refused" ELSE "stuck"
  /\ failed' = ~(known /\ read /\ sent)
  /\ UNCHANGED <<config, plugin, setting, value, canary, extra>>

Next ==
  \/ OnPluginStart \/ LogRequest
  \/ \E dice \in 0..1, ok \in BOOLEAN : RouteRequest(dice, ok)
  \/ \E constant, header \in BOOLEAN : AddHeaders(constant, header)
  \/ \E known, read, sent \in BOOLEAN : Authenticate(known, read, sent)

Spec == Init /\ [][Next]_vars

-----------------------------------------------------------------------------
(* Properties. *)

TypeOK ==
  /\ program \in DOMAIN Configured /\ configured \in Configured[program]
  /\ requires \in BOOLEAN /\ carries \in BOOLEAN /\ plugin \in {"new", "started", "failed"}
  /\ setting \in 0..2 /\ fate \in {"new", "continued", "stuck", "refused", "answered"}
  /\ value \in 0..2 /\ canary \in BOOLEAN /\ failed \in BOOLEAN
  /\ extra \subseteq {"x-proxy-wasm-go-sdk-example", "configured"}

(* http_routing/main.go:86-110, http_headers/main.go:119-144, properties/main.go:62-94:
   whatever the host fails to do, a request that goes on goes to the cluster that the
   dice says, or on a route with authentication carries its header; a response has the
   configured header only from a plugin that understood its configuration; and no
   request hangs unless a call of the host has failed. *)
FailsSafely ==
  /\ program = "http_routing" /\ fate = "continued" => (canary <=> value % 2 = 0)
  /\ configured = "byte1" => ~canary
  /\ configured = "byte2" /\ fate = "continued" => canary
  /\ program = "properties" /\ requires /\ fate = "continued" => carries
  /\ "configured" \in extra => configured = "complete"
  /\ fate = "answered" /\ ~failed /\ configured = "complete" => "configured" \in extra
  /\ fate # "new" => plugin = "started"
  /\ fate = "stuck" => failed
=============================================================================
