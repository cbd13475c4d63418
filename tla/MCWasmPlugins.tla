---------------------------- MODULE MCWasmPlugins ----------------------------
(* The plugins that work in one VM, by the names of their directories.  They share
   nothing, so that one of them is at work in each behaviour and the others stay as
   they begin. *)
EXTENDS MultipleDispatches, TLC

CONSTANTS Postponed, Authorized,  \* the requests of two of them
          Plugin, Timeout, MaxCalls, MaxParts, Key, NoKey,
          VM, Network, Value, Connections, MaxWork

ASSUME FiniteAssumption == IsFiniteSet(Postponed) /\ IsFiniteSet(VM) /\ IsFiniteSet(Value)
                           /\ MaxWork \in Nat
ASSUME BoundAssumption == Timeout \in Nat /\ MaxCalls \in Nat /\ MaxParts \in Nat \ {0}
(* The keys of json_validation are strings, a number is none. *)
ASSUME KeyAssumption == "number" \notin Key

VARIABLES
  active,  \* the plugin at work
  postponeFate, postponePlugin, postponed, resumes,
  authFate, authCalls, answer, ignored,
  tickVM, tickPlugin, started, calls, cnt, dispatched,
  shouldEchoBody, cumulative, modifyResponse, bufferOperation, bodyTotal, phase, reply,
    length, bodyCame, held, sent, edited,
  configured, plugin, requiredKeys, contentType, payload, jsonFate, came, total, way,
  names, count, counterId, pc, at, open, begun,
  program, headersConfigured, headersPlugin, setting, requires, carries, headersFate, value,
    canary, extra, failed

Postpone == INSTANCE PostponeRequests
              WITH Stream <- Postponed, fate <- postponeFate, plugin <- postponePlugin
Auth == INSTANCE HttpAuthRandom WITH Stream <- Authorized, fate <- authFate, calls <- authCalls
Tick == INSTANCE DispatchOnTick WITH vm <- tickVM, plugin <- tickPlugin
Body == INSTANCE HttpBody WITH total <- bodyTotal, came <- bodyCame
Json == INSTANCE JsonValidation WITH MaxParts <- MaxParts - 1, fate <- jsonFate
Metrics == INSTANCE Metrics WITH id <- counterId
Headers == INSTANCE HeaderPlugins
             WITH configured <- headersConfigured, plugin <- headersPlugin, fate <- headersFate

postponeVars == <<postponeFate, postponePlugin, postponed, resumes>>
authVars == <<authFate, authCalls, answer, ignored>>
tickVars == <<tickVM, tickPlugin, started, calls, cnt, dispatched>>
bodyVars == <<shouldEchoBody, cumulative, modifyResponse, bufferOperation, bodyTotal, phase,
              reply, length, bodyCame, held, sent, edited>>
jsonVars == <<configured, plugin, requiredKeys, contentType, payload, jsonFate, came, total, way>>
metricsVars == <<names, count, counterId, pc, at, open, begun>>
headersVars == <<program, headersConfigured, headersPlugin, setting, requires, carries,
                 headersFate, value, canary, extra, failed>>
others == <<postponeVars, authVars, tickVars, bodyVars, jsonVars, metricsVars, headersVars>>

PluginsInit ==
  /\ active \in {"multiple_dispatches", "postpone_requests", "http_auth_random",
                 "dispatch_call_on_tick", "http_body", "json_validation", "metrics",
                 "header_plugins"}
  /\ Init /\ Postpone!Init /\ Auth!Init /\ Tick!Init /\ Body!Init /\ Json!Init
  /\ Metrics!Init /\ Headers!Init
  /\ active # "dispatch_call_on_tick" => started = CHOOSE p \in Plugin : TRUE
  /\ active # "http_body" => ~shouldEchoBody /\ ~cumulative /\ length = [d \in Body!Dir |-> TRUE]
  /\ active # "json_validation" => configured = payload /\ payload = Json!Invalid /\ ~contentType
  /\ active # "header_plugins" => program = "properties" /\ ~requires

PluginsNext ==
  /\ UNCHANGED active
  /\ \/ /\ active = "multiple_dispatches" /\ Next
        /\ UNCHANGED others
     \/ /\ active = "postpone_requests" /\ Postpone!Next
        /\ UNCHANGED <<vars, authVars, tickVars, bodyVars, jsonVars, metricsVars, headersVars>>
     \/ /\ active = "http_auth_random" /\ Auth!Next
        /\ UNCHANGED <<vars, postponeVars, tickVars, bodyVars, jsonVars, metricsVars, headersVars>>
     \/ /\ active = "dispatch_call_on_tick" /\ Tick!Next
        /\ UNCHANGED <<vars, postponeVars, authVars, bodyVars, jsonVars, metricsVars, headersVars>>
     \/ /\ active = "http_body" /\ Body!Next
        /\ UNCHANGED <<vars, postponeVars, authVars, tickVars, jsonVars, metricsVars, headersVars>>
     \/ /\ active = "json_validation" /\ Json!Next
        /\ UNCHANGED <<vars, postponeVars, authVars, tickVars, bodyVars, metricsVars, headersVars>>
     \/ /\ active = "metrics" /\ Metrics!Next
        /\ UNCHANGED <<vars, postponeVars, authVars, tickVars, bodyVars, jsonVars, headersVars>>
     \/ /\ active = "header_plugins" /\ Headers!Next
        /\ UNCHANGED <<vars, postponeVars, authVars, tickVars, bodyVars, jsonVars, metricsVars>>

PluginsSpec == /\ PluginsInit /\ [][PluginsNext]_<<active, vars, others>>
               /\ Fairness /\ Postpone!Fairness /\ Auth!Fairness

-----------------------------------------------------------------------------
(* The properties of MultipleDispatches, and of the other modules by names that tell
   whose they are; each is stated, with the code it is about, in its module. *)

(* The variables of all the plugins have their types. *)
PluginTypes == Postpone!TypeOK /\ Auth!TypeOK /\ Tick!TypeOK /\ Body!TypeOK /\ Json!TypeOK
               /\ Metrics!TypeOK /\ Headers!TypeOK

(* postpone_requests/main.go:60-91, see PostponeRequests: every paused request is in
   the queue, and superfluous resumes stand for requests that have gone. *)
PostponeQueue == Postpone!PausedIsQueued /\ Postpone!ExtraResumes
(* postpone_requests/main.go:60-91 holds up requests as PausedStreams says. *)
PostponeImplementsPaused == Postpone!ImplementsPaused

(* http_auth_random/main.go:70-119, see HttpAuthRandom. *)
HeldByItsCall == Auth!HeldByItsCall
(* http_auth_random/main.go:60-119 holds up requests as PausedStreams says. *)
AuthImplementsPaused == Auth!ImplementsPaused

(* dispatch_call_on_tick/main.go:57-94, see DispatchOnTick. *)
CountsOwnCalls == Tick!CountsOwnCalls

(* http_body/main.go:110-189, see HttpBody. *)
WholeOrHeld == Body!WholeOrHeld
(* http_body/main.go:80-95, 149-152, see HttpBody. *)
EditsFit == Body!EditsFit

(* json_validation/main.go:47-161, see JsonValidation. *)
VerdictIsRight == Json!VerdictIsRight

(* metrics/main.go:67-73, network/main.go:34, 119-122, see Metrics. *)
CountersAreExact == Metrics!CountersAreExact

(* http_routing/main.go:86-110, http_headers/main.go:119-144, properties/main.go:62-94,
   see HeaderPlugins. *)
FailsSafely == Headers!FailsSafely
=============================================================================
