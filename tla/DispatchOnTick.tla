---------------------------- MODULE DispatchOnTick ----------------------------
(* The plugin istio/envoy/wasm-go/dispatch_call_on_tick/main.go: the plugin contexts
   of one VM, each with its own ticks of 100 ms, its own closure for the answers of
   the calls it dispatches, and its own counter of them.  A call that the service
   does not answer ends with its timeout, Timeout ticks later. *)
EXTENDS Naturals, FiniteSets

CONSTANTS Plugin,    \* finitely many
          Timeout,   \* the timeout of a call, in ticks (50 in the code)
          MaxCalls   \* bound: calls that a context dispatches

VARIABLES
  vm,          \* "up", or "stopped" once a callback has panicked
  plugin,      \* each context: "new", "ticking" or "failed"
  started,     \* the context that was started last
  calls,       \* the ages, in ticks, of each context's calls without an answer
  cnt,         \* each context's counter
  dispatched   \* history: how many calls each context has dispatched

vars == <<vm, plugin, started, calls, cnt, dispatched>>

Init == /\ vm = "up" /\ plugin = [p \in Plugin |-> "new"] /\ started \in Plugin
        /\ calls = [p \in Plugin |-> {}] /\ cnt = [p \in Plugin |-> 0]
        /\ dispatched = [p \in Plugin |-> 0]

(* The context fails if its tick period is refused. *)
Refused == "failed"
OnPluginStart(p) ==
  /\ vm = "up" /\ plugin[p] = "new"
  /\ \/ plugin' = [plugin EXCEPT ![p] = "ticking"] /\ started' = p
     \/ plugin' = [plugin EXCEPT ![p] = Refused] /\ UNCHANGED started
  /\ UNCHANGED <<vm, calls, cnt, dispatched>>

(* A call that cannot be dispatched is only logged.  The slip is to count it. *)
CountsAll(ok) == 1
Dispatches(ok) == IF ok THEN 1 ELSE 0

(* A call that is due is answered, at least by its timeout, before it gets older. *)
OnTick(p, ok) ==
  /\ vm = "up" /\ plugin[p] = "ticking" /\ Timeout \notin calls[p]
  /\ dispatched[p] < MaxCalls
  /\ calls' = [calls EXCEPT ![p] = {a + 1 : a \in @} \cup (IF ok THEN {0} ELSE {})]
  /\ dispatched' = [dispatched EXCEPT ![p] = @ + Dispatches(ok)]
  /\ UNCHANGED <<vm, plugin, started, cnt>>

(* The context that the closure counts for; the slip is one closure for the VM. *)
LastStarted(p) == started
Counts(p) == p

(* What the host says to the requests for headers and for trailers: an answer, none
   ("notFound", as after a timeout) or an error.  Only the last makes the closure
   panic, after it has counted. *)
Panics(headers, trailers) == "error" \in {headers, trailers}

CallBack(p, headers, trailers) ==
  /\ vm = "up" /\ calls[p] # {}
  /\ \E a \in calls[p] : calls' = [calls EXCEPT ![p] = @ \ {a}]
  /\ cnt' = [cnt EXCEPT ![Counts(p)] = @ + 1]
  /\ vm' = IF Panics(headers, trailers) THEN "stopped" ELSE vm
  /\ UNCHANGED <<plugin, started, dispatched>>

Answer(p) == \E headers, trailers \in {"ok", "notFound", "error"} : CallBack(p, headers, trailers)

Next == \E p \in Plugin : \/ OnPluginStart(p) \/ Answer(p)
                          \/ \E ok \in BOOLEAN : OnTick(p, ok)

Spec == Init /\ [][Next]_vars

-----------------------------------------------------------------------------
(* Properties. *)

TypeOK == /\ vm \in {"up", "stopped"} /\ plugin \in [Plugin -> {"new", "ticking", "failed"}]
          /\ started \in Plugin /\ calls \in [Plugin -> SUBSET (0..Timeout)]
          /\ cnt \in [Plugin -> Nat] /\ dispatched \in [Plugin -> 0..MaxCalls]

(* main.go:59-62, 90: whatever the order of starts, ticks, answers and timeouts of
   the contexts, each counter has counted exactly the calls that its own context
   dispatched and that have been answered, the one that panicked included. *)
CountsOwnCalls ==
  \A p \in Plugin : cnt[p] + Cardinality(calls[p]) = dispatched[p]
=============================================================================
