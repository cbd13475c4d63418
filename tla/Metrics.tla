------------------------------- MODULE Metrics -------------------------------
(* The plugins istio/envoy/wasm-go/metrics and network: every worker's VM keeps the
   ids of the counters that it has defined, the counters themselves belong to the
   host and are shared.  Callbacks of one VM run one at a time, host calls of
   different VMs interleave.  A VM serves requests, with metrics/main.go, or
   connections, with network/main.go. *)
EXTENDS FiniteSetsExt, SequencesExt

CONSTANTS VM, Network,   \* the VMs, and those that run the plugin network
          Value,         \* what the header my-custom-header says
          Connections,   \* stands for proxy_wasm_go.connection_counter
          MaxWork        \* bound: requests and connections

VARIABLES
  names, count,  \* the host's metrics by their ids, and their values
  id,            \* the ids that each VM holds, 0 for none
  pc,            \* "new", "idle", "define", "increment" or "stopped" by a panic
  at,            \* the counter that the VM is working on
  open,          \* connections of each VM
  begun          \* history: requests with each value, connections

host == <<names, count>>
vars == <<host, id, pc, at, open, begun>>

Name == Value \cup {Connections}
Goto(v, l) == pc' = [pc EXCEPT ![v] = l]

Init ==
  /\ names = <<>> /\ count = <<>>
  /\ id = [v \in VM |-> [n \in Name |-> 0]]
  /\ pc = [v \in VM |-> IF v \in Network THEN "new" ELSE "idle"]
  /\ at = [v \in VM |-> Connections]
  /\ open = [v \in VM |-> 0] /\ begun = [n \in Name |-> 0]

Begins(n) == /\ SumFunction(begun) < MaxWork
             /\ begun' = [begun EXCEPT ![n] = @ + 1]

(* A request without the header changes nothing. *)
OnHttpRequestHeaders(v, x) ==
  /\ v \notin Network /\ pc[v] = "idle" /\ Begins(x)
  /\ at' = [at EXCEPT ![v] = x]
  /\ Goto(v, IF id[v][x] = 0 THEN "define" ELSE "increment")
  /\ UNCHANGED <<host, id, open>>

NewPluginContext(v) ==
  /\ pc[v] = "new" /\ Goto(v, "define")
  /\ UNCHANGED <<host, id, at, open, begun>>

(* The host knows a metric by its name and defines it once.  The slip is a name that
   leaves out the value of the header. *)
Unlabelled(n) == "custom_header_value_counts"
MetricName(n) == n
DefineCounter(v) ==
  LET n == MetricName(at[v])
      known == \E i \in DOMAIN names : names[i] = n
  IN  /\ pc[v] = "define"
      /\ names' = IF known THEN names ELSE Append(names, n)
      /\ count' = IF known THEN count ELSE Append(count, 0)
      /\ id' = [id EXCEPT ![v][at[v]] = CHOOSE i \in DOMAIN names' : names'[i] = n]
      /\ Goto(v, IF v \in Network THEN "idle" ELSE "increment")
      /\ UNCHANGED <<at, open, begun>>

(* Which counter goes up; the slip is the one that the VM has defined last. *)
Latest(v) == Max({id[v][n] : n \in Name})
CounterOf(v) == id[v][at[v]]
Increment(v) ==
  /\ pc[v] = "increment" /\ Goto(v, "idle")
  /\ count' = [count EXCEPT ![CounterOf(v)] = @ + 1]
  /\ UNCHANGED <<names, id, at, open, begun>>

(* The SDK panics if the host refuses to define or to increment. *)
Panics(v) ==
  /\ pc[v] \in {"define", "increment"} /\ Goto(v, "stopped")
  /\ UNCHANGED <<host, id, at, open, begun>>

OnNewConnection(v) ==
  /\ v \in Network /\ pc[v] = "idle" /\ Begins(Connections)
  /\ open' = [open EXCEPT ![v] = @ + 1]
  /\ UNCHANGED <<host, id, pc, at>>

OnStreamDone(v) ==
  /\ pc[v] = "idle" /\ open[v] > 0
  /\ open' = [open EXCEPT ![v] = @ - 1] /\ Goto(v, "increment")
  /\ UNCHANGED <<host, id, at, begun>>

Next == \E v \in VM :
  \/ \E x \in Value : OnHttpRequestHeaders(v, x)
  \/ NewPluginContext(v) \/ DefineCounter(v) \/ Increment(v) \/ Panics(v)
  \/ OnNewConnection(v) \/ OnStreamDone(v)

Spec == Init /\ [][Next]_vars

-----------------------------------------------------------------------------
(* Properties. *)

TypeOK ==
  /\ names \in Seq(Name) /\ count \in Seq(0..MaxWork) /\ Len(count) = Len(names)
  /\ id \in [VM -> [Name -> 0..Len(names)]] /\ at \in [VM -> Name]
  /\ pc \in [VM -> {"new", "idle", "define", "increment", "stopped"}]
  /\ open \in [VM -> 0..MaxWork] /\ begun \in [Name -> 0..MaxWork]

(* What a VM has begun and not counted: its open connections, and the request or the
   connection that it is working on or has panicked over. *)
Uncounted(v, n) ==
  (IF n = Connections THEN open[v] ELSE 0)
  + (IF at[v] = n /\ pc[v] \in (IF v \in Network /\ id[v][n] = 0 THEN {}
                                ELSE {"define", "increment", "stopped"}) THEN 1 ELSE 0)
Counted(n) == LET i == SelectInSeq(names, LAMBDA m : m = n) IN IF i = 0 THEN 0 ELSE count[i]

(* metrics/main.go:64-79, network/main.go:34, 119-122: in whatever order the VMs define
   the counters, all of them share one per name, which has counted every request
   with that value and every completed connection once, except for those over which
   a VM is at work or has stopped. *)
CountersAreExact ==
  \A n \in Name : Counted(n) + SumFunction([v \in VM |-> Uncounted(v, n)]) = begun[n]
=============================================================================
