------------------------------ MODULE SharedData ------------------------------
(* The plugin istio/envoy/wasm-go/shared_data/main.go.  Every worker thread of the
   proxy runs a VM of its own; all VMs share one value in the host's data store,
   which they read and write with a compare-and-swap number.  Callbacks of one VM
   run one at a time, host calls of different VMs interleave. *)
EXTENDS Naturals, FiniteSets

CONSTANTS VM,
          Initial,      \* sharedDataInitialValue
          MaxRequests   \* bound: requests served by each VM

ASSUME InitialAssumption == Initial \in Nat
ASSUME RequestsAssumption == MaxRequests \in Nat

VARIABLES entry,   \* the host's value with its CAS number, 0 while there is no key
          pc,      \* "off", "idle", "set" (read, will write) or "retry"
          got,     \* the value and the CAS number that GetSharedData returned
          served,  \* requests begun by each VM
          since,   \* history: increments since the value was last initialised
          total,   \* history: all increments
          logged   \* history: values logged since the value was last initialised

history == <<since, total, logged>>
vars == <<entry, pc, got, served, history>>

Entry == [value : Nat, cas : Nat]

Init ==
  /\ entry = [value |-> Initial, cas |-> 0]
  /\ pc = [v \in VM |-> "off"]
  /\ got = [v \in VM |-> [value |-> Initial, cas |-> 0]]
  /\ served = [v \in VM |-> 0]
  /\ since = 0 /\ total = 0 /\ logged = {}

Goto(v, l) == pc' = [pc EXCEPT ![v] = l]

(* The host numbers every write. *)
NextCas == entry.cas + 1

(* SetSharedData with cas = 0 overwrites whatever there is.  If the host refuses
   it, the VM starts all the same. *)
OnVMStart(v) ==
  /\ pc[v] = "off"
  /\ Goto(v, "idle")
  /\ \/ /\ entry' = [value |-> Initial, cas |-> NextCas]
        /\ since' = 0 /\ logged' = {}
     \/ UNCHANGED <<entry, since, logged>>
  /\ UNCHANGED <<got, served, total>>

(* What a read returns; the slip is to read only before the loop. *)
ReadOnce(v) == IF pc[v] = "retry" THEN got[v] ELSE entry
Read(v) == entry

(* Without the key the read fails; the slip is not to look at the error. *)
FoundAnyway == TRUE
Found == entry.cas # 0

(* GetSharedData, for a new request or once more after a mismatch. *)
GetSharedData(v) ==
  /\ \/ /\ pc[v] = "idle" /\ served[v] < MaxRequests
        /\ served' = [served EXCEPT ![v] = @ + 1]
     \/ pc[v] = "retry" /\ UNCHANGED served
  /\ IF Found
       THEN Goto(v, "set") /\ got' = [got EXCEPT ![v] = Read(v)]
       ELSE Goto(v, "idle") /\ UNCHANGED got
  /\ UNCHANGED <<entry, history>>

(* The CAS number passed to SetSharedData; the slip is to pass none. *)
NoCas(v) == 0
CasOf(v) == got[v].cas
Accepted(v) == CasOf(v) \in {0, entry.cas}

SetSharedData(v) ==
  /\ pc[v] = "set" /\ Accepted(v)
  /\ entry' = [value |-> got[v].value + 1, cas |-> NextCas]
  /\ Goto(v, "idle")
  /\ since' = since + 1 /\ total' = total + 1
  /\ logged' = logged \cup {got[v].value + 1}
  /\ UNCHANGED <<got, served>>

(* ErrorStatusCasMismatch: the loop goes round again. *)
CasMismatch(v) ==
  /\ pc[v] = "set" /\ ~Accepted(v)
  /\ Goto(v, "retry")
  /\ UNCHANGED <<entry, got, served, history>>

(* Any other error ends the loop without an increment. *)
SetFails(v) ==
  /\ pc[v] = "set"
  /\ Goto(v, "idle")
  /\ UNCHANGED <<entry, got, served, history>>

Step(v) == OnVMStart(v) \/ GetSharedData(v) \/ SetSharedData(v) \/ CasMismatch(v) \/ SetFails(v)
Next == \E v \in VM : Step(v)

Spec == Init /\ [][Next]_vars
(* A worker thread goes on with the request it has begun. *)
FairSpec == Spec /\ \A v \in VM : WF_vars(pc[v] \in {"set", "retry"} /\ Step(v))

-----------------------------------------------------------------------------
(* Properties. *)

TypeOK ==
  /\ entry \in Entry
  /\ pc \in [VM -> {"off", "idle", "set", "retry"}]
  /\ got \in [VM -> Entry]
  /\ served \in [VM -> 0..MaxRequests]
  /\ since \in Nat /\ total \in Nat /\ logged \subseteq Nat
  /\ \A v \in VM : /\ got[v].cas <= entry.cas
                   /\ pc[v] = "set" => got[v].cas > 0

(* Whatever the VMs' reads and writes interleave to, no increment is lost and no
   two requests log the same value, counted from the last initialisation
   (main.go:70-98). *)
NoIncrementLost ==
  /\ entry.value = Initial + since
  /\ logged = (Initial + 1)..(Initial + since)

(* The compare-and-swap loop implements an atomic counter, which a start resets. *)
Counter == INSTANCE AtomicCounter WITH count <- entry.value
ImplementsCounter == Counter!Spec

(* "Increments the global value in response to http requests atomically"
   (README.md:4): every increment ever made is in the value. *)
EveryIncrementCounts == entry.value = Initial + total

(* A request that has begun ends: whoever fails to write, somebody else has
   written, and requests are finitely many (main.go:71-79). *)
RequestsEnd == \A v \in VM : pc[v] \in {"set", "retry"} ~> pc[v] = "idle"
=============================================================================
