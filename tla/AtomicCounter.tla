---------------------------- MODULE AtomicCounter ----------------------------
(* What istio/envoy/wasm-go/shared_data/README.md promises: a counter shared by all
   the VMs, which every request increments in one step.  A VM that starts sets it
   back. *)
EXTENDS Naturals

CONSTANT Initial

VARIABLE count

Init == count = Initial
Increment == count' = count + 1
Restart == count' = Initial
Next == Increment \/ Restart
Spec == Init /\ [][Next]_count
=============================================================================
