------------------------------- MODULE Mailbox -------------------------------
(* What istio/envoy/wasm-go/shared_queue promises between two VMs: the items put
   into a box come out of it one by one, in the order they went in, and, as long
   as somebody reads them, all of them. *)
EXTENDS Sequences, Naturals

CONSTANTS Box, Item

VARIABLES put, taken, reading

vars == <<put, taken, reading>>

Init == /\ put = [b \in Box |-> <<>>] /\ taken = [b \in Box |-> <<>>]
        /\ reading = TRUE

Put(b) == /\ \E i \in Item : put' = [put EXCEPT ![b] = Append(@, i)]
          /\ UNCHANGED <<taken, reading>>

Take(b) == /\ reading /\ Len(taken[b]) < Len(put[b])
           /\ taken' = [taken EXCEPT ![b] = Append(@, put[b][Len(@) + 1])]
           /\ UNCHANGED <<put, reading>>

(* The reader dies. *)
Stop == reading' = FALSE /\ UNCHANGED <<put, taken>>

Next == Stop \/ \E b \in Box : Put(b) \/ Take(b)
Spec == Init /\ [][Next]_vars /\ \A b \in Box : WF_vars(Take(b))
=============================================================================
