---------------------------- MODULE PausedStreams ----------------------------
(* What the Wasm plugins that hold up a request or a response owe the proxy: a
   stream that was held up goes on once, and not after it has gone away.  Whether
   it goes on at all depends on the plugin: it may lose streams, and those stay
   where they are. *)
CONSTANT Stream

VARIABLES fate,  \* "new", "paused", "continued" or "gone"
          lost   \* the streams that nothing will resume any more

vars == <<fate, lost>>

Init == fate = [s \in Stream |-> "new"] /\ lost \in SUBSET Stream

Become(s, from, to) == /\ fate[s] \in from /\ fate' = [fate EXCEPT ![s] = to]
                       /\ UNCHANGED lost

Pause(s) == Become(s, {"new"}, "paused")
Pass(s) == Become(s, {"new"}, "continued")
(* A callback may resume several streams. *)
Continue == /\ \E S \in SUBSET {s \in Stream \ lost : fate[s] = "paused"} :
                 fate' = [s \in Stream |-> IF s \in S THEN "continued" ELSE fate[s]]
            /\ UNCHANGED lost
Leave(s) == Become(s, {"new", "paused", "continued"}, "gone")
Lose == lost' \in SUBSET Stream /\ lost \subseteq lost' /\ UNCHANGED fate

Next == Continue \/ Lose \/ \E s \in Stream : Pause(s) \/ Pass(s) \/ Leave(s)

(* Nothing stays paused for ever unless it is lost. *)
Spec == /\ Init /\ [][Next]_vars
        /\ \A s \in Stream :
             WF_vars(Continue /\ s \notin lost /\ fate[s] = "paused" /\ fate'[s] # "paused")
=============================================================================
