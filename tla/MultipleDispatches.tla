-------------------------- MODULE MultipleDispatches --------------------------
(* The plugin istio/envoy/wasm-go/multiple_dispatches/main.go in one worker
   thread's VM: each response is paused while a number of calls is made for it,
   and goes on with the last answer.  Callbacks run one at a time; an answer that
   is there at once still comes in a callback of its own. *)
EXTENDS Naturals, FiniteSets

CONSTANTS Stream,
          TotalDispatchNum  \* totalDispatchNum

ASSUME TotalAssumption == TotalDispatchNum \in Nat \ {0}

VARIABLES
  vm,           \* "up" or, after a panic, "trapped"
  fate,         \* of each response: "new", "paused", "continued" or "gone"
  pending,      \* pendingDispatchedRequest of each context
  outstanding,  \* the calls that the proxy has still to answer
  tagged        \* how often a response got the header total-dispatched

vars == <<vm, fate, pending, outstanding, tagged>>

Init ==
  /\ vm = "up"
  /\ fate = [s \in Stream |-> "new"] /\ pending = [s \in Stream |-> 0]
  /\ outstanding = [s \in Stream |-> {}] /\ tagged = [s \in Stream |-> 0]

(* The slip is to record the calls once, not each of them. *)
RecordedOnce(s) == pending[s] + 1
Recorded(s) == pending[s] + TotalDispatchNum

OnHttpResponseHeaders(s) ==
  /\ vm = "up" /\ fate[s] = "new"
  /\ fate' = [fate EXCEPT ![s] = "paused"]
  /\ pending' = [pending EXCEPT ![s] = Recorded(s)]
  /\ outstanding' = [outstanding EXCEPT ![s] = 1..TotalDispatchNum]
  /\ UNCHANGED <<vm, tagged>>

(* One of the calls cannot be dispatched. *)
DispatchPanics(s) ==
  /\ vm = "up" /\ fate[s] = "new"
  /\ vm' = "trapped"
  /\ UNCHANGED <<fate, pending, outstanding, tagged>>

(* The counter after this answer, and whether it is the last; the slips are to test
   the counter before it is decremented and to go on with one call still out. *)
Left(s) == pending[s] - 1
TestedBefore(s) == pending[s] = 0
LastButOne(s) == Left(s) <= 1
Last(s) == Left(s) = 0

(* An answer, a reset or the timeout of call c.  For a context that has gone the
   callback is not called. *)
DispatchCallback(s, c) ==
  /\ vm = "up" /\ c \in outstanding[s]
  /\ outstanding' = [outstanding EXCEPT ![s] = @ \ {c}]
  /\ IF fate[s] = "gone"
       THEN UNCHANGED <<fate, pending, tagged>>
       ELSE /\ pending' = [pending EXCEPT ![s] = Left(s)]
            /\ IF Last(s)
                 THEN /\ tagged' = [tagged EXCEPT ![s] = @ + 1]
                      /\ fate' = [fate EXCEPT ![s] = "continued"]
                 ELSE UNCHANGED <<tagged, fate>>
  /\ UNCHANGED vm

(* The client or the upstream closes the stream. *)
StreamGone(s) ==
  /\ fate[s] # "gone"
  /\ fate' = [fate EXCEPT ![s] = "gone"]
  /\ UNCHANGED <<vm, pending, outstanding, tagged>>

Answer(s) == \E c \in 1..TotalDispatchNum : DispatchCallback(s, c)
Next == \E s \in Stream : OnHttpResponseHeaders(s) \/ DispatchPanics(s) \/ Answer(s) \/ StreamGone(s)

Spec == Init /\ [][Next]_vars
(* Every call ends, at the latest with its timeout of 50 seconds. *)
Fairness == \A s \in Stream : WF_vars(Answer(s))
FairSpec == Spec /\ Fairness

-----------------------------------------------------------------------------
(* Properties. *)

TypeOK ==
  /\ vm \in {"up", "trapped"}
  /\ fate \in [Stream -> {"new", "paused", "continued", "gone"}]
  /\ pending \in [Stream -> 0..TotalDispatchNum]
  /\ outstanding \in [Stream -> SUBSET (1..TotalDispatchNum)]
  /\ tagged \in [Stream -> Nat]

(* The counter of a context that is alive is the number of its calls still out, in
   whatever order they are answered, and a response has the header exactly when
   all of them have been (main.go:68-96). *)
PendingIsOutstanding ==
  \A s \in Stream :
    /\ fate[s] # "gone" => /\ pending[s] = Cardinality(outstanding[s])
                           /\ fate[s] = "paused" <=> outstanding[s] # {}
                           /\ fate[s] = "continued" <=> tagged[s] = 1
    /\ tagged[s] = 1 => outstanding[s] = {}
    /\ tagged[s] <= 1

(* main.go:79-91: each response is held up and goes on as PausedStreams says, and
   all are lost once a dispatch has panicked. *)
Lost == IF vm = "up" THEN {} ELSE Stream
Paused == INSTANCE PausedStreams WITH lost <- Lost
ImplementsPaused == Paused!Spec
=============================================================================
