--------------------------- MODULE PostponeRequests ---------------------------
(* The plugin istio/envoy/wasm-go/postpone_requests/main.go in one worker thread's
   VM: requests are paused and queued, and each tick resumes all of them.
   Callbacks run one at a time, so no stream goes away during a tick. *)
EXTENDS Naturals, FiniteSets, SequencesExt

CONSTANT Stream  \* finitely many

VARIABLES
  plugin,     \* "new", "ticking" or, when the tick period was refused, "silent"
  fate,       \* of each request: "new", "paused", "continued" or "gone"
  postponed,  \* the queue of context ids
  resumes     \* how often the host was told to resume each request

vars == <<plugin, fate, postponed, resumes>>

Init == /\ plugin = "new" /\ postponed = <<>>
        /\ fate = [s \in Stream |-> "new"] /\ resumes = [s \in Stream |-> 0]

(* A refused tick period is only logged. *)
AnyStart == {"ticking", "silent"}
OnPluginStart == /\ plugin = "new" /\ plugin' \in AnyStart
                 /\ UNCHANGED <<fate, postponed, resumes>>

OnHttpRequestHeaders(s) ==
  /\ plugin # "new" /\ fate[s] = "new"
  /\ fate' = [fate EXCEPT ![s] = "paused"]
  /\ postponed' = Append(postponed, s)
  /\ UNCHANGED <<plugin, resumes>>

Live == {i \in DOMAIN postponed : fate[postponed[i]] # "gone"}

(* What is resumed in each turn of the loop.  The host does not know a context that
   has gone: SetEffectiveContext fails, nobody looks, and the context of an earlier
   turn stays in effect, or the plugin's own, which cannot be resumed.  The slips
   are to take the head of the whole queue in every turn and to go on only until
   there is a context that has gone. *)
HeadInEffect(i) == IF 1 \in Live THEN 1 ELSE 0
InEffect(i) == LET E == {j \in Live : j <= i} IN IF E = {} THEN 0 ELSE Max(E)
TurnsUntilGone == {i \in DOMAIN postponed : 1..i \subseteq Live}
Turns == DOMAIN postponed
Resumes(s) == Cardinality({i \in Turns : InEffect(i) # 0 /\ postponed[InEffect(i)] = s})

OnTick ==
  /\ plugin = "ticking" /\ postponed # <<>>
  /\ resumes' = [s \in Stream |-> resumes[s] + Resumes(s)]
  /\ fate' = [s \in Stream |-> IF fate[s] = "paused" /\ Resumes(s) > 0 THEN "continued" ELSE fate[s]]
  /\ postponed' = <<>>
  /\ UNCHANGED plugin

(* The client or the upstream closes the stream. *)
StreamGone(s) == /\ fate[s] \in {"paused", "continued"}
                 /\ fate' = [fate EXCEPT ![s] = "gone"]
                 /\ UNCHANGED <<plugin, postponed, resumes>>

Next == OnPluginStart \/ OnTick \/ \E s \in Stream : OnHttpRequestHeaders(s) \/ StreamGone(s)

Spec == Init /\ [][Next]_vars
(* The host's timer goes on. *)
Fairness == WF_vars(OnTick)
FairSpec == Spec /\ Fairness

-----------------------------------------------------------------------------
(* Properties. *)

TypeOK == /\ plugin \in {"new", "ticking", "silent"}
          /\ fate \in [Stream -> {"new", "paused", "continued", "gone"}]
          /\ postponed \in Seq(Stream)
          /\ resumes \in [Stream -> Nat]

(* main.go:61-67, 89: every paused request is in the queue, once, and has not been
   resumed; one that went on has been resumed and is not in the queue. *)
PausedIsQueued ==
  /\ IsInjective(postponed)
  /\ \A s \in Stream :
       /\ fate[s] = "paused" => s \in ToSet(postponed) /\ resumes[s] = 0
       /\ fate[s] = "continued" => s \notin ToSet(postponed) /\ resumes[s] > 0

(* main.go:64-65: a request is resumed more than once only in place of others that
   had gone by then, and never in place of one that had not: the superfluous
   resumes are no more than the requests that went away without one. *)
ExtraResumes ==
  LET extra == [s \in Stream |-> IF resumes[s] > 1 THEN resumes[s] - 1 ELSE 0]
      Missed == {s \in Stream : fate[s] = "gone" /\ resumes[s] = 0}
  IN  SumFunction(extra) <= Cardinality(Missed)

(* Every request is held up and goes on as PausedStreams says: at the next tick,
   unless there are no ticks. *)
Paused == INSTANCE PausedStreams WITH lost <- IF plugin = "silent" THEN Stream ELSE {}
ImplementsPaused == Paused!Spec
=============================================================================
