---------------------------- MODULE HttpAuthRandom ----------------------------
(* The plugin istio/envoy/wasm-go/http_auth_random/main.go in one VM: each request
   is paused while a call is made for it, and the hash of the answer decides whether
   it goes on.  One package level function is the callback of all calls; the SDK
   puts the context in effect for which the call was made. *)
EXTENDS FiniteSets

CONSTANT Stream

VARIABLES
  fate,    \* "new", "paused", "continued", "forbidden" (403) or "gone"
  calls,   \* the requests whose call the proxy has still to answer
  answer,  \* history: what the answer to each request's call was
  ignored  \* history: requests whose callback returned without doing anything

vars == <<fate, calls, answer, ignored>>

(* An answer with an even hash, an odd one (and one whose 403 then cannot be sent),
   one whose body cannot be read, one without headers, as after a timeout. *)
Answers == {"even", "odd", "oddUnsent", "noBody", "noHeaders"}

Init == /\ fate = [s \in Stream |-> "new"] /\ calls = {}
        /\ answer = [s \in Stream |-> "none"] /\ ignored = {}

(* The headers cannot be read or the call cannot be dispatched: the request goes on. *)
Undecided(s) ==
  /\ fate[s] = "new"
  /\ fate' = [fate EXCEPT ![s] = "continued"]
  /\ UNCHANGED <<calls, answer, ignored>>

OnHttpRequestHeaders(s) ==
  /\ fate[s] = "new"
  /\ fate' = [fate EXCEPT ![s] = "paused"] /\ calls' = calls \cup {s}
  /\ UNCHANGED <<answer, ignored>>

(* What becomes of the request.  The slips are to forget the resume when the body
   cannot be read, and to resume after the 403 too. *)
NoResume(a) == CASE a = "odd" -> "forbidden" [] a = "noBody" -> "paused" [] OTHER -> "continued"
ResumeAnyway(a) == "continued"
Verdict(a) == IF a = "odd" THEN "forbidden" ELSE "continued"

HttpCallResponseCallback(s, a) ==
  /\ s \in calls /\ calls' = calls \ {s}
  /\ answer' = [answer EXCEPT ![s] = a]
  /\ CASE fate[s] = "gone" -> UNCHANGED <<fate, ignored>>
       [] fate[s] # "gone" /\ a = "noHeaders" -> ignored' = ignored \cup {s} /\ UNCHANGED fate
       [] OTHER -> fate' = [fate EXCEPT ![s] = Verdict(a)] /\ UNCHANGED ignored

Reply(s) == \E a \in Answers : HttpCallResponseCallback(s, a)

(* The client or the proxy closes the stream. *)
StreamGone(s) ==
  /\ fate[s] \in {"paused", "continued", "forbidden"}
  /\ fate' = [fate EXCEPT ![s] = "gone"]
  /\ UNCHANGED <<calls, answer, ignored>>

Next == \E s \in Stream : Undecided(s) \/ OnHttpRequestHeaders(s) \/ Reply(s) \/ StreamGone(s)
Spec == Init /\ [][Next]_vars
(* Every call ends, at the latest with its timeout of 50 seconds. *)
Fairness == \A s \in Stream : WF_vars(Reply(s))
FairSpec == Spec /\ Fairness

-----------------------------------------------------------------------------
(* Properties. *)

TypeOK ==
  /\ fate \in [Stream -> {"new", "paused", "continued", "forbidden", "gone"}]
  /\ calls \subseteq Stream /\ ignored \subseteq Stream
  /\ answer \in [Stream -> Answers \cup {"none"}]

(* main.go:70-119: a request is held up exactly as long as its call is out, or for
   ever if the answer came without headers; and whatever other answers come in
   between, it is refused exactly if the answer to its own call has an odd hash, as
   long as the refusal can be sent. *)
HeldByItsCall ==
  \A s \in Stream :
    /\ fate[s] = "paused" <=> fate[s] # "gone" /\ s \in calls \cup ignored
    /\ s \in ignored => answer[s] = "noHeaders"
    /\ fate[s] # "gone" => (fate[s] = "forbidden" <=> answer[s] = "odd")

(* main.go:60-119: each request goes on as PausedStreams says, and those are lost
   whose answer came without headers.  A refused request is one that leaves. *)
Shown == [s \in Stream |-> IF fate[s] = "forbidden" THEN "gone" ELSE fate[s]]
Paused == INSTANCE PausedStreams WITH fate <- Shown, lost <- ignored
ImplementsPaused == Paused!Spec
=============================================================================
