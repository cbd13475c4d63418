---------------------------- MODULE MCSharedQueue ----------------------------
(* A connection next to a request, which feeds other queues, or to a second connection,
   which feeds the same. *)
EXTENDS SharedQueue, TLC

CONSTANTS h, t, u
Configs == [s \in Stream |-> IF s = h THEN "http" ELSE "tcp"]

(* Of h and u one stays away, and u ends after a single frame. *)
TwoStreams == Next /\ (\E s \in {h, u} : pc'[s] = "new") /\ callback'[u] <= 1
TwoSpec == Init /\ [][TwoStreams]_vars /\ Fairness
=============================================================================
