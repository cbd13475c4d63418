---------------------- MODULE MultipleDispatchesProofs ----------------------
(* Proofs about MultipleDispatches, for any number of streams and of calls. *)
EXTENDS MultipleDispatches, FiniteSetTheorems, TLAPS

IInv == TypeOK /\ PendingIsOutstanding

LEMMA InitIInv == Init => IInv
<1> SUFFICES ASSUME Init PROVE IInv
    OBVIOUS
<1>1. Cardinality({}) = 0
  BY FS_EmptySet
<1> QED BY <1>1, TotalAssumption DEF Init, IInv, TypeOK, PendingIsOutstanding

(* The calls of a stream are finitely many; taking one away leaves one less. *)
LEMMA OneCallLess ==
  ASSUME TypeOK, NEW s \in Stream, NEW c \in outstanding[s]
  PROVE  /\ Cardinality(outstanding[s] \ {c}) = Cardinality(outstanding[s]) - 1
         /\ Cardinality(outstanding[s]) \in Nat
         /\ Cardinality(outstanding[s] \ {c}) \in Nat
         /\ Cardinality(outstanding[s] \ {c}) = 0 <=> outstanding[s] \ {c} = {}
<1>1. IsFiniteSet(1..TotalDispatchNum)
  BY FS_Interval, TotalAssumption
<1>2. outstanding[s] \subseteq 1..TotalDispatchNum
  BY DEF TypeOK
<1>3. IsFiniteSet(outstanding[s]) /\ IsFiniteSet(outstanding[s] \ {c})
  BY <1>1, <1>2, FS_Subset
<1> QED BY <1>3, FS_RemoveElement, FS_CardinalityType, FS_EmptySet

LEMMA NextIInv == IInv /\ [Next]_vars => IInv'
<1> SUFFICES ASSUME IInv, [Next]_vars PROVE IInv'
    OBVIOUS
<1> USE TotalAssumption DEF IInv
<1>1. ASSUME NEW s \in Stream, OnHttpResponseHeaders(s) PROVE IInv'
  <2>1. /\ Cardinality(1..TotalDispatchNum) = TotalDispatchNum
        /\ 1..TotalDispatchNum # {}
    <3>1. 1 \in 1..TotalDispatchNum
      OBVIOUS
    <3>2. /\ TotalDispatchNum \in Int /\ 1 \in Int /\ 1 <= TotalDispatchNum
          /\ TotalDispatchNum - 1 + 1 = TotalDispatchNum
      OBVIOUS
    <3>3. Cardinality(1..TotalDispatchNum) = TotalDispatchNum - 1 + 1
      BY <3>2, FS_Interval, SMT
    <3> QED BY <3>1, <3>2, <3>3
  <2>2. outstanding[s] = {} /\ pending[s] = 0 /\ tagged[s] = 0
    <3>1. outstanding[s] = {} /\ pending[s] = Cardinality(outstanding[s])
      BY <1>1 DEF OnHttpResponseHeaders, PendingIsOutstanding
    <3>2. tagged[s] # 1 /\ tagged[s] <= 1 /\ tagged[s] \in Nat
      BY <1>1 DEF OnHttpResponseHeaders, PendingIsOutstanding, TypeOK
    <3> QED BY <3>1, <3>2, FS_EmptySet
  <2>3. Recorded(s) = TotalDispatchNum
    BY <2>2 DEF Recorded
  <2>4. TypeOK'
    BY <1>1, <2>3 DEF OnHttpResponseHeaders, TypeOK
  <2>5. PendingIsOutstanding'
    BY <1>1, <2>1, <2>2, <2>3 DEF OnHttpResponseHeaders, TypeOK, PendingIsOutstanding
  <2> QED BY <2>4, <2>5
<1>2. ASSUME NEW s \in Stream, DispatchPanics(s) PROVE IInv'
  BY <1>2 DEF DispatchPanics, TypeOK, PendingIsOutstanding
<1>3. ASSUME NEW s \in Stream, NEW c \in 1..TotalDispatchNum, DispatchCallback(s, c) PROVE IInv'
  <2>1. /\ c \in outstanding[s]
        /\ outstanding' = [outstanding EXCEPT ![s] = @ \ {c}]
        /\ vm' = vm
    BY <1>3 DEF DispatchCallback
  <2>2. outstanding' \in [Stream -> SUBSET (1..TotalDispatchNum)]
    BY <2>1 DEF TypeOK
  <2>3. CASE fate[s] = "gone"
    BY <1>3, <2>1, <2>2, <2>3 DEF DispatchCallback, TypeOK, PendingIsOutstanding
  <2>4. CASE fate[s] # "gone"
    <3>1. fate[s] = "paused" /\ tagged[s] = 0 /\ pending[s] = Cardinality(outstanding[s])
      BY <2>1, <2>4 DEF TypeOK, PendingIsOutstanding
    <3>2. /\ Left(s) = Cardinality(outstanding[s] \ {c})
          /\ Last(s) <=> outstanding[s] \ {c} = {}
          /\ Left(s) \in 0..TotalDispatchNum
      <4>1. pending[s] \in 0..TotalDispatchNum
        BY DEF TypeOK
      <4> QED BY <2>1, <3>1, <4>1, OneCallLess DEF Left, Last
    <3>3. pending' = [pending EXCEPT ![s] = Left(s)]
      BY <1>3, <2>4 DEF DispatchCallback
    <3>4. CASE Last(s)
      BY <1>3, <2>1, <2>2, <2>4, <3>1, <3>2, <3>3, <3>4
      DEF DispatchCallback, TypeOK, PendingIsOutstanding
    <3>5. CASE ~ Last(s)
      BY <1>3, <2>1, <2>2, <2>4, <3>1, <3>2, <3>3, <3>5
      DEF DispatchCallback, TypeOK, PendingIsOutstanding
    <3> QED BY <3>4, <3>5
  <2> QED BY <2>3, <2>4
<1>4. ASSUME NEW s \in Stream, StreamGone(s) PROVE IInv'
  BY <1>4 DEF StreamGone, TypeOK, PendingIsOutstanding
<1>5. CASE UNCHANGED vars
  BY <1>5 DEF vars, TypeOK, PendingIsOutstanding
<1> QED BY <1>1, <1>2, <1>3, <1>4, <1>5 DEF Next, Answer

(* Type correctness (main.go:52-96): in particular the counter of a context never
   goes below zero or above the number of its calls, whatever their number. *)
THEOREM DispatchesTypeCorrect == Spec => []TypeOK
<1>1. IInv => TypeOK
  BY DEF IInv
<1> QED BY InitIInv, NextIInv, <1>1, PTL DEF Spec

(* main.go:68-96: however many streams and calls there are and however their answers
   are ordered, the counter is the number of calls still out and the response goes
   on, tagged once, with the last of them. *)
THEOREM PendingIsExact == Spec => []PendingIsOutstanding
<1>1. IInv => PendingIsOutstanding
  BY DEF IInv
<1> QED BY InitIInv, NextIInv, <1>1, PTL DEF Spec

-----------------------------------------------------------------------------
(* The refinement of PausedStreams, without its fairness. *)

LEMMA StepPaused == IInv /\ [Next]_vars => [Paused!Next]_<<fate, Lost>>
<1> SUFFICES ASSUME IInv, [Next]_vars PROVE [Paused!Next]_<<fate, Lost>>
    OBVIOUS
<1> USE DEF IInv
<1>1. ASSUME NEW s \in Stream, OnHttpResponseHeaders(s) PROVE Paused!Pause(s)
  BY <1>1 DEF OnHttpResponseHeaders, Paused!Pause, Paused!Become, Lost
<1>2. ASSUME NEW s \in Stream, DispatchPanics(s) PROVE Paused!Lose
  BY <1>2 DEF DispatchPanics, Paused!Lose, Lost
<1>3. ASSUME NEW s \in Stream, NEW c \in 1..TotalDispatchNum, DispatchCallback(s, c)
      PROVE  Paused!Continue \/ UNCHANGED <<fate, Lost>>
  <2>1. vm = "up" /\ vm' = vm /\ c \in outstanding[s]
    BY <1>3 DEF DispatchCallback
  <2>2. CASE fate[s] = "gone" \/ ~ Last(s)
    BY <1>3, <2>1, <2>2 DEF DispatchCallback, Lost
  <2>3. CASE fate[s] # "gone" /\ Last(s)
    <3>1. fate[s] = "paused" /\ fate' = [fate EXCEPT ![s] = "continued"]
      BY <1>3, <2>1, <2>3 DEF DispatchCallback, TypeOK, PendingIsOutstanding
    <3>2. {s} \in SUBSET {t \in Stream \ Lost : fate[t] = "paused"}
      BY <2>1, <3>1 DEF Lost
    <3>3. fate' = [t \in Stream |-> IF t \in {s} THEN "continued" ELSE fate[t]]
      BY <3>1 DEF TypeOK
    <3> QED BY <2>1, <3>2, <3>3 DEF Paused!Continue, Lost
  <2> QED BY <2>2, <2>3
<1>4. ASSUME NEW s \in Stream, StreamGone(s) PROVE Paused!Leave(s)
  BY <1>4 DEF StreamGone, TypeOK, Paused!Leave, Paused!Become, Lost
<1>5. CASE UNCHANGED vars
  BY <1>5 DEF vars, Lost
<1> QED BY <1>1, <1>2, <1>3, <1>4, <1>5 DEF Next, Answer, Paused!Next

(* main.go:79-91: each response is held up once, goes on at most once, and never
   after it has gone away. *)
THEOREM PausedImplemented == Spec => Paused!Init /\ [][Paused!Next]_<<fate, Lost>>
<1>1. Init => Paused!Init
  BY DEF Init, Paused!Init, Lost
<1> QED BY <1>1, InitIInv, NextIInv, StepPaused, PTL DEF Spec
=============================================================================
