--------------------------- MODULE SharedDataProofs ---------------------------
(* The compare-and-swap loop is a counter, for any number of VMs and requests. *)
EXTENDS SharedData, TLAPS

(* A VM that is about to write and whose number is still the current one holds the
   current value: numbers never come back, so there is no ABA. *)
IInv ==
  /\ TypeOK /\ NoIncrementLost
  /\ \A v \in VM : pc[v] = "set" /\ got[v].cas = entry.cas => got[v] = entry

LEMMA InductiveInit == Init => IInv
  BY InitialAssumption, RequestsAssumption DEF Init, IInv, TypeOK, NoIncrementLost, Entry

LEMMA InductiveStep == IInv /\ [Next]_vars => IInv'
<1> SUFFICES ASSUME IInv, [Next]_vars PROVE IInv'
  OBVIOUS
<1> USE InitialAssumption, RequestsAssumption DEF IInv, TypeOK, NoIncrementLost, Entry, Goto, history
<1>1. ASSUME NEW v \in VM, OnVMStart(v) PROVE IInv'
  <2>1. got' = got /\ pc' = [pc EXCEPT ![v] = "idle"] /\ served' = served /\ total' = total
    BY <1>1 DEF OnVMStart
  <2>2. CASE entry' = [value |-> Initial, cas |-> NextCas] /\ since' = 0 /\ logged' = {}
    <3>1. entry' \in Entry /\ entry'.cas = entry.cas + 1 /\ entry'.value = Initial
      BY <2>2 DEF NextCas
    <3>2. (Initial + 1)..(Initial + 0) = {}
      OBVIOUS
    <3>3. NoIncrementLost'
      BY <2>2, <3>1, <3>2
    <3>4. \A w \in VM : got[w].cas < entry'.cas
      BY <3>1
    <3> QED BY <2>1, <2>2, <3>1, <3>3, <3>4
  <2>3. CASE UNCHANGED <<entry, since, logged>>
    BY <2>1, <2>3
  <2> QED BY <1>1, <2>2, <2>3 DEF OnVMStart
<1>2. ASSUME NEW v \in VM, GetSharedData(v) PROVE IInv'
  <2>1. entry' = entry /\ since' = since /\ total' = total /\ logged' = logged
    BY <1>2 DEF GetSharedData
  <2>2. served' \in [VM -> 0..MaxRequests]
    <3>1. CASE UNCHANGED served
      BY <3>1
    <3>2. CASE served[v] < MaxRequests /\ served' = [served EXCEPT ![v] = @ + 1]
      BY <3>2
    <3> QED BY <1>2, <3>1, <3>2 DEF GetSharedData
  <2>3. CASE entry.cas = 0
    <3>1. pc' = [pc EXCEPT ![v] = "idle"] /\ got' = got
      BY <1>2, <2>3 DEF GetSharedData, Found
    <3> QED BY <2>1, <2>2, <3>1
  <2>4. CASE entry.cas # 0
    <3>1. pc' = [pc EXCEPT ![v] = "set"] /\ got' = [got EXCEPT ![v] = entry]
      BY <1>2, <2>4 DEF GetSharedData, Read, Found
    <3> QED BY <2>1, <2>2, <2>4, <3>1
  <2> QED BY <2>3, <2>4
<1>3. ASSUME NEW v \in VM, SetSharedData(v) PROVE IInv'
  BY <1>3 DEF SetSharedData, Accepted, CasOf, NextCas
<1>4. ASSUME NEW v \in VM, CasMismatch(v) PROVE IInv'
  BY <1>4 DEF CasMismatch
<1>5. ASSUME NEW v \in VM, SetFails(v) PROVE IInv'
  BY <1>5 DEF SetFails
<1>6. CASE UNCHANGED vars
  BY <1>6 DEF vars
<1> QED BY <1>1, <1>2, <1>3, <1>4, <1>5, <1>6 DEF Next, Step

(* Type correctness, with the numbers that the VMs hold never ahead of the host's. *)
THEOREM SharedTypeCorrect == Spec => []TypeOK
<1>1. IInv => TypeOK
  BY DEF IInv
<1> QED BY <1>1, InductiveInit, InductiveStep, PTL DEF Spec

(* No increment is lost between two initialisations, and the logged values differ. *)
THEOREM NoLostIncrement == Spec => []NoIncrementLost
<1>1. IInv => NoIncrementLost
  BY DEF IInv
<1> QED BY <1>1, InductiveInit, InductiveStep, PTL DEF Spec

(* Every step is an increment by one, a reset or no step of the counter. *)
THEOREM CounterImplemented == Spec => ImplementsCounter
<1>1. Init => Counter!Init
  BY DEF Init, Counter!Init
<1>2. IInv /\ [Next]_vars => [Counter!Next]_(entry.value)
  <2> SUFFICES ASSUME IInv, [Next]_vars PROVE [Counter!Next]_(entry.value)
    OBVIOUS
  <2> USE DEF Counter!Next, Counter!Increment, Counter!Restart
  <2>1. ASSUME NEW v \in VM, OnVMStart(v) PROVE [Counter!Next]_(entry.value)
    BY <2>1 DEF OnVMStart
  <2>2. ASSUME NEW v \in VM, SetSharedData(v) PROVE [Counter!Next]_(entry.value)
    BY <2>2 DEF SetSharedData, Accepted, CasOf, IInv, TypeOK, Entry
  <2>3. ASSUME NEW v \in VM, GetSharedData(v) \/ CasMismatch(v) \/ SetFails(v)
        PROVE [Counter!Next]_(entry.value)
    BY <2>3 DEF GetSharedData, CasMismatch, SetFails
  <2>4. CASE UNCHANGED vars
    BY <2>4 DEF vars
  <2> QED BY <2>1, <2>2, <2>3, <2>4 DEF Next, Step
<1> QED
  BY <1>1, <1>2, InductiveInit, InductiveStep, PTL DEF Spec, ImplementsCounter, Counter!Spec
=============================================================================
