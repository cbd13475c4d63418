-------------------------- MODULE SharedQueueProofs --------------------------
(* The queues between the sender and the receiver are mailboxes in which nothing
   gets stuck, for any number of streams, headers and frames. *)
EXTENDS SharedQueue, FiniteSetTheorems, TLAPS

(* A sender inside a callback knows where its items go. *)
SenderOK(s) ==
  /\ Len(ids[s]) <= Len(Feeds(s))
  /\ pc[s] = "new" => Len(ids[s]) < Len(Feeds(s))
  /\ pc[s] # "new" => Len(ids[s]) = Len(Feeds(s))
  /\ callback[s] <= MaxCallbacks(s)
  /\ pc[s] \in {"enqueue", "post"} => callback[s] > 0
  /\ pc[s] = "post" => done[s] < size[s] /\ Target(s) \in Queue

(* What has gone in is what has come out and what is still there. *)
Flow == \A q \in Queue : accepted[q] = received[q] \o queue[q]

IInv == TypeOK /\ Flow /\ \A s \in Stream : SenderOK(s)

LEMMA FeedsType ==
  ASSUME NEW s \in Stream
  PROVE  /\ Feeds(s) \in Seq(Queue)
         /\ Config[s] = "http" => Len(Feeds(s)) = 2 /\ MaxCallbacks(s) = 2
         /\ Config[s] = "tcp" => Len(Feeds(s)) = 1 /\ MaxCallbacks(s) = MaxFrames
         /\ Len(Feeds(s)) \in 1..2 /\ MaxCallbacks(s) \in 0..(2 + MaxFrames)
         /\ Config[s] \in {"http", "tcp"}
  BY ConfigAssumption, BoundAssumption, SMTT(30) DEF Feeds, MaxCallbacks, Queue

(* A context that has been created has resolved a queue for each callback. *)
LEMMA TargetType ==
  ASSUME TypeOK, NEW s \in Stream, SenderOK(s), pc[s] \in {"enqueue", "post"}
  PROVE  Target(s) \in Queue \cup {NoQueue}
<1>1. ids[s] \in Seq(Queue \cup {NoQueue}) /\ Len(ids[s]) = Len(Feeds(s))
      /\ callback[s] \in 1..MaxCallbacks(s)
  BY FeedsType, SMTT(30) DEF TypeOK, SenderOK
<1>2. \A i \in 1..Len(ids[s]) : ids[s][i] \in Queue \cup {NoQueue}
  BY <1>1
<1> QED BY <1>1, <1>2, FeedsType DEF Target

LEMMA InductiveInit == Init => IInv
<1> SUFFICES ASSUME Init PROVE IInv
  OBVIOUS
<1>1. TypeOK
  BY BoundAssumption DEF Init, TypeOK
<1>2. Flow
  BY DEF Init, Flow
<1>3. ASSUME NEW s \in Stream PROVE SenderOK(s)
  <2>1. pc[s] = "new" /\ Len(ids[s]) = 0 /\ callback[s] = 0
    BY DEF Init
  <2>2. Len(Feeds(s)) \in 1..2 /\ MaxCallbacks(s) \in 0..(2 + MaxFrames)
    BY FeedsType
  <2>3. Len(ids[s]) < Len(Feeds(s)) /\ Len(ids[s]) <= Len(Feeds(s)) /\ callback[s] <= MaxCallbacks(s)
    <3>1. \A n \in 1..2 : 0 < n /\ 0 <= n
      OBVIOUS
    <3>2. \A n \in 0..(2 + MaxFrames) : 0 <= n
      BY BoundAssumption
    <3> QED BY <2>1, <2>2, <3>1, <3>2, Zenon
  <2> QED BY <2>1, <2>3 DEF SenderOK
<1> QED BY <1>1, <1>2, <1>3 DEF IInv

(* Taking the oldest item. *)
LEMMA TakeOldest ==
  ASSUME NEW S, NEW x \in Seq(S), x # <<>>
  PROVE  /\ Head(x) = x[1] /\ x[1] \in S
         /\ Tail(x) \in Seq(S) /\ Len(Tail(x)) = Len(x) - 1 /\ Len(x) > 0
  OBVIOUS

LEMMA MoveOldest ==
  ASSUME NEW S, NEW r \in Seq(S), NEW x \in Seq(S), x # <<>>
  PROVE  Append(r, x[1]) \o Tail(x) = r \o x
<1>1. Len(Append(r, x[1]) \o Tail(x)) = Len(r \o x)
  OBVIOUS
<1>2. ASSUME NEW i \in 1..Len(r \o x)
      PROVE  (Append(r, x[1]) \o Tail(x))[i] = (r \o x)[i]
  <2>1. CASE i <= Len(r)
    BY <2>1
  <2>2. CASE i = Len(r) + 1
    BY <2>2
  <2>3. CASE i > Len(r) + 1
    BY <2>3
  <2> QED BY <2>1, <2>2, <2>3
<1> QED BY <1>1, <1>2

LEMMA FirstLeft ==
  \A r, x \in Seq(Item) : x # <<>> => Len(r) < Len(r \o x) /\ (r \o x)[Len(r) + 1] = x[1]
<1> SUFFICES ASSUME NEW r \in Seq(Item), NEW x \in Seq(Item), x # <<>>
             PROVE  Len(r) < Len(r \o x) /\ (r \o x)[Len(r) + 1] = x[1]
  OBVIOUS
<1>1. Len(x) \in Nat /\ Len(x) > 0 /\ Len(r) \in Nat /\ Len(r \o x) = Len(r) + Len(x)
  OBVIOUS
<1>2. (Len(r) + 1) - Len(r) = 1 /\ Len(r) + 1 \in 1..Len(r \o x) /\ ~(Len(r) + 1 <= Len(r))
  BY <1>1
<1>3. (r \o x)[Len(r) + 1] = x[(Len(r) + 1) - Len(r)]
  BY <1>1, <1>2
<1> QED BY <1>1, <1>2, <1>3

LEMMA AppendConcat ==
  \A r, x \in Seq(Item) : \A i \in Item : Append(r \o x, i) = r \o Append(x, i)
<1> SUFFICES ASSUME NEW r \in Seq(Item), NEW x \in Seq(Item), NEW i \in Item
             PROVE  Append(r \o x, i) = r \o Append(x, i)
  OBVIOUS
<1>1. Len(Append(r \o x, i)) = Len(r \o Append(x, i))
  OBVIOUS
<1>2. ASSUME NEW k \in 1..Len(Append(r \o x, i))
      PROVE  Append(r \o x, i)[k] = (r \o Append(x, i))[k]
  OBVIOUS
<1> QED BY <1>1, <1>2

-----------------------------------------------------------------------------
(* The invariant is inductive: one lemma for the steps of the receiver, one for
   those of the senders. *)

LEMMA ReceiverStep ==
  ASSUME IInv, Receiver
  PROVE  IInv'
<1> USE DEF IInv, TypeOK, hostVars, senderVars
<1>1. ASSUME NEW q \in Queue, OnPluginStart(q) PROVE IInv'
  BY <1>1 DEF OnPluginStart, Flow, SenderOK, Target
<1>2. CASE OnPluginStartPanics
  BY <1>2 DEF OnPluginStartPanics, Flow, SenderOK, Target
<1>3. ASSUME NEW q \in Queue, OnQueueReady(q) PROVE IInv'
  <2>1. /\ posted' = [posted EXCEPT ![q] = @ - 1] /\ posted[q] > 0
        /\ UNCHANGED <<receiver, registered, senderVars, accepted>>
    BY <1>3 DEF OnQueueReady
  <2>2. posted' \in [Queue -> Nat]
    BY <2>1
  <2>3. \A s \in Stream : SenderOK(s)'
    BY <2>1 DEF SenderOK, Target
  <2>4. CASE queue[q] = <<>>
    <3>1. UNCHANGED <<queue, received>>
      BY <1>3, <2>4 DEF OnQueueReady, Takes
    <3> QED BY <2>1, <2>2, <2>3, <3>1 DEF Flow
  <2>5. CASE queue[q] # <<>>
    <3>1. /\ received' = [received EXCEPT ![q] = Append(@, Head(queue[q]))]
          /\ queue' = [queue EXCEPT ![q] = Tail(@)]
      BY <1>3, <2>5 DEF OnQueueReady, Takes
    <3>2. queue[q] \in Seq(Item) /\ received[q] \in Seq(Item)
      OBVIOUS
    <3>3. /\ Head(queue[q]) = queue[q][1] /\ queue[q][1] \in Item
          /\ Tail(queue[q]) \in Seq(Item)
      BY <2>5, <3>2, TakeOldest
    <3>4. Append(received[q], queue[q][1]) \in Seq(Item)
      BY <3>2, <3>3
    <3>5. queue' \in [Queue -> Seq(Item)] /\ received' \in [Queue -> Seq(Item)]
      BY <3>1, <3>3, <3>4
    <3>6. Append(received[q], queue[q][1]) \o Tail(queue[q]) = received[q] \o queue[q]
      BY <2>5, <3>2, MoveOldest
    <3>7. Flow'
      BY <2>1, <3>1, <3>3, <3>6 DEF Flow
    <3> QED BY <2>1, <2>2, <2>3, <3>5, <3>7
  <2> QED BY <2>4, <2>5
<1> QED BY <1>1, <1>2, <1>3 DEF Receiver

LEMMA SenderStep ==
  ASSUME IInv, NEW s \in Stream, Sender(s)
  PROVE  IInv'
<1> USE BoundAssumption DEF IInv, TypeOK, hostVars, senderVars
<1>0. /\ Len(Feeds(s)) \in 1..2 /\ MaxCallbacks(s) \in 0..(2 + MaxFrames)
      /\ SenderOK(s)
  BY FeedsType
<1>1. CASE NewContext(s)
  <2> DEFINE q == Feeds(s)[Len(ids[s]) + 1]
             id == IF q \in registered THEN q ELSE NoQueue
  <2>1. /\ pc[s] = "new" /\ ids' = [ids EXCEPT ![s] = Append(@, id)]
        /\ pc' = [pc EXCEPT ![s] = IF Len(ids[s]) + 1 = Len(Feeds(s)) THEN "idle" ELSE "new"]
        /\ UNCHANGED <<receiver, hostVars, callback, size, done, sizes, accepted, received>>
    BY <1>1 DEF NewContext
  <2>2. known' \in [Stream -> SUBSET Queue]
    BY <1>1 DEF NewContext
  <2>3. ids[s] \in Seq(Queue \cup {NoQueue}) /\ id \in Queue \cup {NoQueue}
    OBVIOUS
  <2>4. /\ Append(ids[s], id) \in Seq(Queue \cup {NoQueue})
        /\ Len(Append(ids[s], id)) = Len(ids[s]) + 1
    BY <2>3
  <2>5. ids' \in [Stream -> Seq(Queue \cup {NoQueue})] /\ ids'[s] = Append(ids[s], id)
    BY <2>1, <2>4
  <2>6. SenderOK(s)'
    <3>1. Len(ids[s]) \in Nat /\ Len(ids[s]) < Len(Feeds(s)) /\ Len(ids'[s]) = Len(ids[s]) + 1
      BY <1>0, <2>1, <2>3, <2>4, <2>5 DEF SenderOK
    <3>2. CASE Len(ids[s]) + 1 = Len(Feeds(s))
      <4>1. pc'[s] = "idle"
        BY <2>1, <3>2
      <4> QED BY <1>0, <2>1, <3>1, <3>2, <4>1 DEF SenderOK
    <3>3. CASE Len(ids[s]) + 1 # Len(Feeds(s))
      <4>1. pc'[s] = "new"
        BY <2>1, <3>3
      <4> QED BY <1>0, <2>1, <3>1, <3>3, <4>1 DEF SenderOK
    <3> QED BY <3>2, <3>3
  <2>7. ASSUME NEW t \in Stream, t # s PROVE SenderOK(t)'
    BY <2>1, <2>7 DEF SenderOK, Target
  <2> QED BY <2>1, <2>2, <2>5, <2>6, <2>7 DEF Flow
<1>2. CASE Callback(s)
  <2>1. /\ pc[s] = "idle" /\ callback[s] < MaxCallbacks(s)
        /\ callback' = [callback EXCEPT ![s] = @ + 1]
        /\ done' = [done EXCEPT ![s] = 0] /\ pc' = [pc EXCEPT ![s] = "enqueue"]
        /\ UNCHANGED <<receiver, hostVars, ids, known, sizes, accepted, received>>
    BY <1>2 DEF Callback
  <2>2. PICK n \in 0..(1 + MaxItems) : size' = [size EXCEPT ![s] = n]
    <3>1. PICK n \in 0..(IF Config[s] = "http" THEN MaxItems ELSE 1) :
            size' = [size EXCEPT ![s] = n]
      BY <1>2 DEF Callback
    <3>2. n \in 0..(1 + MaxItems)
      OBVIOUS
    <3> QED BY <3>1, <3>2
  <2>3. TypeOK'
    <3>1. callback[s] + 1 \in 0..(2 + MaxFrames)
      BY <1>0, <2>1
    <3>2. callback' \in [Stream -> 0..(2 + MaxFrames)]
      BY <2>1, <3>1
    <3>3. size' \in [Stream -> 0..(1 + MaxItems)] /\ done' \in [Stream -> Nat]
          /\ \A t \in Stream : done'[t] <= size'[t]
      BY <2>1, <2>2
    <3> QED BY <2>1, <3>2, <3>3
  <2>4. SenderOK(s)'
    BY <1>0, <2>1 DEF SenderOK, Target, Feeds, MaxCallbacks
  <2>5. ASSUME NEW t \in Stream, t # s PROVE SenderOK(t)'
    BY <2>1, <2>2, <2>5 DEF SenderOK, Target
  <2> QED BY <2>1, <2>3, <2>4, <2>5 DEF Flow
<1>3. CASE Enqueue(s)
  <2> DEFINE item == [stream |-> s, callback |-> callback[s], place |-> done[s] + 1]
             q == Target(s)
  <2>1. /\ pc[s] = "enqueue" /\ done[s] < size[s] /\ Target(s) # NoQueue
        /\ queue' = [queue EXCEPT ![q] = Append(@, item)]
        /\ accepted' = [accepted EXCEPT ![q] = Append(@, item)]
        /\ pc' = [pc EXCEPT ![s] = "post"]
        /\ UNCHANGED <<receiver, registered, posted, ids, callback, size, done, known, sizes,
                        received>>
    BY <1>3 DEF Enqueue, More
  <2>2. q \in Queue
    BY <1>0, <2>1, TargetType
  <2>3. item \in Item
    BY <1>0, <2>1 DEF Item, SenderOK
  <2>4. /\ queue[q] \in Seq(Item) /\ received[q] \in Seq(Item) /\ accepted[q] \in Seq(Item)
        /\ accepted[q] = received[q] \o queue[q]
    BY <2>2 DEF Flow
  <2> HIDE DEF item, q
  <2>5. Append(queue[q], item) \in Seq(Item) /\ Append(accepted[q], item) \in Seq(Item)
    BY <2>3, <2>4
  <2>6. queue' \in [Queue -> Seq(Item)] /\ accepted' \in [Queue -> Seq(Item)]
    BY <2>1, <2>5
  <2>7. TypeOK'
    BY <2>1, <2>6
  <2>8. Append(accepted[q], item) = received[q] \o Append(queue[q], item)
    <3>1. Append(received[q] \o queue[q], item) = received[q] \o Append(queue[q], item)
      <4>1. queue[q] \in Seq(Item) /\ received[q] \in Seq(Item) /\ item \in Item
        BY <2>3, <2>4
      <4> QED BY <4>1, AppendConcat, Zenon
    <3> QED BY <2>4, <3>1
  <2>9. Flow'
    BY <2>1, <2>8 DEF Flow
  <2>10. SenderOK(s)'
    BY <1>0, <2>1, <2>2 DEF SenderOK, Target, q
  <2>11. ASSUME NEW t \in Stream, t # s PROVE SenderOK(t)'
    BY <2>1, <2>11 DEF SenderOK, Target
  <2> QED BY <2>7, <2>9, <2>10, <2>11
<1>4. CASE Post(s)
  <2>1. /\ pc[s] = "post" /\ pc' = [pc EXCEPT ![s] = "enqueue"]
        /\ posted' = [posted EXCEPT ![Target(s)] = posted[Target(s)] + 1]
        /\ done' = [done EXCEPT ![s] = @ + 1]
        /\ UNCHANGED <<receiver, registered, queue, ids, callback, size, known, sizes,
                        accepted, received>>
    BY <1>4 DEF Post
  <2>2. Target(s) \in Queue /\ done[s] < size[s]
    BY <1>0, <2>1 DEF SenderOK
  <2>3. TypeOK'
    <3>1. posted' \in [Queue -> Nat]
      BY <2>1, <2>2
    <3>2. /\ done' \in [Stream -> Nat] /\ pc' \in [Stream -> {"new", "idle", "enqueue", "post"}]
          /\ \A t \in Stream : done'[t] <= size'[t]
      BY <2>1, <2>2, SMTT(30)
    <3> QED BY <2>1, <3>1, <3>2
  <2>4. SenderOK(s)'
    BY <1>0, <2>1 DEF SenderOK, Target, Feeds, MaxCallbacks
  <2>5. ASSUME NEW t \in Stream, t # s PROVE SenderOK(t)'
    BY <2>1, <2>5 DEF SenderOK, Target
  <2> QED BY <2>1, <2>3, <2>4, <2>5 DEF Flow
<1>5. CASE EnqueueFails(s)
  <2>1. /\ pc[s] = "enqueue" /\ done[s] < size[s] /\ done' = [done EXCEPT ![s] = @ + 1]
        /\ UNCHANGED <<receiver, hostVars, pc, ids, callback, size, known, sizes, accepted,
                        received>>
    BY <1>5 DEF EnqueueFails, More
  <2>2. TypeOK'
    BY <2>1, SMTT(30)
  <2>3. ASSUME NEW t \in Stream PROVE SenderOK(t)'
    BY <2>1 DEF SenderOK, Target
  <2> QED BY <2>1, <2>2, <2>3 DEF Flow
<1>6. CASE CallbackDone(s)
  <2>1. /\ pc[s] = "enqueue" /\ pc' = [pc EXCEPT ![s] = "idle"]
        /\ sizes' = [sizes EXCEPT ![s] = Append(@, size[s])]
        /\ UNCHANGED <<receiver, hostVars, ids, callback, size, done, known, accepted, received>>
    BY <1>6 DEF CallbackDone
  <2>2. Append(sizes[s], size[s]) \in Seq(Nat)
    <3>1. sizes[s] \in Seq(Nat) /\ size[s] \in Nat
      OBVIOUS
    <3> QED BY <3>1
  <2>3. sizes' \in [Stream -> Seq(Nat)]
    BY <2>1, <2>2
  <2>4. TypeOK'
    BY <2>1, <2>3
  <2>5. ASSUME NEW t \in Stream PROVE SenderOK(t)'
    BY <2>1 DEF SenderOK, Target
  <2> QED BY <2>1, <2>4, <2>5 DEF Flow
<1> QED BY <1>1, <1>2, <1>3, <1>4, <1>5, <1>6 DEF Sender

LEMMA InductiveStep == IInv /\ [Next]_vars => IInv'
<1> SUFFICES ASSUME IInv, [Next]_vars PROVE IInv'
  OBVIOUS
<1>1. CASE UNCHANGED vars
  BY <1>1 DEF vars, IInv, TypeOK, Flow, SenderOK, Target, hostVars, senderVars
<1> QED BY <1>1, ReceiverStep, SenderStep DEF Next

(* The types are right, and what is in a queue is what has gone in and not come out. *)
THEOREM QueueTypeCorrect == Spec => []TypeOK
<1>1. IInv => TypeOK
  BY DEF IInv
<1> QED BY <1>1, InductiveInit, InductiveStep, PTL DEF Spec

-----------------------------------------------------------------------------
(* NothingStranded: a step changes the number of items, of notifications posted
   and of senders about to post together. *)

LEMMA PostingFinite ==
  ASSUME NEW q \in Queue
  PROVE  IsFiniteSet(Posting(q)) /\ Cardinality(Posting(q)) \in Nat
  BY StreamAssumption, FS_Subset, FS_CardinalityType DEF Posting

LEMMA StrandedStep == IInv /\ NothingStranded /\ [Next]_vars => NothingStranded'
<1> SUFFICES ASSUME IInv, NothingStranded, [Next]_vars, NEW q \in Queue
             PROVE  (Len(queue[q]) <= posted[q] + Cardinality(Posting(q)))'
  BY DEF NothingStranded
<1> USE DEF hostVars, senderVars
<1>0. /\ Len(queue[q]) <= posted[q] + Cardinality(Posting(q))
      /\ Len(queue[q]) \in Nat /\ posted[q] \in Nat /\ Cardinality(Posting(q)) \in Nat
      /\ queue[q] \in Seq(Item)
  BY PostingFinite DEF NothingStranded, IInv, TypeOK
<1>1. CASE UNCHANGED <<queue, posted>> /\ Posting(q)' = Posting(q)
  BY <1>0, <1>1
<1>2. CASE Receiver
  <2>1. Posting(q)' = Posting(q)
    BY <1>2 DEF Receiver, OnPluginStart, OnPluginStartPanics, OnQueueReady, Posting, Target
  <2>2. CASE UNCHANGED <<queue, posted>>
    BY <1>1, <2>1, <2>2
  <2>3. ASSUME NEW x \in Queue, OnQueueReady(x)
        PROVE  (Len(queue[q]) <= posted[q] + Cardinality(Posting(q)))'
    <3>1. CASE x # q
      <4>1. queue'[q] = queue[q] /\ posted'[q] = posted[q]
        BY <2>3, <3>1 DEF OnQueueReady, IInv, TypeOK
      <4> QED BY <1>0, <2>1, <4>1
    <3>2. CASE x = q
      <4>1. posted[q] > 0 /\ posted'[q] = posted[q] - 1
        BY <2>3, <3>2 DEF OnQueueReady, IInv, TypeOK
      <4>2. CASE queue[q] = <<>>
        <5>1. queue'[q] = queue[q] /\ Len(queue[q]) = 0
          BY <2>3, <3>2, <4>2 DEF OnQueueReady, Takes
        <5> QED BY <1>0, <2>1, <4>1, <5>1
      <4>3. CASE queue[q] # <<>>
        <5>1. queue'[q] = Tail(queue[q])
          BY <2>3, <3>2, <4>3 DEF OnQueueReady, Takes, IInv, TypeOK
        <5>2. Len(queue'[q]) = Len(queue[q]) - 1
          BY <1>0, <4>3, <5>1, TakeOldest
        <5> QED BY <1>0, <2>1, <4>1, <5>2
      <4> QED BY <4>2, <4>3
    <3> QED BY <3>1, <3>2
  <2> QED BY <1>2, <2>2, <2>3 DEF Receiver, OnPluginStart, OnPluginStartPanics
<1>3. ASSUME NEW s \in Stream, Sender(s)
      PROVE  (Len(queue[q]) <= posted[q] + Cardinality(Posting(q)))'
  <2>1. ASSUME NewContext(s) \/ Callback(s) \/ EnqueueFails(s) \/ CallbackDone(s)
        PROVE  UNCHANGED <<queue, posted>> /\ Posting(q)' = Posting(q)
    <3>1. UNCHANGED <<queue, posted>> /\ pc[s] # "post" /\ pc'[s] # "post"
      BY <2>1 DEF NewContext, Callback, EnqueueFails, CallbackDone, IInv, TypeOK
    <3>2. \A t \in Stream : t # s => pc'[t] = pc[t] /\ Target(t)' = Target(t)
      BY <2>1 DEF NewContext, Callback, EnqueueFails, CallbackDone, IInv, TypeOK, Target
    <3> QED BY <3>1, <3>2 DEF Posting
  <2>2. CASE Enqueue(s)
    <3>1. /\ pc[s] = "enqueue" /\ pc' = [pc EXCEPT ![s] = "post"]
          /\ UNCHANGED <<posted, ids, callback>>
      BY <2>2 DEF Enqueue
    <3>2. CASE Target(s) = q
      <4>1. Len(queue'[q]) = Len(queue[q]) + 1
        <5>1. PICK i : queue'[q] = Append(queue[q], i)
          BY <2>2, <3>2 DEF Enqueue, IInv, TypeOK
        <5> QED BY <1>0, <5>1
      <4>2. Posting(q)' = Posting(q) \cup {s} /\ s \notin Posting(q)
        BY <3>1, <3>2 DEF Posting, Target, IInv, TypeOK
      <4>3. Cardinality(Posting(q)') = Cardinality(Posting(q)) + 1
        BY <4>2, PostingFinite, FS_AddElement
      <4> QED BY <1>0, <3>1, <4>1, <4>3
    <3>3. CASE Target(s) # q
      <4>1. queue'[q] = queue[q]
        BY <2>2, <3>3 DEF Enqueue, IInv, TypeOK
      <4>2. Posting(q)' = Posting(q)
        BY <3>1, <3>3 DEF Posting, Target, IInv, TypeOK
      <4> QED BY <1>0, <3>1, <4>1, <4>2
    <3> QED BY <3>2, <3>3
  <2>3. CASE Post(s)
    <3>1. /\ pc[s] = "post" /\ pc' = [pc EXCEPT ![s] = "enqueue"]
          /\ posted' = [posted EXCEPT ![Target(s)] = posted[Target(s)] + 1]
          /\ UNCHANGED <<queue, ids, callback>>
      BY <2>3 DEF Post
    <3>2. CASE Target(s) = q
      <4>1. posted'[q] = posted[q] + 1
        BY <3>1, <3>2 DEF IInv, TypeOK
      <4>2. Posting(q)' = Posting(q) \ {s} /\ s \in Posting(q)
        BY <3>1, <3>2 DEF Posting, Target, IInv, TypeOK
      <4>3. Cardinality(Posting(q)') = Cardinality(Posting(q)) - 1
        BY <4>2, PostingFinite, FS_RemoveElement
      <4> QED BY <1>0, <3>1, <4>1, <4>3
    <3>3. CASE Target(s) # q
      <4>1. posted'[q] = posted[q]
        BY <3>1, <3>3
      <4>2. Posting(q)' = Posting(q)
        BY <3>1, <3>3 DEF Posting, Target, IInv, TypeOK
      <4> QED BY <1>0, <3>1, <4>1, <4>2
    <3> QED BY <3>2, <3>3
  <2> QED BY <1>1, <1>3, <2>1, <2>2, <2>3 DEF Sender
<1>4. CASE UNCHANGED vars
  <2>1. UNCHANGED <<queue, posted>> /\ Posting(q)' = Posting(q)
    BY <1>4 DEF vars, Posting, Target
  <2> QED BY <1>1, <2>1
<1> QED BY <1>2, <1>3, <1>4 DEF Next

(* For every item in a queue a notification is posted or about to be posted. *)
THEOREM NothingIsStranded == Spec => []NothingStranded
<1>1. Init => NothingStranded
  <2> SUFFICES ASSUME Init, NEW q \in Queue
               PROVE  Len(queue[q]) <= posted[q] + Cardinality(Posting(q))
    BY DEF NothingStranded
  <2>1. Len(queue[q]) = 0 /\ posted[q] = 0
    BY DEF Init
  <2> QED BY <2>1, PostingFinite
<1> QED BY <1>1, InductiveInit, InductiveStep, StrandedStep, PTL DEF Spec

-----------------------------------------------------------------------------
(* What the receiver logs is what was put in, in that order: every step is one of
   Mailbox or none.  (That all of it comes out is liveness, which TLC checks.) *)
THEOREM MailboxImplemented == Spec => Boxes!Init /\ [][Boxes!Next]_(Boxes!vars)
<1>1. Init => Boxes!Init
  BY DEF Init, Boxes!Init
<1>2. IInv /\ [Next]_vars => [Boxes!Next]_(Boxes!vars)
  <2> SUFFICES ASSUME IInv, [Next]_vars PROVE [Boxes!Next]_(Boxes!vars)
    OBVIOUS
  <2> USE DEF Boxes!Next, Boxes!vars
  <2>1. CASE UNCHANGED <<accepted, received, receiver>>
    BY <2>1
  <2>2. CASE OnPluginStartPanics
    BY <2>2 DEF OnPluginStartPanics, Boxes!Stop
  <2>3. ASSUME NEW q \in Queue, OnQueueReady(q) PROVE [Boxes!Next]_(Boxes!vars)
    <3>1. CASE queue[q] = <<>>
      BY <2>1, <2>3, <3>1 DEF OnQueueReady, Takes
    <3>2. CASE queue[q] # <<>>
      <4>1. /\ receiver = "up" /\ receiver' = receiver /\ accepted' = accepted
            /\ received' = [received EXCEPT ![q] = Append(@, queue[q][1])]
        <5>1. Head(queue[q]) = queue[q][1]
          BY <3>2, TakeOldest DEF IInv, TypeOK
        <5> QED BY <2>3, <3>2, <5>1 DEF OnQueueReady, Takes
      <4>2. /\ queue[q] \in Seq(Item) /\ received[q] \in Seq(Item)
            /\ accepted[q] = received[q] \o queue[q]
        BY DEF IInv, TypeOK, Flow
      <4>3. Len(received[q]) < Len(accepted[q])
            /\ accepted[q][Len(received[q]) + 1] = queue[q][1]
        BY <3>2, <4>2, FirstLeft, Zenon
      <4>4. Boxes!Take(q)
        BY <4>1, <4>3 DEF Boxes!Take
      <4> QED BY <4>4
    <3> QED BY <3>1, <3>2
  <2>4. ASSUME NEW s \in Stream, Enqueue(s) PROVE [Boxes!Next]_(Boxes!vars)
    <3>1. Target(s) \in Queue
      BY <2>4, TargetType DEF Enqueue, IInv
    <3>2. [stream |-> s, callback |-> callback[s], place |-> done[s] + 1] \in Item
      <4>1. SenderOK(s) /\ callback[s] \in 0..(2 + MaxFrames) /\ size[s] \in 0..(1 + MaxItems)
            /\ done[s] \in Nat
        BY DEF IInv, TypeOK
      <4> QED BY <2>4, <4>1, BoundAssumption DEF Enqueue, More, Item, SenderOK
    <3>3. Boxes!Put(Target(s))
      BY <2>4, <3>2 DEF Enqueue, Boxes!Put
    <3> QED BY <3>1, <3>3
  <2>5. ASSUME NEW s \in Stream, Sender(s), ~Enqueue(s)
        PROVE  UNCHANGED <<accepted, received, receiver>>
    BY <2>5 DEF Sender, NewContext, Callback, Post, EnqueueFails, CallbackDone
  <2>6. ASSUME NEW q \in Queue, OnPluginStart(q)
        PROVE  UNCHANGED <<accepted, received, receiver>>
    BY <2>6 DEF OnPluginStart
  <2>7. CASE UNCHANGED vars
    BY <2>1, <2>7 DEF vars
  <2> QED BY <2>1, <2>2, <2>3, <2>4, <2>5, <2>6, <2>7 DEF Next, Receiver
<1> QED BY <1>1, <1>2, InductiveInit, InductiveStep, PTL DEF Spec

-----------------------------------------------------------------------------
(* EverythingEnqueued: what of a callback has gone into which queue, at any moment. *)

Busy(s) == IF pc[s] \in {"enqueue", "post"} THEN 1 ELSE 0

(* How many items of the stream's i-th callback are in. *)
Progress(s, i) == IF i <= Len(sizes[s]) THEN sizes[s][i]
                  ELSE IF i = callback[s] THEN done[s] + (IF pc[s] = "post" THEN 1 ELSE 0)
                  ELSE 0

(* sender/main.go:71-187: a context has resolved the queues that were known at its
   creation, and has put its items in their order into the right ones of those it found. *)
Resolved(s) ==
  \A i \in 1..Len(ids[s]) : /\ ids[s][i] \in {Feeds(s)[i], NoQueue}
                            /\ Feeds(s)[i] \in known[s] => ids[s][i] = Feeds(s)[i]
Filled(s) ==
  \A i \in 1..(2 + MaxFrames), q \in Queue :
    In(s, i, q) = IF q = Mine(s, i) /\ Found(s, q) THEN 1..Progress(s, i) ELSE {}

Kept(s) ==
  /\ known[s] \subseteq registered
  /\ Len(sizes[s]) + Busy(s) = callback[s]
  /\ pc[s] = "new" =>
       callback[s] = 0 /\ \A i \in 1..(2 + MaxFrames), q \in Queue : In(s, i, q) = {}
  /\ Resolved(s) /\ Filled(s)

EnqueuedInv == \A s \in Stream : Kept(s)

(* The places that one more item adds. *)
LEMMA InAppend ==
  ASSUME NEW q \in Queue, accepted[q] \in Seq(Item), NEW item \in Item,
         accepted'[q] = Append(accepted[q], item), NEW s, NEW i
  PROVE  In(s, i, q)' = In(s, i, q) \cup IF item.stream = s /\ item.callback = i THEN {item.place} ELSE {}
<1>1. /\ Len(accepted'[q]) = Len(accepted[q]) + 1 /\ Len(accepted[q]) \in Nat
      /\ accepted'[q][Len(accepted[q]) + 1] = item
      /\ \A k \in 1..Len(accepted[q]) : accepted'[q][k] = accepted[q][k]
  OBVIOUS
<1>2. ASSUME NEW p
      PROVE  p \in In(s, i, q)' <=>
               p \in In(s, i, q) \/ (item.stream = s /\ item.callback = i /\ p = item.place)
  <2>1. p \in In(s, i, q)' <=> \E k \in 1..(Len(accepted[q]) + 1) :
          accepted'[q][k].stream = s /\ accepted'[q][k].callback = i /\ p = accepted'[q][k].place
    BY <1>1 DEF In
  <2>2. p \in In(s, i, q) <=> \E k \in 1..Len(accepted[q]) :
          accepted[q][k].stream = s /\ accepted[q][k].callback = i /\ p = accepted[q][k].place
    BY DEF In
  <2>3. 1..(Len(accepted[q]) + 1) = 1..Len(accepted[q]) \cup {Len(accepted[q]) + 1}
    BY <1>1
  <2> QED BY <1>1, <2>1, <2>2, <2>3
<1> QED BY <1>2

(* A stream is not concerned by what leaves its sender and its items alone. *)
LEMMA EnqueuedFrame ==
  ASSUME NEW s \in Stream, Resolved(s), Filled(s), known'[s] = known[s],
         pc'[s] = pc[s], ids'[s] = ids[s], callback'[s] = callback[s], done'[s] = done[s],
         sizes'[s] = sizes[s], \A i \in 1..(2 + MaxFrames), q \in Queue : In(s, i, q)' = In(s, i, q)
  PROVE  Resolved(s)' /\ Filled(s)'
<1>1. \A i : Progress(s, i)' = Progress(s, i)
  BY DEF Progress
<1>2. \A q : Found(s, q)' = Found(s, q)
  BY DEF Found
<1>3. Resolved(s)'
  BY DEF Resolved, Feeds
<1>4. Filled(s)'
  BY <1>1, <1>2 DEF Filled, Mine
<1> QED BY <1>3, <1>4

(* A callback puts its items where they belong, or nowhere: the queue of its kind is the
   one it has found, and if it has found none, no other is that queue. *)
LEMMA TargetIsMine ==
  ASSUME NEW s \in Stream, TypeOK, SenderOK(s), Resolved(s), pc[s] \in {"enqueue", "post"}
  PROVE  /\ Target(s) # NoQueue => Target(s) = Mine(s, callback[s]) /\ Found(s, Target(s))
         /\ Target(s) = NoQueue => ~Found(s, Mine(s, callback[s]))
<1>1. callback[s] \in 1..MaxCallbacks(s) /\ Len(ids[s]) = Len(Feeds(s))
  <2>1. callback[s] \in Nat /\ MaxCallbacks(s) \in Nat
    BY BoundAssumption, FeedsType DEF TypeOK
  <2> QED BY <2>1 DEF SenderOK
<1>2. \A i \in 1..Len(Feeds(s)) : ids[s][i] \in {Feeds(s)[i], NoQueue}
  BY <1>1 DEF Resolved
<1>3. CASE Config[s] = "http"
  <2>0. MaxCallbacks(s) = 2 /\ Len(Feeds(s)) = 2
    BY <1>3, FeedsType
  <2>1. callback[s] \in {1, 2}
    BY <1>1, <2>0
  <2>2. /\ 1 \in 1..Len(ids[s]) /\ 2 \in 1..Len(ids[s])
        /\ \A k \in 1..Len(ids[s]) : k \in {1, 2}
    BY <1>1, <2>0
  <2>3. /\ ids[s][1] \in {"http_request_headers", NoQueue}
        /\ ids[s][2] \in {"http_response_headers", NoQueue}
    BY <1>1, <1>2, <1>3, <2>2 DEF Feeds
  <2>4. Target(s) = ids[s][callback[s]]
    BY <1>3 DEF Target
  <2>5. Mine(s, 1) = "http_request_headers" /\ Mine(s, 2) = "http_response_headers"
    BY <1>3 DEF Mine
  <2> QED BY <2>1, <2>2, <2>3, <2>4, <2>5 DEF Found, NoQueue
<1>4. CASE Config[s] = "tcp"
  <2>1. Len(ids[s]) = 1 /\ Target(s) = ids[s][1] /\ Mine(s, callback[s]) = "tcp_data_hashes"
    BY <1>1, <1>4, FeedsType DEF Target, Mine
  <2>2. ids[s][1] \in {"tcp_data_hashes", NoQueue}
    BY <1>1, <1>2, <1>4, <2>1 DEF Feeds
  <2>3. 1 \in 1..Len(ids[s]) /\ \A k \in 1..Len(ids[s]) : k = 1
    BY <2>1
  <2> QED BY <2>1, <2>2, <2>3 DEF Found, NoQueue
<1> QED BY <1>3, <1>4, FeedsType

(* A step of another stream's sender adds nothing of this one. *)
LEMMA OthersKeep ==
  ASSUME IInv, NEW s \in Stream, Kept(s),
         pc'[s] = pc[s], ids'[s] = ids[s], callback'[s] = callback[s], done'[s] = done[s],
         sizes'[s] = sizes[s], known'[s] = known[s], registered \subseteq registered',
         \A i \in 1..(2 + MaxFrames), q \in Queue : In(s, i, q)' = In(s, i, q)
  PROVE  Kept(s)'
  BY EnqueuedFrame DEF Kept, Busy

LEMMA OtherSenderKeeps ==
  ASSUME IInv, NEW s \in Stream, Kept(s), NEW t \in Stream, t # s, Sender(t)
  PROVE  Kept(s)'
<1> USE DEF hostVars, senderVars
<1>1. /\ pc'[s] = pc[s] /\ ids'[s] = ids[s] /\ callback'[s] = callback[s]
      /\ done'[s] = done[s] /\ sizes'[s] = sizes[s] /\ known'[s] = known[s]
      /\ registered' = registered
  BY DEF IInv, TypeOK, Sender, NewContext, Callback, Enqueue, Post, EnqueueFails, CallbackDone
<1>2. CASE accepted' = accepted
  BY <1>1, <1>2, OthersKeep DEF In
<1>3. CASE Enqueue(t)
  <2> DEFINE item == [stream |-> t, callback |-> callback[t], place |-> done[t] + 1]
  <2>1. Target(t) \in Queue /\ item \in Item
    <3>1. SenderOK(t) /\ callback[t] \in 0..(2 + MaxFrames) /\ size[t] \in 0..(1 + MaxItems)
          /\ done[t] \in Nat
      BY DEF IInv, TypeOK
    <3>2. Target(t) \in Queue
      BY <1>3, <3>1, TargetType DEF Enqueue, IInv
    <3>3. callback[t] > 0 /\ done[t] < size[t]
      BY <1>3, <3>1 DEF Enqueue, More, SenderOK
    <3>4. callback[t] \in 1..(2 + MaxFrames) /\ done[t] + 1 \in 1..(1 + MaxItems)
      BY <3>1, <3>3, BoundAssumption
    <3> QED BY <3>2, <3>4 DEF Item
  <2>2. accepted' = [accepted EXCEPT ![Target(t)] = Append(@, item)]
    BY <1>3 DEF Enqueue
  <2>3. ASSUME NEW i \in 1..(2 + MaxFrames), NEW q \in Queue PROVE In(s, i, q)' = In(s, i, q)
    <3>1. CASE q = Target(t)
      <4>1. /\ accepted[q] \in Seq(Item) /\ accepted'[q] = Append(accepted[q], item)
            /\ item.stream # s
        BY <2>2, <3>1 DEF IInv, TypeOK
      <4> HIDE DEF item
      <4>2. In(s, i, q)' = In(s, i, q) \cup
              IF item.stream = s /\ item.callback = i THEN {item.place} ELSE {}
        BY <2>1, <4>1, InAppend
      <4> QED BY <4>1, <4>2
    <3>2. CASE q # Target(t)
      BY <2>2, <3>2 DEF In, IInv, TypeOK
    <3> QED BY <3>1, <3>2
  <2> QED BY <1>1, <2>3, OthersKeep
<1> QED BY <1>2, <1>3 DEF Sender, NewContext, Callback, Post, EnqueueFails, CallbackDone

LEMMA ContextKeeps ==
  ASSUME IInv, NEW s \in Stream, Kept(s), NewContext(s)
  PROVE  Kept(s)'
<1> USE DEF hostVars, senderVars
<1> DEFINE n == Len(ids[s]) + 1
           q == Feeds(s)[n]
           id == IF q \in registered THEN q ELSE NoQueue
<1>0. TypeOK /\ SenderOK(s) /\ ids[s] \in Seq(Queue \cup {NoQueue}) /\ registered \subseteq Queue
  BY DEF IInv, TypeOK
<1>1. /\ pc[s] = "new" /\ ids'[s] = Append(ids[s], id) /\ pc'[s] \in {"new", "idle"}
      /\ UNCHANGED <<registered, callback, done, sizes, accepted>>
      /\ known'[s] = IF ids[s] = <<>> THEN registered ELSE known[s]
  BY <1>0 DEF NewContext, TypeOK
<1>2. q \in Queue
  <2>1. Feeds(s) \in Seq(Queue) /\ n \in 1..Len(Feeds(s))
    BY <1>0, <1>1, FeedsType DEF SenderOK
  <2> QED BY <2>1
<1>3. /\ callback[s] = 0 /\ Len(sizes[s]) + 0 = callback[s] /\ known[s] \subseteq registered
      /\ \A i \in 1..(2 + MaxFrames), x \in Queue : In(s, i, x) = {}
  BY <1>1 DEF Kept, Busy
<1>4. Busy(s)' = 0
  BY <1>1 DEF Busy
<1>5. \A i \in 1..(2 + MaxFrames), x \in Queue : In(s, i, x)' = {}
  <2>1. \A i, x : In(s, i, x)' = In(s, i, x)
    BY <1>1 DEF In
  <2> QED BY <1>3, <2>1
<1>6. Resolved(s)'
  <2>2. known'[s] = known[s] \/ ids[s] = <<>>
    BY <1>1
  <2>3. /\ Len(ids'[s]) = n /\ ids'[s][n] = id /\ Len(ids[s]) \in Nat
        /\ \A i \in 1..Len(ids[s]) : ids'[s][i] = ids[s][i]
    BY <1>0, <1>1, <1>2
  <2>4. ASSUME NEW i \in 1..n
        PROVE  /\ ids'[s][i] \in {Feeds(s)[i], NoQueue}
               /\ Feeds(s)[i] \in known'[s] => ids'[s][i] = Feeds(s)[i]
    <3>1. CASE i = n
      <4>1. q \in known'[s] => q \in registered
        BY <1>1, <1>3
      <4> QED BY <2>3, <3>1, <4>1
    <3>2. CASE i # n
      <4>1. i \in 1..Len(ids[s]) /\ ids[s] # <<>>
        BY <2>3, <3>2
      <4>2. /\ ids[s][i] \in {Feeds(s)[i], NoQueue}
            /\ Feeds(s)[i] \in known[s] => ids[s][i] = Feeds(s)[i]
        BY <4>1 DEF Kept, Resolved
      <4> QED BY <2>2, <2>3, <4>1, <4>2
    <3> QED BY <3>1, <3>2
  <2> QED BY <2>3, <2>4 DEF Resolved, Feeds
<1>8. Filled(s)'
  <2>5. \A i \in 1..(2 + MaxFrames) : Progress(s, i)' = 0
    <3>1. sizes[s] \in Seq(Nat)
      BY DEF IInv, TypeOK
    <3> QED BY <1>1, <1>3, <3>1 DEF Progress
  <2>6. \A i \in 1..(2 + MaxFrames) : 1..(Progress(s, i)') = {}
    BY <2>5
  <2> QED BY <1>5, <2>6 DEF Filled
<1>7. known'[s] \subseteq registered'
  BY <1>1, <1>3
<1> QED BY <1>1, <1>3, <1>4, <1>5, <1>6, <1>7, <1>8 DEF Kept

LEMMA EnqueueKeeps ==
  ASSUME IInv, NEW s \in Stream, Kept(s), Enqueue(s)
  PROVE  Kept(s)'
<1> USE DEF hostVars, senderVars
<1> DEFINE item == [stream |-> s, callback |-> callback[s], place |-> done[s] + 1]
           c == callback[s]
<1>0. /\ TypeOK /\ SenderOK(s) /\ done[s] \in Nat /\ c \in Nat /\ c > 0
      /\ sizes[s] \in Seq(Nat) /\ c \in 1..(2 + MaxFrames)
  BY BoundAssumption, SMTT(30) DEF IInv, TypeOK, Enqueue, SenderOK
<1>1. /\ pc[s] = "enqueue" /\ pc'[s] = "post" /\ Target(s) # NoQueue
      /\ accepted' = [accepted EXCEPT ![Target(s)] = Append(@, item)]
      /\ UNCHANGED <<registered, ids, callback, size, done, known, sizes>>
  BY <1>0 DEF Enqueue, TypeOK
<1>2. Target(s) \in Queue /\ item \in Item
  <2>1. Target(s) \in Queue
    BY <1>0, <1>1, TargetType
  <2>2. size[s] \in 0..(1 + MaxItems) /\ done[s] < size[s]
    BY DEF IInv, TypeOK, Enqueue, More
  <2> QED BY <1>0, <2>1, <2>2, BoundAssumption DEF Item
<1>3. Busy(s) = 1 /\ Busy(s)' = 1 /\ Len(sizes[s]) + 1 = c
  BY <1>1 DEF Busy, Kept
<1>4. Filled(s)'
  <2>0. Filled(s) /\ Target(s) = Mine(s, c) /\ Found(s, Target(s))
    BY <1>0, <1>1, TargetIsMine DEF Kept
  <2>1. \A i : i = c => Progress(s, i) = done[s] /\ Progress(s, i)' = done[s] + 1
    BY <1>0, <1>1, <1>3 DEF Progress
  <2>2. \A i \in 1..(2 + MaxFrames) : i # c => Progress(s, i)' = Progress(s, i)
    BY <1>0, <1>1, <1>3 DEF Progress
  <2>3. ASSUME NEW i \in 1..(2 + MaxFrames), NEW q \in Queue
        PROVE  In(s, i, q)' = IF q = Mine(s, i) /\ Found(s, q) THEN 1..(Progress(s, i)') ELSE {}
    <3>0. In(s, i, q) = IF q = Mine(s, i) /\ Found(s, q) THEN 1..Progress(s, i) ELSE {}
      BY <2>0 DEF Filled
    <3>1. CASE q = Target(s)
      <4>1. /\ accepted[q] \in Seq(Item) /\ accepted'[q] = Append(accepted[q], item)
            /\ item.stream = s /\ item.callback = c /\ item.place = done[s] + 1
        BY <1>1, <3>1 DEF IInv, TypeOK
      <4> HIDE DEF item
      <4>2. In(s, i, q)' = In(s, i, q) \cup
              IF item.stream = s /\ item.callback = i THEN {item.place} ELSE {}
        BY <1>2, <4>1, InAppend
      <4>3. CASE i = c
        <5>0. q = Mine(s, i) /\ Found(s, q)
          BY <2>0, <3>1, <4>3
        <5>1. In(s, i, q)' = 1..done[s] \cup {done[s] + 1}
          <6>1. In(s, i, q) = 1..done[s]
            BY <2>1, <3>0, <4>3, <5>0
          <6> QED BY <4>1, <4>2, <4>3, <6>1
        <5>2. 1..done[s] \cup {done[s] + 1} = 1..(done[s] + 1)
          BY <1>0
        <5>3. Progress(s, i)' = done[s] + 1
          BY <2>1, <4>3
        <5> QED BY <5>0, <5>1, <5>2, <5>3
      <4>4. CASE i # c
        BY <2>2, <3>0, <4>1, <4>2, <4>4
      <4> QED BY <4>3, <4>4
    <3>2. CASE q # Target(s)
      <4>1. In(s, i, q)' = In(s, i, q)
        BY <1>1, <3>2 DEF In, IInv, TypeOK
      <4>2. CASE i = c
        BY <2>0, <3>0, <3>2, <4>1, <4>2
      <4>3. CASE i # c
        BY <2>2, <3>0, <4>1, <4>3
      <4> QED BY <4>2, <4>3
    <3> QED BY <3>1, <3>2
  <2> QED BY <1>1, <2>3 DEF Filled, Mine, Found
<1>5. Resolved(s)'
  BY <1>1 DEF Kept, Resolved, Feeds
<1> QED BY <1>1, <1>3, <1>4, <1>5 DEF Kept

(* The other steps of the sender move no item. *)
LEMMA CountersKeep ==
  ASSUME IInv, NEW s \in Stream, Kept(s), Callback(s) \/ Post(s) \/ EnqueueFails(s) \/ CallbackDone(s)
  PROVE  Kept(s)'
<1> USE DEF hostVars, senderVars
<1>0. /\ TypeOK /\ SenderOK(s) /\ done[s] \in Nat /\ callback[s] \in Nat /\ size[s] \in Nat
      /\ sizes[s] \in Seq(Nat) /\ done[s] <= size[s] /\ Len(sizes[s]) \in Nat
  BY BoundAssumption, SMTT(30) DEF IInv, TypeOK
<1>1. /\ pc[s] # "new" /\ pc'[s] # "new" /\ UNCHANGED <<registered, ids, known, accepted>>
      /\ Len(sizes[s]) + Busy(s) = callback[s] /\ known[s] \subseteq registered
  BY <1>0 DEF Callback, Post, EnqueueFails, CallbackDone, TypeOK, Kept
<1>2. ASSUME \A i \in 1..(2 + MaxFrames) :
               Progress(s, i)' = Progress(s, i) \/ ~Found(s, Mine(s, i))
      PROVE  Resolved(s)' /\ Filled(s)'
  <2>1. \A i, q : In(s, i, q)' = In(s, i, q) /\ Found(s, q)' = Found(s, q) /\ Mine(s, i)' = Mine(s, i)
    BY <1>1 DEF In, Found, Mine
  <2>2. Resolved(s)'
    BY <1>1 DEF Kept, Resolved, Feeds
  <2>3. ASSUME NEW i \in 1..(2 + MaxFrames), NEW q \in Queue
        PROVE  In(s, i, q)' = IF q = Mine(s, i) /\ Found(s, q) THEN 1..(Progress(s, i)') ELSE {}
    <3>1. In(s, i, q) = IF q = Mine(s, i) /\ Found(s, q) THEN 1..Progress(s, i) ELSE {}
      BY DEF Kept, Filled
    <3> QED BY <1>2, <2>1, <3>1
  <2> QED BY <2>1, <2>2, <2>3 DEF Filled
<1>3. CASE Callback(s)
  <2>1. /\ pc[s] = "idle" /\ pc'[s] = "enqueue" /\ callback'[s] = callback[s] + 1
        /\ done'[s] = 0 /\ sizes' = sizes
    BY <1>0, <1>3 DEF Callback, TypeOK
  <2>2. Busy(s) = 0 /\ Busy(s)' = 1
    BY <2>1 DEF Busy
  <2>3. \A i \in 1..(2 + MaxFrames) : Progress(s, i)' = Progress(s, i)
    BY <1>0, <1>1, <2>1, <2>2 DEF Progress
  <2> QED BY <1>0, <1>1, <1>2, <2>1, <2>2, <2>3 DEF Kept
<1>4. CASE Post(s)
  <2>1. /\ pc[s] = "post" /\ pc'[s] = "enqueue" /\ callback' = callback
        /\ done'[s] = done[s] + 1 /\ sizes' = sizes
    BY <1>0, <1>4 DEF Post, TypeOK
  <2>2. Busy(s) = 1 /\ Busy(s)' = 1
    BY <2>1 DEF Busy
  <2>3. \A i \in 1..(2 + MaxFrames) : Progress(s, i)' = Progress(s, i)
    BY <1>0, <1>1, <2>1, <2>2 DEF Progress
  <2> QED BY <1>0, <1>1, <1>2, <2>1, <2>2, <2>3 DEF Kept
<1>5. CASE EnqueueFails(s)
  <2>1. pc[s] = "enqueue" /\ UNCHANGED <<pc, callback, sizes>> /\ Target(s) = NoQueue
    BY <1>5 DEF EnqueueFails
  <2>2. ~Found(s, Mine(s, callback[s]))
    BY <1>0, <2>1, TargetIsMine DEF Kept
  <2>3. \A i \in 1..(2 + MaxFrames) : i # callback[s] => Progress(s, i)' = Progress(s, i)
    BY <1>0, <1>1, <2>1 DEF Progress
  <2>4. \A i \in 1..(2 + MaxFrames) : Progress(s, i)' = Progress(s, i) \/ ~Found(s, Mine(s, i))
    BY <2>2, <2>3
  <2> QED BY <1>1, <1>2, <2>1, <2>4 DEF Kept, Busy
<1>6. CASE CallbackDone(s)
  <2>1. /\ pc[s] = "enqueue" /\ pc'[s] = "idle" /\ UNCHANGED <<callback, done>>
        /\ sizes'[s] = Append(sizes[s], size[s]) /\ done[s] = size[s]
    BY <1>0, <1>6 DEF CallbackDone, More, TypeOK
  <2>2. /\ Len(sizes'[s]) = Len(sizes[s]) + 1 /\ sizes'[s][Len(sizes[s]) + 1] = size[s]
        /\ \A i \in 1..Len(sizes[s]) : sizes'[s][i] = sizes[s][i]
    BY <1>0, <2>1
  <2>3. Busy(s) = 1 /\ Busy(s)' = 0
    BY <2>1 DEF Busy
  <2>4. \A i \in 1..(2 + MaxFrames) : Progress(s, i)' = Progress(s, i)
    BY <1>0, <1>1, <2>1, <2>2, <2>3 DEF Progress
  <2> QED BY <1>0, <1>1, <1>2, <2>1, <2>2, <2>3, <2>4 DEF Kept
<1> QED BY <1>3, <1>4, <1>5, <1>6

LEMMA EnqueuedStep == IInv /\ EnqueuedInv /\ [Next]_vars => EnqueuedInv'
<1> SUFFICES ASSUME IInv, EnqueuedInv, [Next]_vars, NEW s \in Stream PROVE Kept(s)'
  BY DEF EnqueuedInv
<1>0. Kept(s)
  BY DEF EnqueuedInv
<1>1. CASE UNCHANGED vars \/ Receiver
  <2>1. UNCHANGED <<senderVars, accepted>> /\ registered \subseteq registered'
    BY <1>1 DEF vars, Receiver, OnPluginStart, OnPluginStartPanics, OnQueueReady, hostVars
  <2> QED BY <1>0, <2>1, OthersKeep DEF In, senderVars
<1>2. ASSUME NEW t \in Stream, Sender(t) PROVE Kept(s)'
  <2>1. CASE t # s
    BY <1>0, <1>2, <2>1, OtherSenderKeeps
  <2>2. CASE t = s
    BY <1>0, <1>2, <2>2, ContextKeeps, EnqueueKeeps, CountersKeep DEF Sender
  <2> QED BY <2>1, <2>2
<1> QED BY <1>1, <1>2 DEF Next

(* sender/main.go:71-135, 137-187: whether a stream feeds a queue is settled at its
   creation, when it finds all that are registered: of a callback that is over, every
   header, or data frame, is in the queue of its kind if that was found, and none is
   anywhere if it was not. *)
THEOREM EverythingIsEnqueued == Spec => []EverythingEnqueued
<1>1. Init => EnqueuedInv
  <2> SUFFICES ASSUME Init, NEW s \in Stream PROVE Kept(s)
    BY DEF EnqueuedInv
  <2>1. /\ pc[s] = "new" /\ known[s] = {} /\ sizes[s] = <<>> /\ callback[s] = 0
        /\ \A q \in Queue : accepted[q] = <<>>
    BY DEF Init
  <2>2. \A i : \A q \in Queue : In(s, i, q) = {}
    <3>1. \A q \in Queue : Len(accepted[q]) = 0
      BY <2>1
    <3> QED BY <3>1 DEF In
  <2>4. Len(sizes[s]) = 0
    BY <2>1
  <2>3. Resolved(s) /\ Filled(s)
    <3>1. ids[s] = <<>> /\ Len(ids[s]) = 0
      BY DEF Init
    <3> QED BY <2>2, <3>1 DEF Resolved, Filled, Found
  <2>5. Len(sizes[s]) + Busy(s) = callback[s]
    BY <2>1, <2>4 DEF Busy
  <2>6. known[s] \subseteq registered
    BY <2>1
  <2> QED BY <2>1, <2>2, <2>3, <2>5, <2>6 DEF Kept
<1>2. IInv /\ EnqueuedInv => EverythingEnqueued
  <2> SUFFICES ASSUME IInv, EnqueuedInv, NEW s \in Stream, NEW i \in 1..Len(sizes[s])
               PROVE  /\ Mine(s, i) \in known[s] => Found(s, Mine(s, i))
                      /\ \A q \in Queue :
                           In(s, i, q) = IF q = Mine(s, i) /\ Found(s, q) THEN 1..sizes[s][i] ELSE {}
    BY DEF EverythingEnqueued
  <2>1. /\ Kept(s) /\ SenderOK(s) /\ callback[s] \in 0..(2 + MaxFrames) /\ sizes[s] \in Seq(Nat)
        /\ MaxCallbacks(s) \in Nat /\ Len(Feeds(s)) \in 1..2 /\ Len(ids[s]) \in Nat
    BY BoundAssumption, FeedsType DEF EnqueuedInv, IInv, TypeOK
  <2>2. Busy(s) \in {0, 1}
    BY DEF Busy
  <2>3. /\ i \in 1..(2 + MaxFrames) /\ Progress(s, i) = sizes[s][i]
        /\ i <= callback[s] /\ callback[s] # 0
    BY <2>1, <2>2, BoundAssumption DEF Kept, Progress
  <2>4. Mine(s, i) \in known[s] => Found(s, Mine(s, i))
    <3>1. Len(ids[s]) = Len(Feeds(s)) /\ i \in 1..MaxCallbacks(s)
      BY <2>1, <2>3 DEF Kept, SenderOK
    <3>2. \E k \in 1..Len(ids[s]) : Feeds(s)[k] = Mine(s, i)
      <4>1. CASE Config[s] = "http"
        <5>1. i \in {1, 2} /\ Len(Feeds(s)) = 2
          BY <3>1, <4>1, FeedsType
        <5>2. i \in 1..Len(ids[s])
          BY <3>1, <5>1
        <5> QED BY <4>1, <5>1, <5>2 DEF Feeds, Mine
      <4>2. CASE Config[s] = "tcp"
        <5>1. Len(ids[s]) = 1
          BY <3>1, <4>2, FeedsType
        <5> QED BY <4>2, <5>1 DEF Feeds, Mine
      <4> QED BY <4>1, <4>2, FeedsType
    <3> QED BY <2>1, <3>2 DEF Kept, Resolved, Found
  <2> QED BY <2>1, <2>3, <2>4 DEF Kept, Filled
<1> QED BY <1>1, <1>2, InductiveInit, InductiveStep, EnqueuedStep, PTL DEF Spec
=============================================================================
