----------------------------- MODULE SharedQueue -----------------------------
(* The plugins sender and receiver of istio/envoy/wasm-go/shared_queue.  The
   receiver is one VM on the main thread with a plugin context for each queue; the
   senders' VMs run on the worker threads.  Queues belong to the host, which takes
   an item in under a lock and, after it, posts a notification to the main thread;
   a notification names the queue, not the item. *)
EXTENDS Naturals, Sequences, FiniteSets

CONSTANTS Stream,    \* the connections and requests the senders see
          Config,    \* the configuration of the plugin that serves each of them
          MaxItems,  \* bound: headers in one callback
          MaxFrames  \* bound: data frames of one connection

ASSUME StreamAssumption == IsFiniteSet(Stream)
ASSUME ConfigAssumption == Config \in [Stream -> {"http", "tcp"}]
ASSUME BoundAssumption == MaxItems \in Nat /\ MaxFrames \in Nat

Queue == {"http_request_headers", "http_response_headers", "tcp_data_hashes"}
NoQueue == "0"

(* An item: the stream, its callback and the header's place in it. *)
Item == [stream : Stream, callback : 1..(2 + MaxFrames), place : 1..(1 + MaxItems)]

VARIABLES
  receiver,    \* "up" or, after a panic, "dead"
  registered,  \* queues that the host knows
  queue,       \* the items in each queue
  posted,      \* notifications of each queue on the main thread's event loop
  pc,          \* a stream's sender: "new", "idle", "enqueue" or "post"
  ids,         \* the queue ids a stream's context has resolved, in order
  callback,    \* callbacks of the stream begun
  size, done,  \* items of the callback that runs, and those dealt with
  accepted,    \* history: items that went into each queue
  received,    \* history: items that the receiver has logged
  known,       \* history: queues registered when the context was created
  sizes        \* history: the size of each complete callback

senderVars == <<pc, ids, callback, size, done, known, sizes>>
hostVars == <<registered, queue, posted>>
vars == <<receiver, hostVars, senderVars, accepted, received>>

Init ==
  /\ receiver = "up" /\ registered = {}
  /\ queue = [q \in Queue |-> <<>>] /\ posted = [q \in Queue |-> 0]
  /\ pc = [s \in Stream |-> "new"] /\ ids = [s \in Stream |-> <<>>]
  /\ callback = [s \in Stream |-> 0]
  /\ size = [s \in Stream |-> 0] /\ done = [s \in Stream |-> 0]
  /\ accepted = [q \in Queue |-> <<>>] /\ received = [q \in Queue |-> <<>>]
  /\ known = [s \in Stream |-> {}] /\ sizes = [s \in Stream |-> <<>>]

-----------------------------------------------------------------------------
(* The receiver. *)

OnPluginStart(q) ==
  /\ receiver = "up" /\ q \notin registered
  /\ registered' = registered \cup {q}
  /\ UNCHANGED <<receiver, queue, posted, senderVars, accepted, received>>

(* Without a configuration or a queue the start panics, and the VM is lost. *)
OnPluginStartPanics ==
  /\ receiver = "up" /\ registered # Queue
  /\ receiver' = "dead"
  /\ UNCHANGED <<hostVars, senderVars, accepted, received>>

(* Whether a notification takes an item: an empty queue is no error.  The slip is
   to leave the last item where it is. *)
TakesOneOfMany(q) == Len(queue[q]) > 1
Takes(q) == queue[q] # <<>>

OnQueueReady(q) ==
  /\ receiver = "up" /\ posted[q] > 0
  /\ posted' = [posted EXCEPT ![q] = @ - 1]
  /\ IF Takes(q)
       THEN /\ received' = [received EXCEPT ![q] = Append(@, Head(queue[q]))]
            /\ queue' = [queue EXCEPT ![q] = Tail(@)]
       ELSE UNCHANGED <<queue, received>>
  /\ UNCHANGED <<receiver, registered, senderVars, accepted>>

-----------------------------------------------------------------------------
(* The senders. *)

(* The queues a context resolves; the slip is to swap the names. *)
SwappedFeeds(s) == IF Config[s] = "http" THEN <<"http_response_headers", "http_request_headers">>
                                         ELSE <<"tcp_data_hashes">>
Feeds(s) == IF Config[s] = "http" THEN <<"http_request_headers", "http_response_headers">>
                                  ELSE <<"tcp_data_hashes">>

(* NewHttpContext or NewTcpContext resolves the next queue, once and for all. *)
NewContext(s) ==
  /\ pc[s] = "new"
  /\ LET q == Feeds(s)[Len(ids[s]) + 1] IN
       ids' = [ids EXCEPT ![s] = Append(@, IF q \in registered THEN q ELSE NoQueue)]
  /\ known' = [known EXCEPT ![s] = IF ids[s] = <<>> THEN registered ELSE @]
  /\ pc' = [pc EXCEPT ![s] = IF Len(ids[s]) + 1 = Len(Feeds(s)) THEN "idle" ELSE "new"]
  /\ UNCHANGED <<receiver, hostVars, callback, size, done, sizes, accepted, received>>

MaxCallbacks(s) == IF Config[s] = "http" THEN 2 ELSE MaxFrames
(* Request headers go to the first queue, response headers to the second. *)
Target(s) == IF Config[s] = "http" THEN ids[s][callback[s]] ELSE ids[s][1]

(* OnHttpRequestHeaders, OnHttpResponseHeaders, OnUpstreamData: an item for each
   header, none if they cannot be read; one for a frame, none if it is empty. *)
Callback(s) ==
  /\ pc[s] = "idle" /\ callback[s] < MaxCallbacks(s)
  /\ callback' = [callback EXCEPT ![s] = @ + 1]
  /\ \E n \in 0..(IF Config[s] = "http" THEN MaxItems ELSE 1) :
       size' = [size EXCEPT ![s] = n]
  /\ done' = [done EXCEPT ![s] = 0]
  /\ pc' = [pc EXCEPT ![s] = "enqueue"]
  /\ UNCHANGED <<receiver, hostVars, ids, known, sizes, accepted, received>>

(* The slip: one turn of the loop too many. *)
MoreOrEqual(s) == done[s] <= size[s]
More(s) == done[s] < size[s]

(* EnqueueSharedQueue, up to the end of the host's lock. *)
Enqueue(s) ==
  LET item == [stream |-> s, callback |-> callback[s], place |-> done[s] + 1] IN
  /\ pc[s] = "enqueue" /\ More(s) /\ Target(s) # NoQueue
  /\ queue' = [queue EXCEPT ![Target(s)] = Append(@, item)]
  /\ accepted' = [accepted EXCEPT ![Target(s)] = Append(@, item)]
  /\ pc' = [pc EXCEPT ![s] = "post"]
  /\ UNCHANGED <<receiver, registered, posted, ids, callback, size, done, known, sizes, received>>

Post(s) ==
  /\ pc[s] = "post"
  /\ posted' = [posted EXCEPT ![Target(s)] = @ + 1]
  /\ done' = [done EXCEPT ![s] = @ + 1]
  /\ pc' = [pc EXCEPT ![s] = "enqueue"]
  /\ UNCHANGED <<receiver, registered, queue, ids, callback, size, known, sizes, accepted, received>>

(* There was no queue when the context was created: the item is only logged. *)
EnqueueFails(s) ==
  /\ pc[s] = "enqueue" /\ More(s) /\ Target(s) = NoQueue
  /\ done' = [done EXCEPT ![s] = @ + 1]
  /\ UNCHANGED <<receiver, hostVars, pc, ids, callback, size, known, sizes, accepted, received>>

CallbackDone(s) ==
  /\ pc[s] = "enqueue" /\ ~More(s)
  /\ pc' = [pc EXCEPT ![s] = "idle"]
  /\ sizes' = [sizes EXCEPT ![s] = Append(@, size[s])]
  /\ UNCHANGED <<receiver, hostVars, ids, callback, size, done, known, accepted, received>>

-----------------------------------------------------------------------------
Receiver == (\E q \in Queue : OnPluginStart(q) \/ OnQueueReady(q)) \/ OnPluginStartPanics
Sender(s) == NewContext(s) \/ Callback(s) \/ Enqueue(s) \/ Post(s) \/ EnqueueFails(s) \/ CallbackDone(s)
Next == Receiver \/ \E s \in Stream : Sender(s)

Spec == Init /\ [][Next]_vars
(* The event loop of the main thread works off what is posted, and a thread that
   has put an item into a queue goes on to post the notification. *)
Fairness == /\ \A q \in Queue : WF_vars(OnQueueReady(q))
            /\ \A s \in Stream : WF_vars(Post(s))
FairSpec == Spec /\ Fairness

-----------------------------------------------------------------------------
(* Properties. *)

TypeOK ==
  /\ receiver \in {"up", "dead"} /\ registered \subseteq Queue
  /\ queue \in [Queue -> Seq(Item)] /\ posted \in [Queue -> Nat]
  /\ pc \in [Stream -> {"new", "idle", "enqueue", "post"}]
  /\ ids \in [Stream -> Seq(Queue \cup {NoQueue})]
  /\ callback \in [Stream -> 0..(2 + MaxFrames)] /\ size \in [Stream -> 0..(1 + MaxItems)]
  /\ done \in [Stream -> Nat] /\ \A s \in Stream : done[s] <= size[s]
  /\ accepted \in [Queue -> Seq(Item)] /\ received \in [Queue -> Seq(Item)]
  /\ known \in [Stream -> SUBSET Queue] /\ sizes \in [Stream -> Seq(Nat)]

Posting(q) == {s \in Stream : pc[s] = "post" /\ Target(s) = q}

(* OnQueueReady takes one item and never looks whether there are more, so there
   must always be a notification on its way for every item, however the senders'
   enqueues and the receiver's dequeues interleave (receiver/main.go:67-77). *)
NothingStranded ==
  \A q \in Queue : Len(queue[q]) <= posted[q] + Cardinality(Posting(q))

(* Every queue is a mailbox: what the receiver logs is what the senders have put
   in, in that order, and all of it in the end. *)
Boxes == INSTANCE Mailbox WITH
  Box <- Queue, put <- accepted, taken <- received, reading <- (receiver = "up")
ImplementsMailbox == Boxes!Spec

(* The items of the stream's i-th callback that have gone into a queue, as places. *)
In(s, i, q) == {accepted[q][k].place :
                  k \in {j \in 1..Len(accepted[q]) :
                           accepted[q][j].stream = s /\ accepted[q][j].callback = i}}

(* The queue of the kind of a stream's i-th callback, and whether the stream's context
   has found a queue. *)
Mine(s, i) == IF Config[s] = "tcp" THEN "tcp_data_hashes"
              ELSE IF i = 1 THEN "http_request_headers" ELSE "http_response_headers"
Found(s, q) == \E k \in 1..Len(ids[s]) : ids[s][k] = q

(* sender/main.go:71-135, 137-187: whether a stream feeds a queue is settled once, at
   its creation, when it finds all that are registered by then: once a callback is over,
   every header, or data frame, of it is in the queue of its kind if that was found, and
   none is anywhere if it was not, however soon the queue was registered after that. *)
EverythingEnqueued ==
  \A s \in Stream : \A i \in 1..Len(sizes[s]) :
    /\ Mine(s, i) \in known[s] => Found(s, Mine(s, i))
    /\ \A q \in Queue :
         In(s, i, q) = IF q = Mine(s, i) /\ Found(s, q) THEN 1..sizes[s][i] ELSE {}
=============================================================================
