# A verification project for k8s-learning

The repository is a collection of notes on Kubernetes, Istio, Envoy and related
tools. Most of it is text, YAML, Helm charts and vendored samples. A few small
programs of its own are what can be modelled; this directory holds TLA+ modules
for them, the TLC configurations that check the modules on small instances, and
proofs that TLAPS checks for all instances. `PROJECT.json` lists the runs, the
mutated definitions every property must notice, the map from definitions to
source lines, the hazards and the theorems.

## Inventory

| Component | Source | State | Operations | Hard behaviour |
|---|---|---|---|---|
| gRPC order server | `dev/grpc/basic/server` | the package map `orders`; per stream: batch marker, shipments in the making, ids to acknowledge | AddOrder, GetOrder, SearchOrders, UpdateOrders, ProcessOrders | one goroutine per call over an unprotected map; panics stop the process; cancelled streams; batches |
| gRPC order client | `dev/grpc/basic/client` | a stream, a sending goroutine | the four kinds of calls | Recv loops that end differently, a goroutine that sends while main receives, streams that break |
| Wasm plugin shared_data | `istio/envoy/wasm-go/shared_data` | one 8 byte value with a CAS number, shared by all VMs | initialise, increment | CAS retry loop; VMs that start late overwrite |
| Wasm plugin shared_queue | `.../shared_queue/{sender,receiver}` | three queues between VMs, ids resolved by name | register, resolve, enqueue, dequeue on a notification | start order, one item per notification |
| Wasm plugin multiple_dispatches | `.../multiple_dispatches` | number of pending calls per response | dispatch ten calls, count the answers | answers in any order, timeouts, stream gone |
| Wasm plugin postpone_requests | `.../postpone_requests` | FIFO of context ids | pause, resume on the tick | stream gone before the tick, no ticks |
| Wasm plugin http_auth_random | `.../http_auth_random` | paused request | dispatch, decide in the callback | failures in the callback, never resumed |
| Wasm plugins http_body, json_validation | `.../http_body`, `.../json_validation` | size of the body so far, operation, required keys | headers and body callbacks | bodies in parts, trailers, own replies, missing bodies |
| Wasm plugin dispatch_call_on_tick | `.../dispatch_call_on_tick` | a counter and a closure per context | tick, answer | ticks that overtake answers and timeouts |
| Wasm plugins metrics, network | `.../metrics`, `.../network` | ids of counters per VM, counters in the host | define, increment | VMs that define the same counter |
| Wasm plugins http_routing, http_headers, properties | same directory | configuration | headers callbacks | calls of the host that fail |
| Wasm plugins foreign_call_on_tick, helloworld, vm_plugin_configuration | same directory | none | they log | none |
| SPIFFE demo services | `istio/envoy/security/*` | none; Envoy and OPA policies decide | web, backend and db handlers | flows through several policies; errors that become status 200 |
| Cobra tool | `dev/cobra` | flags, environment, configuration file | time, wget, ping | precedence, dropped errors, half written files |
| Monitoring services | `istio/envoy/monitoring-and-tracing/*/service_*` | none | two calls in sequence | nil response dereferenced, Envoys that answer instead |
| Scripts, Python helpers, charts, notes | elsewhere | none | - | not modelled, see the end |

How they interact: the order client and server talk over gRPC streams. The Wasm
plugins interact with Envoy only through host calls and callbacks; within one VM
callbacks run one at a time, several VMs (one per worker thread) run in parallel
and share the data store, the queues and the metrics. The demo services call each
other through Envoys, some of which ask OPA first.

What makes each component correct: the order server loses or invents no order and
ends every call; the client returns only from a call that has had its whole effect;
shared_data loses no increment and shared_queue strands no item; a plugin that
pauses something resumes it once and only when it should; a plugin that counts
counts everything once, whatever overtakes what; a body is edited or judged as a
whole; a policy is honoured along every path, and no answer claims what has not
happened; a flag has the value of the first source that names it, and a file that is
reported as saved is whole.


## Modules

| Module | Stands for | Runs |
|---|---|---|
| `OrderManagement` | the order server, every handler step by step | `order_batches`, `order_updates`, `order_queries`, `order_recv` |
| `OrderDelivery` | what a ProcessOrders stream promises | refined in `order_batches`, used by `OrderClient` |
| `OrderClient` | the order client, with the server as `OrderDelivery` describes it | `order_client` |
| `SharedData` | the plugin shared_data in every worker's VM, with the host's store | `shared_data`, `shared_data_start` |
| `AtomicCounter` | a counter incremented in one step | refined in `shared_data` |
| `SharedQueue` | the plugins sender and receiver, with the host's queues | `shared_queue` |
| `Mailbox` | boxes with first in, first out | refined in `shared_queue` |
| `MultipleDispatches` | the plugin multiple_dispatches in one VM | `wasm_plugins` |
| `PostponeRequests` | the plugin postpone_requests in one VM | `wasm_plugins` |
| `HttpAuthRandom` | the plugin http_auth_random in one VM | `wasm_plugins` |
| `PausedStreams` | streams that are held up and go on once, unless they are lost | refined three times in `wasm_plugins` |
| `DispatchOnTick` | the plugin dispatch_call_on_tick, several contexts of one VM | `wasm_plugins` |
| `HttpBody` | the plugin http_body and one stream | `wasm_plugins` |
| `JsonValidation` | the plugin json_validation and one request | `wasm_plugins`, `json_validation_no_body` |
| `Metrics` | the plugins metrics and network in several VMs, with the host's metrics | `wasm_plugins` |
| `HeaderPlugins` | the plugins http_routing, http_headers and properties and one request | `wasm_plugins` |
| `SpireMesh` | web, backend and db with their Envoys and policies, and one request | `demo_services` |
| `ServiceChain` | the monitoring services and one request | `demo_services` |
| `FlagSources` | where the command line tools take their flags from | `cobra` |
| `Wget` | the download of the command line tool | `cobra` |
| `WasmPluginsProofs`, `CobraProofs`, `DemoServicesProofs` | proofs about `MCWasmPlugins`, `MCCobra` and `MCDemoServices`, which put components together | - |
| the other `*Proofs` | the proofs about the module they are named after | - |

The modules `MC*` give the constants of the runs their values. Three of them put
components together that have nothing to do with each other, so that one of them is
at work in each behaviour and the others stay as they begin: `MCWasmPlugins`
(variable `active`), `MCDemoServices` (`demo`) and `MCCobra` (`command`). A property
of theirs is the property of the component's module, where it is stated, under the
same name or one that tells whose it is. A definition whose comment speaks of "the
slip" is followed by the code's form: the slip is a mutated form of it, which nothing
uses but the mutation check.

### The order server: `OrderManagement`

Every rpc in `RPC` is one call, with its method in `Kind`. gRPC runs each call's
handler in a goroutine, so the steps of all calls interleave.

- `orders` is the package variable of `order.go:22`. A Go map has no atomicity.
  `StartAccess` marks the beginning of an access, the handler's next action its
  end, and an access that overlaps another one, if either is a write, sets `raced`.
  The runtime may then stop the process (`RaceFatal`, status `raceFatal`), or go on
  with a damaged map: a write may be lost, a lookup may miss. Every property says
  what it guarantees with a race, or only without one (`~raced`).
- `pc` is where a handler is. ProcessOrders reads the map up to three times for
  one id (`Destination`, `ShipmentLabel`, `AppendOrder`), as the code does
  (lines 107, 115 and 116), and other calls may overwrite the order in between.
- A range over a map visits in any order the keys it starts with, and may or may
  not visit one added meanwhile (`SearchRange`, `SearchVisit`).
- A nil pointer dereference or an index out of range stops the process: `status`.
  The two ways are `LookupPanic` (line 107 or 115) and `RecvPanic` (line 80).
- The client side is `Client`: it calls, sends messages, closes or cancels at any
  time. After a cancel no further message is received, and Send may fail or not.
- Data: an order is its first address and the number of its items the query
  matches; a batch entry keeps its place among the received ids, so that entries of
  the same order can be told apart.
- Not modelled: that Send may wait for flow control, that a unary handler's answer
  may fail to reach its client, and log lines.

### shared_data: `SharedData`

One VM per worker thread. `entry` is the host's value with its number; the host
numbers all writes and accepts a write with number 0 unconditionally, which is
what `OnVMStart` does. `GetSharedData`, then `SetSharedData`, `CasMismatch` or
`SetFails`, are the loop of `OnHttpRequestHeaders`. Any host error may come at any
call. The value is a Nat: wrapping at 2^64 needs more requests than there will be.

### shared_queue: `SharedQueue`

`OnPluginStart` is one plugin context of the receiver registering its queue.
`NewContext` resolves one queue per step, request queue first, and a registration
may come in between. An enqueue has two steps because the host releases its lock
before it posts the notification: `Enqueue` and `Post`. `OnQueueReady` takes one
item at most. `EverythingEnqueued` speaks of late registration, too: a context feeds the
queues it found when it was created, with everything, and no other ever. Every stream has a worker thread of its own, which allows more
interleavings than streams that share one. What DequeueSharedQueue could return
besides an item or "empty" (the `default` case, logged) needs a queue that the host
does not know and cannot happen here.

### multiple_dispatches: `MultipleDispatches`

A response's handler makes all its calls before any answer can be delivered, since
callbacks of a VM run one at a time: `OnHttpResponseHeaders` is one step, and
`DispatchPanics` is the panic at the first call that cannot be dispatched. The
calls already made then need no record: the VM is trapped and no callback runs in
it. `outstanding` is the proxy's side; the plugin only has `pending`. An answer for
a context that has gone is dropped by the SDK without calling the plugin.

### Held up requests: `PostponeRequests`, `HttpAuthRandom`

`PostponeRequests!OnTick` is the whole loop of `OnTick`. The context in effect
decides what a resume acts on, and stays what it was when SetEffectiveContext fails
for a context that has gone (`InEffect`), because nobody looks at the error: such a
turn resumes the request of an earlier turn once more. `AnyStart` has the outcome in
which the tick period is refused, which is only logged: then every request is lost.

`HttpAuthRandom!HttpCallResponseCallback` has every outcome of the callback as a value
in `Answers`. An answer without headers, as after a timeout, makes it return
without a resume: those requests are `ignored`, and lost in the sense of
`PausedStreams`. The hash is reduced to its parity. The callback is a function of the
package, but the SDK puts into effect the context that made the call.

### Ticks and counters: `DispatchOnTick`, `Metrics`

Each plugin context of `DispatchOnTick` has its ticks; a tick makes every call of its
context one tick older, and a call has to be answered before it gets older than its
timeout. The closure that counts belongs to the context (`Counts`). What the callback
cannot read decides whether it panics, after it has counted.

In `Metrics` the host knows counters by name, and each VM keeps the ids that it was
given. Defining and incrementing are host calls of their own, so that other VMs come
between them. network is the case with one name, defined when the context is made.

### Bodies: `HttpBody`, `JsonValidation`

A body comes in parts, each of size 1; a last part may be empty, and trailers may end
a body without a last part. The host keeps a part for which the callback returns
ActionPause; the next callback sees all that is kept. Whether bodySize counts the kept
parts again depends on the host: `cumulative` has both, and the property says that the
edited body is right in both cases. The plugin's own replies take the way of a response
(the 400 of http_body along its response callbacks). In `JsonValidation` a text is the
set of its keys, and a prefix of a text is no JSON.

### Headers: `HeaderPlugins`

One request of one of three plugins. Everything that the host may refuse is a
parameter of the callback's action. `stuck` is a request for which the plugin returned
ActionPause and that nothing will resume; the property says that this takes a failure
of the host. A configuration that http_headers cannot read counts as none, because the
data are looked at before the error.

### The order client: `OrderClient`

main makes one of four calls. In `bidirectionalStream` a goroutine sends while main
receives; in the other two streams main does both (`CanRecv`). `OrderDelivery` stands
for the server, through `INSTANCE`: its `Take`, `Deliver` and `Finish` are conjuncts of
`ServerTake`, `ServerShip` and `ServerFinish`. `Break` loses answers in flight.
`AfterError` is where the functions differ: serverStream's loop goes on for ever
(`spin`), the others panic. That loop, and the panics after a failed call, are what the
code does: `ClientEnds` counts the loop as an end, and `FailsOnlyWithTheCall` says what
it takes to get there.

### The demo services: `SpireMesh`, `ServiceChain`

`SpireMesh` is one request and the calls made on its behalf, as a stack. Each call
arrives at an Envoy, is authorised by the policy of that Envoy's OPA, and is routed to
the server or to another Envoy, with the identity of the Envoy that makes the call. A server
calls the next one through its own Envoy on localhost. Requests may come in at any of
the Envoys. `Answer` is what a handler makes of the answer it got: what it says
("Allowed path", "Forbidden path" or neither) and which services it names, in order.
`AnswerLost` loses an answer on its way back, after the handlers have run.

What an answer of the SPIFFE demo can be trusted for is less than its texts suggest.
backend ends with an empty 200 when the db refuses or fails (backend-server/main.go:41),
and web makes "Allowed path: WEB -> " of that; web's bad path writes "Forbidden path: WEB
-> DB" for every status but 200, a 503 included (web-server/main.go:72-75), and that text
names the db. So `AnswerIsTrue` excepts "Forbidden path" from the rule that only services
are named whose handlers have run, and says of it what is true: it goes with a refusal or
a failure, and with the policies in force the db has not been reached. Of a 200 it says
that its names, and nothing else, tell whether all was in order.

`ServiceChain` is service A's handler. An Envoy's error is an answer like any other to
it. `lost` remembers that an Envoy answered for a service or a body was cut; the
property says that a 200 shows it. What A wrote before a panic stays in net/http's
buffers, which are larger.

### The command line tool: `FlagSources`, `Wget`

`FlagSources` covers both commands, of which `readsFile` tells the one with a
configuration file (backup/stringenv.go, which no built program calls) from `time`.
`SetTo` is pflag's Set: a number that it cannot parse becomes 0, one out of range the
largest. `Wget` creates the file first: an older file is lost even when the download
fails, which is what the code does; `SavedIsWhole` only says that nothing but a
beginning of the body takes its place, and that "save as" means the whole.

## Runs

| Run | Instance | What it shows |
|---|---|---|
| `order_batches` | two AddOrder calls and a ProcessOrders stream of up to 5 ids, 2 ids, 2 addresses, batches of 2 | `OrdersConserved`, `BatchBoundaries`, `ImplementsDelivery`. Five messages reach a full first batch (2), a full second one (3) and what `RecvEOF` finds empty; fewer leave a partial batch |
| `order_updates` | UpdateOrders and ProcessOrders, 2 messages each, 2 ids, 2 addresses or none | `TypeOK`, `AddressesWereReal`, `KnownOrdersAreSafe`, and `CallsEnd` under fairness. Two updates overwrite an order between two reads of it |
| `order_queries` | UpdateOrders, GetOrder and SearchOrders, 2 ids, up to 2 hits in an order | `GetFindsKnownOrders`, `SearchAnswers`, `AnsweredUpdatesAreStored`. A range over a map that grows meanwhile, with orders that match twice |
| `order_recv` | one UpdateOrders stream | expected violation of `EveryRecvHandled`: a cancelled stream stops the server, whereas the comment at `order.go:67` says every Recv is handled |
| `order_client` | each call, 3 messages (the code sends 2), up to 2 hits | `ReturnMeansDone`, `FailsOnlyWithTheCall`, and `ClientEnds` under fairness. Three messages let shipments and sends overtake each other and the stream break between any two |
| `shared_data` | 3 VMs, 2 requests each | `TypeOK`, `NoIncrementLost`, `ImplementsCounter`, and `RequestsEnd` under fairness: the retry loop ends. Three VMs let one read, a second start and a third write in between |
| `shared_data_start` | 2 VMs | expected violation of `EveryIncrementCounts`: a VM that starts late throws away what others have counted, whereas the README of the plugin promises an atomic increment |
| `shared_queue` | a connection of up to 2 frames, next to a request with up to 2 headers per callback, or to another connection with a frame for the same queue | `TypeOK`, `NothingStranded`, `EverythingEnqueued`, `ImplementsMailbox` with its fairness: what goes in comes out in order, and all of it unless the receiver dies. Two senders are between enqueue and notification at the same time, while queues are still being registered |
| `wasm_plugins` | see below | `TypeOK`, `PluginTypes` and the properties of eight modules |
| `json_validation_no_body` | two keys, two parts | expected violation of `PayloadRequired`: a request without a body passes, whereas the plugin's README says that it is refused |
| `demo_services` | every request of `SpireMesh!Init`, with and without OPA; one request of `ServiceChain` | `FlowHonoured`, `HealthyAnswers`, and `AnswersAreTrue` for both demos, whatever is refused, fails, is lost or cut. The instance is the real one: all listeners, paths, identities |
| `cobra` | a number and a text with two values, every content of the three sources, numbers malformed or out of range included, for both commands; files of up to 4 blocks | `FirstSourceWins`, `SavedIsWhole`. Two values, a word and a number out of range tell all sources apart |

The instance of `wasm_plugins`, one plugin after the other:

| Module | Instance | Properties |
|---|---|---|
| `MultipleDispatches` | 2 responses, 4 calls each (the code has 10): every order of answers, and places before, between and after them for a stream to go | `PendingIsOutstanding`, `ImplementsPaused` with its fairness |
| `PostponeRequests` | 4 requests: two that have gone between two that have not, in every order | `PostponeQueue`, `PostponeImplementsPaused` with its fairness |
| `HttpAuthRandom` | 3 requests with every answer | `HeldByItsCall`, `AuthImplementsPaused` with its fairness |
| `DispatchOnTick` | 2 contexts, 3 calls each, timeout after 2 ticks (50 in the code): a call of one tick may end before or after one of the next | `CountsOwnCalls` |
| `HttpBody` | bodies of up to 3 parts | `WholeOrHeld`, `EditsFit` |
| `JsonValidation` | 2 keys, 2 parts, every configuration and payload over them | `VerdictIsRight` |
| `Metrics` | 2 VMs of each plugin, 2 header values, 3 requests or connections: one VM defines while another has defined and a third increments | `CountersAreExact` |
| `HeaderPlugins` | every configuration and failure | `FailsSafely` |

Deadlock is not checked: all these systems may stop, a process by a panic, a
client or a proxy for lack of requests, a request by its answer. Bounds are in the
guards and in the constants: `MaxMsgs`, `MaxHits`, `MaxRequests`, `MaxItems`,
`MaxFrames`, `MaxCalls`, `MaxParts`, `MaxWork`, `Size`. The proofs hold for every
value of theirs. Symmetry is used only in `order_batches`, over ids, addresses and the
two AddOrder calls, which no definition distinguishes; the run has no liveness
property.

What the runs do not show: the batches come out as they do because `batchMarker`
starts at 1 and is reset to 0. Batches after the first have one order more than
`orderBatchSize`; `BatchBoundaries` states that, it does not say that it is meant.
In the same way `FirstSourceWins` states that a malformed number counts as 0 or the largest, and
`HeldByItsCall` that a request whose call timed out hangs.

## Fairness

- `OrderManagement!FairSpec`: weak fairness of each handler. The Go scheduler runs
  every goroutine that can run. Nothing obliges a client to send, close or cancel,
  so `CallsEnd` speaks of calls whose client has closed or cancelled.
- `SharedData!FairSpec`: weak fairness of a VM inside a request; its worker thread
  goes on with it. New requests are not forced on it, and come no more often than the
  bound, so each failed write is another VM's success and the loop must end.
- `SharedQueue!Fairness`: weak fairness of `Post` (the host goes on to post) and of
  `OnQueueReady` (the event loop of the main thread runs what is posted). Streams
  need not go on.
- `MultipleDispatches!Fairness`: weak fairness of the answers of a stream. Each call
  ends, at the latest with the timeout of 50 s that the code gives it (line 73).
  `HttpAuthRandom!Fairness` says the same of its calls (line 70 of its code).
- `PostponeRequests!Fairness`: weak fairness of the tick, if there are ticks: the host's
  timer goes on.
- `OrderClient!FairSpec`: weak fairness of main, of the sending goroutine and of the
  server's handler as far as `CallsEnd` justifies it: it takes, ships and, once the
  client has closed, ends. It need not fail (`ServerFail`), nor the connection break.

No fairness is assumed of clients, of streams that may go away, or in the other modules.

## Proofs

All are for any number of calls, orders, addresses, VMs, streams and parts, any
values of the configuration, and any bounds. Each theorem of the form
`Spec => []P` goes from an inductive invariant to `P`; where `P` is not inductive,
the strengthening is named here.

The order server, `OrderManagementProofs`. Assumed: `KindAssumption`,
`BatchAssumption`, `BoundAssumption`, `NilAssumption`.

- `TypeCorrect`. `TypeOK` is not inductive, because a handler's locals have the type
  an access needs only at some of its places: `LocalsOK` says which.
- `OrdersAreConserved` needs `StreamInv`: in a loop over the map, what is no longer
  in `todo` has been sent; outside of one, nothing of the map has been sent; and the
  id being worked on is the last one received. The lemmas on `Carries` move one order
  into a shipment.
- `KnownOrdersAreFound`, `UpdatesAreStored` and `KnownOrdersDoNotPanic` rest on
  `MapInv`: what is stored has been stored by somebody, and short of a race nothing
  stored is ever gone (`History`), and each kind of call stays among its own places
  (`KindPlaces`).
- `SearchesAreComplete`, with `SearchInv`: what the loop has still to visit has not
  been sent, what it has visited has been, and the order it is at lacks the items that
  its locals say. The map may grow during each of these.
- `BatchesEndWhereTheyShould`, with `BatchInv`: shippings come after orders whose
  number is a multiple of `BatchSize + 1`, less one; `batchMarker` counts the orders
  since the last of them, in the first batch one too many; so every entry that has been
  sent or waits lies between two such numbers.
- `AddressesAreReal`, with `RealInv`: what the handler carries from one read of an
  order to the next is an address that the order has had.
- `ImplementsOrderDelivery`: initial states and steps of the server are those of
  `OrderDelivery`, or stutter. It is the whole refinement, as `OrderDelivery` states no
  fairness.

The order client, `OrderClientProofs`. Assumed: `OrdersAssumption`.

- `ReturningMeansDone`, `FailingMeansFailed`, `ClientTypes`. The invariant relates the
  places of main and of the sender (`Places`), says that what ended well has been taken
  whole (`EndsWhole`), and that what was delivered is in flight or has been read, each
  order in one shipment (`Shipped`).

shared_data, `SharedDataProofs`. Assumed: `InitialAssumption`, `RequestsAssumption`.

- `SharedTypeCorrect`, `NoLostIncrement`, `CounterImplemented`. The invariant adds that
  a VM about to write whose number is still the host's also holds the host's value:
  numbers do not come back, although values do.

shared_queue, `SharedQueueProofs`. Assumed: `StreamAssumption` (finitely many
streams), `ConfigAssumption`, `BoundAssumption`.

- `QueueTypeCorrect`, `NothingIsStranded` and `MailboxImplemented`, the last one without
  Mailbox's fairness. The invariant adds that what went into a queue is what came out
  followed by what is in it (`Flow`), and what a sender's place says of its ids
  (`SenderOK`).
- `EverythingIsEnqueued`, with `Kept`: the queues that a stream has found are
  registered, each id of a context is the queue in its place or none (`Resolved`), the
  callbacks that are over are those that were begun but for the one at work, and the one
  at work has enqueued a beginning of its items, if it has a queue (`Filled`).

multiple_dispatches, `MultipleDispatchesProofs`. Assumed: `TotalAssumption`.

- `DispatchesTypeCorrect`, `PendingIsExact` and `PausedImplemented`, the last one
  without fairness. `PendingIsOutstanding` with `TypeOK` is inductive; one lemma says
  that an answer leaves one call less.

The other plugins, `WasmPluginsProofs`, about the specification of `MCWasmPlugins`:
one plugin is at work, and the variables of the others stay as they are, which one
lemma says for all of them (`EachPluginSteps`). Assumed, in `MCWasmPlugins`:
`FiniteAssumption` (finitely many VMs, requests and header values), `BoundAssumption`,
`KeyAssumption` (no key is the one that stands for a number).

- http_auth_random: `HeldByOwnCall` and `AuthPausedImplemented`, the latter without
  fairness. `HeldByItsCall` is inductive once a call that is out is known not to have
  been ignored (`OneCall`).
- dispatch_call_on_tick: `OwnCallsCounted`. A lemma says that a tick makes all calls
  older and no two of them one.
- json_validation: `VerdictMeetsConfiguration`. The invariant adds that the sizes add up
  to what has come (`Sums`), so that what is read is the payload, and that a started
  plugin looks for the keys of its configuration (`KeysParsed`).
- http_routing, http_headers, properties: `HeadersFailSafely`. The invariant adds
  what a started plugin has made of its configuration, and that no request has got
  anything before its callback.
- http_body: `BodiesAreWhole`, `EditedBodiesFit`. The invariant adds what the length and
  the reply say at each phase (`Settled`), that an echoing plugin has counted what
  came (`EchoTotal`), and that what streams through is sent as it comes (`Streaming`).
- postpone_requests: `QueueIsRight` and `PostponePausedImplemented`, the latter without
  fairness. `PausedIsQueued` only needs that new requests are not in the queue. That
  superfluous resumes are bounded needs `Covered`: they are no more than the requests
  that went away without a resume and are no longer in the queue. A turn of `OnTick`
  that resumes an earlier request once more takes one of these out of the queue.
- metrics and network: `CountersCountAll`. The invariant says of each counter that what
  it has counted and what the VMs have begun and not counted make up what was begun
  (`Exact`), that ids are places of the host's list and name what the VM thinks
  (`CounterIds`), and what a connection waits for (`Connected`). With it, `PluginsAreTyped`: the
  types of all the plugins, where a counter's bound follows from `Exact`.

The last two need sums over finite sets, which the community modules define by
recursion over the set. `WasmPluginsProofs` derives them from the definition: a set on
which a claim about sums fails could be taken smallest, by the well-foundedness of
strict inclusion among finite sets, and one element less would be smaller still. That
gives the value of a sum (`SumDefined`), and what changing one summand does
(`SumChange`).

The command line tools, `CobraProofs`, about `MCCobra`. Assumed: `FlagAssumption`,
`ValueAssumption` (what stands for 0, for the largest number, for nothing and for what
cannot be parsed is no proper value), `SizeAssumption`.

- `FlagsComeFromTheFirstSource`: flags that the loop has not reached are as the command
  line left them, the others have their last value (`Settled`).
- `DownloadsAreWhole`: `DownloadInv` says what the file holds at each place of the
  download.

The demo services, `DemoServicesProofs`, about `MCDemoServices`. It has neither
constants nor bounds, so that TLC's exploration of it is complete already. What the
proofs add is the reason: which policies and routes the flow rests on.

- `PoliciesKeepTheFlow`. The invariant says for each list of servers that have handled
  the request what the call that is made next can be, with its address and identity
  (`FlowInv`). None of them is allowed at a server out of its turn.
- `AnswersNameTheirServices`. For the SPIFFE demo, each call of the stack starts from the
  number of servers that had handled the request before it (`Base`), and an answer on
  its way to it names servers from there on, all of them if it is a 200 and nothing was
  out of order, and otherwise not all (`StackInv`, with `Tells`). With
  the policies, a request for the bad path gets to no handler but web's, and with all in
  order its call is the only one refused once a request has got through (`RefusalInv`). For the monitoring demo, `ChainInv` says what A has written
  by each place of its handler, and what of it stands in for a service's text.
- `HealthyFlowAnswers`. As long as nothing is out of order, the stack is a beginning of
  `GoodWay` or `BadWay`, and an answer is settled by the depth it has reached
  (`OnGoodWay`, `OnBadWay`).

Only model-checked are

- all liveness, as the provers have no rule for fairness: `CallsEnd`, `ClientEnds`,
  `RequestsEnd`, and the fairness in `ImplementsMailbox`, `ImplementsPaused`,
  `PostponeImplementsPaused` and `AuthImplementsPaused`, whose steps are proved;
- the three violations, which are counterexamples.

## Plan

Done: every program of the repository that keeps state or makes decisions, and proofs
of every safety property that a passing run checks. Left:

- the bound on the depth of the calls in `SpireMesh!TypeOK`, which says that no request
  goes round in circles through the Envoys, with the type invariants of the modules
  behind `MCDemoServices` and `MCCobra`;
- the lemmas on sums and on sequences, which several modules prove for themselves, in
  one place.

## Not modelled

- helloworld, vm_plugin_configuration and foreign_call_on_tick only log; ping and the
  hooks of the command line tool only print.
- Certificate and environment scripts are sequential commands over files; the Python
  helpers are stateless.
- `order.pb.go` is generated from `order.proto`; of `order_grpc.pb.go`, also generated,
  the stubs that order the calls are modelled with the client and the server.
- Notes, manifests, charts and vendored samples are no programs.
- Two host errors are left out, since they change nothing that a property speaks of:
  that of the added response header of multiple_dispatches (main.go:89), and those of
  GetSharedData other than an absent key, which end the callback in the same way. So is
  an http_body response that starts before its request is over, as the two directions
  share nothing.
- Of what is modelled, left out are wording, logging, encoding of messages, flow
  control and memory, the headers that are passed on for tracing, TLS handshakes and
  certificates, and start-up.
