# A verification of gospr

gospr runs replicated data types that are written in a small language: a
program declares a vector with one slot per node, named updates and queries
over it, and the functions they use. The builder checks such a program, an SMT
prover checks its lattice laws, nodes replicate the vector by gossip and by
synchronous quorums, and a gateway or a sandbox puts HTTP in front of them.

This directory holds TLA+ models of that code, the TLC runs that check them on
small instances, and proofs, checked by TLAPS, of their main safety properties
for every instance. Paths below are relative to the root of the repository.

## 1. The system

| Part | State | Operations |
|---|---|---|
| Node, `node/node.go` | whether it is initialized (`state`), the plan's `fingerprint`, the documents (`collections`), the peers, the request counter `reqSeq`, the `pending` requests | `Initialize`, `PropagatePlan`, `Apply`, `Query`, `ApplySync`, `QuerySync`; the message loop (`runMessageLoop`), the gossip loop (`runGossip`) |
| Synchronous coordinator, in `node/node.go` | per request: ID, ack channel of N - 1 places, set of peers seen | `applySync`, `querySync`, `pushQuorum`, `pullQuorum`, `collectAcks`, `handleSyncPush`, `handleSyncPull`, `handleSyncAck` |
| Keyed documents, in `node/node.go` | a map from document key to CRDT pointer, under a read-write lock | `apply`, `mergeSnapshot`, `mergeCollection`, `snapshotCollection`, `queryDocument` |
| Vector CRDT, `crdt/` | slots by owner, under a mutex | `Apply`, `Query`, `Merge`, the wire form of slots |
| Builder, `builder/` | the symbol table, type registry, the checker's signatures | `Build`: resolve types, infer returns, check combinators and queries |
| Numeric types, `numtype/` | none | `Allows`, subtype, join, result signs |
| Prover, `prover/` | none kept | turns the merge and the updates of a program into goals for z3: the lattice laws, and that updates go up |
| Parser, `parser/` | the input stream | the grammar of the language |
| Gateway, `gateway/` | the swagger document, the node | deploy, apply, query over HTTP, with the `X-Gospr-Sync-Ratio` header |
| Sandbox, `sandbox/` | the current cluster, its pin, the partitions and delays, the hub's subscribers | deploy, apply, query, state, reset, links, delay, shutdown, the event stream |
| Swagger, `swagger/`; `main.go`; `sandbox/web/` | none / flags / a page | generate the interface document; start; show the cluster |

How they interact. A node is reached through HTTP handlers, one goroutine a
request, and through its inbox, a channel that one message loop drains. Nodes
send each other five kinds of message: a deployment, gossip, a push, a pull and
an ack; the last three belong to a synchronous request. A message is put in the
peer's inbox by the sender, or, in the sandbox, by a goroutine that waits an
artificial delay first and gives up when its cluster stops. Within a node,
handlers, the message loop and the gossip loop share the documents under the
node's lock and each CRDT under a lock of its own.

What is hard about it:

- **Concurrency.** Handlers, message loop and gossip touch the same document;
  a pointer is read under one lock and used under another.
- **Quorums.** An ack may be late, of an earlier phase, a second one of the
  same peer, or of a node that runs another plan.
- **Failure.** Links are cut at any moment; messages over them vanish; nothing
  is retried; only the phase deadline ends a request that cannot succeed.
- **Ordering.** Old snapshots arrive after new ones, by three different paths.
- **Full inboxes.** A send waits while the peer's inbox is full, and the
  goroutine that waits may be the one that somebody else waits for.
- **Addresses.** A document is addressed by a number that has many spellings,
  at gateways whose nodes may run different programs.
- **Lifecycle.** The sandbox replaces a whole cluster while requests run in it
  and messages are on their way in it.
- **Static promises.** What the builder accepts is not checked when an update
  runs, but peers do check what they receive.
- **User code in the protocol.** The merge of every message is a function the
  user wrote; convergence is as good as what the prover asks of it.

What makes each part correct is stated, with the lines at risk, under
"hazards" in PROJECT.json.

## 2. Modules

| Module | What it models | Extends |
|---|---|---|
| `SyncQuorum` | a cluster of nodes with one document: deployment, gossip, partitions, the synchronous coordinator | |
| `QuorumStore` | the abstract store that the coordinator implements for its clients | |
| `UpdateCounts` | what the vectors of a document come to when only updates are counted; the proofs show that `VectorCRDT` and `SyncQuorum` implement it | |
| `SyncQuorumProofs` | theorems about `SyncQuorum`, and that it implements `QuorumStore` and `UpdateCounts` | `SyncQuorum`, `TLAPS` |
| `Documents` | one keyed document of one node, from absent to published, by critical sections | |
| `DocumentsProofs` | theorems about `Documents` | `Documents`, `TLAPS` |
| `NumTypes` | numeric types, subtyping, joins, result types, and the arithmetic they are about | |
| `TypedSlot` | the typing of an update's terms beside their evaluation, and what peers accept | `NumTypes` |
| `TypedSlotProofs` | theorems about `TypedSlot` | `TypedSlot`, `TLAPS` |
| `Inboxes` | the goroutines of a cluster and the bounded channels between them, and nodes that stop | |
| `InboxesProofs` | theorems about `Inboxes` | `Inboxes`, `TLAPS` |
| `Gateway` | the gateways: statuses, sync ratios, the page, the keys, and a collection's documents at every node | `NumTypes` (instance) |
| `GatewayProofs` | theorems about decimals and about `Gateway` | `Gateway`, `TLAPS` |
| `Terms` | the terms of the language: how they resolve, what type they get, what they evaluate to | `NumTypes` |
| `Builder` | the construction of a program: types, names, inferred return types, methods, the verdict; and what its functions return | `NumTypes` |
| `BuilderProofs` | theorems about `Builder` | `Builder`, `TLAPS` |
| `Methods` | what the builder asks of methods, whose bodies are terms, and what they give when they are run | `Builder`, `Terms` |
| `VectorCRDT` | a vector at every node, with any merge and updates, and the prover's obligations | |
| `VectorCRDTProofs` | theorems about `VectorCRDT`, and that it implements `UpdateCounts` | `VectorCRDT`, `TLAPS` |
| `Sandbox` | clusters that replace each other, handlers, the lock, links, deliveries | |
| `SandboxProofs` | theorems about `Sandbox` | `Sandbox`, `TLAPS` |
| `MCSyncQuorum`, `MCDocuments`, `MCTypedSlot`, `MCBuilder`, `MCVectorCRDT`, `MCInboxes`, `MCGateway` | instances for TLC | |

An operator called *Mutant of X* stands just before X. It is X with a plausible
mistake in it, is used by no specification, and serves to see that a property
really fails when the code is wrong (PROJECT.json, "mutants").

### SyncQuorum

| In the module | In `node/node.go` |
|---|---|
| `plan[n]` | the node's plan; two plans are the same when their fingerprints are |
| `st[n]` | the document, a vector with a slot for each owner |
| `reqSeq`, `rid` | the request counter and the IDs it mints |
| `seen`, `ch`, `count` | the pending request: peers seen, the channel, and `collectAcks`'s counter |
| `unmerged` | not kept by the code: the acks of this phase that were taken off the channel and not counted |
| `pc[o]` | how far the goroutine of request `o` has come |
| `msgs` | messages sent, in inboxes or on their way |
| `Apply`, `BeginRead`, `BeginPush`, `CollectAck`, `DiscardAck`, `Timeout`, `Query` | `applySync`, `querySync`, `pushQuorum` and `pullQuorum` with `collectAcks` |
| `Failing`, `MergeFails` | the errors of `mergeCollection` and `Merge`: a slot that `wireToSlot` refuses, a merge function that fails |
| `HandleSyncPush`, `HandleSyncPull`, `HandleSyncAck`, `HandleGossip`, `HandleDeploy` | the cases of `runMessageLoop` |
| `Gossip`, `Deploy`, `SetLinks`, `Lose` | the gossip tick, the gateway's deployment (`Initialize`, then `PropagatePlan`), the sandbox's links |
| `Duplicate` | the retrying transport that the comment on `handleSyncAck` provides for |

*Slots.* Only its owner updates a slot, and an update moves it up the lattice of
the program's vector, which is what the prover establishes of every program and
`VectorCRDT` shows to be enough. The values a slot takes therefore form a chain,
and the module keeps a slot's place in that chain: the number of updates its
owner has made. Merging two vectors takes the larger place in each slot.

*Granularity.* A step is what happens under one lock, or between two channel
operations: registering a request and broadcasting are one step, since no other
goroutine can tell them apart before the messages arrive; each ack is a step of
the message loop and again a step of the request.

*Quorums.* `Reached(holders, r)` is the code's comparison: strictly more than
the ratio, and every node for the ratio `all`. An asynchronous request is one
of ratio 0, which both phases let through without a message.

*Messages.* `msgs` is a set, so messages overtake each other freely. A message
is lost only over a cut link. Two equal messages cannot be in flight, except
acks, which `Duplicate` tells apart by `copy`.

*Merges that fail.* An accepted program's slots may still be refused by every
peer (section 6), and a user's merge function may fail. `Failing` says which
merges do: by the way the vector came, the plan of the node that merges, its own
vector and the one that comes. It is any set of these; a failing merge leaves
the document as it was, so nothing more need be said of it. A push that fails to
merge is not acknowledged. An ack whose vector a pull fails to merge is off the
channel for good: it is not counted, and since its peer stays in `seen`, that
peer cannot be counted in this phase any more (`DiscardAck`; `unmerged`
remembers it). Gossip that fails to merge is dropped; it is not checked against
the element type, so it fails only in the merge function. An empty vector is
merged without a look. Finding the document itself does not fail between nodes
of one plan, as the keys on the wire are canonical (`KeysWelcome` of `Gateway`).

### QuorumStore

The promise to clients, without messages or vectors. There is one store; an
update moves one slot of it up. An operation at a majority ratio that succeeds
makes a part of the store stable. A query at a majority ratio answers with
something between what was stable when it began and what has been applied when
it ends. This is a *regular* store: two queries may answer with more and then
less of an update that is still running. `SyncQuorum!Store` maps the detailed
state to it: `applied` is every owner's own slot, `stable` is the join of what
completed majority operations have left, and `ImplementsStore` is the
specification of `QuorumStore` under that map.

### UpdateCounts

What `SyncQuorum` and `VectorCRDT` have in common: at each node, how many
updates of each owner its vector holds. An update counts up the node's own slot.
A merge takes the larger count of each slot from some vector that is nowhere
ahead of the owners. `VectorCRDT` has the counts in `seen`, behind values of any
kind; `SyncQuorum` has them in `st`, in place of values. It has no run: a merge
chooses among all vectors, and both refinements are proved.

### Documents

A document that does not exist yet is met by updates, merges and readers at
once. Each step is one critical section of the node's lock or of a CRDT's.
`doc` is the map entry, `heap` the CRDTs that goroutines have made, `ptr` the
pointer that each goroutine read earlier. `apply` makes the first update to a
CRDT inside the write lock and publishes it only when the update succeeds;
`mergeSnapshot` and `mergeCollection` merge into a private CRDT, publish it if
nobody was faster, and otherwise merge into the published one. A CRDT's value
is the pair of the node's own slot and one peer's.

### Inboxes

| In the module | In the code |
|---|---|
| `inbox[n]`, `Capacity` | the node's channel, with those who wait to send on it |
| `Send`, `Behind`, `Waits` | `ChanPeer.Send` and the goroutines that wait in its `select` |
| `carriers`, `Carry` | the goroutines started by `broadcast` and `routeAck` |
| `Deploy`, `Propagate`, `Answer` | `handleDeploy`; `PropagatePlan`, which sends in the handler's own goroutine |
| `Begin`, `Deadline` | `pushQuorum`; `collectAcks` with its timer |
| `Take`, `Receive`, `RouteAck`, `HandleSyncPush`, `HandleSyncAck` | `runMessageLoop` and its cases |
| `Gossip` | a tick of `runGossip`, which sends in the loop itself |
| `Stop`, `Quit`, `up`, `ended` | `Node.Stop`, the closed `quit` channel, the loops that return |

Go serves those who wait on a channel in turn, so an inbox and its waiting
senders are one queue of which the first `Capacity` places are the channel. The
rest of a message's meaning is left out: a push is answered when the receiver
has a plan, and merges succeed. (To its request a push that fails to merge is
like one that meets a node without a plan: nobody answers, and the deadline
comes.) `AnswersOnTheWay` says why a client may send a request as soon as
its deployment is answered: plans are sent before the answer, by the handler
itself, and a push of a later request stands behind them in every inbox. It
holds while no node has stopped.

### Gateway

| In the module | In the code |
|---|---|
| `BeginDeploy`, `EndDeploy`, `HandleDeploy` | `handleDeploy` with `Initialize` and `PropagatePlan`; the page is replaced last |
| `page` | the swagger document of a gateway, by the program it describes |
| `BeginUpdate`, `BeginQuery`, `WriteBack`, `Count`, `Deadline` | `handleApply`, `handleQuery`, `ApplyDocumentSync`, `QueryDocumentSync` and their phases |
| `Refuse`, `ParseSync`, `Answer`, `status` | every 400, the header `X-Gospr-Sync-Ratio`, `writeOpError`'s statuses |
| `CanonicalDecimal`, `TrimLeft`, `TrimRight`, `Accepts`, `Resolve` | `resolveDocument`, `normalizeDocumentKey`, `canonicalDecimal` |
| `Value`, `AllDigits`, `Number` | the rational that `normalizeDocumentKey` has of a key, in units of 10^-`Digits` |
| `Merge`, `MergeAll`, `Gossip`, `HandleSyncPush`, `HandleSyncPull` | `mergeCollection`, `MergeSnapshot`, the gossip tick and the handlers |

A key is a record of a sign and two sequences of digits, or a word. `Digits` is
the most decimal places any client writes; it bounds no proof, which holds for
every `Digits`. A document
is the set of updates in it. Two gateways may be given different programs: each
node keeps the first one it gets, pushes and pulls between them are dropped
without an answer, and gossip, which carries no fingerprint, is merged document
by document where the receiver's program takes the key. `DocumentsConverge` is
about nodes of the same program even then.

A push or pull, its handling and the counting of its ack are one step, which may
leave the ack uncounted; `SyncQuorum` takes these apart. A push need not be
handled at all, and a pull may have no effect: a merge that fails leaves no more
behind than that. The body of a query never fails (`MethodsSound` of `Methods`),
there is one collection, and links are not cut.

### NumTypes and TypedSlot

A type is a domain (rational or integer) and a sign. A rational is an integer
number of units. `TypedSlot` builds one term, an operator at a time, and keeps
its static type (`typeOf`, `numBin`, `typeOfGuards`, `applyArgs`,
`typeOfReduce`) beside its value in one evaluation. A fold takes in any number
of slots, so it is a loop in the state machine and its type is the fixpoint of
`typeOfReduce`, which is reached after three rounds at most, since a type can
grow three times. `Store` is an update that the builder accepts: it is run with
no further check. `PeersAcceptSlot` says that `wireToSlot`, which does check,
accepts the outcome.

`LooseProducts` allows products of two operands of unknown sign. The code types
these wrongly (section 6), so the passing run and the theorems have it FALSE.

### Terms

| In the module | In the code |
|---|---|
| `ArityOf`, `Resolves`, `BodyResolves`, `MethodResolves` | `builder/resolve.go`: `arityOf`, `resolve`, `resolveFn`, `resolveCombinator` |
| `SubVtype`, `UnifyTypes`, `ApplyArgs`, `FoldType`, `TypeOf` | `builder/checker.go`: `subVtype`, `unify`, `applyArgs`, `typeOfReduce`, `typeOf` with `typeOfGuards` |
| `MethodTyped`, `MethodType`, `ContainsVector` | `checkQueryFn`, `checkCombinatorFn`, `containsVector` |
| `Eval`, `Apply`, `PrimOp`, `Compare`, `RunMethod` | `crdt/vector.go`: `eval`, `apply`, `primOp`, `compareVals`, `evalFuncVal` |

Terms, types and values are records with a kind. These are pure operators, one
clause for each kind of term, so that the three passes over a term stand beside
each other: `MethodsSound` says that what passes the first two does not fail in
the third, although the third checks nothing of what the first two have
promised. A string is known by its place in the order of strings. Functions do
not call each other in circles here; circles are `Builder`'s own functions.

Only the result of a primitive depends on the types of its operands, so a fold's
type settles within a few of the 16 rounds that `typeOfReduce` allows. `unify`
of two vectors takes the first one's type; no harm comes of it, since every
vector within reach of one method has the same type.

### Builder

| In the module | In the code |
|---|---|
| `DeclareTypes`, `BeginType`, `Ref`, `ResolveRef`, `FinishType` | `resolveTypes` and what it calls, in `builder/typereg.go`; `stack` holds the types being resolved |
| `ResolveNames`, `CheckMethods`, `Prove` | the passes of `Build`, in `builder/builder.go`, and the verdict of `prover.Prove` |
| `BeginFn`, `Visit`, `FinishFn` | `inferReturn`, in `builder/checker.go`, with its memo and the set of functions being visited |
| `TypeValue`, `TypeCall`, `VisitCallee`, `Defer`, `Advance` | `typeOf` on the results of a guarded body, one at a time |
| `Evaluate`, `Return` | `eval` and `apply` of `crdt/vector.go`: the program runs, nested calls included |
| `Run`, with `Outcomes` of `Methods` | `Query`, `Apply` and `mergeRemote` of the vector: the method is run on any slots or vector of its type |

`Init` chooses the program: which type refers to which and how, or what each of
two functions returns under each guard, the declared types, the merge and the
updates. A step to `"rejected"` refuses it: for a type or function declared
twice, a type under a reserved name, a reference to an unknown type or of the
wrong kind, a circle of types, a body that does not resolve or does not type, a
function whose return type cannot be inferred or is not the declared one, a
missing merge, a method of the wrong type, and the prover's verdict. Refusals
that look at one declaration by itself, or at two of one name, are left out, as
they only make the set of programs smaller: duplicate fields of a struct
(`resolveFields` of `typereg.go`); functions without parameters, or that shadow
a primitive; duplicate parameters and parameters of unknown types; merges,
queries and updates that are for unknown types or are defined twice; parameters
of methods that are not scalars (`Build`). `TypesResolveRight` is about the
references between types. A program that is built runs, and `ReturnsSound`
compares what a call returns with the type inferred for it. The step to infer a
call of a function that is being inferred is `Defer`: the code skips that result
and takes the type of the others, or fails when there is none
(`ReturnsAnchored`). Skipping is not sound, see section 6, so `ReturnsSound`
leaves out programs with a skipped result (`loose`); `UpdatesFitSlot` does not,
because the prover refuses recursion in everything that reaches a slot.

In the registry, numbers with a sign and one nested type stand for structs,
strings and fields, and one reserved name stands for all; parameter tokens are
left out. A program's functions are of two kinds: those that call each other, of
which only the result types matter, and those of a method, whose bodies are
`Terms`. What the builder makes of terms are constants of `Builder`
(`BodiesResolve`, `BodiesTyped`, `MethodFits`, `Outcomes`), so that its proofs
hold whatever terms are; `Methods` says what they are, and `Builder.cfg` gives
the constants these values. `IsProgram` is what the parser delivers:
declarations in any number that refer to any names, declared or not.

### VectorCRDT

| In the module | In the code |
|---|---|
| `prog`: element type, merge, updates | what `Build` hands to `NewVector`: any functions at all, one update for every choice of its parameters |
| `Closed`, `Semilattice`, `Inflationary` | `checkCombinatorFn` of the checker; the goals of `prover.Prove` |
| `Prove` | `checkGoal`: a goal that does not hold is refused, one that holds is proved or the solver gives up |
| `st[n][s]`, `Absent` | `state` of the vector at `n`, and a missing key |
| `Apply`, `Own`, `Folded`, `Greatest` | `VectorCRDT.Apply`; the fold of a `write` update |
| `Send`, `MergeRemote`, `Combine` | `Snapshot`, `SnapshotWire`; `mergeRemote` |

A snapshot in the air is not consumed by a merge, so it is merged any number of
times, by any nodes and after any others; gossip, pushes and pull answers are
all of that kind. `hist` and `seen` record which updates of its owner a slot
stands for. The merge is by slot, so that what two copies agree on can be said
slot by slot: `SameUpdatesSameState`.

A fold is one that takes a maximum from a start of 0 on; folds that take a
minimum mirror it. The prover assumes of the fold's result only that it bounds
the start and the own slot, and so does `Inflationary`.

### Sandbox

A handler is a goroutine with one request. The lock is Go's read-write lock: a
writer that waits (`owner`, with the program counter at "queued") keeps new
readers out, and gets in when the readers are gone. A cluster is a number; a
reset makes the next one. `pinned`, `has` and `stops` are kept for every
cluster, since goroutines may still act on an old one. The links belong
to the network, which outlives clusters; a reset reconnects them. `cut`
remembers, with each partition, the cluster that was current when it was made,
which the code does not keep and only `NoStalePartition` looks at.
`flight` holds the goroutines of `interceptingPeer.Send` that carry a
deployment, first in their delay and then at the inbox. The messages of
operations are `SyncQuorum`'s; here an operation is one that ends, in time,
under the read lock. `Refuse` is every early return of `handleDeploy` under the
lock: a plan is pinned, or the target is no node of the cluster, which any
request may turn out to be. (`Initialize` returns no error anywhere, so the
branch for one is never taken.)

## 3. Runs

| Run | Question | Bounds |
|---|---|---|
| `SyncQuorum_deploy` | Does success mean replication when the cluster is split between two plans and acks come twice, or while gossip and partitions come and go? | 3 nodes, 2 plans deployed at 2 nodes, one with merges that fail, 1 update at ratio 0, 1/2 or `all`, 1 extra delivery of each ack; gossip and partitions beside ratio 0 (`GossipOrQuorum`) |
| `SyncQuorum_operations` | Does the coordinator implement `QuorumStore`, does a query find what earlier operations left, is no accepted ack dropped, and is each request answered without its timer when nothing is lost and no merge fails? | 3 nodes with one of 2 plans, the second with merges that fail, 1 update, 1 query, each at ratio 0, 1/2 or `all` |
| `SyncQuorum_reads` | Are majority queries linearizable, as documented? **No** | 3 nodes, 1 update, 2 queries, one after the other |
| `Documents` | Do racing first uses of a document lose nothing, count nothing twice, publish nothing empty? | 3 updates (1 rejected), 2 merges, 1 reader |
| `TypedSlot` | Is the static type sound, and do peers accept what accepted updates store? | rationals from -2 to 2 in halves, terms of any length |
| `TypedSlot_products` | The same with products of unknown signs: **no** | the same |
| `Builder` | Is no circle of types and no unanchored recursion ever built, and do built functions, updates and queries never fail and return what their types say? | 3 types with any references; 2 functions of 2 results each that call each other in any way; a method of any kind with one of some 3900 terms, vectors of up to 2 slots |
| `VectorCRDT` | Do nodes converge, and does nothing go down, under every merge and update that is let through? | 3 nodes, 3 values, any merge that could pass and some that do not, 2 updates a node, 1 snapshot in the air |
| `Inboxes` | Is nobody stuck in a send, do stopped nodes come to rest, and are plans there before requests? | 2 nodes, 1 request each way, inboxes of 1 place, one node that may stop |
| `Gateway` | Do statuses tell what happened, is one number one document, does the page show the program, do documents converge? | 2 nodes, 2 deployments of 4 programs, 2 updates, 1 query, keys 0.5, 000.50, 0, -0.0, none and a word, no header, a half, `all` and NaN |
| `Sandbox` | Do operations stay on the current cluster, do deployments agree with the pin and with partitions, and does everything end? | 2 nodes, 2 deployments, 1 operation, 1 reset, 1 link request, 1 shutdown |
| `Sandbox_shutdown` | Is stopping the old cluster race-free, as documented? **No** | 2 nodes, 1 operation, 1 reset, 1 shutdown |

Why the bounds are enough. Three nodes are the least for which a majority is not
everybody, so that two quorums can differ, a peer can be left out and a third
party can carry a slot from one to another. One update and two queries are the
least for which a query can miss what another found. Two plans and two deployers
are the least that split a cluster. One extra copy of an ack is enough to count
a peer twice. Merges fail where a request brings the first node's slot, as after
an update whose slot every peer refuses, and where gossip brings the second
node's; so in `SyncQuorum_operations` pushes go unanswered, pulls throw answers
away, and requests end by their deadline. Acks are not doubled in that run:
`msgs` has no order, so the copies of one ack could hold up another for ever,
which a queue does not. That a doubled ack is not counted twice is
`QuorumReplicated` in `SyncQuorum_deploy`, and `AckAccounting` is proved for any
number of copies. One gossip message per link may be in flight; more would carry
older vectors, which a merge absorbs, and the proofs have no such bound on the
other messages. Gossip and quorum requests meet only in the proofs, and in
`Gateway` with two nodes. In `Inboxes` two nodes whose inboxes hold one message
form the tightest circle there is, and each has a loop, a gossip loop and
carriers that compete for it. In `Gateway` two nodes are the least that disagree
about the program, and the keys cover leading, trailing and single zeros and
both signs of zero. In `Documents` a writer can lose the race to publish against
a writer of its own kind or of the other, before or after its lookup. In
`TypedSlot` the values include integers and proper fractions of both signs and
0, the only things types tell apart; the results of operators that leave the
range are not followed, the theorems have no range. In the sandbox a link joins
two nodes and every peer is sent to separately, so two nodes show each race of a
link with a deployment; the lock and the clusters do not depend on the nodes. In
`Builder` two functions form every kind of circle, and a third type is needed
for one type to be reached in two ways that are no circle; the terms put every
kind of term, well-typed or not, where each kind of value is expected, to a
depth of three with the call of the method's function. In `VectorCRDT` a third
node relays what it got, which is how an old snapshot comes after a newer one
although only one is in the air; three values make chains and merges that are
commutative and idempotent but not associative; two updates at a node make the
first one's copies stale. `ReadsInTurn` narrows the search of `SyncQuorum_reads`
to requests that do not time out and queries that do not overlap, which the
violation needs anyway.

Deadlock is not checked where a run ends: when every request is answered and
every message handled, the modelled system has nothing left to do. That nobody
waits forever is stated as a liveness property instead (`GoroutinesEnd`,
`RequestsNeedNoTimer`, `RequestsFinish`, `NoDeliveryLeaks`).

## 4. Fairness

- `SyncQuorum`: a request goroutine that can go on goes on. Each message loop
  keeps draining its inbox, a channel, which is first in, first out: no message
  waits forever behind newer ones. `msgs` has no order, so this is said of all
  that is not gossip. `RequestsNeedNoTimer` shows what holds without timers, as
  long as no link is cut and no merge that is due would fail (`MergesSucceed`).
  With one that fails a request may well need its deadline
  (`TestSyncAck_distinctPeerCounting` in `node/linearize_test.go`). No
  fairness is assumed of clients, of partitions being repaired, or of a message
  being lost.
- `Inboxes`: goroutines run, and a place in an inbox goes to whoever has waited
  longest. A loop that finds both its channel or ticker and `quit` ready picks
  at random, so it quits in the end: strongly fair for the gossip loop, whose
  ticks may find it in a send. Deadlines come. No fairness is assumed of gossip,
  of clients or of a stop.
- `Gateway`: every node gossips to every other again and again, since it picks
  peers at random at each tick, and every deploy message is handled. Nothing is
  assumed of pushes, pulls, acks or clients.
- `Sandbox`: goroutines that have come in run. Getting hold of the lock is
  strongly fair, since Go's lock serves those who wait in turn. A live node
  drains its inbox; the loop of a stopped one need not, and `NoDeliveryLeaks`
  must hold regardless. Timers fire, and a closed `done` channel is noticed.
  No fairness is assumed of requests coming in or of a shutdown.
- `Builder`: `Build` is one goroutine, which runs until it returns.
- `Documents`, `TypedSlot` and `VectorCRDT` have only safety properties.

## 5. Proofs

The theorems hold for every value of the constants that satisfies the
assumptions the modules name: a finite non-empty set of nodes, any number of
requests, any plans, any ratios from 0 to `all`, any partitions, any failing
merges, any number of extra acks; any finite set of updating goroutines and any
merges and readers; any denominator and any set of rationals; any set of slot
values, any merge and any updates over them, any number of updates and
snapshots; any inboxes of at least one place; any deployments, resets and links;
any keys, whatever their length, and any programs at the gateways; any number of
types and functions.

**`SyncQuorumProofs`**: `TypeCorrect`, `AcksAccountedFor`,
`SuccessIsReplicated`. That a success is replicated is not inductive by itself.
The invariant `IInv` adds what links the parts: `IdsOK`, a request ID is minted
once and no message carries an ID that has not been minted, so an ack of an
earlier phase matches no pending request; `RegistryOK`, the peers seen are other
nodes, and the acks in the channel and those thrown away are different ones, of
peers seen; `AckAccounting`, every peer seen is in the channel, was counted, or
gave an answer that could not be merged, so distinct peers are counted and the
channel of N - 1 places is never full; `PushOK`, an ack in flight, in the
channel or counted for a push stems from a node that runs the coordinator's plan
and stores the snapshot that was pushed. Then the coordinator and the peers seen
are holders, count + 1 of them, and `Reached` is monotone. `HoldersGrow` carries
a quorum through later steps: vectors only grow and a node keeps its plan.

Its second part: `QuorumsOverlap`, `ClusterIsAStore`. Two majorities of one
cluster share a node (`QuorumsMeet`). A query that pulls is, for each earlier
request whose vector it must find, in touch with a set of nodes that all store
that vector and that every quorum of the query meets: each of them that has
answered has told of it, unless its answer could not be merged and did not
count, and every answer under way tells of it (`Finds`, `Gathers`). So when the
query has its quorum, one of the answers it merged had the vector. The rest of
the invariant `SInv` says that a slot's owner leads every copy of the slot
(`OwnersLead`), that a coordinator keeps what it pushed and answered, that no
push carries the ID of a pull, and that what was over stays over. With it every
step maps to a step of `QuorumStore` or to none (`StepRefines`). `NodesCount` is
about the vectors alone and is explained with those of `VectorCRDT`.

**`DocumentsProofs`**: `UpdatesCount`, `MergesStay`, `NeverEmpty`,
`PointersLive`, `VisibleOnlyGrows`. The invariant says that every pointer a
goroutine holds is the published one (`PointersOK`), that a CRDT that is not
published is known to its maker alone (`PrivateOK`) and that a merge in progress
still carries its snapshot, in a private CRDT or by itself (`MergersOK`).

**`TypedSlotProofs`**: `TermsAreSound` and `SlotsAreAccepted`, both under
`~LooseProducts`. Each operator's rule is sound by cases of the signs. The type
of a fold is a fixpoint of `Widen`: a sign can grow twice and a domain once, so
the rounds that `ReduceType` takes cannot all have changed something
(`ReduceFixpoint`); the accumulator of the fold stays in that type from one slot
to the next.

**`VectorCRDTProofs`**: `TypeCorrect`, `CopiesAgree`, `OwnersLead`,
`SlotsOnlyUp`. The invariant ties each copy of a slot, at a node or in the air,
to the history of its owner: a copy that holds i updates is the owner's slot
after i of them (`NodesFaithful`, `SnapshotsFaithful`). It is kept because that
history is a chain in the order of the merge (`Chain`), so merging two copies
gives the one with more updates (`MergeTakesTheLater`); it is a chain because
each update goes up (`UpdateGoesUp`, `FoldSeesOwn`) and the order is transitive
(`BelowTransitive`). Those use the obligations, which an accepted program meets
(`Accepted`). Convergence, that the owner's slot is the join of all its copies,
and that nothing goes down follow from it.

`VectorsCount` and `SlotsAreCounts`, with `NodesCount` of `SyncQuorumProofs`,
are the justification of `SyncQuorum`'s counting of updates in place of slots.
Both modules implement `UpdateCounts`: that a merge takes the larger count is
`Faithful` for the values and `OwnersLead` for the messages of the protocol,
which keep every vector behind the owners. And the counts tell the values: a
slot is what its owner had after that many updates. What the theorems do not
show is that the two modules send each other's snapshots at the same times;
neither restricts which node merges which vector beyond what its messages say.

**`InboxesProofs`**: `TypeCorrect`, `AnswersCome`. Each push and each ack is
carried by a goroutine of its own, which is in one place at a time (`Once`), and
the loops and the deployment wait at one inbox at a time (`WaitsOnce`). The plan
is ahead, in every inbox, of each push of a request that began after the
deployment was answered (`PlanFirst`), so a node that handles such a push has
its plan and answers it.

**`SandboxProofs`**: `TypeCorrect`, `ResetReconnects`, `AdvertisedIsInstalled`.
The argument is the lock's. A writer is alone (`WriterAlone`), so whoever holds
the lock deploys to the cluster that is current (`UsesCurrent`) and a reset is
over, links and all, before the next deployer comes in (`CutsCurrent`). Every
plan at a node or on its way, in an old cluster too, is the one pinned there or
the one of the deployer that is sending it and has found nothing pinned
(`OnePlan`).

**`GatewayProofs`**: `CanonicalDecides`, `TypeCorrect`, `StatusTold`,
`PeersTakeKeys`, `EqualKeysMeet`, `PagesMatch`, `NothingIsLost`. The first part
is about decimals of any length: what trimming takes off are zeros, zeros in
front do not count (`LeadingZeros`), and sequences of digits of one length with
the same value are the same (`SameValue`), so that two canonical decimals of the
same number have the same digits, places and sign (`CanonicalUnique`). The
second part is an invariant of requests, messages and documents: a request has
an input from when it is accepted and a refused one never has (`Stages`); every
document, and every message, is where its program leads (`Stored`, `Addressed`)
and holds accepted updates only; an accepted update is at its coordinator and at
every peer counted (`Applied`), so that the holders are at least as many as the
acks and one more; under one program an update is only where its own key leads
(`KeptApart`); programs and pages stem from deployments (`Programs`).

**`BuilderProofs`**: `TypeCorrect`, `TypesRight`, `ReturnsHaveAnchors`,
`ReturnsAreSound`, `UpdatesKeepSlot`, for programs of any size. The stack of
visits is what the invariants are about. For types (`TypesInv`): each visit's
earlier references are in the registry and its current one is to the next visit,
so a reference back into the stack is a circle (`CircleFound`); the registry is
closed under references, so the type that enters it last is in no circle
(`RegistryGrows`). For functions (`ReturnsInv`): the type so far takes every
result so far, or the result's call was deferred (`Covered`), which is kept
since what is in the memo never changes (`Grows`); a visit leads by calls to
those above it, so a deferred call is part of a circle of calls. A type so far
stems from some anchored result, and a group of functions that gets return types
one by one has one that got it from outside the group or from a declaration
(`AnchoredOK`). What is returned (`RetInv`): a function that leads into no
circle has no deferred call and calls only such functions (`InlinesCallee`), so
its return type holds whether some other call was loose or not; updates are such
functions, because the prover refuses the others. The last two theorems assume
`ProductsKnown`, that no product has an operand besides its call whose sign is
unknown: beyond it the rule for products is wrong (section 6).

`NearerEnds` and `BuildDescends` are why a build ends. What is `Left` of it is
compared in this order: the passes to come, the types or functions not yet
visited (neither finished nor on the stack), the depth of the recursion, the
items left of the visit on top. A pass that is over takes a pass away, a visit
that begins takes a name, one that ends takes the depth, and an item passed over
takes an item (`PassOver`, `VisitBegun`, `VisitOver`, `ItemOver`). The order has
no infinite descent, so no circle of types or calls sends the builder round for
ever.

The proofs about decimals need induction over numbers (`Value` is a recursive
function). It is done by the least element: a set of naturals without a least
element is empty, because `<` is well founded (`LeastElement`, `Induct`).

Only model-checked: what rests on fairness (`RequestsNeedNoTimer`,
`GoroutinesEnd`, `DocumentsConverge`, `PlanSpreads`, `NoDeliveryLeaks`,
`RequestsFinish`, `Terminates`), which the prover does not reach, though the
part of `Terminates` that depends on the program is `BuildDescends`, and
`MethodsSound` of `Methods`: `Terms` evaluates and types terms with RECURSIVE
operators, and what they compute takes induction over terms. `PointersLive`,
`CanonicalDecides`, `NothingIsLost`, `BuildDescends`, `NearerEnds`,
`VectorsCount`, `SlotsAreCounts` and `NodesCount` are proved only: the first is
about what the code's threads hold, the others are about data without bound or
follow from invariants that the runs check, and the runs show their
consequences.

## 6. Where the code and what is said of it differ

1. `QuerySync` is documented as linearizable at majority ratios. Two
   majority queries can go back in time while an update runs, because a query
   answers from its coordinator's own vector, which holds an update of that node
   before it is pushed, and writes back an earlier snapshot
   (`SyncQuorum_reads`). The store is regular (`SyncQuorum_operations`).
2. The product of two numbers of unknown sign is typed as non-negative
   (`TypedSlot_products`): `mulSign` compares the two signs for equality before
   it asks whether they are known. An update built on it is accepted, and its
   slot is then rejected by every peer.
3. A reset in flight at shutdown stops a cluster that has been stopped already,
   which closes a closed channel (`Sandbox_shutdown`).

Besides, without a run: the return type of a function in a circle of calls does
not cover the result that was skipped. With `f` returning `- (g x) 1`, and `g`
returning 0 under one guard and `- (f x) 1` under the other and declared
`int0+`, the program is built and `g` returns negative numbers. No update can
store them, since the prover refuses recursion, but queries can answer with
them. The code says nothing to the contrary, so `ReturnsSound` excludes such
programs.

## 7. Not modelled

- The parser, the swagger generator, `main.go` and the web page: pure
  input and output, with no state that outlives a call.
- The prover's translation of expressions into terms, and z3: its verdict is
  right, or a refusal. The laws it is asked for are in `VectorCRDT`.
- The form of slots on the wire beyond numbers (`slotToWire`, `wireToSlot`), and
  the parsing of parameters from JSON beyond their numeric types.
- Slots of another program's element type that come by gossip, which carries no
  fingerprint. `Merge` takes them without a look (`wireToSlot` checks only what
  pushes and pulls bring), and a merge function or a query may fail on them
  later. Of this only the failing merge is in `SyncQuorum`; documents with
  another program's keys are in `Gateway`. A program with text
  keys that is sent the number 7 as "007" by gossip keeps both spellings, as two
  texts should be.
- Hazards that the code does run into, so that no property denies them: a page
  that shows a second program, which its node ignored (`gateway.go:82`;
  `PageMatchesPlan` is about clusters that are given one program); a node that
  never gets a plan because its link was cut during the deployment
  (`node.go:258`; `PlanSpreads` is about links that stay connected); return types
  in a circle of calls (`checker.go:522`; `ReturnsSound` leaves such programs
  out); foreign slots (`node.go:461`). Of a request to peers that never answer
  (`node.go:868`) it is shown that it ends, by `GoroutinesEnd`, in a cluster of
  one plan whose nodes stop.
- A node's messages in the sandbox beyond deployments; the hub's event stream;
  delays that change while a message waits.
- Recursive functions at run time up to `maxEvalDepth`, beyond what `Builder`'s
  nested calls return.

## 8. Plan

Done: `SyncQuorum` with `QuorumStore` and `UpdateCounts`, `Documents`,
`NumTypes` and `TypedSlot`, `Sandbox`, `Builder`, `VectorCRDT`, `Inboxes`,
`Gateway`, `Terms` with `Methods`, and the proofs listed above, in this order,
the replication protocol first because everything a client is promised rests on
it.

Next, modules: the wire form of structured slots beside `Terms`' types, and the
hub's subscribers.
