------------------------------ MODULE Sandbox -------------------------------
(***************************************************************************)
(* The sandbox server (sandbox/): a swappable cluster of nodes behind a    *)
(* read-write lock, a network of links that outlives every cluster, and    *)
(* the HTTP handlers that deploy, operate, reset and cut links at once.    *)
(*                                                                         *)
(* A handler is a goroutine that serves one request.  Each deployer brings *)
(* a plan of its own, which its name stands for; a program the builder     *)
(* rejects never gets as far as the lock.  Of the messages in flight only  *)
(* those of a deployment are kept; SyncQuorum has the others.              *)
(***************************************************************************)
EXTENDS Integers, FiniteSets

CONSTANTS
  Node,       \* the nodes of every cluster
  Deployer,   \* requests to deploy a plan
  Operator,   \* requests to update, query or show the state of a cluster
  Resetter,   \* requests to reset the sandbox
  Linker,     \* requests to cut or connect a link
  Shutter,    \* the main goroutine, once it shuts the server down
  None        \* no plan, and no handler

Handler == Deployer \cup Operator \cup Resetter \cup Linker \cup Shutter
Cluster == 0..Cardinality(Resetter)
Link == {{n, m} : n, m \in Node} \ {{n} : n \in Node}

ASSUME HandlerAssumption ==
  /\ IsFiniteSet(Resetter) /\ None \notin Handler
  /\ Deployer \cap (Operator \cup Resetter \cup Linker \cup Shutter) = {}
  /\ Operator \cap (Resetter \cup Linker \cup Shutter) = {}
  /\ Resetter \cap (Linker \cup Shutter) = {}
  /\ Linker \cap Shutter = {}

VARIABLES
  current,   \* the cluster handlers find, the last one made
  pinned,    \* pinned[c]: the plan deployed on c
  has,       \* has[c][n]: the plan node n of c runs
  stops,     \* stops[c]: how often c was stopped
  cut,       \* the partitioned links, with the cluster each was cut in
  flight,    \* deploy messages on their way to a node of a cluster
  owner,     \* the handler that holds the lock as a writer, or waits to
  readers,   \* the handlers that hold it as readers
  pc,        \* pc[h]: how far handler h has come
  using,     \* using[h]: the cluster h got hold of
  todo       \* todo[h]: the links a deployer has yet to send its plan over

lockVars == <<owner, readers>>
vars == <<current, pinned, has, stops, cut, flight, lockVars, pc, using, todo>>

Init ==
  /\ current = 0
  /\ pinned = [c \in Cluster |-> None]
  /\ has = [c \in Cluster |-> [n \in Node |-> None]]
  /\ stops = [c \in Cluster |-> 0]
  /\ cut = {}
  /\ flight = {}
  /\ owner = None /\ readers = {}
  /\ pc = [h \in Handler |-> "start"]
  /\ using = [h \in Handler |-> 0]
  /\ todo = [h \in Handler |-> {}]

Goto(h, l) == pc' = [pc EXCEPT ![h] = l]

-----------------------------------------------------------------------------
(* The lock *)

\* A handler gets hold of the current cluster.
Grab(h) == using' = [using EXCEPT ![h] = current]

Release(h) ==
  /\ owner' = IF owner = h THEN None ELSE owner
  /\ readers' = readers \ {h}

\* A request comes in; a deployment has been parsed and built by the time it
\* asks for the lock.
Arrive(h) ==
  /\ h \notin Linker /\ pc[h] = "start"
  /\ Goto(h, "waiting")
  /\ UNCHANGED <<current, pinned, has, stops, cut, flight, lockVars, using, todo>>

\* A writer waits for other writers, and from then on keeps new readers out.
Queue(h) ==
  /\ h \in Deployer \cup Resetter \cup Shutter
  /\ pc[h] = "waiting" /\ owner = None
  /\ owner' = h
  /\ Goto(h, "queued")
  /\ UNCHANGED <<current, pinned, has, stops, cut, flight, readers, using, todo>>

\* Mutant of Lock: a deployment is content with the read lock.
LockShared(h) ==
  /\ pc[h] = "queued" /\ readers \subseteq Deployer
  /\ owner' = IF h \in Deployer THEN None ELSE owner
  /\ readers' = IF h \in Deployer THEN readers \cup {h} ELSE readers
  /\ Grab(h)
  /\ Goto(h, "locked")
  /\ UNCHANGED <<current, pinned, has, stops, cut, flight, todo>>

Lock(h) ==
  /\ pc[h] = "queued" /\ readers = {}
  /\ Grab(h)
  /\ Goto(h, "locked")
  /\ UNCHANGED <<current, pinned, has, stops, cut, flight, lockVars, todo>>

\* Mutant of Operate: the lock is let go once the cluster is known.
OperateUnlocked(h) ==
  /\ h \in Operator /\ pc[h] = "waiting" /\ owner = None
  /\ Grab(h)
  /\ Goto(h, "operating")
  /\ UNCHANGED <<current, pinned, has, stops, cut, flight, lockVars, todo>>

\* withCluster: an update or a query runs under the read lock to its end.
Operate(h) ==
  /\ h \in Operator /\ pc[h] = "waiting" /\ owner = None
  /\ readers' = readers \cup {h}
  /\ Grab(h)
  /\ Goto(h, "operating")
  /\ UNCHANGED <<current, pinned, has, stops, cut, flight, owner, todo>>

\* The operation answers, after its quorum timeout at the latest.
Answer(h) ==
  /\ pc[h] = "operating"
  /\ Release(h)
  /\ Goto(h, "end")
  /\ UNCHANGED <<current, pinned, has, stops, cut, flight, using, todo>>

-----------------------------------------------------------------------------
(* handleDeploy *)

\* Mutant of Refuse: the lock is kept on the early return.
RefuseLocked(h) ==
  /\ h \in Deployer /\ pc[h] = "locked"
  /\ Goto(h, "end")
  /\ UNCHANGED <<current, pinned, has, stops, cut, flight, lockVars, using, todo>>

\* A plan is pinned already, or the request names no node of the cluster; any
\* request may be of that kind.
Refuse(h) ==
  /\ h \in Deployer /\ pc[h] = "locked"
  /\ Release(h)
  /\ Goto(h, "end")
  /\ UNCHANGED <<current, pinned, has, stops, cut, flight, using, todo>>

\* Mutant of Install: the plan is sent to nobody.
InstallUnsent(h) ==
  /\ h \in Deployer /\ pc[h] = "locked"
  /\ pinned[using[h]] = None
  /\ \E n \in Node : has' = [has EXCEPT ![using[h]][n] = IF @ = None THEN h ELSE @]
  /\ Goto(h, "sending")
  /\ UNCHANGED <<current, pinned, stops, cut, flight, lockVars, using, todo>>

\* The plan is installed at the node the request names.
Install(h) ==
  /\ h \in Deployer /\ pc[h] = "locked"
  /\ pinned[using[h]] = None
  /\ \E n \in Node :
       /\ has' = [has EXCEPT ![using[h]][n] = IF @ = None THEN h ELSE @]
       /\ todo' = [todo EXCEPT ![h] = {<<n, m>> : m \in Node \ {n}}]
  /\ Goto(h, "sending")
  /\ UNCHANGED <<current, pinned, stops, cut, flight, lockVars, using>>

Connected(n, m) == \A x \in cut : x.link # {n, m}

\* PropagatePlan sends to one peer after the other; each send looks at its
\* link when its turn comes.
SendPlan(h) ==
  /\ pc[h] = "sending"
  /\ \E e \in todo[h] :
       /\ flight' = IF Connected(e[1], e[2])
                    THEN flight \cup {[cluster |-> using[h], to |-> e[2], plan |-> h,
                                       at |-> "delay"]}
                    ELSE flight
       /\ todo' = [todo EXCEPT ![h] = @ \ {e}]
  /\ UNCHANGED <<current, pinned, has, stops, cut, lockVars, pc, using>>

Pin(h) ==
  /\ pc[h] = "sending" /\ todo[h] = {}
  /\ pinned' = [pinned EXCEPT ![using[h]] = h]
  /\ Release(h)
  /\ Goto(h, "end")
  /\ UNCHANGED <<current, has, stops, cut, flight, using, todo>>

-----------------------------------------------------------------------------
(* reset, shutdown and the network *)

\* Mutant of Swap: the lock is let go before the links are reconnected.
SwapUnlocked(h) ==
  /\ h \in Resetter /\ pc[h] = "locked"
  /\ current' = current + 1
  /\ Release(h)
  /\ Goto(h, "swapped")
  /\ UNCHANGED <<pinned, has, stops, cut, flight, using, todo>>

\* A new cluster is published, ...
Swap(h) ==
  /\ h \in Resetter /\ pc[h] = "locked"
  /\ current' = current + 1
  /\ Goto(h, "swapped")
  /\ UNCHANGED <<pinned, has, stops, cut, flight, lockVars, using, todo>>

\* ... all links are connected, and the lock is let go, ...
Reconnect(h) ==
  /\ pc[h] = "swapped"
  /\ cut' = {}
  /\ Release(h)
  /\ Goto(h, "stopping")
  /\ UNCHANGED <<current, pinned, has, stops, flight, using, todo>>

\* ... and the old cluster is stopped.
StopOld(h) ==
  /\ pc[h] = "stopping"
  /\ stops' = [stops EXCEPT ![using[h]] = @ + 1]
  /\ Goto(h, "end")
  /\ UNCHANGED <<current, pinned, has, cut, flight, lockVars, using, todo>>

\* Run, after an interrupt: handlers in flight are not waited for.
Shutdown(h) ==
  /\ h \in Shutter /\ pc[h] = "locked"
  /\ stops' = [stops EXCEPT ![using[h]] = @ + 1]
  /\ Release(h)
  /\ Goto(h, "end")
  /\ UNCHANGED <<current, pinned, has, cut, flight, using, todo>>

\* A link request does not take the lock of the cluster.
SetLink(h) ==
  /\ h \in Linker /\ pc[h] = "start"
  /\ \E l \in Link :
       cut' = IF \E x \in cut : x.link = l THEN {x \in cut : x.link # l}
              ELSE cut \cup {[link |-> l, when |-> current]}
  /\ Goto(h, "end")
  /\ UNCHANGED <<current, pinned, has, stops, flight, lockVars, using, todo>>

-----------------------------------------------------------------------------
(* The goroutine that delivers a message *)

\* The artificial delay is over.
Fire(m) ==
  /\ m.at = "delay"
  /\ flight' = (flight \ {m}) \cup {[m EXCEPT !.at = "inbox"]}
  /\ UNCHANGED <<current, pinned, has, stops, cut, lockVars, pc, using, todo>>

\* The inbox takes the message, and a node that has no plan installs it; the
\* message loop of a stopped node may not get to it.
Deliver(m) ==
  /\ m.at = "inbox"
  /\ flight' = flight \ {m}
  /\ \/ has' = [has EXCEPT ![m.cluster][m.to] = IF @ = None THEN m.plan ELSE @]
     \/ stops[m.cluster] > 0 /\ UNCHANGED has
  /\ UNCHANGED <<current, pinned, stops, cut, lockVars, pc, using, todo>>

\* Mutant of Abort: only the delay is cut short.
AbortDelay(m) ==
  /\ stops[m.cluster] > 0 /\ m.at = "delay"
  /\ flight' = flight \ {m}
  /\ UNCHANGED <<current, pinned, has, stops, cut, lockVars, pc, using, todo>>

\* The owning cluster is stopped, before or after the delay.
Abort(m) ==
  /\ stops[m.cluster] > 0
  /\ flight' = flight \ {m}
  /\ UNCHANGED <<current, pinned, has, stops, cut, lockVars, pc, using, todo>>

-----------------------------------------------------------------------------
(* The specification *)

Proceed(h) ==
  \/ Queue(h) \/ Lock(h) \/ Operate(h) \/ Answer(h)
  \/ Refuse(h) \/ Install(h) \/ SendPlan(h) \/ Pin(h)
  \/ Swap(h) \/ Reconnect(h) \/ StopOld(h) \/ Shutdown(h)

Next ==
  \/ \E h \in Handler : Arrive(h) \/ Proceed(h) \/ SetLink(h)
  \/ \E m \in flight : Fire(m) \/ Deliver(m) \/ Abort(m)

Spec == Init /\ [][Next]_vars

\* Handlers that have come in run; Queue and Operate are strongly fair since
\* the lock keeps those who wait in order.  A live node drains its inbox, a
\* stopped one need not, and the timer and the done channel always fire.
Fairness ==
  /\ \A h \in Handler : WF_vars(Proceed(h)) /\ SF_vars(Queue(h) \/ Operate(h))
  /\ \A c \in Cluster, n \in Node :
       /\ WF_vars(\E m \in flight : m.cluster = c /\ m.to = n /\ Fire(m))
       /\ WF_vars(\E m \in flight :
                    m.cluster = c /\ m.to = n /\ stops[c] = 0 /\ Deliver(m))
       /\ WF_vars(\E m \in flight : m.cluster = c /\ m.to = n /\ Abort(m))

FairSpec == Spec /\ Fairness

-----------------------------------------------------------------------------
(* Correctness *)

\* Every variable holds a value of its kind; whoever is past the lock as a
\* writer owns it; and an operation runs on the current cluster to its end, so
\* that its answer is never about one that a reset has replaced (withCluster).
TypeOK ==
  /\ current \in Cluster
  /\ pinned \in [Cluster -> Deployer \cup {None}]
  /\ has \in [Cluster -> [Node -> Deployer \cup {None}]]
  /\ stops \in [Cluster -> Nat]
  /\ cut \subseteq [link : Link, when : Cluster]
  /\ flight \subseteq [cluster : Cluster, to : Node, plan : Deployer, at : {"delay", "inbox"}]
  /\ owner \in Handler \cup {None} /\ readers \subseteq Operator
  /\ using \in [Handler -> Cluster]
  /\ todo \in [Handler -> SUBSET (Node \X Node)]
  /\ \A h \in Handler : pc[h] \in {"queued", "locked", "sending", "swapped"} => owner = h
  /\ \A h \in Operator : pc[h] = "operating" => using[h] = current

\* A deployment meets no partition that a reset was meant to clear: each link
\* it finds cut was cut in the cluster it deploys to (reset's comment and
\* TestResetReconnectAtomicWithDeploy).
NoStalePartition ==
  \A h \in Deployer : pc[h] = "sending" => \A x \in cut : x.when = using[h]

\* No node ever runs a plan other than the one its cluster advertises, however
\* deployments race (handleDeploy: "the advertised methods always match what
\* nodes installed").
PinnedIsInstalled ==
  \A c \in Cluster : pinned[c] # None =>
    \A n \in Node : has[c][n] \in {None, pinned[c]}

\* If no link is ever cut, a pinned plan gets to every node in the end, unless
\* the cluster is stopped first (PropagatePlan).
Spread(c) == pinned[c] # None => stops[c] > 0 \/ \A n \in Node : has[c][n] = pinned[c]
PlanSpreads == [](cut = {}) => <>[] \A c \in Cluster : Spread(c)

\* No delivery outlives its cluster for good: whatever was in flight is dropped
\* or taken in, although nobody drains the inboxes of stopped nodes
\* (interceptingPeer).
NoDeliveryLeaks == <>[] \A m \in flight : stops[m.cluster] = 0

\* Every request that comes in is answered: readers, writers and the reset that
\* waits for both never wait for each other in a circle.
RequestsFinish == <>[] \A h \in Handler : pc[h] \in {"start", "end"}

\* What the comment on reset says of stopping the old cluster after the lock
\* is let go: it is race-free, so no cluster is stopped twice (the second stop
\* closes a closed channel).
StoppedOnce == \A c \in Cluster : stops[c] <= 1
=============================================================================
