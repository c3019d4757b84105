----------------------------- MODULE SyncQuorum -----------------------------
(***************************************************************************)
(* A gospr cluster serving one document: deployment of a plan, background  *)
(* gossip, and the synchronous coordinator of node/node.go (ApplySync and  *)
(* QuerySync) with its push, pull and ack messages.                        *)
(*                                                                         *)
(* The document is a vector with one slot per owning node.  Only the owner *)
(* updates its own slot, and every update moves the slot up its lattice,   *)
(* so the values a slot ever takes form a chain: a slot is represented by  *)
(* the number of updates its owner has applied to it, 0 standing for the   *)
(* absent slot, and the merge of two vectors is the pointwise maximum.     *)
(*                                                                         *)
(* An operation is one HTTP request handled by a coordinator, in a         *)
(* goroutine of its own: a write (apply, then push) or a read (pull, push, *)
(* query).  An asynchronous request is an operation of ratio 0, which both *)
(* phases let through without a message.                                   *)
(***************************************************************************)
EXTENDS Integers, FiniteSets

CONSTANTS
  Node,      \* the nodes of the cluster, each the peer of every other one
  Write,     \* the synchronous updates clients issue
  Read,      \* the synchronous queries clients issue
  Plan,      \* the plans clients deploy, one per fingerprint
  NoPlan,    \* the plan of an uninitialized node
  Ratios,    \* the sync ratios clients ask for, in percent
  Failing,   \* the merges that fail: how it came, plan, vector, merged vector
  CutSets,   \* the sets of partitioned links the sandbox may set up
  DeployAt,  \* bound: the nodes clients deploy plans at
  Gossipers, \* bound: the nodes whose gossip loop ticks
  MaxDup     \* bound: the extra deliveries of one ack

All == 100   \* the ratio spelled `all`

ASSUME NodeAssumption == IsFiniteSet(Node) /\ Node # {}
ASSUME OpAssumption == Write \cap Read = {}
ASSUME PlanAssumption == NoPlan \notin Plan
ASSUME RatioAssumption == Ratios \subseteq 0..All
ASSUME CutAssumption == CutSets \subseteq SUBSET SUBSET Node
ASSUME FailingAssumption ==
         Failing \subseteq {"wire", "gossip"} \X Plan \X [Node -> Nat] \X [Node -> Nat]
ASSUME BoundAssumption ==
         DeployAt \subseteq Node /\ Gossipers \subseteq Node /\ MaxDup \in Nat

VARIABLES
  plan,      \* plan[n]: the plan n runs, or NoPlan
  st,        \* st[n]: the vector n stores
  reqSeq,    \* reqSeq[n]: the last request number n minted
  msgs,      \* messages sent and not yet handled
  cut,       \* the partitioned links, each an unordered pair of nodes
  pc,        \* pc[o]: how far operation o has come
  at,        \* at[o]: the node its client sends o to, the coordinator
  ratio,     \* ratio[o]: the sync ratio its client asks for
  rid,       \* rid[o]: the request ID of its current phase
  seen,      \* seen[o]: the peers whose ack was enqueued in this phase
  ch,        \* ch[o]: the acks enqueued and not yet collected
  count,     \* count[o]: the acks collected and counted
  unmerged,  \* history: the acks collected that failed to merge, in this phase
  pushed,    \* pushed[o]: the snapshot its push phase broadcast
  result,    \* result[o]: what o left or found in its coordinator's vector
  before     \* history: the operations that had completed when o began

nodeVars == <<plan, st, reqSeq>>
netVars == <<msgs, cut>>
opVars == <<pc, at, ratio, result, before>>
reqVars == <<rid, seen, ch, count, unmerged, pushed>>
vars == <<nodeVars, netVars, opVars, reqVars>>

Op == Write \cup Read
N == Cardinality(Node)
Peers(n) == Node \ {n}
Deployed(n) == plan[n] # NoPlan

-----------------------------------------------------------------------------
(* Vectors and messages *)

Vector == [Node -> Nat]
Empty == [s \in Node |-> 0]
Join(v, w) == [s \in Node |-> IF v[s] >= w[s] THEN v[s] ELSE w[s]]
Covers(v, w) == \A s \in Node : w[s] <= v[s]

\* holders / N > ratio, and every node for the ratio `all`
Reached(holders, r) ==
  IF r >= All THEN holders >= N ELSE holders * 100 > r * N

\* A vector that comes in a request is refused when one of its slots is not of
\* the plan's element type (wireToSlot); gossip is not looked at.  Either way the
\* plan's merge function may fail on what is there.  An untouched document is
\* merged without a look.
MergeFails(way, n, v) == v # Empty /\ <<way, plan[n], st[n], v>> \in Failing

ReqID == Node \X Nat
PushMsg == [type : {"push"}, from : Node, to : Node, rid : ReqID,
            plan : Plan, snap : Vector]
PullMsg == [type : {"pull"}, from : Node, to : Node, rid : ReqID, plan : Plan]
AckMsg == [type : {"ack"}, from : Node, to : Node, rid : ReqID,
           snap : Vector, copy : 0..MaxDup]
GossipMsg == [type : {"gossip"}, from : Node, to : Node, snap : Vector]
DeployMsg == [type : {"deploy"}, from : Node, to : Node, plan : Plan]
Message == PushMsg \cup PullMsg \cup AckMsg \cup GossipMsg \cup DeployMsg

Push(n, p, r, v) ==
  [type |-> "push", from |-> n, to |-> p, rid |-> r, plan |-> plan[n],
   snap |-> v]
Pull(n, p, r) ==
  [type |-> "pull", from |-> n, to |-> p, rid |-> r, plan |-> plan[n]]
Ack(m, v) ==
  [type |-> "ack", from |-> m.to, to |-> m.from, rid |-> m.rid, snap |-> v,
   copy |-> 0]

-----------------------------------------------------------------------------
(* The synchronous coordinator *)

\* The phases in which the operation has a pending request.
Waiting(o) == pc[o] \in {"pull", "push"}

\* Mint a request ID for o at n and register it with nothing acked.
Register(o, n) ==
  /\ reqSeq' = [reqSeq EXCEPT ![n] = @ + 1]
  /\ rid' = [rid EXCEPT ![o] = <<n, reqSeq[n] + 1>>]

\* Drop the pending request of o.
Cancel(o) ==
  /\ seen' = [seen EXCEPT ![o] = {}]
  /\ ch' = [ch EXCEPT ![o] = {}]
  /\ count' = [count EXCEPT ![o] = 0]
  /\ unmerged' = [unmerged EXCEPT ![o] = {}]

\* Where an operation goes when its push phase succeeds.
AfterPush(o) == IF o \in Write THEN "done" ELSE "query"

\* Mutant of Apply: the update is not refused by a node without a plan.
ApplyUndeployed(o) ==
  LET n == at[o] IN
  /\ o \in Write /\ pc[o] = "idle"
  /\ st' = [st EXCEPT ![n][n] = @ + 1]
  /\ pc' = [pc EXCEPT ![o] = "toPush"]
  /\ result' = [result EXCEPT ![o] = st'[n]]
  /\ UNCHANGED <<plan, reqSeq, netVars, reqVars, at, ratio, before>>

\* applySync: the update is applied at the coordinator before any message.
Apply(o) ==
  LET n == at[o] IN
  /\ o \in Write /\ pc[o] = "idle" /\ Deployed(n)
  /\ st' = [st EXCEPT ![n][n] = @ + 1]
  /\ pc' = [pc EXCEPT ![o] = "toPush"]
  /\ result' = [result EXCEPT ![o] = st'[n]]
  /\ UNCHANGED <<plan, reqSeq, netVars, reqVars, at, ratio, before>>

\* querySync up to the broadcast of its pull phase.
BeginRead(o) ==
  LET n == at[o] IN
  /\ o \in Read /\ pc[o] = "idle" /\ Deployed(n)
  /\ before' = [before EXCEPT ![o] = {w \in Op : pc[w] = "done"}]
  /\ IF Reached(1, ratio[o])
     THEN /\ pc' = [pc EXCEPT ![o] = "toPush"]
          /\ UNCHANGED <<reqSeq, rid, msgs>>
     ELSE /\ pc' = [pc EXCEPT ![o] = "pull"]
          /\ Register(o, n)
          /\ msgs' = msgs \cup {Pull(n, p, rid'[o]) : p \in Peers(n)}
  /\ UNCHANGED <<plan, st, cut, at, ratio, result, seen, ch, count, unmerged,
                 pushed>>

\* Mutant of BeginPush: the snapshot an update pushes is taken before it.
BeginPushStale(o) ==
  LET n == at[o]
      snap == IF o \in Write THEN [st[n] EXCEPT ![n] = @ - 1] ELSE st[n]
  IN
  /\ pc[o] = "toPush"
  /\ IF Reached(1, ratio[o])
     THEN /\ pc' = [pc EXCEPT ![o] = AfterPush(o)]
          /\ UNCHANGED <<reqSeq, rid, msgs, pushed>>
     ELSE /\ pc' = [pc EXCEPT ![o] = "push"]
          /\ pushed' = [pushed EXCEPT ![o] = snap]
          /\ Register(o, n)
          /\ msgs' = msgs \cup {Push(n, p, rid'[o], snap) : p \in Peers(n)}
  /\ UNCHANGED <<plan, st, cut, at, ratio, result, before, seen, ch, count,
                 unmerged>>

\* pushQuorum up to its broadcast.
BeginPush(o) ==
  LET n == at[o] IN
  /\ pc[o] = "toPush"
  /\ IF Reached(1, ratio[o])
     THEN /\ pc' = [pc EXCEPT ![o] = AfterPush(o)]
          /\ UNCHANGED <<reqSeq, rid, msgs, pushed>>
     ELSE /\ pc' = [pc EXCEPT ![o] = "push"]
          /\ pushed' = [pushed EXCEPT ![o] = st[n]]
          /\ Register(o, n)
          /\ msgs' = msgs \cup {Push(n, p, rid'[o], st[n]) : p \in Peers(n)}
  /\ UNCHANGED <<plan, st, cut, at, ratio, result, before, seen, ch, count,
                 unmerged>>

\* Mutant of CollectAck: an ack counts whether its answer could be merged or not.
CollectAckUnmerged(o) ==
  \E a \in ch[o] :
    /\ Waiting(o)
    /\ IF pc[o] = "pull" /\ ~MergeFails("wire", at[o], a.snap)
       THEN st' = [st EXCEPT ![at[o]] = Join(@, a.snap)]
       ELSE UNCHANGED st
    /\ IF Reached(1 + count[o] + 1, ratio[o])
       THEN /\ pc' = [pc EXCEPT ![o] =
                        IF @ = "pull" THEN "toPush" ELSE AfterPush(o)]
            /\ Cancel(o)
       ELSE /\ ch' = [ch EXCEPT ![o] = @ \ {a}]
            /\ count' = [count EXCEPT ![o] = @ + 1]
            /\ UNCHANGED <<pc, seen, unmerged>>
    /\ UNCHANGED <<plan, reqSeq, netVars, at, ratio, result, before,
                   rid, pushed>>

\* collectAcks takes one ack off the channel; the pull phase merges it first.
CollectAck(o) ==
  \E a \in ch[o] :
    /\ Waiting(o)
    /\ pc[o] = "pull" => ~MergeFails("wire", at[o], a.snap)
    /\ IF pc[o] = "pull"
       THEN st' = [st EXCEPT ![at[o]] = Join(@, a.snap)]
       ELSE UNCHANGED st
    /\ IF Reached(1 + count[o] + 1, ratio[o])
       THEN /\ pc' = [pc EXCEPT ![o] =
                        IF @ = "pull" THEN "toPush" ELSE AfterPush(o)]
            /\ Cancel(o)
       ELSE /\ ch' = [ch EXCEPT ![o] = @ \ {a}]
            /\ count' = [count EXCEPT ![o] = @ + 1]
            /\ UNCHANGED <<pc, seen, unmerged>>
    /\ UNCHANGED <<plan, reqSeq, netVars, at, ratio, result, before,
                   rid, pushed>>

\* The pull phase takes an ack off the channel whose answer it cannot merge: it
\* does not count, and its peer stays among those seen.
DiscardAck(o) ==
  \E a \in ch[o] :
    /\ pc[o] = "pull" /\ MergeFails("wire", at[o], a.snap)
    /\ ch' = [ch EXCEPT ![o] = @ \ {a}]
    /\ unmerged' = [unmerged EXCEPT ![o] = @ \cup {a}]
    /\ UNCHANGED <<nodeVars, netVars, opVars, rid, seen, count, pushed>>

\* The phase deadline or the request's own context fires first.
Timeout(o) ==
  /\ Waiting(o)
  /\ pc' = [pc EXCEPT ![o] = "failed"]
  /\ Cancel(o)
  /\ UNCHANGED <<nodeVars, netVars, at, ratio, result, before, rid, pushed>>

\* The read answers from whatever its coordinator stores by then.
Query(o) ==
  /\ pc[o] = "query"
  /\ pc' = [pc EXCEPT ![o] = "done"]
  /\ result' = [result EXCEPT ![o] = st[at[o]]]
  /\ UNCHANGED <<nodeVars, netVars, at, ratio, before, reqVars>>

-----------------------------------------------------------------------------
(* The message loop *)

\* Mutant of HandleSyncPush: any initialized node merges and acks.
HandleSyncPushUngated(m) ==
  /\ m.type = "push"
  /\ IF Deployed(m.to)
     THEN /\ st' = [st EXCEPT ![m.to] = Join(@, m.snap)]
          /\ msgs' = (msgs \ {m}) \cup {Ack(m, Empty)}
     ELSE /\ msgs' = msgs \ {m}
          /\ UNCHANGED st
  /\ UNCHANGED <<plan, reqSeq, cut, opVars, reqVars>>

\* A push is acked by a node that runs the coordinator's plan and has merged it.
HandleSyncPush(m) ==
  /\ m.type = "push"
  /\ IF plan[m.to] = m.plan /\ ~MergeFails("wire", m.to, m.snap)
     THEN /\ st' = [st EXCEPT ![m.to] = Join(@, m.snap)]
          /\ msgs' = (msgs \ {m}) \cup {Ack(m, Empty)}
     ELSE /\ msgs' = msgs \ {m}
          /\ UNCHANGED st
  /\ UNCHANGED <<plan, reqSeq, cut, opVars, reqVars>>

\* Mutant of HandleSyncPull: a node that holds nothing of the document is silent.
HandleSyncPullTouched(m) ==
  /\ m.type = "pull"
  /\ msgs' = (msgs \ {m}) \cup
             (IF plan[m.to] = m.plan /\ st[m.to] # Empty THEN {Ack(m, st[m.to])} ELSE {})
  /\ UNCHANGED <<nodeVars, cut, opVars, reqVars>>

\* A pull is answered with the node's own snapshot, under the same gate.
HandleSyncPull(m) ==
  /\ m.type = "pull"
  /\ msgs' = (msgs \ {m}) \cup
             (IF plan[m.to] = m.plan THEN {Ack(m, st[m.to])} ELSE {})
  /\ UNCHANGED <<nodeVars, cut, opVars, reqVars>>

\* The pending request an ack is for: none when its phase is over.
Pending(m) == {o \in Op : Waiting(o) /\ rid[o] = m.rid}

\* Mutant of HandleSyncAck: the channel has one place less.
HandleSyncAckShortChannel(m) ==
  /\ m.type = "ack"
  /\ msgs' = msgs \ {m}
  /\ LET fresh == {o \in Pending(m) : m.from \notin seen[o]}
         room == {o \in fresh : Cardinality(ch[o]) < N - 2}
     IN  /\ seen' = [o \in Op |-> IF o \in fresh THEN seen[o] \cup {m.from}
                                                  ELSE seen[o]]
         /\ ch' = [o \in Op |-> IF o \in room THEN ch[o] \cup {m}
                                               ELSE ch[o]]
  /\ UNCHANGED <<nodeVars, cut, opVars, rid, count, unmerged, pushed>>

\* The first ack of each peer is enqueued; the channel holds N - 1 of them.
HandleSyncAck(m) ==
  /\ m.type = "ack"
  /\ msgs' = msgs \ {m}
  /\ LET fresh == {o \in Pending(m) : m.from \notin seen[o]}
         room == {o \in fresh : Cardinality(ch[o]) < N - 1}
     IN  /\ seen' = [o \in Op |-> IF o \in fresh THEN seen[o] \cup {m.from}
                                                  ELSE seen[o]]
         /\ ch' = [o \in Op |-> IF o \in room THEN ch[o] \cup {m}
                                               ELSE ch[o]]
  /\ UNCHANGED <<nodeVars, cut, opVars, rid, count, unmerged, pushed>>

\* Gossip is merged by any initialized node, whatever plan it came from.  A merge
\* that fails leaves the vector as it was.
HandleGossip(m) ==
  /\ m.type = "gossip"
  /\ msgs' = msgs \ {m}
  /\ IF Deployed(m.to) /\ ~MergeFails("gossip", m.to, m.snap)
     THEN st' = [st EXCEPT ![m.to] = Join(@, m.snap)]
     ELSE UNCHANGED st
  /\ UNCHANGED <<plan, reqSeq, cut, opVars, reqVars>>

\* A deploy message initializes the node unless it has a plan already.
HandleDeploy(m) ==
  /\ m.type = "deploy"
  /\ msgs' = msgs \ {m}
  /\ plan' = [plan EXCEPT ![m.to] = IF @ = NoPlan THEN m.plan ELSE @]
  /\ UNCHANGED <<st, reqSeq, cut, opVars, reqVars>>

Handle(m) ==
  \/ HandleSyncPush(m) \/ HandleSyncPull(m) \/ HandleSyncAck(m)
  \/ HandleGossip(m) \/ HandleDeploy(m)

\* The message loop of p handles one of the messages n sent it.
Receive(n, p) == \E m \in msgs : m.from = n /\ m.to = p /\ Handle(m)

ReceiveSync(n, p) ==
  \E m \in msgs : m.from = n /\ m.to = p /\ m.type # "gossip" /\ Handle(m)

-----------------------------------------------------------------------------
(* Gossip, deployment and the network *)

\* A tick of n's gossip loop that picks p.  Bound: one gossip per link in
\* flight, where the code allows as many as the inbox of p holds.
Gossip(n, p) ==
  /\ n \in Gossipers /\ Deployed(n) /\ p # n
  /\ ~ \E m \in msgs : m.type = "gossip" /\ m.from = n /\ m.to = p
  /\ msgs' = msgs \cup {[type |-> "gossip", from |-> n, to |-> p,
                         snap |-> st[n]]}
  /\ UNCHANGED <<nodeVars, cut, opVars, reqVars>>

\* A client deploys q at n: n keeps the plan it has, and passes q on anyway.
Deploy(n, q) ==
  /\ n \in DeployAt
  /\ plan' = [plan EXCEPT ![n] = IF @ = NoPlan THEN q ELSE @]
  /\ msgs' = msgs \cup {[type |-> "deploy", from |-> n, to |-> p,
                         plan |-> q] : p \in Peers(n)}
  /\ UNCHANGED <<st, reqSeq, cut, opVars, reqVars>>

\* The sandbox partitions or reconnects links.
SetLinks(c) ==
  /\ cut # c
  /\ cut' = c
  /\ UNCHANGED <<nodeVars, msgs, opVars, reqVars>>

\* A message sent over a partitioned link is lost.  The goroutine that sends it
\* looks at the link when it runs, so a message may meet a later partition.
Lose(m) ==
  /\ {m.from, m.to} \in cut
  /\ msgs' = msgs \ {m}
  /\ UNCHANGED <<nodeVars, cut, opVars, reqVars>>

\* A transport that retries delivers an ack once more.
Duplicate(m) ==
  /\ m.type = "ack" /\ m.copy < MaxDup
  /\ msgs' = msgs \cup {[m EXCEPT !.copy = @ + 1]}
  /\ UNCHANGED <<nodeVars, cut, opVars, reqVars>>

-----------------------------------------------------------------------------
(* The specification *)

InitWith(f) ==
  /\ plan = f
  /\ st = [n \in Node |-> Empty]
  /\ reqSeq = [n \in Node |-> 0]
  /\ msgs = {}
  /\ cut = {}
  /\ pc = [o \in Op |-> "idle"]
  /\ at \in [Op -> Node]
  /\ ratio \in [Op -> Ratios]
  /\ rid = [o \in Op |-> <<at[o], 0>>]
  /\ seen = [o \in Op |-> {}]
  /\ ch = [o \in Op |-> {}]
  /\ count = [o \in Op |-> 0]
  /\ unmerged = [o \in Op |-> {}]
  /\ pushed = [o \in Op |-> Empty]
  /\ result = [o \in Op |-> Empty]
  /\ before = [o \in Op |-> {}]

Init == InitWith([n \in Node |-> NoPlan])

\* What a coordinator's request goroutine does.
Coordinate(o) ==
  \/ Apply(o) \/ BeginRead(o) \/ BeginPush(o)
  \/ CollectAck(o) \/ DiscardAck(o) \/ Query(o)

Next ==
  \/ \E o \in Op : Coordinate(o) \/ Timeout(o)
  \/ \E n, p \in Node : Receive(n, p)
  \/ \E n, p \in Node : Gossip(n, p)
  \/ \E n \in Node, q \in Plan : Deploy(n, q)
  \/ \E c \in CutSets : SetLinks(c)
  \/ \E m \in msgs : Lose(m) \/ Duplicate(m)

Spec == Init /\ [][Next]_vars

\* Goroutines run: a request goroutine that can take a step takes one, and each
\* message loop keeps draining its inbox, which is a queue, so that gossip holds
\* up no other message for ever.
Fairness ==
  /\ \A o \in Op : WF_vars(Coordinate(o))
  /\ \A n, p \in Node : WF_vars(ReceiveSync(n, p))

FairSpec == Spec /\ Fairness

-----------------------------------------------------------------------------
(* Correctness *)

\* Every variable holds a value of its kind, and a phase is open only at a
\* deployed node.
TypeOK ==
  /\ plan \in [Node -> Plan \cup {NoPlan}]
  /\ st \in [Node -> Vector]
  /\ reqSeq \in [Node -> Nat]
  /\ msgs \subseteq Message
  /\ cut \subseteq SUBSET Node
  /\ pc \in [Op -> {"idle", "pull", "toPush", "push", "query", "done", "failed"}]
  /\ at \in [Op -> Node]
  /\ ratio \in [Op -> Ratios]
  /\ rid \in [Op -> ReqID]
  /\ seen \in [Op -> SUBSET Node]
  /\ ch \in [Op -> SUBSET AckMsg]
  /\ count \in [Op -> Nat]
  /\ unmerged \in [Op -> SUBSET AckMsg]
  /\ pushed \in [Op -> Vector]
  /\ result \in [Op -> Vector]
  /\ before \in [Op -> SUBSET Op]
  /\ \A o \in Op : pc[o] # "idle" => Deployed(at[o])

\* The push phase of o is over and it reported success.
Replicated(o) == pc[o] \in {"query", "done"} /\ ~Reached(1, ratio[o])

\* The nodes that run the coordinator's plan and store all that o pushed.
Holders(o) ==
  {n \in Node : plan[n] = plan[at[o]] /\ Covers(st[n], pushed[o])}

\* A write, or the write-back of a read, that reports success is stored by
\* the fraction of nodes its ratio asks for, all of them running the plan of
\* the coordinator: a node with another plan, a late ack of an earlier phase
\* and a second ack of one peer are never counted (pushQuorum, handleSyncPush,
\* handleSyncAck).
QuorumReplicated ==
  \A o \in Op : Replicated(o) => Reached(Cardinality(Holders(o)), ratio[o])

\* Every ack accepted from a distinct peer is in the channel, was counted once,
\* or told of a vector that a pull could not merge: the channel of N - 1 places
\* never drops one, no peer takes two places, and a push loses none
\* (handleSyncAck's comment on the buffer, collectAcks).
AckAccounting ==
  \A o \in Op :
    /\ Cardinality(seen[o]) = Cardinality(ch[o]) + count[o] + Cardinality(unmerged[o])
    /\ unmerged[o] # {} => pc[o] = "pull"

\* A pair of operations the second of which began after the first was over.
Follows(r, o) == r \in Read /\ pc[r] = "done" /\ o \in before[r]
Majority(o) == ratio[o] >= 50

\* A read at a majority ratio finds whatever an earlier operation at a majority
\* ratio replicated, at whichever node each of them ran: their quorums overlap.
\* A read at ratio `all` finds everything an earlier operation applied or
\* answered, even one that was not replicated at all, because it gathers the
\* state of every node (querySync).
ReadsFindEarlier ==
  \A r, o \in Op : Follows(r, o) =>
    /\ Majority(r) /\ Majority(o) => Covers(result[r], pushed[o])
    /\ ratio[r] = All => Covers(result[r], result[o])

\* The claim of the comment on QuerySync that majority ratios give
\* linearizability: a read finds everything an earlier read answered.
ReadsNeverGoBack ==
  \A r, o \in Op : Follows(r, o) /\ o \in Read /\ Majority(r) /\ Majority(o)
                      => Covers(result[r], result[o])

Open(o) == pc[o] \notin {"idle", "done", "failed"}

\* No vector that is waiting to be merged for a request would fail to be.
MergesSucceed ==
  /\ \A m \in msgs : m.type = "push" => ~MergeFails("wire", m.to, m.snap)
  /\ \A o \in Op : pc[o] = "pull" =>
       \A a \in ch[o] : ~MergeFails("wire", at[o], a.snap)

\* While no message is lost, the nodes run one plan and no merge fails, a request
\* is answered without the help of the timers: no ack it needs is dropped,
\* misrouted or left uncounted (handleSyncAck, collectAcks).
RequestsNeedNoTimer ==
  [](cut = {} /\ MergesSucceed) => \A o \in Op : Open(o) ~> ~Open(o)

-----------------------------------------------------------------------------
(* Refinement: the store a cluster implements for its clients *)

\* What a completed operation has left on its quorum.
Kept(o) == IF Reached(1, ratio[o]) THEN result[o] ELSE pushed[o]

\* The join of what the majority operations of S have left.
KeptBy(S) ==
  [s \in Node |-> LET vs == {0} \cup {Kept(o)[s] : o \in {x \in S : Majority(x)}}
                  IN  CHOOSE v \in vs : \A w \in vs : w <= v]

Status(o) ==
  CASE pc[o] \in {"idle", "done", "failed"} -> pc[o]
    [] OTHER -> "open"

Store == INSTANCE QuorumStore WITH
  strong <- {o \in Op : Majority(o)},
  applied <- [s \in Node |-> st[s][s]],
  stable <- KeptBy({o \in Op : pc[o] = "done"}),
  status <- [o \in Op |-> Status(o)],
  floor <- [o \in Op |-> KeptBy(before[o])],
  answer <- result

\* Whatever the messages do, clients see the regular store of QuorumStore: a
\* majority query finds at least what was stable when it began, and a majority
\* update that succeeds is stable (applySync and querySync as their callers
\* see them).
ImplementsStore == Store!Spec
=============================================================================
