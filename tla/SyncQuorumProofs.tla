-------------------------- MODULE SyncQuorumProofs --------------------------
(***************************************************************************)
(* Proofs about SyncQuorum for every cluster, set of requests and set of   *)
(* plans: type correctness, that no ack is lost or counted twice, that a   *)
(* request that reports success is stored by its quorum, that a query      *)
(* finds what earlier requests left on their quorums, and that the cluster *)
(* implements the regular store of QuorumStore.                            *)
(***************************************************************************)
EXTENDS SyncQuorum, FiniteSetTheorems, WellFoundedInduction, TLAPS

-----------------------------------------------------------------------------
(* Vectors and quorums *)

LEMMA EmptyType == Empty \in Vector
  BY DEF Empty, Vector

LEMMA JoinType ==
  ASSUME NEW v \in Vector, NEW w \in Vector
  PROVE  Join(v, w) \in Vector /\ Covers(Join(v, w), v) /\ Covers(Join(v, w), w)
  BY DEF Join, Vector, Covers

LEMMA CoversTrans ==
  ASSUME NEW u \in Vector, NEW v \in Vector, NEW w \in Vector,
         Covers(u, v), Covers(v, w)
  PROVE  Covers(u, w)
  BY DEF Vector, Covers

LEMMA CoversRefl ==
  ASSUME NEW v \in Vector
  PROVE  Covers(v, v)
  BY DEF Vector, Covers

LEMMA NType == N \in Nat \ {0}
  BY NodeAssumption, FS_CardinalityType, FS_EmptySet DEF N

\* More holders never unmake a quorum.
LEMMA ReachedMonotone ==
  ASSUME NEW h \in Nat, NEW k \in Nat, NEW r \in Ratios, h <= k, Reached(h, r)
  PROVE  Reached(k, r)
  <1> r \in 0..100
    BY RatioAssumption DEF All
  <1> QED
    BY NType DEF Reached, All

-----------------------------------------------------------------------------
(* Type correctness *)

LEMMA MessageFields ==
  ASSUME NEW m \in Message
  PROVE  /\ m.from \in Node /\ m.to \in Node
         /\ m.type \in {"push", "pull", "ack"} => m.rid \in ReqID
         /\ m.type \in {"push", "ack", "gossip"} => m.snap \in Vector
         /\ m.type \in {"push", "pull", "deploy"} => m.plan \in Plan
         /\ m.type = "push" => m \in PushMsg
         /\ m.type = "pull" => m \in PullMsg
         /\ m.type = "ack" => m \in AckMsg
         /\ m.type = "gossip" => m \in GossipMsg
         /\ m.type = "deploy" => m \in DeployMsg
  BY DEF Message, PushMsg, PullMsg, AckMsg, GossipMsg, DeployMsg

LEMMA AckType ==
  ASSUME NEW m \in Message, m.type \in {"push", "pull"}, NEW v \in Vector
  PROVE  Ack(m, v) \in AckMsg
  BY MessageFields, BoundAssumption DEF Ack, AckMsg

LEMMA TypeStep == TypeOK /\ [Next]_vars => TypeOK'
  <1> SUFFICES ASSUME TypeOK, [Next]_vars PROVE TypeOK'
    OBVIOUS
  <1> USE DEF TypeOK, nodeVars, netVars, opVars, reqVars, Deployed
  <1>1. UNCHANGED vars => TypeOK'
    BY DEF vars
  <1>2. ASSUME NEW o \in Op, Apply(o) PROVE TypeOK'
    BY <1>2 DEF Apply, Vector
  <1>3. ASSUME NEW o \in Op, NEW n \in Node, Register(o, n)
        PROVE  /\ reqSeq' \in [Node -> Nat] /\ rid' \in [Op -> ReqID]
               /\ rid'[o] \in ReqID
    BY <1>3 DEF Register, ReqID
  <1>4. ASSUME NEW o \in Op, BeginRead(o) PROVE TypeOK'
    <2> DEFINE pulls == {Pull(at[o], p, rid'[o]) : p \in Peers(at[o])}
    <2>1. CASE Reached(1, ratio[o])
      BY <1>4, <2>1 DEF BeginRead
    <2>2. CASE ~Reached(1, ratio[o])
      <3>1. Register(o, at[o]) /\ msgs' = msgs \cup pulls /\ plan[at[o]] \in Plan
        BY <1>4, <2>2 DEF BeginRead
      <3>2. rid'[o] \in ReqID /\ reqSeq' \in [Node -> Nat] /\ rid' \in [Op -> ReqID]
        BY <3>1, <1>3
      <3>3. pulls \subseteq Message
        BY <3>1, <3>2 DEF Pull, Peers, Message, PullMsg
      <3>4. msgs' \subseteq Message
        BY <3>1, <3>3
      <3>5. /\ UNCHANGED <<plan, st, cut, at, ratio, seen, ch, count, unmerged,
                          pushed, result>>
            /\ before' = [before EXCEPT ![o] = {w \in Op : pc[w] = "done"}]
        BY <1>4, <2>2 DEF BeginRead
      <3>6. pc' = [pc EXCEPT ![o] = "pull"] /\ Deployed(at[o])
        BY <1>4, <2>2 DEF BeginRead
      <3> HIDE <1>4 DEF pulls
      <3> QED
        BY <3>2, <3>4, <3>5, <3>6
    <2> QED
      BY <2>1, <2>2
  <1>5. ASSUME NEW o \in Op, BeginPush(o) PROVE TypeOK'
    <2> DEFINE pushes == {Push(at[o], p, rid'[o], st[at[o]]) : p \in Peers(at[o])}
    <2>1. CASE Reached(1, ratio[o])
      BY <1>5, <2>1 DEF BeginPush, AfterPush
    <2>2. CASE ~Reached(1, ratio[o])
      <3>1. Register(o, at[o]) /\ msgs' = msgs \cup pushes /\ plan[at[o]] \in Plan
        BY <1>5, <2>2 DEF BeginPush
      <3>2. rid'[o] \in ReqID /\ reqSeq' \in [Node -> Nat] /\ rid' \in [Op -> ReqID]
        BY <3>1, <1>3
      <3>3. pushes \subseteq Message
        BY <3>1, <3>2 DEF Push, Peers, Message, PushMsg
      <3>4. msgs' \subseteq Message
        BY <3>1, <3>3
      <3>5. /\ UNCHANGED <<plan, st, cut, at, ratio, seen, ch, count, unmerged,
                          result, before>>
            /\ pushed' = [pushed EXCEPT ![o] = st[at[o]]]
        BY <1>5, <2>2 DEF BeginPush
      <3>6. pc' = [pc EXCEPT ![o] = "push"] /\ pc[o] # "idle"
        BY <1>5, <2>2 DEF BeginPush
      <3> HIDE <1>5 DEF pushes
      <3> QED
        BY <3>2, <3>4, <3>5, <3>6
    <2> QED
      BY <2>1, <2>2
  <1>6. ASSUME NEW o \in Op, CollectAck(o) PROVE TypeOK'
    <2>1. PICK a \in ch[o] : CollectAck(o)!(a)
      BY <1>6 DEF CollectAck
    <2>2. a.snap \in Vector
      BY DEF AckMsg
    <2>3. st' \in [Node -> Vector]
      BY <2>1, <2>2, JoinType
    <2>4. UNCHANGED <<plan, reqSeq, msgs, cut, at, ratio, result, before, rid, pushed>>
      BY <2>1
    <2>5. /\ seen' \in [Op -> SUBSET Node] /\ ch' \in [Op -> SUBSET AckMsg]
          /\ count' \in [Op -> Nat] /\ unmerged' \in [Op -> SUBSET AckMsg]
      <3>1. CASE Cancel(o)
        BY <3>1 DEF Cancel
      <3>2. CASE ~Reached(1 + count[o] + 1, ratio[o])
        <4>1. /\ ch' = [ch EXCEPT ![o] = @ \ {a}] /\ UNCHANGED <<seen, unmerged>>
              /\ count' = [count EXCEPT ![o] = @ + 1]
          BY <2>1, <3>2
        <4> HIDE <2>1
        <4> QED
          BY <4>1
      <3> QED
        BY <2>1, <3>1, <3>2
    <2>6. /\ pc' \in [Op -> {"idle", "pull", "toPush", "push", "query", "done", "failed"}]
          /\ \A q \in Op : pc'[q] # "idle" => pc[q] # "idle"
      BY <2>1 DEF AfterPush, Waiting
    <2> QED
      BY <2>3, <2>4, <2>5, <2>6
  <1>7. ASSUME NEW o \in Op, Query(o) \/ DiscardAck(o) PROVE TypeOK'
    BY <1>7 DEF Query, DiscardAck
  <1>8. ASSUME NEW o \in Op, Timeout(o) PROVE TypeOK'
    BY <1>8 DEF Timeout, Cancel, Waiting
  <1>9. ASSUME NEW m \in msgs, HandleSyncPush(m) PROVE TypeOK'
    <2>1. m \in Message /\ m.to \in Node /\ m.snap \in Vector
      BY <1>9, MessageFields DEF HandleSyncPush
    <2>2. Ack(m, Empty) \in Message
      BY <1>9, <2>1, AckType, EmptyType DEF HandleSyncPush, Message
    <2> QED
      BY <1>9, <2>1, <2>2, JoinType DEF HandleSyncPush
  <1>10. ASSUME NEW m \in msgs, HandleSyncPull(m) PROVE TypeOK'
    <2>1. m \in Message /\ m.to \in Node
      BY <1>10, MessageFields DEF HandleSyncPull
    <2>2. Ack(m, st[m.to]) \in Message
      BY <1>10, <2>1, AckType DEF HandleSyncPull, Message
    <2> QED
      BY <1>10, <2>1, <2>2 DEF HandleSyncPull
  <1>11. ASSUME NEW m \in msgs, HandleSyncAck(m) PROVE TypeOK'
    <2>1. m \in AckMsg /\ m.from \in Node
      BY <1>11, MessageFields DEF HandleSyncAck
    <2> QED
      BY <1>11, <2>1 DEF HandleSyncAck
  <1>12. ASSUME NEW m \in msgs, HandleGossip(m) PROVE TypeOK'
    <2>1. m.to \in Node /\ m.snap \in Vector
      BY <1>12, MessageFields DEF HandleGossip
    <2> QED
      BY <1>12, <2>1, JoinType DEF HandleGossip
  <1>13. ASSUME NEW m \in msgs, HandleDeploy(m) PROVE TypeOK'
    <2>1. m.to \in Node /\ m.plan \in Plan
      BY <1>13, MessageFields DEF HandleDeploy
    <2> QED
      BY <1>13, <2>1, PlanAssumption DEF HandleDeploy
  <1>14. ASSUME NEW n \in Node, NEW p \in Node, Gossip(n, p) PROVE TypeOK'
    <2>1. [type |-> "gossip", from |-> n, to |-> p, snap |-> st[n]] \in Message
      BY DEF Message, GossipMsg
    <2> QED
      BY <1>14, <2>1 DEF Gossip
  <1>15. ASSUME NEW n \in Node, NEW q \in Plan, Deploy(n, q) PROVE TypeOK'
    <2>1. {[type |-> "deploy", from |-> n, to |-> p, plan |-> q] : p \in Peers(n)}
            \subseteq Message
      BY DEF Message, DeployMsg, Peers
    <2> QED
      BY <1>15, <2>1, PlanAssumption DEF Deploy
  <1>16. ASSUME NEW c \in CutSets, SetLinks(c) PROVE TypeOK'
    BY <1>16, CutAssumption DEF SetLinks
  <1>17. ASSUME NEW m \in msgs, Lose(m) PROVE TypeOK'
    BY <1>17 DEF Lose
  <1>18. ASSUME NEW m \in msgs, Duplicate(m) PROVE TypeOK'
    <2>1. m \in AckMsg /\ m.copy + 1 \in 0..MaxDup
      BY <1>18, MessageFields, BoundAssumption DEF Duplicate, AckMsg
    <2>2. [m EXCEPT !.copy = @ + 1] \in Message
      BY <2>1 DEF AckMsg, Message
    <2> QED
      BY <1>18, <2>2 DEF Duplicate
  <1> QED
    BY <1>1, <1>2, <1>4, <1>5, <1>6, <1>7, <1>8, <1>9, <1>10, <1>11, <1>12,
       <1>13, <1>14, <1>15, <1>16, <1>17, <1>18
       DEF Next, Coordinate, Receive, Handle

\* Every reachable state is well typed, and requests are begun at nodes with a
\* plan only.
THEOREM TypeCorrect == Spec => []TypeOK
  <1>1. Init => TypeOK
    BY EmptyType DEF Init, InitWith, TypeOK, ReqID, Deployed
  <1> QED
    BY <1>1, TypeStep, PTL DEF Spec

-----------------------------------------------------------------------------
(* Vectors grow and plans stay *)

\* A step never takes anything away from what a node stores, and a node keeps
\* the plan it has.
LEMMA NodesOnlyGrow ==
  ASSUME TypeOK, [Next]_vars, NEW n \in Node
  PROVE  Covers(st'[n], st[n]) /\ (Deployed(n) => plan'[n] = plan[n])
  <1> USE DEF TypeOK, nodeVars, netVars, opVars, reqVars, Deployed
  <1> DEFINE G == Covers(st'[n], st[n]) /\ (Deployed(n) => plan'[n] = plan[n])
  <1>1. st[n] \in Vector /\ Covers(st[n], st[n])
    BY CoversRefl
  <1>2. ASSUME UNCHANGED <<st, plan>> PROVE G
    BY <1>1, <1>2
  <1>3. ASSUME NEW o \in Op, Apply(o) PROVE G
    BY <1>3 DEF Apply, Covers, Vector
  <1>4. ASSUME NEW o \in Op, CollectAck(o) PROVE G
    <2>1. PICK a \in ch[o] : CollectAck(o)!(a)
      BY <1>4 DEF CollectAck
    <2>2. a.snap \in Vector
      BY DEF AckMsg
    <2> QED
      BY <2>1, <2>2, <1>1, JoinType
  <1>5. ASSUME NEW m \in msgs, HandleSyncPush(m) PROVE G
    BY <1>5, <1>1, MessageFields, JoinType DEF HandleSyncPush
  <1>6. ASSUME NEW m \in msgs, HandleGossip(m) PROVE G
    BY <1>6, <1>1, MessageFields, JoinType DEF HandleGossip
  <1>7. ASSUME NEW m \in msgs, HandleDeploy(m) PROVE G
    BY <1>7, <1>1, MessageFields DEF HandleDeploy
  <1>8. ASSUME NEW k \in Node, NEW q \in Plan, Deploy(k, q) PROVE G
    BY <1>8, <1>1 DEF Deploy
  <1>9. ASSUME NEW o \in Op, \/ BeginRead(o) \/ BeginPush(o) \/ DiscardAck(o)
                             \/ Query(o) \/ Timeout(o)
        PROVE  UNCHANGED <<st, plan>>
    BY <1>9 DEF BeginRead, BeginPush, DiscardAck, Query, Timeout
  <1>10. ASSUME NEW m \in msgs,
                HandleSyncPull(m) \/ HandleSyncAck(m) \/ Lose(m) \/ Duplicate(m)
         PROVE  UNCHANGED <<st, plan>>
    BY <1>10 DEF HandleSyncPull, HandleSyncAck, Lose, Duplicate
  <1>11. ASSUME NEW k \in Node, NEW p \in Node, Gossip(k, p)
         PROVE  UNCHANGED <<st, plan>>
    BY <1>11 DEF Gossip
  <1>12. ASSUME NEW c \in CutSets, SetLinks(c) PROVE UNCHANGED <<st, plan>>
    BY <1>12 DEF SetLinks
  <1>13. UNCHANGED vars => UNCHANGED <<st, plan>>
    BY DEF vars
  <1> QED
    BY <1>2, <1>3, <1>4, <1>5, <1>6, <1>7, <1>8, <1>9, <1>10, <1>11, <1>12, <1>13
       DEF Next, Coordinate, Receive, Handle

\* So the holders of what a request pushed stay holders.
LEMMA HoldersGrow ==
  ASSUME TypeOK, TypeOK', [Next]_vars, NEW o \in Op, pc[o] # "idle",
         at' = at, pushed'[o] = pushed[o]
  PROVE  Holders(o) \subseteq Holders(o)'
  <1> SUFFICES ASSUME NEW n \in Node, plan[n] = plan[at[o]], Covers(st[n], pushed[o])
               PROVE  plan'[n] = plan'[at[o]] /\ Covers(st'[n], pushed[o])
    BY DEF Holders
  <1>1. Deployed(at[o]) /\ Deployed(n) /\ at[o] \in Node
    BY DEF TypeOK, Deployed
  <1>2. st[n] \in Vector /\ st'[n] \in Vector /\ pushed[o] \in Vector
    BY DEF TypeOK
  <1> QED
    BY <1>1, <1>2, NodesOnlyGrow, CoversTrans

-----------------------------------------------------------------------------
(* The inductive invariant *)

Sync == {"push", "pull", "ack"}

\* Request IDs: an ID names its coordinator, is no larger than the number the
\* coordinator last minted, and belongs to one waiting request at most; the
\* messages that carry it go between its coordinator and a peer.
IdsOK ==
  /\ \A o \in Op : rid[o][1] = at[o] /\ rid[o][2] <= reqSeq[at[o]]
  /\ \A o, w \in Op : Waiting(o) /\ Waiting(w) /\ rid[o] = rid[w] => o = w
  /\ \A m \in msgs : m.type \in Sync => m.rid[2] <= reqSeq[m.rid[1]]
  /\ \A m \in msgs : m.type \in {"push", "pull"} =>
                       m.from = m.rid[1] /\ m.to # m.rid[1]
  /\ \A m \in msgs : m.type = "ack" => m.from # m.rid[1]

\* The registry: acks in the channel and acks that could not be merged are of
\* peers already seen, the coordinator is not its own peer, and only a waiting
\* request has any.
RegistryOK ==
  \A o \in Op :
    /\ IsFiniteSet(ch[o]) /\ IsFiniteSet(unmerged[o])
    /\ ch[o] \cap unmerged[o] = {}
    /\ \A a \in ch[o] \cup unmerged[o] : a.from \in seen[o]
    /\ at[o] \notin seen[o]
    /\ ~Waiting(o) => seen[o] = {} /\ ch[o] = {} /\ count[o] = 0

\* A pushing request: its coordinator and every peer seen or about to ack hold
\* what it pushed, and the pushes under way carry just that.
PushOK ==
  \A o \in Op : pc[o] = "push" =>
    /\ at[o] \in Holders(o)
    /\ seen[o] \subseteq Holders(o)
    /\ \A m \in msgs : m.type \in Sync /\ m.rid = rid[o] =>
         /\ m.type # "pull"
         /\ m.type = "push" => m.snap = pushed[o] /\ m.plan = plan[at[o]]
         /\ m.type = "ack" => m.from \in Holders(o)

IInv == TypeOK /\ IdsOK /\ RegistryOK /\ AckAccounting /\ PushOK /\ QuorumReplicated

-----------------------------------------------------------------------------
(* Each conjunct is preserved *)

LEMMA IdsStep == TypeOK /\ IdsOK /\ [Next]_vars => IdsOK'
  <1> SUFFICES ASSUME TypeOK, IdsOK, [Next]_vars PROVE IdsOK'
    OBVIOUS
  <1> USE DEF nodeVars, netVars, opVars, reqVars
  \* Requests and counters untouched, at most some request over, and every
  \* message an old one.
  <1>1. ASSUME UNCHANGED <<rid, at, reqSeq>>,
               \A o \in Op : Waiting(o)' => Waiting(o),
               \A m \in msgs' : m.type \in Sync => m \in msgs
        PROVE  IdsOK'
    BY <1>1 DEF IdsOK, Sync
  <1>2. UNCHANGED vars => IdsOK'
    BY <1>1 DEF vars, Waiting
  <1>3. ASSUME NEW o \in Op, Apply(o) PROVE IdsOK'
    BY <1>1, <1>3 DEF Apply, Waiting, TypeOK
  <1>4. ASSUME NEW o \in Op, Register(o, at[o]), UNCHANGED at,
               \A w \in Op \ {o} : Waiting(w)' => Waiting(w),
               \A m \in msgs' \ msgs :
                 /\ m.type \in {"push", "pull"} /\ m.rid = rid'[o]
                 /\ m.from = at[o] /\ m.to # at[o]
        PROVE  IdsOK'
    <2>1. at[o] \in Node /\ rid \in [Op -> ReqID] /\ reqSeq \in [Node -> Nat]
      BY DEF TypeOK
    <2>2. /\ rid' = [rid EXCEPT ![o] = <<at[o], reqSeq[at[o]] + 1>>]
          /\ reqSeq' = [reqSeq EXCEPT ![at[o]] = @ + 1]
      BY <1>4 DEF Register
    <2>3. \A n \in Node :
             reqSeq[n] \in Nat /\ reqSeq'[n] \in Nat /\ reqSeq[n] <= reqSeq'[n]
      BY <2>1, <2>2
    <2>4. rid'[o] = <<at[o], reqSeq[at[o]] + 1>> /\ reqSeq'[at[o]] = reqSeq[at[o]] + 1
      BY <2>1, <2>2
    <2>5. \A w \in Op : w # o => rid'[w] = rid[w] /\ rid[w][2] \in Nat /\ at[w] \in Node
                                /\ rid[w][2] <= reqSeq[at[w]] /\ rid[w][1] = at[w]
      BY <2>1, <2>2 DEF IdsOK, ReqID, TypeOK
    <2>6. \A w \in Op : w # o => rid'[w] # rid'[o]
      BY <2>1, <2>4, <2>5
    <2>7. \A m \in msgs : m.type \in Sync =>
             m.rid[1] \in Node /\ m.rid[2] \in Nat /\ m.rid[2] <= reqSeq[m.rid[1]]
      BY MessageFields DEF TypeOK, IdsOK, Sync, ReqID
    <2>8. \A w \in Op : rid'[w][1] = at'[w] /\ rid'[w][2] <= reqSeq'[at'[w]]
      BY <1>4, <2>1, <2>3, <2>4, <2>5
    <2>9. \A w, x \in Op : Waiting(w)' /\ Waiting(x)' /\ rid'[w] = rid'[x] => w = x
      BY <1>4, <2>5, <2>6 DEF IdsOK
    <2>10. ASSUME NEW m \in msgs', m.type \in Sync PROVE m.rid[2] <= reqSeq'[m.rid[1]]
      <3>1. CASE m \in msgs
        BY <2>3, <2>7, <2>10, <3>1
      <3>2. CASE m \notin msgs
        BY <1>4, <2>1, <2>3, <2>4, <3>2
      <3> QED
        BY <3>1, <3>2
    <2> QED
      BY <1>4, <2>4, <2>8, <2>9, <2>10 DEF IdsOK
  <1>5. ASSUME NEW o \in Op, BeginRead(o) PROVE IdsOK'
    <2>1. CASE Reached(1, ratio[o])
      BY <1>1, <1>5, <2>1 DEF BeginRead, Waiting, TypeOK
    <2>2. CASE ~Reached(1, ratio[o])
      BY <1>4, <1>5, <2>2 DEF BeginRead, Waiting, Pull, Peers, TypeOK
    <2> QED
      BY <2>1, <2>2
  <1>6. ASSUME NEW o \in Op, BeginPush(o) PROVE IdsOK'
    <2>1. CASE Reached(1, ratio[o])
      BY <1>1, <1>6, <2>1 DEF BeginPush, AfterPush, Waiting, TypeOK
    <2>2. CASE ~Reached(1, ratio[o])
      BY <1>4, <1>6, <2>2 DEF BeginPush, Waiting, Push, Peers, TypeOK
    <2> QED
      BY <2>1, <2>2
  <1>7. ASSUME NEW o \in Op, CollectAck(o) PROVE IdsOK'
    BY <1>1, <1>7 DEF CollectAck, Waiting, AfterPush, TypeOK
  <1>8. ASSUME NEW o \in Op, DiscardAck(o) \/ Query(o) \/ Timeout(o) PROVE IdsOK'
    BY <1>1, <1>8 DEF DiscardAck, Query, Timeout, Waiting, TypeOK
  \* A node answers a push or a pull.
  <1>9. ASSUME NEW m \in msgs, NEW v \in Vector, m.type \in {"push", "pull"},
               UNCHANGED <<rid, at, reqSeq, pc>>,
               \A k \in msgs' : k.type \in Sync => k \in msgs \/ k = Ack(m, v)
        PROVE  IdsOK'
    BY <1>9 DEF IdsOK, Sync, Ack, Waiting
  <1>10. ASSUME NEW m \in msgs, HandleSyncPush(m) PROVE IdsOK'
    BY <1>9, <1>10, EmptyType DEF HandleSyncPush
  <1>11. ASSUME NEW m \in msgs, HandleSyncPull(m) PROVE IdsOK'
    <2>1. st[m.to] \in Vector
      BY MessageFields DEF TypeOK
    <2> QED
      BY <1>9, <1>11, <2>1 DEF HandleSyncPull
  <1>12. ASSUME NEW m \in msgs,
                \/ HandleSyncAck(m) \/ HandleGossip(m) \/ HandleDeploy(m) \/ Lose(m)
         PROVE  IdsOK'
    BY <1>1, <1>12 DEF HandleSyncAck, HandleGossip, HandleDeploy, Lose, Waiting
  <1>13. ASSUME NEW n \in Node, NEW p \in Node, Gossip(n, p) PROVE IdsOK'
    BY <1>1, <1>13 DEF Gossip, Waiting, Sync
  <1>14. ASSUME NEW n \in Node, NEW q \in Plan, Deploy(n, q) PROVE IdsOK'
    BY <1>1, <1>14 DEF Deploy, Waiting, Sync
  <1>15. ASSUME NEW c \in CutSets, SetLinks(c) PROVE IdsOK'
    BY <1>1, <1>15 DEF SetLinks, Waiting
  <1>16. ASSUME NEW m \in msgs, Duplicate(m) PROVE IdsOK'
    <2>1. m \in AckMsg
      BY <1>16, MessageFields DEF Duplicate, TypeOK
    <2>2. PICK k : /\ k.type = "ack" /\ k.rid = m.rid /\ k.from = m.from
                   /\ msgs' = msgs \cup {k}
      BY <1>16, <2>1 DEF Duplicate, AckMsg
    <2>3. UNCHANGED <<rid, at, reqSeq, pc>> /\ m.type = "ack"
      BY <1>16 DEF Duplicate
    <2> QED
      BY <2>2, <2>3 DEF IdsOK, Sync, Waiting
  <1> QED
    BY <1>2, <1>3, <1>5, <1>6, <1>7, <1>8, <1>10, <1>11, <1>12, <1>13, <1>14,
       <1>15, <1>16
       DEF Next, Coordinate, Receive, Handle

\* The channel has room for the first ack of every peer.
LEMMA ChannelHasRoom ==
  ASSUME TypeOK, IdsOK, RegistryOK, AckAccounting, NEW m \in msgs, m.type = "ack",
         NEW o \in Pending(m), m.from \notin seen[o]
  PROVE  Cardinality(ch[o]) < N - 1
  <1>1. /\ o \in Op /\ at[o] \in Node /\ seen[o] \in SUBSET (Node \ {at[o]})
        /\ m.from \in Node \ {at[o]} /\ count[o] \in Nat
    BY MessageFields DEF Pending, IdsOK, TypeOK, RegistryOK
  <1>2. IsFiniteSet(Node \ {at[o]}) /\ Cardinality(Node \ {at[o]}) = N - 1
    BY <1>1, NodeAssumption, FS_RemoveElement DEF N
  <1>3. IsFiniteSet(seen[o]) /\ IsFiniteSet(ch[o]) /\ IsFiniteSet(unmerged[o])
    BY <1>1, <1>2, FS_Subset DEF RegistryOK
  <1>4. /\ Cardinality(seen[o]) \in Nat /\ Cardinality(ch[o]) \in Nat
        /\ Cardinality(unmerged[o]) \in Nat
    BY <1>3, FS_CardinalityType
  <1>5. Cardinality(seen[o] \cup {m.from}) = Cardinality(seen[o]) + 1
    BY <1>3, FS_AddElement
  <1>6. Cardinality(seen[o] \cup {m.from}) <= N - 1
    BY <1>1, <1>2, FS_Subset
  <1>7. Cardinality(ch[o]) <= Cardinality(seen[o])
    BY <1>1, <1>4 DEF AckAccounting
  <1> QED
    BY <1>4, <1>5, <1>6, <1>7, NType

LEMMA RegistryStep ==
  ASSUME TypeOK, IdsOK, RegistryOK, AckAccounting, [Next]_vars
  PROVE  RegistryOK' /\ AckAccounting'
  <1> USE DEF nodeVars, netVars, opVars, reqVars
  <1> DEFINE G == RegistryOK' /\ AckAccounting'
  <1>0. ASSUME NEW o \in Op
        PROVE  /\ IsFiniteSet(seen[o]) /\ seen[o] \in SUBSET (Node \ {at[o]})
               /\ Cardinality(seen[o]) \in Nat /\ Cardinality(ch[o]) \in Nat
               /\ count[o] \in Nat /\ Cardinality(unmerged[o]) \in Nat
    <2>1. seen[o] \in SUBSET Node /\ count[o] \in Nat
      BY DEF TypeOK
    <2>2. IsFiniteSet(seen[o])
      BY <2>1, NodeAssumption, FS_Subset
    <2> QED
      BY <2>1, <2>2, FS_CardinalityType DEF RegistryOK
  <1>1. ASSUME UNCHANGED <<at, seen, ch, count, unmerged>>,
               \A o \in Op : Waiting(o) => pc'[o] = pc[o]
        PROVE  G
    BY <1>1 DEF RegistryOK, AckAccounting, Waiting
  <1>2. UNCHANGED vars => G
    BY <1>1 DEF vars, Waiting
  \* A request moves on that had nothing pending.
  <1>3. ASSUME NEW o \in Op, ~Waiting(o), NEW s, pc' = [pc EXCEPT ![o] = s],
               UNCHANGED <<at, seen, ch, count, unmerged>>
        PROVE  G
    <2>1. \A w \in Op : Waiting(w) => pc'[w] = pc[w]
      BY <1>3 DEF Waiting, TypeOK
    <2> QED
      BY <1>1, <1>3, <2>1
  <1>12. ASSUME NEW o \in Op, Apply(o) PROVE G
    BY <1>3, <1>12 DEF Apply, Waiting
  <1>13. ASSUME NEW o \in Op, BeginRead(o) PROVE G
    <2>1. ~Waiting(o) /\ UNCHANGED <<at, seen, ch, count, unmerged>>
      BY <1>13 DEF BeginRead, Waiting
    <2>2. \E s \in {"toPush", "pull"} : pc' = [pc EXCEPT ![o] = s]
      BY <1>13 DEF BeginRead
    <2> QED
      BY <1>3, <2>1, <2>2
  <1>14. ASSUME NEW o \in Op, BeginPush(o) PROVE G
    <2>1. ~Waiting(o) /\ UNCHANGED <<at, seen, ch, count, unmerged>>
      BY <1>14 DEF BeginPush, Waiting
    <2>2. \E s \in {AfterPush(o), "push"} : pc' = [pc EXCEPT ![o] = s]
      BY <1>14 DEF BeginPush
    <2> QED
      BY <1>3, <2>1, <2>2
  <1>15. ASSUME NEW o \in Op, Query(o) PROVE G
    BY <1>3, <1>15 DEF Query, Waiting
  \* The phase of o is over.
  <1>4. ASSUME NEW o \in Op, Cancel(o), UNCHANGED at,
               \A w \in Op \ {o} : pc'[w] = pc[w]
        PROVE  G
    <2>1. /\ seen'[o] = {} /\ ch'[o] = {} /\ count'[o] = 0 /\ unmerged'[o] = {}
          /\ \A w \in Op \ {o} :
               /\ seen'[w] = seen[w] /\ ch'[w] = ch[w]
               /\ count'[w] = count[w] /\ unmerged'[w] = unmerged[w]
      BY <1>4 DEF Cancel, TypeOK
    <2>2. IsFiniteSet({}) /\ Cardinality({}) = 0
      BY FS_EmptySet
    <2>3. RegistryOK'
      BY <1>4, <2>1, <2>2 DEF RegistryOK, Waiting
    <2>4. ASSUME NEW w \in Op
          PROVE  /\ Cardinality(seen'[w])
                      = Cardinality(ch'[w]) + count'[w] + Cardinality(unmerged'[w])
                 /\ unmerged'[w] # {} => pc'[w] = "pull"
      <3>1. CASE w = o
        BY <2>1, <2>2, <3>1
      <3>2. CASE w # o
        BY <1>4, <2>1, <3>2 DEF AckAccounting
      <3> QED
        BY <3>1, <3>2
    <2>5. AckAccounting'
      BY <2>4 DEF AckAccounting
    <2> QED
      BY <2>3, <2>5
  <1>5. ASSUME NEW o \in Op, Timeout(o) PROVE G
    BY <1>4, <1>5 DEF Timeout, TypeOK
  \* One ack leaves the channel, and is counted or could not be merged.
  <1>16. ASSUME NEW o \in Op, NEW a \in ch[o], Waiting(o),
                UNCHANGED <<pc, at, seen>>,
                ch' = [ch EXCEPT ![o] = @ \ {a}],
                \/ /\ count' = [count EXCEPT ![o] = @ + 1]
                   /\ UNCHANGED unmerged
                \/ /\ pc[o] = "pull"
                   /\ unmerged' = [unmerged EXCEPT ![o] = @ \cup {a}]
                   /\ UNCHANGED count
         PROVE  G
    <2>1. /\ ch'[o] = ch[o] \ {a}
          /\ \/ count'[o] = count[o] + 1 /\ unmerged'[o] = unmerged[o]
             \/ /\ count'[o] = count[o] /\ unmerged'[o] = unmerged[o] \cup {a}
                /\ pc[o] = "pull"
          /\ \A w \in Op \ {o} : /\ ch'[w] = ch[w] /\ count'[w] = count[w]
                               /\ unmerged'[w] = unmerged[w]
      BY <1>16 DEF TypeOK
    <2>2. /\ IsFiniteSet(ch[o] \ {a}) /\ IsFiniteSet(unmerged[o] \cup {a})
          /\ Cardinality(ch[o] \ {a}) = Cardinality(ch[o]) - 1
          /\ Cardinality(unmerged[o] \cup {a}) = Cardinality(unmerged[o]) + 1
      <3>1. IsFiniteSet(ch[o]) /\ IsFiniteSet(unmerged[o]) /\ a \notin unmerged[o]
        BY DEF RegistryOK
      <3> QED
        BY <3>1, FS_RemoveElement, FS_AddElement
    <2>3. Cardinality(seen[o]) = Cardinality(ch[o]) + count[o] + Cardinality(unmerged[o])
      BY DEF AckAccounting
    <2>4. Cardinality(seen'[o])
            = Cardinality(ch'[o]) + count'[o] + Cardinality(unmerged'[o])
      <3>1. /\ Cardinality(ch'[o]) = Cardinality(ch[o]) - 1
            /\ Cardinality(seen'[o]) = Cardinality(seen[o])
            /\ \/ /\ count'[o] = count[o] + 1
                  /\ Cardinality(unmerged'[o]) = Cardinality(unmerged[o])
               \/ /\ count'[o] = count[o]
                  /\ Cardinality(unmerged'[o]) = Cardinality(unmerged[o]) + 1
        BY <1>16, <2>1, <2>2
      <3> QED
        BY <3>1, <2>3, <1>0
    <2>5. /\ IsFiniteSet(ch'[o]) /\ IsFiniteSet(unmerged'[o])
          /\ ch'[o] \cap unmerged'[o] = {}
          /\ \A b \in ch'[o] \cup unmerged'[o] : b.from \in seen'[o]
          /\ at'[o] \notin seen'[o] /\ Waiting(o)'
      BY <1>16, <2>1, <2>2 DEF RegistryOK, Waiting
    <2>6. RegistryOK'
      BY <1>16, <2>1, <2>5 DEF RegistryOK, Waiting
    <2>7. unmerged'[o] # {} => pc'[o] = "pull"
      BY <1>16, <2>1 DEF AckAccounting
    <2>8. AckAccounting'
      BY <1>16, <2>1, <2>4, <2>7 DEF AckAccounting
    <2> QED
      BY <2>6, <2>8
  <1>6. ASSUME NEW o \in Op, CollectAck(o) PROVE G
    <2>1. PICK a \in ch[o] : CollectAck(o)!(a)
      BY <1>6 DEF CollectAck
    <2>2. CASE Reached(1 + count[o] + 1, ratio[o])
      BY <1>4, <2>1, <2>2 DEF TypeOK
    <2>3. CASE ~Reached(1 + count[o] + 1, ratio[o])
      BY <1>16, <2>1, <2>3
    <2> QED
      BY <2>2, <2>3
  <1>17. ASSUME NEW o \in Op, DiscardAck(o) PROVE G
    <2>1. PICK a \in ch[o] : DiscardAck(o)!(a)
      BY <1>17 DEF DiscardAck
    <2> QED
      BY <1>16, <2>1 DEF Waiting
  <1>7. ASSUME NEW m \in msgs, HandleSyncAck(m) PROVE G
    <2> DEFINE fresh == {o \in Pending(m) : m.from \notin seen[o]}
               room == {o \in fresh : Cardinality(ch[o]) < N - 1}
    <2>1. /\ seen' = [o \in Op |-> IF o \in fresh THEN seen[o] \cup {m.from}
                                                  ELSE seen[o]]
          /\ ch' = [o \in Op |-> IF o \in room THEN ch[o] \cup {m} ELSE ch[o]]
          /\ UNCHANGED <<pc, at, count, unmerged>>
      BY <1>7 DEF HandleSyncAck
    <2>2. ASSUME NEW o \in fresh
          PROVE  /\ o \in Op /\ Waiting(o) /\ m.from \in Node \ {at[o]}
                 /\ m.from \notin seen[o] /\ m \notin ch[o] \cup unmerged[o]
      BY <1>7, MessageFields DEF HandleSyncAck, Pending, IdsOK, TypeOK, RegistryOK
    \* The channel has room for every ack that gets this far.
    <2>3. ASSUME NEW o \in fresh PROVE o \in room
      BY <1>7, ChannelHasRoom DEF HandleSyncAck
    <2>4. ASSUME NEW o \in fresh
          PROVE  /\ IsFiniteSet(ch[o] \cup {m})
                 /\ Cardinality(ch[o] \cup {m}) = Cardinality(ch[o]) + 1
                 /\ Cardinality(seen[o] \cup {m.from}) = Cardinality(seen[o]) + 1
      BY <1>0, <2>2, FS_AddElement DEF RegistryOK
    <2>5. ASSUME NEW o \in Op
          PROVE  /\ IsFiniteSet(ch'[o]) /\ IsFiniteSet(unmerged'[o])
                 /\ ch'[o] \cap unmerged'[o] = {}
                 /\ \A a \in ch'[o] \cup unmerged'[o] : a.from \in seen'[o]
                 /\ at'[o] \notin seen'[o]
                 /\ ~Waiting(o)' => seen'[o] = {} /\ ch'[o] = {} /\ count'[o] = 0
                 /\ Cardinality(seen'[o])
                      = Cardinality(ch'[o]) + count'[o] + Cardinality(unmerged'[o])
                 /\ unmerged'[o] # {} => pc'[o] = "pull"
      <3>1. CASE o \in fresh
        <4>1. /\ seen'[o] = seen[o] \cup {m.from} /\ ch'[o] = ch[o] \cup {m}
              /\ UNCHANGED <<pc, at, count, unmerged>>
          BY <2>1, <2>3, <3>1
        <4>2. /\ Cardinality(seen[o])
                   = Cardinality(ch[o]) + count[o] + Cardinality(unmerged[o])
              /\ unmerged[o] # {} => pc[o] = "pull"
          BY DEF AckAccounting
        <4>3. Cardinality(seen'[o])
                = Cardinality(ch'[o]) + count'[o] + Cardinality(unmerged'[o])
          BY <4>1, <4>2, <1>0, <2>4, <3>1
        <4>4. Waiting(o)'
          BY <4>1, <2>2, <3>1 DEF Waiting
        <4>5. /\ \A a \in ch'[o] \cup unmerged'[o] : a.from \in seen'[o]
              /\ ch'[o] \cap unmerged'[o] = {} /\ IsFiniteSet(unmerged'[o])
          BY <4>1, <2>2, <3>1 DEF RegistryOK
        <4>6. at'[o] \notin seen'[o]
          BY <4>1, <2>2, <3>1 DEF RegistryOK
        <4> QED
          BY <4>1, <4>2, <4>3, <4>4, <4>5, <4>6, <2>4, <3>1
      <3>2. CASE o \notin fresh
        BY <2>1, <3>2 DEF RegistryOK, AckAccounting, Waiting
      <3> QED
        BY <3>1, <3>2
    <2> QED
      BY <2>5 DEF RegistryOK, AckAccounting
  <1>8. ASSUME NEW m \in msgs,
               \/ HandleSyncPush(m) \/ HandleSyncPull(m) \/ HandleGossip(m)
               \/ HandleDeploy(m) \/ Lose(m) \/ Duplicate(m)
        PROVE  G
    BY <1>1, <1>8 DEF HandleSyncPush, HandleSyncPull, HandleGossip, HandleDeploy,
                      Lose, Duplicate, Waiting
  <1>9. ASSUME NEW n \in Node, NEW p \in Node, Gossip(n, p) PROVE G
    BY <1>1, <1>9 DEF Gossip, Waiting
  <1>10. ASSUME NEW n \in Node, NEW q \in Plan, Deploy(n, q) PROVE G
    BY <1>1, <1>10 DEF Deploy, Waiting
  <1>11. ASSUME NEW c \in CutSets, SetLinks(c) PROVE G
    BY <1>1, <1>11 DEF SetLinks, Waiting
  <1> QED
    BY <1>2, <1>5, <1>6, <1>7, <1>8, <1>9, <1>10, <1>11, <1>12, <1>13, <1>14,
       <1>15, <1>17
       DEF Next, Coordinate, Receive, Handle

\* A pushing request keeps its holders, whatever the step.
LEMMA PushKeepsHolders ==
  ASSUME TypeOK, TypeOK', [Next]_vars, NEW o \in Op, pc[o] # "idle",
         at' = at, pushed'[o] = pushed[o]
  PROVE  /\ Holders(o) \subseteq Holders(o)' /\ plan'[at[o]] = plan[at[o]]
  <1>1. at[o] \in Node /\ Deployed(at[o])
    BY DEF TypeOK
  <1> QED
    BY <1>1, HoldersGrow, NodesOnlyGrow

LEMMA PushStep ==
  ASSUME TypeOK, TypeOK', IdsOK, RegistryOK, PushOK, [Next]_vars
  PROVE  PushOK'
  <1> USE DEF nodeVars, netVars, opVars, reqVars
  \* No request starts pushing, peers seen are holders, and a new message that
  \* is not gossip or deployment is the ack of a holder.
  <1>1. ASSUME UNCHANGED <<at, rid, pushed>>,
               \A o \in Op : pc'[o] = "push" =>
                  pc[o] = "push" /\ seen'[o] \subseteq Holders(o)',
               \A k \in msgs' : k.type \in Sync =>
                  \/ k \in msgs
                  \/ /\ k.type = "ack"
                     /\ \A o \in Op : pc[o] = "push" /\ k.rid = rid[o] =>
                                        k.from \in Holders(o)'
        PROVE  PushOK'
    <2> SUFFICES ASSUME NEW o \in Op, pc'[o] = "push"
                 PROVE  /\ at[o] \in Holders(o)' /\ seen'[o] \subseteq Holders(o)'
                        /\ \A k \in msgs' : k.type \in Sync /\ k.rid = rid[o] =>
                             /\ k.type # "pull"
                             /\ k.type = "push" =>
                                  k.snap = pushed[o] /\ k.plan = plan'[at[o]]
                             /\ k.type = "ack" => k.from \in Holders(o)'
      BY <1>1 DEF PushOK
    <2>1. pc[o] = "push" /\ seen'[o] \subseteq Holders(o)'
      BY <1>1
    <2>2. Holders(o) \subseteq Holders(o)' /\ plan'[at[o]] = plan[at[o]]
      BY <1>1, <2>1, PushKeepsHolders
    <2>3. at[o] \in Holders(o)'
      BY <2>1, <2>2 DEF PushOK
    <2>4. ASSUME NEW k \in msgs', k.type \in Sync, k.rid = rid[o]
          PROVE  /\ k.type # "pull"
                 /\ k.type = "push" => k.snap = pushed[o] /\ k.plan = plan'[at[o]]
                 /\ k.type = "ack" => k.from \in Holders(o)'
      <3>1. CASE k \in msgs
        BY <2>1, <2>2, <2>4, <3>1 DEF PushOK
      <3>2. CASE k \notin msgs
        BY <1>1, <2>1, <2>4, <3>2
      <3> QED
        BY <3>1, <3>2
    <2> QED
      BY <2>1, <2>3, <2>4
  \* The same when the peers seen are no more than before.
  <1>2. ASSUME UNCHANGED <<at, rid, pushed>>,
               \A o \in Op : pc'[o] = "push" =>
                  pc[o] = "push" /\ seen'[o] \subseteq seen[o],
               \A k \in msgs' : k.type \in Sync => k \in msgs
        PROVE  PushOK'
    <2>1. ASSUME NEW o \in Op, pc'[o] = "push"
          PROVE  pc[o] = "push" /\ seen'[o] \subseteq Holders(o)'
      <3>1. pc[o] = "push" /\ seen'[o] \subseteq seen[o]
        BY <1>2, <2>1
      <3>2. Holders(o) \subseteq Holders(o)'
        BY <1>2, <3>1, PushKeepsHolders
      <3> QED
        BY <3>1, <3>2 DEF PushOK
    <2> QED
      BY <1>1, <1>2, <2>1
  <1>3. UNCHANGED vars => PushOK'
    BY <1>2 DEF vars
  <1>4. ASSUME NEW o \in Op, Apply(o) PROVE PushOK'
    BY <1>2, <1>4 DEF Apply, TypeOK
  <1>5. ASSUME NEW o \in Op, CollectAck(o) PROVE PushOK'
    <2>1. PICK a \in ch[o] : CollectAck(o)!(a)
      BY <1>5 DEF CollectAck
    <2>2. CASE Reached(1 + count[o] + 1, ratio[o])
      BY <1>2, <2>1, <2>2 DEF Cancel, AfterPush, TypeOK
    <2>3. CASE ~Reached(1 + count[o] + 1, ratio[o])
      BY <1>2, <2>1, <2>3
    <2> QED
      BY <2>2, <2>3
  <1>6. ASSUME NEW o \in Op, Timeout(o) PROVE PushOK'
    BY <1>2, <1>6 DEF Timeout, Cancel, TypeOK
  <1>7. ASSUME NEW o \in Op, Query(o) \/ DiscardAck(o) PROVE PushOK'
    BY <1>2, <1>7 DEF Query, DiscardAck, TypeOK
  <1>8. ASSUME NEW m \in msgs,
               HandleGossip(m) \/ HandleDeploy(m) \/ Lose(m)
        PROVE  PushOK'
    BY <1>2, <1>8 DEF HandleGossip, HandleDeploy, Lose
  <1>9. ASSUME NEW n \in Node, NEW p \in Node, Gossip(n, p) PROVE PushOK'
    BY <1>2, <1>9 DEF Gossip, Sync
  <1>10. ASSUME NEW n \in Node, NEW q \in Plan, Deploy(n, q) PROVE PushOK'
    BY <1>2, <1>10 DEF Deploy, Sync
  <1>11. ASSUME NEW c \in CutSets, SetLinks(c) PROVE PushOK'
    BY <1>2, <1>11 DEF SetLinks
  <1>12. ASSUME NEW o \in Op, BeginRead(o) PROVE PushOK'
    <2>1. CASE Reached(1, ratio[o])
      BY <1>2, <1>12, <2>1 DEF BeginRead, TypeOK
    <2>2. CASE ~Reached(1, ratio[o])
      <3>1. /\ Register(o, at[o]) /\ pc' = [pc EXCEPT ![o] = "pull"]
            /\ msgs' = msgs \cup {Pull(at[o], p, rid'[o]) : p \in Peers(at[o])}
            /\ UNCHANGED <<plan, st, at, pushed, seen>>
        BY <1>12, <2>2 DEF BeginRead
      <3>2. ASSUME NEW w \in Op, pc'[w] = "push"
            PROVE  w # o /\ pc[w] = "push" /\ rid'[w] = rid[w] /\ rid'[o] # rid[w]
        <4>1. w # o /\ pc[w] = "push"
          BY <3>1, <3>2 DEF TypeOK
        <4> QED
          BY <3>1, <4>1 DEF Register, IdsOK, TypeOK, ReqID
      <3>3. ASSUME NEW w \in Op, pc'[w] = "push",
                   NEW k \in msgs', k.type \in Sync, k.rid = rid[w]
            PROVE  k \in msgs
        BY <3>1, <3>2, <3>3 DEF Pull
      <3> QED
        BY <3>1, <3>2, <3>3 DEF PushOK, Holders
    <2> QED
      BY <2>1, <2>2
  <1>13. ASSUME NEW o \in Op, BeginPush(o) PROVE PushOK'
    <2>1. CASE Reached(1, ratio[o])
      BY <1>2, <1>13, <2>1 DEF BeginPush, AfterPush, TypeOK
    <2>2. CASE ~Reached(1, ratio[o])
      <3> DEFINE n == at[o]
      <3>1. /\ Register(o, n) /\ pc' = [pc EXCEPT ![o] = "push"]
            /\ msgs' = msgs \cup {Push(n, p, rid'[o], st[n]) : p \in Peers(n)}
            /\ pushed' = [pushed EXCEPT ![o] = st[n]]
            /\ UNCHANGED <<plan, st, at, seen>>
            /\ ~Waiting(o)
        BY <1>13, <2>2 DEF BeginPush, Waiting
      <3>2. ASSUME NEW w \in Op, w # o, pc'[w] = "push"
            PROVE  /\ pc[w] = "push" /\ rid'[w] = rid[w] /\ rid'[o] # rid[w]
                   /\ pushed'[w] = pushed[w]
        <4>1. pc[w] = "push" /\ pushed'[w] = pushed[w]
          BY <3>1, <3>2 DEF TypeOK
        <4> QED
          BY <3>1, <3>2, <4>1 DEF Register, IdsOK, TypeOK, ReqID
      <3>3. ASSUME NEW w \in Op, w # o, pc'[w] = "push",
                   NEW k \in msgs', k.type \in Sync, k.rid = rid[w]
            PROVE  k \in msgs
        BY <3>1, <3>2, <3>3 DEF Push
      \* No old message carries the request ID just minted.
      <3>4. ASSUME NEW k \in msgs', k.type \in Sync, k.rid = rid'[o]
            PROVE  k.type = "push" /\ k.snap = st[n] /\ k.plan = plan[n]
        <4>1. rid'[o] = <<n, reqSeq[n] + 1>> /\ reqSeq[n] \in Nat
          BY <3>1 DEF Register, TypeOK
        <4>2. k \notin msgs
          BY <3>4, <4>1 DEF IdsOK
        <4> QED
          BY <3>1, <4>2 DEF Push
      <3>5. pushed'[o] = st[n] /\ seen'[o] = {} /\ n \in Holders(o)'
        BY <3>1, CoversRefl DEF RegistryOK, Holders, TypeOK
      <3>6. ASSUME NEW w \in Op, pc'[w] = "push"
            PROVE  /\ at'[w] \in Holders(w)' /\ seen'[w] \subseteq Holders(w)'
                   /\ \A k \in msgs' : k.type \in Sync /\ k.rid = rid'[w] =>
                        /\ k.type # "pull"
                        /\ k.type = "push" =>
                             k.snap = pushed'[w] /\ k.plan = plan'[at'[w]]
                        /\ k.type = "ack" => k.from \in Holders(w)'
        <4>1. CASE w = o
          BY <3>1, <3>4, <3>5, <4>1
        <4>2. CASE w # o
          BY <3>1, <3>2, <3>3, <3>6, <4>2 DEF PushOK, Holders
        <4> QED
          BY <4>1, <4>2
      <3> QED
        BY <3>6 DEF PushOK
    <2> QED
      BY <2>1, <2>2
  <1>14. ASSUME NEW m \in msgs, HandleSyncPush(m) PROVE PushOK'
    <2>1. UNCHANGED <<plan, at, rid, pushed, pc, seen>> /\ m.type = "push"
      BY <1>14 DEF HandleSyncPush
    <2> DEFINE merged == plan[m.to] = m.plan /\ ~MergeFails("wire", m.to, m.snap)
    <2>2. CASE ~merged
      BY <1>2, <1>14, <2>1, <2>2 DEF HandleSyncPush
    <2>3. CASE merged
      <3>1. /\ st' = [st EXCEPT ![m.to] = Join(@, m.snap)]
            /\ msgs' = (msgs \ {m}) \cup {Ack(m, Empty)}
        BY <1>14, <2>3 DEF HandleSyncPush
      <3>2. ASSUME NEW o \in Op, pc[o] = "push", m.rid = rid[o]
            PROVE  m.to \in Holders(o)'
        <4>1. m.snap = pushed[o] /\ m.plan = plan[at[o]]
          BY <2>1, <3>2 DEF PushOK, Sync
        <4>2. m.to \in Node /\ m.snap \in Vector /\ st[m.to] \in Vector
          BY <2>1, MessageFields DEF TypeOK
        <4>3. Covers(st'[m.to], pushed[o])
          BY <3>1, <4>1, <4>2, JoinType DEF TypeOK
        <4> QED
          BY <2>1, <2>3, <4>1, <4>2, <4>3 DEF Holders
      <3>3. ASSUME NEW o \in Op, pc'[o] = "push"
            PROVE  pc[o] = "push" /\ seen'[o] \subseteq Holders(o)'
        BY <2>1, <3>3, PushKeepsHolders DEF PushOK
      <3> QED
        BY <1>1, <2>1, <3>1, <3>2, <3>3 DEF Ack
    <2> QED
      BY <2>2, <2>3
  <1>15. ASSUME NEW m \in msgs, HandleSyncPull(m) PROVE PushOK'
    <2>1. /\ UNCHANGED <<plan, st, at, rid, pushed, pc, seen>> /\ m.type = "pull"
          /\ msgs' = (msgs \ {m}) \cup
                     (IF plan[m.to] = m.plan THEN {Ack(m, st[m.to])} ELSE {})
      BY <1>15 DEF HandleSyncPull
    <2>2. \A o \in Op : pc[o] = "push" => m.rid # rid[o]
      BY <2>1 DEF PushOK, Sync
    <2>3. ASSUME NEW o \in Op, pc'[o] = "push"
          PROVE  pc[o] = "push" /\ seen'[o] \subseteq Holders(o)'
      BY <2>1, <2>3, PushKeepsHolders DEF PushOK
    <2> QED
      BY <1>1, <2>1, <2>2, <2>3 DEF Ack
  <1>16. ASSUME NEW m \in msgs, HandleSyncAck(m) PROVE PushOK'
    <2>1. /\ UNCHANGED <<at, rid, pushed, pc>> /\ m.type = "ack"
          /\ msgs' \subseteq msgs
          /\ \A o \in Op : \/ seen'[o] = seen[o]
                           \/ rid[o] = m.rid /\ seen'[o] = seen[o] \cup {m.from}
      BY <1>16 DEF HandleSyncAck, Pending
    <2>2. ASSUME NEW o \in Op, pc'[o] = "push"
          PROVE  pc[o] = "push" /\ seen'[o] \subseteq Holders(o)'
      <3>1. pc[o] = "push"
        BY <2>1, <2>2
      <3>2. Holders(o) \subseteq Holders(o)'
        BY <2>1, <3>1, PushKeepsHolders
      <3> QED
        BY <2>1, <3>1, <3>2 DEF PushOK, Sync
    <2> QED
      BY <1>1, <2>1, <2>2
  <1>17. ASSUME NEW m \in msgs, Duplicate(m) PROVE PushOK'
    <2>1. m \in AckMsg
      BY <1>17, MessageFields DEF Duplicate, TypeOK
    <2>2. PICK k : /\ k.type = "ack" /\ k.rid = m.rid /\ k.from = m.from
                   /\ msgs' = msgs \cup {k}
      BY <1>17, <2>1 DEF Duplicate, AckMsg
    <2>3. UNCHANGED <<at, rid, pushed, pc, seen>> /\ m.type = "ack"
      BY <1>17 DEF Duplicate
    <2>4. ASSUME NEW o \in Op, pc[o] = "push"
          PROVE  /\ seen'[o] \subseteq Holders(o)'
                 /\ m.rid = rid[o] => m.from \in Holders(o)'
      BY <2>3, <2>4, PushKeepsHolders DEF PushOK, Sync
    <2> QED
      BY <1>1, <2>2, <2>3, <2>4
  <1> QED
    BY <1>3, <1>4, <1>5, <1>6, <1>7, <1>8, <1>9, <1>10, <1>11, <1>12, <1>13,
       <1>14, <1>15, <1>16, <1>17
       DEF Next, Coordinate, Receive, Handle

LEMMA QuorumStep ==
  ASSUME TypeOK, TypeOK', RegistryOK, AckAccounting, PushOK, QuorumReplicated,
         [Next]_vars
  PROVE  QuorumReplicated'
  <1> USE DEF nodeVars, netVars, opVars, reqVars
  <1>0. ASSUME NEW o \in Op
        PROVE  IsFiniteSet(Holders(o)') /\ Cardinality(Holders(o)') \in Nat
    <2>1. Holders(o)' \subseteq Node
      BY DEF Holders
    <2> QED
      BY <2>1, NodeAssumption, FS_Subset, FS_CardinalityType
  \* Nothing new is reported replicated.
  <1>1. ASSUME UNCHANGED <<at, ratio>>,
               \A o \in Op : Replicated(o)' => Replicated(o) /\ pushed'[o] = pushed[o]
        PROVE  QuorumReplicated'
    <2> SUFFICES ASSUME NEW o \in Op, Replicated(o)'
                 PROVE  Reached(Cardinality(Holders(o)'), ratio[o])
      BY <1>1 DEF QuorumReplicated
    <2>1. /\ Reached(Cardinality(Holders(o)), ratio[o])
          /\ pc[o] # "idle" /\ pushed'[o] = pushed[o]
      BY <1>1 DEF QuorumReplicated, Replicated
    <2>2. Holders(o) \subseteq Holders(o)'
      BY <1>1, <2>1, PushKeepsHolders
    <2>3. /\ Cardinality(Holders(o)) \in Nat
          /\ Cardinality(Holders(o)) <= Cardinality(Holders(o)')
      BY <1>0, <2>2, FS_Subset, FS_CardinalityType
    <2>4. ratio[o] \in Ratios
      BY DEF TypeOK
    <2> QED
      BY <1>0, <2>1, <2>3, <2>4, ReachedMonotone
  <1>2. UNCHANGED vars => QuorumReplicated'
    BY <1>1 DEF vars, Replicated
  <1>3. ASSUME NEW o \in Op, Apply(o) \/ Timeout(o) PROVE QuorumReplicated'
    BY <1>1, <1>3 DEF Apply, Timeout, Replicated, TypeOK
  <1>4. ASSUME NEW o \in Op, BeginRead(o) PROVE QuorumReplicated'
    BY <1>1, <1>4 DEF BeginRead, Replicated, TypeOK
  <1>5. ASSUME NEW o \in Op, BeginPush(o) PROVE QuorumReplicated'
    <2>1. UNCHANGED <<at, ratio>> /\ pc[o] = "toPush"
      BY <1>5 DEF BeginPush
    <2>2. ASSUME NEW w \in Op, Replicated(w)'
          PROVE  Replicated(w) /\ pushed'[w] = pushed[w]
      BY <1>5, <2>2 DEF BeginPush, Replicated, TypeOK
    <2> QED
      BY <1>1, <2>1, <2>2
  <1>6. ASSUME NEW o \in Op, Query(o) \/ DiscardAck(o) PROVE QuorumReplicated'
    BY <1>1, <1>6 DEF Query, DiscardAck, Replicated, TypeOK
  <1>7. ASSUME NEW o \in Op, CollectAck(o) PROVE QuorumReplicated'
    <2>1. PICK a \in ch[o] : CollectAck(o)!(a)
      BY <1>7 DEF CollectAck
    <2>2. UNCHANGED <<at, ratio, pushed>>
      BY <2>1
    <2>3. CASE ~Reached(1 + count[o] + 1, ratio[o])
      BY <1>1, <2>1, <2>2, <2>3 DEF Replicated
    <2>4. CASE pc[o] = "pull" /\ Reached(1 + count[o] + 1, ratio[o])
      <3>1. pc' = [pc EXCEPT ![o] = "toPush"]
        BY <2>1, <2>4
      <3> QED
        BY <1>1, <2>2, <3>1 DEF Replicated, TypeOK
    \* The push phase succeeds: the coordinator and the peers seen are holders.
    <2>5. CASE pc[o] = "push" /\ Reached(1 + count[o] + 1, ratio[o])
      <3>1. pc' = [pc EXCEPT ![o] = AfterPush(o)]
        BY <2>1, <2>5
      <3>2. ASSUME NEW w \in Op, w # o, Replicated(w)'
            PROVE  Reached(Cardinality(Holders(w)'), ratio[w])
        <4>1. Replicated(w)
          BY <2>2, <3>1, <3>2 DEF Replicated, TypeOK
        <4>2. Holders(w) \subseteq Holders(w)'
          BY <2>2, <4>1, PushKeepsHolders DEF Replicated
        <4>3. /\ Cardinality(Holders(w)) \in Nat
              /\ Cardinality(Holders(w)) <= Cardinality(Holders(w)')
          BY <1>0, <4>2, FS_Subset, FS_CardinalityType
        <4>4. ratio[w] \in Ratios /\ Reached(Cardinality(Holders(w)), ratio[w])
          BY <4>1 DEF TypeOK, QuorumReplicated
        <4> QED
          BY <1>0, <4>3, <4>4, ReachedMonotone
      <3>3. Reached(Cardinality(Holders(o)'), ratio[o])
        <4>1. Holders(o) \subseteq Holders(o)'
          BY <2>2, <2>5, PushKeepsHolders
        <4>2. seen[o] \cup {at[o]} \subseteq Holders(o)'
          BY <2>5, <4>1 DEF PushOK
        <4>3. IsFiniteSet(seen[o])
          <5>1. seen[o] \subseteq Node
            BY DEF TypeOK
          <5> QED
            BY <5>1, NodeAssumption, FS_Subset
        <4>4. /\ Cardinality(seen[o] \cup {at[o]}) = Cardinality(seen[o]) + 1
              /\ Cardinality(seen[o]) \in Nat
          BY <4>3, FS_AddElement, FS_CardinalityType DEF RegistryOK
        <4>5. Cardinality(seen[o] \cup {at[o]}) <= Cardinality(Holders(o)')
          BY <1>0, <4>2, FS_Subset
        <4>6. /\ Cardinality(ch[o]) \in Nat \ {0} /\ count[o] \in Nat
              /\ Cardinality(unmerged[o]) = 0
          BY <2>5, FS_CardinalityType, FS_EmptySet
             DEF RegistryOK, AckAccounting, TypeOK
        <4>7. Cardinality(seen[o]) = Cardinality(ch[o]) + count[o]
          BY <4>4, <4>6 DEF AckAccounting
        <4>8. 1 + count[o] + 1 <= Cardinality(Holders(o)')
          BY <1>0, <4>4, <4>5, <4>6, <4>7
        <4>9. ratio[o] \in Ratios /\ 1 + count[o] + 1 \in Nat
          BY <4>6 DEF TypeOK
        <4> QED
          BY <1>0, <2>5, <4>8, <4>9, ReachedMonotone
      <3> QED
        BY <2>2, <3>2, <3>3 DEF QuorumReplicated
    <2>6. Waiting(o)
      BY <2>1
    <2> QED
      BY <2>3, <2>4, <2>5, <2>6 DEF Waiting
  <1>8. ASSUME NEW m \in msgs, Handle(m) \/ Lose(m) \/ Duplicate(m)
        PROVE  QuorumReplicated'
    <2>1. UNCHANGED <<at, ratio, pc, pushed>>
      BY <1>8 DEF Handle, HandleSyncPush, HandleSyncPull, HandleSyncAck,
                  HandleGossip, HandleDeploy, Lose, Duplicate
    <2> QED
      BY <1>1, <2>1 DEF Replicated
  <1>9. ASSUME NEW n \in Node, NEW p \in Node, Gossip(n, p) PROVE QuorumReplicated'
    BY <1>1, <1>9 DEF Gossip, Replicated
  <1>10. ASSUME NEW n \in Node, NEW q \in Plan, Deploy(n, q) PROVE QuorumReplicated'
    BY <1>1, <1>10 DEF Deploy, Replicated
  <1>11. ASSUME NEW c \in CutSets, SetLinks(c) PROVE QuorumReplicated'
    BY <1>1, <1>11 DEF SetLinks, Replicated
  <1> QED
    BY <1>2, <1>3, <1>4, <1>5, <1>6, <1>7, <1>8, <1>9, <1>10, <1>11
       DEF Next, Coordinate, Receive

-----------------------------------------------------------------------------
(* The theorems *)

LEMMA InductiveInvariant == Spec => []IInv
  <1>1. Init => IInv
    <2> SUFFICES ASSUME Init PROVE IInv
      OBVIOUS
    <2>1. TypeOK
      BY EmptyType DEF Init, InitWith, TypeOK, ReqID, Deployed
    <2>2. IdsOK
      BY DEF Init, InitWith, IdsOK, Waiting
    <2>3. RegistryOK /\ AckAccounting
      BY FS_EmptySet DEF Init, InitWith, RegistryOK, AckAccounting
    <2>4. PushOK /\ QuorumReplicated
      BY DEF Init, InitWith, PushOK, QuorumReplicated, Replicated
    <2> QED
      BY <2>1, <2>2, <2>3, <2>4 DEF IInv
  <1>2. IInv /\ [Next]_vars => IInv'
    BY TypeStep, IdsStep, RegistryStep, PushStep, QuorumStep DEF IInv
  <1> QED
    BY <1>1, <1>2, PTL DEF Spec

\* In a cluster of any size, with any number of requests at each coordinator,
\* lost messages, repeated acks and merges that fail: every ack accepted is in
\* the channel or was taken off it once, and then it counted unless it told a
\* pull of a vector that could not be merged.
THEOREM AcksAccountedFor == Spec => []AckAccounting
  BY InductiveInvariant, PTL DEF IInv

\* Success means a quorum: a request that reports success at any ratio is
\* stored, merged, at the fraction of nodes its ratio asks for, each of them
\* running the coordinator's plan.
THEOREM SuccessIsReplicated == Spec => []QuorumReplicated
  BY InductiveInvariant, PTL DEF IInv


-----------------------------------------------------------------------------
(* What the clients see: the inductive invariant, beyond the one above *)

\* What every slot's owner has applied.
Applied == [s \in Node |-> st[s][s]]

\* The owner of a slot is ahead of every copy of it, stored or under way.
OwnersLead ==
  /\ \A n \in Node : Covers(Applied, st[n])
  /\ \A m \in msgs : m.type \in {"push", "ack", "gossip"} =>
                       Covers(Applied, m.snap)
  /\ \A o \in Op : \A a \in ch[o] : Covers(Applied, a.snap)

\* A coordinator keeps what it pushed and what it answered.
CoordinatorKeeps ==
  \A o \in Op : /\ Covers(st[at[o]], pushed[o])
                /\ Covers(st[at[o]], result[o])

\* An update pushes what it left, unless it needs no peer.
UpdatesPushed ==
  \A o \in Op :
    /\ Reached(1, ratio[o]) => pushed[o] = Empty /\ ~Waiting(o)
    /\ o \in Write /\ ~Reached(1, ratio[o]) /\ pc[o] \in {"push", "done"} =>
         Covers(pushed[o], result[o])
    /\ o \in Write => pc[o] \notin {"pull", "query"}

\* No push carries the request ID of a pull.
PullsApart ==
  \A o \in Op : pc[o] = "pull" =>
    \A m \in msgs : m.type = "push" => m.rid # rid[o]

\* History: what was over when a query began is over for good.
BeforeOver == \A r \in Op : \A o \in before[r] : o \in Op /\ pc[o] = "done"

\* What query r is to find of request o, which was over when r began.
Owed(r, o) ==
  (IF Majority(r) /\ Majority(o) THEN {pushed[o]} ELSE {})
    \cup (IF ratio[r] = All THEN {result[o]} ELSE {})

\* H is a set of nodes that store v, one of them in every quorum of r.
Stores(H, v) == \A n \in H : Covers(st[n], v)
Meets(H, r) ==
  \A G \in SUBSET Node : Reached(Cardinality(G), ratio[r]) => G \cap H # {}

\* Each node of H that r's pull has heard from has told it of v, in an answer
\* that is merged, not yet looked at or could not be merged, and each of its
\* answers under way tells of v.
Gathers(r, H, v) ==
  /\ \A n \in H \cap (seen[r] \cup {at[r]}) :
       \/ Covers(st[at[r]], v)
       \/ \E a \in ch[r] \cup unmerged[r] : a.from = n /\ Covers(a.snap, v)
  /\ \A m \in msgs : m.type = "ack" /\ m.rid = rid[r] /\ m.from \in H =>
                       Covers(m.snap, v)

\* A pulling query is about to find v, then has it, then says so.
Finds(r, v) ==
  /\ pc[r] = "pull" =>
       \E H \in SUBSET Node : Stores(H, v) /\ Meets(H, r) /\ Gathers(r, H, v)
  /\ pc[r] \in {"toPush", "push", "query"} => Covers(st[at[r]], v)
  /\ pc[r] = "done" => Covers(result[r], v)

ReadsFind ==
  \A r \in Read : \A o \in before[r] : \A v \in Owed(r, o) : Finds(r, v)

SInv == /\ IInv /\ OwnersLead /\ CoordinatorKeeps /\ UpdatesPushed
        /\ PullsApart /\ BeforeOver /\ ReadsFind

-----------------------------------------------------------------------------
(* Quorums *)

\* Two quorums of majority ratios share a node.
LEMMA QuorumsMeet ==
  ASSUME NEW x \in Ratios, NEW y \in Ratios, x >= 50, y >= 50,
         NEW G \in SUBSET Node, NEW H \in SUBSET Node,
         Reached(Cardinality(G), x), Reached(Cardinality(H), y)
  PROVE  G \cap H # {}
  <1>1. IsFiniteSet(G) /\ IsFiniteSet(H) /\ IsFiniteSet(Node)
    BY NodeAssumption, FS_Subset
  <1>2. Cardinality(G) \in Nat /\ Cardinality(H) \in Nat /\ N \in Nat \ {0}
    BY <1>1, FS_CardinalityType, NType
  <1>3. ASSUME NEW z \in Ratios, z >= 50, NEW h \in Nat, Reached(h, z)
        PROVE  2 * h > N
    <2>1. z \in 0..100 /\ z >= 50
      BY <1>3, RatioAssumption DEF All
    <2>2. CASE z >= All
      BY <1>2, <1>3, <2>2 DEF Reached
    <2>3. CASE ~(z >= All)
      <3>1. h * 100 > z * N
        BY <1>3, <2>3 DEF Reached
      <3>2. z * N >= 50 * N
        BY <1>2, <2>1
      <3> QED
        BY <1>2, <2>1, <3>1, <3>2
    <2> QED
      BY <2>2, <2>3
  <1>4. 2 * Cardinality(G) > N /\ 2 * Cardinality(H) > N
    BY <1>2, <1>3
  <1>5. Cardinality(G) + Cardinality(H) > Cardinality(Node)
    BY <1>2, <1>4 DEF N
  <1> QED
    BY <1>1, <1>5, FS_MajoritiesIntersect

\* A quorum for the ratio `all` is every node.
LEMMA AllIsEveryNode ==
  ASSUME NEW G \in SUBSET Node, Reached(Cardinality(G), All)
  PROVE  G = Node
  <1>1. IsFiniteSet(Node) /\ Cardinality(G) <= N /\ Cardinality(G) >= N
    BY NodeAssumption, FS_Subset DEF Reached, N, All
  <1>2. Cardinality(G) \in Nat /\ N \in Nat
    BY <1>1, FS_Subset, FS_CardinalityType, NType
  <1>3. Cardinality(Node) = Cardinality(G)
    BY <1>1, <1>2 DEF N
  <1> QED
    BY <1>1, <1>3, FS_Subset

\* Where one node is a majority there is one node.
LEMMA OneIsMajority ==
  ASSUME NEW x \in Ratios, x >= 50, Reached(1, x)
  PROVE  N = 1 /\ \A m, n \in Node : m = n
  <1>1. x \in 0..100 /\ N \in Nat \ {0}
    BY RatioAssumption, NType DEF All
  <1>2. N = 1
    <2>1. CASE x >= All
      BY <1>1, <2>1 DEF Reached
    <2>2. CASE ~(x >= All)
      <3>1. 100 > x * N
        BY <2>2 DEF Reached
      <3>2. x * N >= 50 * N
        BY <1>1
      <3> QED
        BY <1>1, <3>1, <3>2
    <2> QED
      BY <2>1, <2>2
  <1>3. \E x1 \in Node : Node = {x1}
    BY <1>2, NodeAssumption, FS_Singleton DEF N
  <1> QED
    BY <1>2, <1>3

-----------------------------------------------------------------------------
(* How a request moves *)

\* A step moves one request at most, and a request keeps what its client asked.
LEMMA OneMoves ==
  ASSUME TypeOK, [Next]_vars
  PROVE  /\ at' = at /\ ratio' = ratio
         /\ \A o \in Op : \/ Coordinate(o) \/ Timeout(o)
                          \/ /\ pc'[o] = pc[o] /\ rid'[o] = rid[o]
                             /\ pushed'[o] = pushed[o] /\ result'[o] = result[o]
                             /\ before'[o] = before[o]
  <1> USE DEF TypeOK, nodeVars, netVars, opVars, reqVars
  <1> DEFINE Stays(w) == /\ pc'[w] = pc[w] /\ rid'[w] = rid[w]
                         /\ pushed'[w] = pushed[w] /\ result'[w] = result[w]
                         /\ before'[w] = before[w]
             G(o) == at' = at /\ ratio' = ratio /\ \A w \in Op \ {o} : Stays(w)
  <1>1. ASSUME NEW o \in Op, Apply(o) PROVE G(o)
    BY <1>1 DEF Apply
  <1>2. ASSUME NEW o \in Op, BeginRead(o) PROVE G(o)
    BY <1>2 DEF BeginRead, Register
  <1>3. ASSUME NEW o \in Op, BeginPush(o) PROVE G(o)
    BY <1>3 DEF BeginPush, Register
  <1>4. ASSUME NEW o \in Op, CollectAck(o) PROVE G(o)
    BY <1>4 DEF CollectAck
  <1>5. ASSUME NEW o \in Op, Query(o) \/ DiscardAck(o) PROVE G(o)
    BY <1>5 DEF Query, DiscardAck
  <1>6. ASSUME NEW o \in Op, Timeout(o) PROVE G(o)
    BY <1>6 DEF Timeout
  <1>7. ASSUME NEW m \in msgs, Handle(m) \/ Lose(m) \/ Duplicate(m)
        PROVE  UNCHANGED <<at, ratio, pc, rid, pushed, result, before>>
    BY <1>7 DEF Handle, HandleSyncPush, HandleSyncPull, HandleSyncAck,
                HandleGossip, HandleDeploy, Lose, Duplicate
  <1>8. ASSUME NEW n \in Node, NEW p \in Node, Gossip(n, p)
        PROVE  UNCHANGED <<at, ratio, pc, rid, pushed, result, before>>
    BY <1>8 DEF Gossip
  <1>9. ASSUME NEW n \in Node, NEW q \in Plan, Deploy(n, q)
        PROVE  UNCHANGED <<at, ratio, pc, rid, pushed, result, before>>
    BY <1>9 DEF Deploy
  <1>10. ASSUME NEW c \in CutSets, SetLinks(c)
         PROVE  UNCHANGED <<at, ratio, pc, rid, pushed, result, before>>
    BY <1>10 DEF SetLinks
  <1>11. UNCHANGED vars => UNCHANGED <<at, ratio, pc, rid, pushed, result, before>>
    BY DEF vars
  <1>12. ASSUME UNCHANGED <<at, ratio, pc, rid, pushed, result, before>>, NEW o \in Op
         PROVE  G(o) /\ Stays(o)
    BY <1>12
  <1>13. CASE \E o \in Op : Coordinate(o) \/ Timeout(o)
    <2>1. PICK o \in Op : Coordinate(o) \/ Timeout(o)
      BY <1>13
    <2>2. G(o)
      BY <2>1, <1>1, <1>2, <1>3, <1>4, <1>5, <1>6 DEF Coordinate
    <2> QED
      BY <2>1, <2>2
  <1>14. CASE UNCHANGED <<at, ratio, pc, rid, pushed, result, before>>
    BY <1>12, <1>14
  <1> QED
    BY <1>7, <1>8, <1>9, <1>10, <1>11, <1>13, <1>14 DEF Next, Receive

\* The ways a request has of going from phase to phase.
LEMMA PhasesInOrder ==
  ASSUME TypeOK, [Next]_vars, NEW o \in Op
  PROVE  /\ pc[o] # "idle" => before'[o] = before[o]
         /\ pc[o] = "done" => pc'[o] = "done" /\ pushed'[o] = pushed[o]
                                /\ result'[o] = result[o]
         /\ pc[o] = "failed" => pc'[o] = "failed"
         /\ pc[o] = "idle" => pc'[o] = "idle" \/ Apply(o) \/ BeginRead(o)
         /\ pc[o] = "pull" =>
              \/ pc'[o] = "failed"
              \/ pc'[o] = "pull" /\ rid'[o] = rid[o]
              \/ pc'[o] = "toPush" /\ CollectAck(o)
         /\ pc[o] \in {"toPush", "push", "query"} =>
              \/ pc'[o] \in {"toPush", "push", "query", "failed"}
              \/ pc'[o] = "done" /\ o \in Write
              \/ pc'[o] = "done" /\ o \in Read /\ result'[o] = st[at[o]]
  <1> USE DEF TypeOK, nodeVars, netVars, opVars, reqVars
  <1>1. CASE Apply(o)
    BY <1>1 DEF Apply
  <1>2. CASE BeginRead(o)
    BY <1>2 DEF BeginRead
  <1>3. CASE BeginPush(o)
    BY <1>3 DEF BeginPush, AfterPush, Op
  <1>4. CASE CollectAck(o)
    BY <1>4 DEF CollectAck, AfterPush, Waiting, Op
  <1>5. CASE Query(o)
    BY <1>5 DEF Query, Op
  <1>6. CASE Timeout(o)
    BY <1>6 DEF Timeout, Waiting
  <1>7. CASE DiscardAck(o)
    BY <1>7 DEF DiscardAck
  <1> QED
    BY <1>1, <1>2, <1>3, <1>4, <1>5, <1>6, <1>7, OneMoves DEF Coordinate

\* What was over when a query began stays over.
LEMMA BeforeStep == TypeOK /\ BeforeOver /\ [Next]_vars => BeforeOver'
  <1> SUFFICES ASSUME TypeOK, BeforeOver, [Next]_vars, NEW r \in Op,
                      NEW o \in before'[r]
               PROVE  o \in Op /\ pc'[o] = "done"
    BY DEF BeforeOver
  <1>1. CASE before'[r] = before[r]
    BY <1>1, PhasesInOrder DEF BeforeOver
  <1>2. CASE Coordinate(r) \/ Timeout(r)
    <2>1. before'[r] = before[r] \/ before'[r] = {w \in Op : pc[w] = "done"}
      BY <1>2 DEF Coordinate, Timeout, Apply, BeginRead, BeginPush, CollectAck,
                  DiscardAck, Query, TypeOK, opVars
    <2> QED
      BY <1>1, <2>1, PhasesInOrder
  <1> QED
    BY <1>1, <1>2, OneMoves

-----------------------------------------------------------------------------
(* What is stored and under way stays behind the owners *)

LEMMA AppliedType == TypeOK => Applied \in Vector
  BY DEF TypeOK, Applied, Vector

LEMMA JoinBelow ==
  ASSUME NEW u \in Vector, NEW v \in Vector, NEW w \in Vector,
         Covers(u, v), Covers(u, w)
  PROVE  Covers(u, Join(v, w))
  BY DEF Covers, Join, Vector

\* A merge of what the owners are ahead of leaves them where they were.
LEMMA MergeStep ==
  ASSUME TypeOK, OwnersLead, NEW n \in Node, NEW v \in Vector, Covers(Applied, v),
         st' = [st EXCEPT ![n] = Join(@, v)]
  PROVE  Applied' = Applied /\ \A k \in Node : Covers(Applied, st'[k])
  <1>1. st \in [Node -> Vector] /\ Applied \in Vector
    BY AppliedType DEF TypeOK
  <1>2. st'[n] = Join(st[n], v) /\ \A k \in Node \ {n} : st'[k] = st[k]
    BY <1>1
  <1>3. Covers(Applied, st'[n])
    BY <1>1, <1>2, JoinBelow DEF OwnersLead
  <1>4. \A k \in Node : Covers(Applied, st'[k])
    BY <1>2, <1>3 DEF OwnersLead
  <1>5. Covers(st'[n], st[n])
    BY <1>1, <1>2, JoinType
  <1>6. ASSUME NEW s \in Node PROVE st'[s][s] = st[s][s]
    <2>1. CASE s = n
      <3>1. st'[n][n] <= st[n][n]
        BY <1>3 DEF Covers, Applied
      <3>2. st[n][n] <= st'[n][n] /\ st[n][n] \in Nat
        BY <1>1, <1>5 DEF Covers, Vector
      <3>3. st'[n][n] \in Nat
        BY <1>1, <1>2 DEF Join, Vector
      <3> QED
        BY <2>1, <3>1, <3>2, <3>3
    <2>2. CASE s # n
      BY <1>2, <2>2
    <2> QED
      BY <2>1, <2>2
  <1>7. Applied' = Applied
    BY <1>6 DEF Applied
  <1> QED
    BY <1>4, <1>7

LEMMA OwnersStep ==
  ASSUME TypeOK, TypeOK', OwnersLead, [Next]_vars
  PROVE  OwnersLead'
  <1> USE DEF nodeVars, netVars, opVars, reqVars
  <1> DEFINE Carries(m) == m.type \in {"push", "ack", "gossip"}
  \* The owners as they were: what is new is behind them too.
  <1>1. ASSUME Applied' = Applied,
               \A n \in Node : Covers(Applied, st'[n]),
               \A m \in msgs' : Carries(m) => m \in msgs \/ Covers(Applied, m.snap),
               \A o \in Op : \A a \in ch'[o] : a \in ch[o] \/ Covers(Applied, a.snap)
        PROVE  OwnersLead'
    BY <1>1 DEF OwnersLead
  <1>2. ASSUME UNCHANGED st,
               \A m \in msgs' : Carries(m) => m \in msgs \/ Covers(Applied, m.snap),
               \A o \in Op : \A a \in ch'[o] : a \in ch[o] \/ Covers(Applied, a.snap)
        PROVE  OwnersLead'
    <2>1. Applied' = Applied
      BY <1>2 DEF Applied
    <2>2. \A n \in Node : Covers(Applied, st'[n])
      BY <1>2 DEF OwnersLead
    <2> QED
      BY <1>1, <1>2, <2>1, <2>2
  <1>3. ASSUME NEW n \in Node, NEW v \in Vector, Covers(Applied, v),
               st' = [st EXCEPT ![n] = Join(@, v)],
               \A m \in msgs' : Carries(m) => m \in msgs \/ Covers(Applied, m.snap),
               \A o \in Op : ch'[o] \subseteq ch[o]
        PROVE  OwnersLead'
    BY <1>1, <1>3, MergeStep
  <1>4. \A n \in Node : st[n] \in Vector /\ Covers(Applied, st[n])
    BY DEF TypeOK, OwnersLead
  <1>5. UNCHANGED vars => OwnersLead'
    BY <1>2 DEF vars
  \* An update moves its owner's slot up, and nothing down.
  <1>6. ASSUME NEW o \in Op, Apply(o) PROVE OwnersLead'
    <2> DEFINE n == at[o]
    <2>1. /\ st' = [st EXCEPT ![n][n] = @ + 1] /\ UNCHANGED <<msgs, ch>> /\ n \in Node
          /\ st \in [Node -> [Node -> Nat]] /\ st' \in [Node -> Vector]
      BY <1>6 DEF Apply, TypeOK, Vector
    <2>2. \A k, s \in Node : st'[k][s] = IF k = n /\ s = n THEN st[n][n] + 1
                                                         ELSE st[k][s]
      BY <2>1
    <2>3. \A k, s \in Node : st[k][s] <= st[s][s] /\ st[k][s] \in Nat
      BY <2>1 DEF OwnersLead, Covers, Applied
    <2>4. \A k, s \in Node : st'[k][s] <= st'[s][s]
      BY <2>2, <2>3
    <2>5. Covers(Applied', Applied)
      BY <2>2, <2>3 DEF Covers, Applied
    <2>6. Applied \in Vector /\ Applied' \in Vector
      BY <2>1, AppliedType DEF Applied, Vector
    <2>7. ASSUME NEW v \in Vector, Covers(Applied, v) PROVE Covers(Applied', v)
      BY <2>5, <2>6, <2>7, CoversTrans
    <2>8. \A m \in msgs : Carries(m) => m.snap \in Vector
      BY MessageFields DEF TypeOK
    <2>9. \A w \in Op : \A a \in ch[w] : a.snap \in Vector
      BY DEF TypeOK, AckMsg
    <2>10. \A k \in Node : Covers(Applied', st'[k])
      BY <2>4 DEF Covers, Applied
    <2> HIDE DEF n
    <2> QED
      BY <2>1, <2>7, <2>8, <2>9, <2>10 DEF OwnersLead
  <1>7. ASSUME NEW o \in Op, BeginRead(o) PROVE OwnersLead'
    BY <1>2, <1>7 DEF BeginRead, Pull
  <1>8. ASSUME NEW o \in Op, BeginPush(o) PROVE OwnersLead'
    <2>1. at[o] \in Node
      BY DEF TypeOK
    <2> QED
      BY <1>2, <1>4, <1>8, <2>1 DEF BeginPush, Push
  <1>9. ASSUME NEW o \in Op, CollectAck(o) PROVE OwnersLead'
    <2>1. PICK a \in ch[o] : CollectAck(o)!(a)
      BY <1>9 DEF CollectAck
    <2>2. a.snap \in Vector /\ Covers(Applied, a.snap) /\ at[o] \in Node
      BY DEF TypeOK, AckMsg, OwnersLead
    <2>3. UNCHANGED msgs /\ \A w \in Op : ch'[w] \subseteq ch[w]
      BY <2>1 DEF Cancel, TypeOK
    <2>4. CASE pc[o] = "pull"
      BY <1>3, <2>1, <2>2, <2>3, <2>4
    <2>5. CASE pc[o] # "pull"
      BY <1>2, <2>1, <2>3, <2>5
    <2> QED
      BY <2>4, <2>5
  <1>10. ASSUME NEW o \in Op, DiscardAck(o) \/ Query(o) \/ Timeout(o)
         PROVE  OwnersLead'
    BY <1>2, <1>10 DEF DiscardAck, Query, Timeout, Cancel, TypeOK
  <1>11. ASSUME NEW m \in msgs, HandleSyncPush(m) PROVE OwnersLead'
    <2>1. /\ m.type = "push" /\ m.snap \in Vector /\ m.to \in Node
          /\ Covers(Applied, m.snap)
      BY <1>11, MessageFields DEF HandleSyncPush, TypeOK, OwnersLead
    <2>2. Covers(Applied, Empty)
      BY AppliedType DEF Covers, Empty, Vector
    <2> QED
      BY <1>2, <1>3, <1>11, <2>1, <2>2 DEF HandleSyncPush, Ack
  <1>12. ASSUME NEW m \in msgs, HandleSyncPull(m) PROVE OwnersLead'
    <2>1. m.to \in Node
      BY MessageFields DEF TypeOK
    <2> QED
      BY <1>2, <1>4, <1>12, <2>1 DEF HandleSyncPull, Ack
  <1>13. ASSUME NEW m \in msgs, HandleSyncAck(m) PROVE OwnersLead'
    <2>1. Covers(Applied, m.snap)
      BY <1>13 DEF HandleSyncAck, OwnersLead
    <2> QED
      BY <1>2, <1>13, <2>1 DEF HandleSyncAck
  <1>14. ASSUME NEW m \in msgs, HandleGossip(m) PROVE OwnersLead'
    <2>1. m.snap \in Vector /\ m.to \in Node /\ Covers(Applied, m.snap)
      BY <1>14, MessageFields DEF HandleGossip, TypeOK, OwnersLead
    <2> QED
      BY <1>2, <1>3, <1>14, <2>1 DEF HandleGossip
  <1>15. ASSUME NEW m \in msgs, HandleDeploy(m) \/ Lose(m) PROVE OwnersLead'
    BY <1>2, <1>15 DEF HandleDeploy, Lose
  <1>16. ASSUME NEW n \in Node, NEW p \in Node, Gossip(n, p) PROVE OwnersLead'
    BY <1>2, <1>4, <1>16 DEF Gossip
  <1>17. ASSUME NEW n \in Node, NEW q \in Plan, Deploy(n, q) PROVE OwnersLead'
    BY <1>2, <1>17 DEF Deploy
  <1>18. ASSUME NEW c \in CutSets, SetLinks(c) PROVE OwnersLead'
    BY <1>2, <1>18 DEF SetLinks
  <1>19. ASSUME NEW m \in msgs, Duplicate(m) PROVE OwnersLead'
    <2>1. m \in AckMsg /\ Covers(Applied, m.snap)
      BY <1>19, MessageFields DEF Duplicate, TypeOK, OwnersLead
    <2>2. [m EXCEPT !.copy = @ + 1].snap = m.snap
      BY <2>1 DEF AckMsg
    <2> QED
      BY <1>2, <1>19, <2>1, <2>2 DEF Duplicate
  <1> QED
    BY <1>5, <1>6, <1>7, <1>8, <1>9, <1>10, <1>11, <1>12, <1>13, <1>14, <1>15,
       <1>16, <1>17, <1>18, <1>19
       DEF Next, Coordinate, Receive, Handle

-----------------------------------------------------------------------------
(* What a coordinator keeps and pushes *)

LEMMA KeepsStep ==
  ASSUME TypeOK, TypeOK', CoordinatorKeeps, [Next]_vars
  PROVE  CoordinatorKeeps'
  <1> USE DEF opVars
  <1> SUFFICES ASSUME NEW o \in Op
               PROVE  Covers(st'[at'[o]], pushed'[o]) /\ Covers(st'[at'[o]], result'[o])
    BY DEF CoordinatorKeeps
  <1> DEFINE n == at[o]
  <1>1. /\ at'[o] = n /\ n \in Node /\ st[n] \in Vector /\ st'[n] \in Vector
        /\ pushed[o] \in Vector /\ result[o] \in Vector
    BY OneMoves DEF TypeOK
  <1>2. Covers(st'[n], st[n]) /\ Covers(st'[n], st'[n])
    BY <1>1, NodesOnlyGrow, CoversRefl
  <1>3. Covers(st'[n], pushed[o]) /\ Covers(st'[n], result[o])
    BY <1>1, <1>2, CoversTrans DEF CoordinatorKeeps
  <1>4. /\ pushed'[o] \in {pushed[o], st[n]}
        /\ result'[o] \in {result[o], st[n], st'[n]}
    <2>1. CASE Coordinate(o) \/ Timeout(o)
      BY <2>1 DEF Coordinate, Timeout, Apply, BeginRead, BeginPush, CollectAck,
                  DiscardAck, Query, TypeOK, reqVars, netVars, nodeVars
    <2> QED
      BY <2>1, OneMoves
  <1> QED
    BY <1>1, <1>2, <1>3, <1>4

LEMMA PushedStep ==
  ASSUME TypeOK, TypeOK', CoordinatorKeeps, UpdatesPushed, [Next]_vars
  PROVE  UpdatesPushed'
  <1> USE DEF opVars, reqVars, netVars, nodeVars
  <1> DEFINE P(o, p, pu, re) ==
               /\ Reached(1, ratio[o]) => pu = Empty /\ p \notin {"pull", "push"}
               /\ o \in Write /\ ~Reached(1, ratio[o]) /\ p \in {"push", "done"} =>
                    Covers(pu, re)
               /\ o \in Write => p \notin {"pull", "query"}
  <1>1. UpdatesPushed <=> \A o \in Op : P(o, pc[o], pushed[o], result[o])
    BY DEF UpdatesPushed, Waiting
  <1>2. UpdatesPushed' <=> \A o \in Op : P(o, pc'[o], pushed'[o], result'[o])
    BY OneMoves DEF UpdatesPushed, Waiting
  <1> SUFFICES ASSUME NEW o \in Op PROVE P(o, pc'[o], pushed'[o], result'[o])
    BY <1>2
  <1>3. P(o, pc[o], pushed[o], result[o])
    BY <1>1
  <1>4. CASE Apply(o)
    BY <1>3, <1>4 DEF Apply, TypeOK
  <1>5. CASE BeginRead(o)
    BY <1>3, <1>5, OpAssumption DEF BeginRead, TypeOK
  <1>6. CASE BeginPush(o)
    BY <1>3, <1>6 DEF BeginPush, AfterPush, TypeOK, CoordinatorKeeps
  <1>7. CASE CollectAck(o)
    BY <1>3, <1>7 DEF CollectAck, AfterPush, Waiting, TypeOK
  <1>8. CASE Query(o)
    BY <1>3, <1>8 DEF Query, TypeOK
  <1>9. CASE Timeout(o)
    BY <1>3, <1>9 DEF Timeout, TypeOK
  <1>10. CASE DiscardAck(o)
    BY <1>3, <1>10 DEF DiscardAck
  <1> HIDE DEF P
  <1> QED
    BY <1>3, <1>4, <1>5, <1>6, <1>7, <1>8, <1>9, <1>10, OneMoves DEF Coordinate

\* A request ID just minted is on no message and no other request.
LEMMA FreshID ==
  ASSUME TypeOK, IdsOK, NEW o \in Op, Register(o, at[o])
  PROVE  /\ \A w \in Op : rid[w] # rid'[o]
         /\ \A w \in Op \ {o} : rid'[w] = rid[w]
         /\ \A m \in msgs : m.type \in Sync => m.rid # rid'[o]
  <1>1. /\ rid'[o] = <<at[o], reqSeq[at[o]] + 1>> /\ reqSeq[at[o]] \in Nat
        /\ \A w \in Op \ {o} : rid'[w] = rid[w]
    BY DEF Register, TypeOK
  <1>2. ASSUME NEW w \in Op PROVE rid[w] # rid'[o]
    BY <1>1 DEF IdsOK
  <1>3. ASSUME NEW m \in msgs, m.type \in Sync PROVE m.rid # rid'[o]
    BY <1>1, <1>3 DEF IdsOK
  <1> QED
    BY <1>1, <1>2, <1>3

LEMMA PullsApartStep ==
  ASSUME TypeOK, IdsOK, PullsApart, [Next]_vars
  PROVE  PullsApart'
  <1> USE DEF nodeVars, netVars, opVars, reqVars
  \* No request starts pulling, and a new message is not a push.
  <1>1. ASSUME UNCHANGED rid, \A o \in Op : pc'[o] = "pull" => pc[o] = "pull",
               \A m \in msgs' : m.type = "push" => m \in msgs
        PROVE  PullsApart'
    BY <1>1 DEF PullsApart
  <1>2. UNCHANGED vars => PullsApart'
    BY <1>1 DEF vars
  <1>3. ASSUME NEW o \in Op, \/ Apply(o) \/ CollectAck(o) \/ DiscardAck(o)
                             \/ Query(o) \/ Timeout(o)
        PROVE  PullsApart'
    BY <1>1, <1>3 DEF Apply, CollectAck, DiscardAck, AfterPush, Query, Timeout, TypeOK
  <1>4. ASSUME NEW o \in Op, BeginRead(o) PROVE PullsApart'
    <2>1. CASE Reached(1, ratio[o])
      BY <1>1, <1>4, <2>1 DEF BeginRead, TypeOK
    <2>2. CASE ~Reached(1, ratio[o])
      <3>1. /\ Register(o, at[o]) /\ pc' = [pc EXCEPT ![o] = "pull"]
            /\ \A m \in msgs' : m.type = "push" => m \in msgs
        BY <1>4, <2>2 DEF BeginRead, Pull
      <3> QED
        BY <3>1, FreshID DEF PullsApart, TypeOK, Sync
    <2> QED
      BY <2>1, <2>2
  <1>5. ASSUME NEW o \in Op, BeginPush(o) PROVE PullsApart'
    <2>1. CASE Reached(1, ratio[o])
      BY <1>1, <1>5, <2>1 DEF BeginPush, AfterPush, TypeOK
    <2>2. CASE ~Reached(1, ratio[o])
      <3>1. /\ Register(o, at[o]) /\ pc' = [pc EXCEPT ![o] = "push"]
            /\ \A m \in msgs' : m.type = "push" => m \in msgs \/ m.rid = rid'[o]
        BY <1>5, <2>2 DEF BeginPush, Push
      <3> QED
        BY <3>1, FreshID DEF PullsApart, TypeOK
    <2> QED
      BY <2>1, <2>2
  <1>6. ASSUME NEW m \in msgs, Handle(m) \/ Lose(m) \/ Duplicate(m)
        PROVE  PullsApart'
    <2>1. UNCHANGED <<rid, pc>>
      BY <1>6 DEF Handle, HandleSyncPush, HandleSyncPull, HandleSyncAck,
                  HandleGossip, HandleDeploy, Lose, Duplicate
    <2>2. ASSUME Handle(m) \/ Lose(m), NEW k \in msgs', k.type = "push" PROVE k \in msgs
      BY <2>2 DEF Handle, HandleSyncPush, HandleSyncPull, HandleSyncAck,
                  HandleGossip, HandleDeploy, Lose, Ack
    <2>3. ASSUME Duplicate(m), NEW k \in msgs', k.type = "push" PROVE k \in msgs
      <3>1. m.type = "ack" /\ m \in AckMsg /\ msgs' = msgs \cup {[m EXCEPT !.copy = @ + 1]}
        BY <2>3, MessageFields DEF Duplicate, TypeOK
      <3>2. [m EXCEPT !.copy = @ + 1].type = "ack"
        BY <3>1 DEF AckMsg
      <3> QED
        BY <2>3, <3>1, <3>2
    <2> QED
      BY <1>1, <1>6, <2>1, <2>2, <2>3
  <1>7. ASSUME NEW n \in Node, NEW p \in Node, Gossip(n, p) PROVE PullsApart'
    BY <1>1, <1>7 DEF Gossip
  <1>8. ASSUME NEW n \in Node, NEW q \in Plan, Deploy(n, q) PROVE PullsApart'
    BY <1>1, <1>8 DEF Deploy
  <1>9. ASSUME NEW c \in CutSets, SetLinks(c) PROVE PullsApart'
    BY <1>1, <1>9 DEF SetLinks
  <1> QED
    BY <1>2, <1>3, <1>4, <1>5, <1>6, <1>7, <1>8, <1>9 DEF Next, Coordinate, Receive

-----------------------------------------------------------------------------
(* A query gathers what it is owed *)

LEMMA GathersStep ==
  ASSUME TypeOK, TypeOK', IdsOK, RegistryOK, AckAccounting, PullsApart,
         [Next]_vars, NEW r \in Read, NEW v \in Vector, NEW H \in SUBSET Node,
         pc[r] = "pull", pc'[r] = "pull", Stores(H, v), Gathers(r, H, v)
  PROVE  Gathers(r, H, v)'
  <1> USE DEF nodeVars, netVars, opVars, reqVars
  <1> DEFINE n == at[r]
             Told(k) == \/ Covers(st[n], v)
                        \/ \E a \in ch[r] \cup unmerged[r] :
                             a.from = k /\ Covers(a.snap, v)
             Tells(m) == m.type = "ack" /\ m.rid = rid[r] /\ m.from \in H =>
                           Covers(m.snap, v)
  <1>1. /\ r \in Op /\ n \in Node /\ at'[r] = n /\ rid'[r] = rid[r]
        /\ st[n] \in Vector /\ st'[n] \in Vector
    BY OneMoves, PhasesInOrder DEF Op, TypeOK
  <1>2. Covers(st[n], v) => Covers(st'[n], v)
    BY <1>1, NodesOnlyGrow, CoversTrans
  <1>3. /\ \A k \in H \cap (seen[r] \cup {n}) : Told(k)
        /\ \A m \in msgs : Tells(m)
    BY DEF Gathers
  \* Nothing new heard, and every new answer of H tells of v.
  <1>4. ASSUME seen'[r] = seen[r],
               ch'[r] \cup unmerged'[r] = ch[r] \cup unmerged[r],
               \A m \in msgs' : m \in msgs \/ Tells(m)
        PROVE  Gathers(r, H, v)'
    BY <1>1, <1>2, <1>3, <1>4 DEF Gathers
  <1>5. UNCHANGED vars => Gathers(r, H, v)'
    BY <1>4 DEF vars
  <1>6. ASSUME NEW o \in Op, Apply(o) \/ BeginRead(o) \/ BeginPush(o) \/ Query(o)
        PROVE  Gathers(r, H, v)'
    BY <1>4, <1>6 DEF Apply, BeginRead, BeginPush, Query, Pull, Push
  <1>7. ASSUME NEW o \in Op, o # r, CollectAck(o) \/ Timeout(o)
        PROVE  Gathers(r, H, v)'
    BY <1>1, <1>4, <1>7 DEF CollectAck, Timeout, Cancel, TypeOK
  \* An answer that cannot be merged has been told all the same.
  <1>18. ASSUME NEW o \in Op, DiscardAck(o) PROVE Gathers(r, H, v)'
    <2>1. PICK a \in ch[o] : DiscardAck(o)!(a)
      BY <1>18 DEF DiscardAck
    <2>2. ch'[r] \cup unmerged'[r] = ch[r] \cup unmerged[r]
      BY <1>1, <2>1 DEF TypeOK
    <2> QED
      BY <1>4, <2>1, <2>2
  <1>8. ~Timeout(r)
    BY <1>1 DEF Timeout, TypeOK
  \* The ack collected is in the coordinator's vector from now on.
  <1>9. ASSUME CollectAck(r) PROVE Gathers(r, H, v)'
    <2>1. PICK a \in ch[r] : CollectAck(r)!(a)
      BY <1>9 DEF CollectAck
    <2>2. /\ st' = [st EXCEPT ![n] = Join(@, a.snap)] /\ UNCHANGED msgs
          /\ ch' = [ch EXCEPT ![r] = @ \ {a}] /\ UNCHANGED <<seen, unmerged>>
      BY <2>1, <1>1 DEF TypeOK
    <2>3. a.snap \in Vector
      BY <1>1 DEF TypeOK, AckMsg
    <2>4. Covers(st'[n], a.snap)
      BY <1>1, <2>2, <2>3, JoinType DEF TypeOK
    <2>5. Covers(a.snap, v) => Covers(st'[n], v)
      BY <1>1, <2>3, <2>4, CoversTrans
    <2>6. ch'[r] = ch[r] \ {a}
      BY <1>1, <2>2 DEF TypeOK
    <2>7. ASSUME NEW k \in H \cap (seen'[r] \cup {n})
          PROVE  \/ Covers(st'[n], v)
                 \/ \E b \in ch'[r] \cup unmerged'[r] :
                      b.from = k /\ Covers(b.snap, v)
      BY <1>2, <1>3, <2>2, <2>5, <2>6
    <2> QED
      BY <1>1, <1>3, <2>2, <2>7 DEF Gathers
  <1>10. ASSUME NEW m \in msgs, HandleSyncPush(m) PROVE Gathers(r, H, v)'
    BY <1>1, <1>4, <1>10 DEF HandleSyncPush, Ack, PullsApart
  <1>11. ASSUME NEW m \in msgs, HandleSyncPull(m) PROVE Gathers(r, H, v)'
    BY <1>4, <1>11 DEF HandleSyncPull, Ack, Stores
  <1>12. ASSUME NEW m \in msgs, HandleSyncAck(m) PROVE Gathers(r, H, v)'
    <2>1. m.type = "ack" /\ msgs' \subseteq msgs /\ UNCHANGED <<st, unmerged>>
      BY <1>12 DEF HandleSyncAck
    <2>2. CASE r \in Pending(m) /\ m.from \notin seen[r]
      <3>1. Cardinality(ch[r]) < N - 1
        BY <2>1, <2>2, ChannelHasRoom
      <3>2. seen'[r] = seen[r] \cup {m.from} /\ ch'[r] = ch[r] \cup {m}
        BY <1>1, <1>12, <2>2, <3>1 DEF HandleSyncAck
      <3>3. Tells(m) /\ m.rid = rid[r]
        BY <1>3, <2>2 DEF Pending
      <3>4. ASSUME NEW k \in H \cap (seen'[r] \cup {n})
            PROVE  \/ Covers(st'[n], v)
                   \/ \E b \in ch'[r] \cup unmerged'[r] :
                        b.from = k /\ Covers(b.snap, v)
        <4>1. CASE k = m.from
          BY <2>1, <3>2, <3>3, <4>1
        <4>2. CASE k # m.from
          BY <1>3, <2>1, <3>2, <4>2
        <4> QED
          BY <4>1, <4>2
      <3> QED
        BY <1>1, <1>3, <2>1, <3>4 DEF Gathers
    <2>3. CASE ~(r \in Pending(m) /\ m.from \notin seen[r])
      BY <1>1, <1>4, <1>12, <2>1, <2>3 DEF HandleSyncAck
    <2> QED
      BY <2>2, <2>3
  <1>13. ASSUME NEW m \in msgs, HandleGossip(m) \/ HandleDeploy(m) \/ Lose(m)
         PROVE  Gathers(r, H, v)'
    BY <1>4, <1>13 DEF HandleGossip, HandleDeploy, Lose
  <1>14. ASSUME NEW k \in Node, NEW p \in Node, Gossip(k, p) PROVE Gathers(r, H, v)'
    BY <1>4, <1>14 DEF Gossip
  <1>15. ASSUME NEW k \in Node, NEW q \in Plan, Deploy(k, q) PROVE Gathers(r, H, v)'
    BY <1>4, <1>15 DEF Deploy
  <1>16. ASSUME NEW c \in CutSets, SetLinks(c) PROVE Gathers(r, H, v)'
    BY <1>4, <1>16 DEF SetLinks
  <1>17. ASSUME NEW m \in msgs, Duplicate(m) PROVE Gathers(r, H, v)'
    <2>1. m \in AckMsg /\ msgs' = msgs \cup {[m EXCEPT !.copy = @ + 1]}
      BY <1>17, MessageFields DEF Duplicate, TypeOK
    <2>2. Tells([m EXCEPT !.copy = @ + 1])
      BY <1>3, <2>1 DEF AckMsg
    <2> QED
      BY <1>4, <1>17, <2>1, <2>2 DEF Duplicate
  <1> QED
    BY <1>5, <1>6, <1>7, <1>8, <1>9, <1>10, <1>11, <1>12, <1>13, <1>14, <1>15,
       <1>16, <1>17, <1>18
       DEF Next, Coordinate, Receive, Handle

\* A pull that succeeds has heard from a quorum, one of H's nodes among it.
LEMMA PullSucceeds ==
  ASSUME TypeOK, TypeOK', RegistryOK, AckAccounting, [Next]_vars,
         NEW r \in Read, NEW v \in Vector, NEW H \in SUBSET Node,
         pc[r] = "pull", pc'[r] = "toPush", CollectAck(r),
         Meets(H, r), Gathers(r, H, v)
  PROVE  Covers(st'[at[r]], v)
  <1> DEFINE n == at[r]
  <1>1. /\ r \in Op /\ n \in Node /\ st[n] \in Vector /\ st'[n] \in Vector
        /\ seen[r] \in SUBSET (Node \ {n}) /\ ratio[r] \in Ratios /\ count[r] \in Nat
    BY DEF Op, TypeOK, RegistryOK
  <1>2. PICK a \in ch[r] : CollectAck(r)!(a)
    BY DEF CollectAck
  <1>3. /\ Reached(1 + count[r] + 1, ratio[r])
        /\ st' = [st EXCEPT ![n] = Join(@, a.snap)]
    BY <1>2
  <1> DEFINE A == ch[r] \cup unmerged[r]
             C == A \ {a}
             F == {b.from : b \in C}
             D == seen[r] \ F
             G == D \cup {n}
  <1>4. /\ IsFiniteSet(A) /\ IsFiniteSet(C) /\ Cardinality(A) \in Nat
        /\ Cardinality(C) = Cardinality(A) - 1
        /\ Cardinality(A) = Cardinality(ch[r]) + Cardinality(unmerged[r])
        /\ Cardinality(ch[r]) \in Nat /\ Cardinality(unmerged[r]) \in Nat
    <2>1. /\ IsFiniteSet(ch[r]) /\ IsFiniteSet(unmerged[r])
          /\ ch[r] \cap unmerged[r] = {} /\ a \in A
      BY <1>1, <1>2 DEF RegistryOK
    <2>2. /\ IsFiniteSet(A)
          /\ Cardinality(A) = Cardinality(ch[r]) + Cardinality(unmerged[r])
                                - Cardinality(ch[r] \cap unmerged[r])
      BY <2>1, FS_Union
    <2>3. Cardinality(ch[r] \cap unmerged[r]) = 0
      BY <2>1, FS_EmptySet
    <2>4. IsFiniteSet(C) /\ Cardinality(C) = Cardinality(A) - 1
      <3> HIDE DEF A
      <3> QED
        BY <2>1, <2>2, FS_RemoveElement
    <2>5. /\ Cardinality(ch[r]) \in Nat /\ Cardinality(unmerged[r]) \in Nat
          /\ Cardinality(A) \in Nat
      BY <2>1, <2>2, FS_CardinalityType
    <2> HIDE DEF A, C
    <2> QED
      BY <2>2, <2>3, <2>4, <2>5
  <1>5. IsFiniteSet(F) /\ Cardinality(F) <= Cardinality(C)
    <2> DEFINE f == [b \in C |-> b.from]
    <2>1. f \in Surjection(C, F)
      BY DEF Surjection
    <2> HIDE DEF f, F, C
    <2> QED
      BY <1>4, <2>1, FS_Surjection
  <1>6. IsFiniteSet(seen[r])
    BY <1>1, NodeAssumption, FS_Subset
  <1>7. /\ IsFiniteSet(D) /\ Cardinality(D) >= Cardinality(seen[r]) - Cardinality(F)
        /\ Cardinality(D) \in Nat
    <2> HIDE DEF F
    <2>1. /\ IsFiniteSet(D)
          /\ Cardinality(D) = Cardinality(seen[r]) - Cardinality(seen[r] \cap F)
      BY <1>6, FS_Difference
    <2>2. IsFiniteSet(seen[r] \cap F) /\ Cardinality(seen[r] \cap F) <= Cardinality(F)
      BY <1>5, FS_Intersection
    <2>3. /\ Cardinality(seen[r] \cap F) \in Nat /\ Cardinality(F) \in Nat
          /\ Cardinality(seen[r]) \in Nat /\ Cardinality(D) \in Nat
      BY <1>5, <1>6, <2>1, <2>2, FS_CardinalityType
    <2> QED
      BY <2>1, <2>2, <2>3
  <1>8. Cardinality(D) >= count[r] + 1
    <2>1. Cardinality(seen[r])
            = Cardinality(ch[r]) + count[r] + Cardinality(unmerged[r])
      BY <1>1 DEF AckAccounting
    <2>2. Cardinality(F) \in Nat /\ Cardinality(C) \in Nat
      BY <1>4, <1>5, FS_CardinalityType
    <2> HIDE DEF D, F, C, A
    <2> QED
      BY <1>1, <1>4, <1>5, <1>7, <2>1, <2>2
  <1>9. Cardinality(G) = Cardinality(D) + 1 /\ Cardinality(G) \in Nat
    <2>1. n \notin D
      BY <1>1
    <2>2. IsFiniteSet(D) /\ Cardinality(D) \in Nat
      BY <1>7
    <2> HIDE DEF D, n
    <2>3. Cardinality(D \cup {n}) = Cardinality(D) + 1
      BY <2>1, <2>2, FS_AddElement
    <2> QED
      BY <2>2, <2>3
  <1>10. Reached(Cardinality(G), ratio[r])
    <2> HIDE DEF G, D
    <2> QED
      BY <1>1, <1>3, <1>7, <1>8, <1>9, ReachedMonotone
  <1>11. PICK k \in G : k \in H
    <2>1. G \in SUBSET Node
      BY <1>1
    <2> HIDE DEF G
    <2> QED
      BY <1>10, <2>1 DEF Meets
  <1>12. Covers(st[n], v) \/ \E b \in A : b.from = k /\ Covers(b.snap, v)
    BY <1>11 DEF Gathers
  <1>13. a.snap \in Vector
    BY <1>1 DEF TypeOK, AckMsg
  <1>14. Covers(st'[n], st[n]) /\ Covers(st'[n], a.snap)
    BY <1>1, <1>3, <1>13, JoinType DEF TypeOK
  <1>15. CASE Covers(st[n], v)
    BY <1>1, <1>14, <1>15, CoversTrans
  <1>16. CASE \E b \in A : b.from = k /\ Covers(b.snap, v)
    <2>1. PICK b \in A : b.from = k /\ Covers(b.snap, v)
      BY <1>16
    <2>2. CASE b = a
      BY <1>1, <1>13, <1>14, <2>1, <2>2, CoversTrans
    \* A peer whose ack is in the channel still or did not count is not in G: k is
    \* the coordinator, which is no peer of its own.
    <2>3. CASE b # a
      <3>1. k \in F /\ k \in seen[r]
        BY <1>1, <2>1, <2>3 DEF RegistryOK
      <3> QED
        BY <1>1, <1>11, <3>1
    <2> QED
      BY <2>2, <2>3
  <1> QED
    BY <1>12, <1>15, <1>16

LEMMA FindsStep ==
  ASSUME TypeOK, TypeOK', IdsOK, RegistryOK, AckAccounting, PullsApart,
         [Next]_vars, NEW r \in Read, NEW v \in Vector, pc[r] # "idle", Finds(r, v)
  PROVE  Finds(r, v)'
  <1>1. r \in Op /\ r \notin Write /\ at' = at /\ ratio' = ratio
    BY OneMoves, OpAssumption DEF Op
  <1>2. /\ at[r] \in Node /\ st[at[r]] \in Vector /\ st'[at[r]] \in Vector
        /\ pc[r] \in {"idle", "pull", "toPush", "push", "query", "done", "failed"}
    BY <1>1 DEF TypeOK
  <1>3. Covers(st[at[r]], v) => Covers(st'[at[r]], v)
    BY <1>2, NodesOnlyGrow, CoversTrans
  <1>4. CASE pc[r] = "pull"
    <2>1. PICK H \in SUBSET Node : Stores(H, v) /\ Meets(H, r) /\ Gathers(r, H, v)
      BY <1>4 DEF Finds
    <2>2. CASE pc'[r] = "pull"
      <3>1. Stores(H, v)'
        <4> SUFFICES ASSUME NEW k \in H PROVE Covers(st'[k], v)
          BY DEF Stores
        <4>1. st[k] \in Vector /\ st'[k] \in Vector /\ Covers(st[k], v)
          BY <2>1 DEF TypeOK, Stores
        <4> QED
          BY <4>1, NodesOnlyGrow, CoversTrans
      <3>2. Meets(H, r)'
        BY <1>1, <2>1 DEF Meets
      <3>3. Gathers(r, H, v)'
        BY <1>4, <2>1, <2>2, GathersStep
      <3> QED
        BY <2>2, <3>1, <3>2, <3>3 DEF Finds
    <2>3. CASE pc'[r] = "toPush" /\ CollectAck(r)
      <3>1. Covers(st'[at[r]], v)
        BY <1>4, <2>1, <2>3, PullSucceeds
      <3> QED
        BY <1>1, <2>3, <3>1 DEF Finds
    <2>4. CASE pc'[r] = "failed"
      BY <2>4 DEF Finds
    <2> QED
      BY <1>1, <1>4, <2>2, <2>3, <2>4, PhasesInOrder
  <1>5. CASE pc[r] \in {"toPush", "push", "query"}
    <2>1. Covers(st[at[r]], v) /\ Covers(st'[at[r]], v)
      BY <1>3, <1>5 DEF Finds
    <2>2. \/ pc'[r] \in {"toPush", "push", "query", "failed"}
          \/ pc'[r] = "done" /\ result'[r] = st[at[r]]
      BY <1>1, <1>5, PhasesInOrder
    <2> QED
      BY <1>1, <2>1, <2>2 DEF Finds
  <1>6. CASE pc[r] = "done"
    BY <1>1, <1>6, PhasesInOrder DEF Finds
  <1>7. CASE pc[r] = "failed"
    BY <1>1, <1>7, PhasesInOrder DEF Finds
  <1> QED
    BY <1>2, <1>4, <1>5, <1>6, <1>7

\* What query r is owed is stored at some node of every quorum of r.
LEMMA OwedIsStored ==
  ASSUME TypeOK, QuorumReplicated, CoordinatorKeeps, UpdatesPushed,
         NEW r \in Op, NEW o \in Op, pc[o] = "done", NEW v \in Owed(r, o)
  PROVE  \E H \in SUBSET Node : Stores(H, v) /\ Meets(H, r)
  <1>1. /\ at[o] \in Node /\ ratio[o] \in Ratios /\ ratio[r] \in Ratios
        /\ Cardinality({at[o]}) = 1
    BY FS_Singleton DEF TypeOK
  <1>2. ratio[o] \in 0..100 /\ ratio[r] \in 0..100
    BY <1>1, RatioAssumption DEF All
  <1>3. CASE Majority(r) /\ Majority(o) /\ v = pushed[o]
    \* A majority that no peer was needed for is a cluster of one node.
    <2> DEFINE H == IF Reached(1, ratio[o]) THEN {at[o]} ELSE Holders(o)
    <2>1. Reached(Cardinality(H), ratio[o]) /\ H \in SUBSET Node
      <3>1. CASE Reached(1, ratio[o])
        BY <1>1, <3>1
      <3>2. CASE ~Reached(1, ratio[o])
        BY <3>2 DEF QuorumReplicated, Replicated, Holders
      <3> QED
        BY <3>1, <3>2
    <2>2. Stores(H, v)
      BY <1>3 DEF Stores, Holders, CoordinatorKeeps
    <2>3. Meets(H, r)
      <3> SUFFICES ASSUME NEW G \in SUBSET Node, Reached(Cardinality(G), ratio[r])
                   PROVE  G \cap H # {}
        BY DEF Meets
      <3>1. ratio[r] >= 50 /\ ratio[o] >= 50
        BY <1>3 DEF Majority
      <3> HIDE DEF H
      <3> QED
        BY <1>1, <2>1, <3>1, QuorumsMeet
    <2> QED
      BY <2>1, <2>2, <2>3
  <1>4. CASE ratio[r] = All /\ v = result[o]
    <2>1. Stores({at[o]}, v)
      BY <1>4 DEF Stores, CoordinatorKeeps
    <2>2. Meets({at[o]}, r)
      BY <1>1, <1>4, AllIsEveryNode DEF Meets
    <2> QED
      BY <1>1, <2>1, <2>2
  <1> QED
    BY <1>3, <1>4 DEF Owed

\* So a query that begins is on its way to find it.
LEMMA ReadBegins ==
  ASSUME TypeOK, IdsOK, RegistryOK, NEW r \in Read, BeginRead(r),
         NEW v \in Vector, NEW H \in SUBSET Node, Stores(H, v), Meets(H, r)
  PROVE  Finds(r, v)'
  <1> USE DEF reqVars, opVars
  <1>1. /\ r \in Op /\ at[r] \in Node /\ UNCHANGED <<st, at, ratio, seen>>
        /\ pc[r] = "idle"
    BY DEF BeginRead, Op, TypeOK
  <1>2. CASE Reached(1, ratio[r])
    <2>1. {at[r]} \cap H # {}
      BY <1>1, <1>2, FS_Singleton DEF Meets
    <2>2. pc'[r] = "toPush"
      BY <1>1, <1>2 DEF BeginRead, TypeOK
    <2> QED
      BY <1>1, <2>1, <2>2 DEF Stores, Finds
  <1>3. CASE ~Reached(1, ratio[r])
    <2>1. /\ pc'[r] = "pull" /\ Register(r, at[r])
          /\ \A m \in msgs' : m.type = "ack" => m \in msgs
      BY <1>1, <1>3 DEF BeginRead, Pull, TypeOK
    <2>2. \A m \in msgs' : m.type = "ack" => m.rid # rid'[r]
      BY <1>1, <2>1, FreshID DEF Sync
    <2>3. seen'[r] = {}
      BY <1>1 DEF RegistryOK, Waiting
    <2>4. Gathers(r, H, v)'
      BY <1>1, <2>2, <2>3 DEF Gathers, Stores
    <2>5. Stores(H, v)' /\ Meets(H, r)'
      BY <1>1 DEF Stores, Meets
    <2> QED
      BY <2>1, <2>4, <2>5 DEF Finds
  <1> QED
    BY <1>2, <1>3

LEMMA ReadsStep ==
  ASSUME IInv, TypeOK', CoordinatorKeeps, UpdatesPushed, PullsApart, BeforeOver,
         ReadsFind, [Next]_vars
  PROVE  ReadsFind'
  <1> SUFFICES ASSUME NEW r \in Read, NEW o \in before'[r], NEW v \in Owed(r, o)'
               PROVE  Finds(r, v)'
    BY DEF ReadsFind
  <1> USE DEF IInv
  <1>1. r \in Op /\ r \notin Write /\ ratio' = ratio
    BY OneMoves, OpAssumption DEF Op
  \* What r is owed is settled before the step.
  <1>2. ASSUME o \in Op, pc[o] = "done" PROVE v \in Owed(r, o) /\ v \in Vector
    <2>1. pushed'[o] = pushed[o] /\ result'[o] = result[o]
      BY <1>2, PhasesInOrder
    <2>2. v \in Owed(r, o)
      BY <1>1, <2>1 DEF Owed, Majority
    <2> QED
      BY <1>2, <2>2 DEF Owed, TypeOK
  <1>3. CASE pc[r] # "idle"
    <2>1. o \in before[r] /\ o \in Op /\ pc[o] = "done"
      BY <1>1, <1>3, PhasesInOrder DEF BeforeOver
    <2>2. Finds(r, v)
      BY <1>2, <2>1 DEF ReadsFind
    <2> QED
      BY <1>2, <1>3, <2>1, <2>2, FindsStep
  <1>4. CASE pc'[r] = "idle"
    BY <1>4 DEF Finds
  <1>5. CASE BeginRead(r)
    <2>1. o \in Op /\ pc[o] = "done"
      BY <1>1, <1>5 DEF BeginRead, TypeOK
    <2>2. PICK H \in SUBSET Node : Stores(H, v) /\ Meets(H, r)
      BY <1>1, <1>2, <2>1, OwedIsStored
    <2> QED
      BY <1>2, <1>5, <2>1, <2>2, ReadBegins
  <1>6. ~Apply(r)
    BY <1>1 DEF Apply
  <1> QED
    BY <1>1, <1>3, <1>4, <1>5, <1>6, PhasesInOrder

-----------------------------------------------------------------------------
(* Reads *)

LEMMA StoreInvariant == Spec => []SInv
  <1>1. Init => OwnersLead /\ CoordinatorKeeps /\ UpdatesPushed /\ PullsApart
                /\ BeforeOver /\ ReadsFind
    <2> SUFFICES ASSUME Init
                 PROVE  OwnersLead /\ CoordinatorKeeps /\ UpdatesPushed /\ PullsApart
                        /\ BeforeOver /\ ReadsFind
      OBVIOUS
    <2> USE DEF Init, InitWith
    <2>1. Covers(Empty, Empty) /\ Applied = Empty
      BY EmptyType, CoversRefl DEF Applied, Empty
    <2>2. OwnersLead
      BY <2>1 DEF OwnersLead
    <2>3. CoordinatorKeeps
      BY <2>1 DEF CoordinatorKeeps
    <2>4. UpdatesPushed
      BY DEF UpdatesPushed, Waiting
    <2>5. PullsApart /\ BeforeOver /\ ReadsFind
      BY DEF PullsApart, BeforeOver, ReadsFind, Op
    <2> QED
      BY <2>2, <2>3, <2>4, <2>5
  <1>2. IInv /\ [Next]_vars => IInv'
    BY TypeStep, IdsStep, RegistryStep, PushStep, QuorumStep DEF IInv
  <1>3. SInv /\ IInv' /\ [Next]_vars => SInv'
    BY OwnersStep, KeepsStep, PushedStep, PullsApartStep, BeforeStep, ReadsStep
       DEF SInv, IInv
  <1>4. SInv /\ [Next]_vars => SInv'
    BY <1>2, <1>3 DEF SInv
  <1> QED
    BY <1>1, <1>4, InductiveInvariant, PTL DEF Spec, SInv

\* Quorums overlap: in a cluster of any size, with any plans, partitions, lost
\* messages and repeated acks, a query at a majority ratio that answers finds
\* what every earlier request at a majority ratio replicated, and a query at
\* ratio `all` finds whatever an earlier request applied or answered.
THEOREM QuorumsOverlap == Spec => []ReadsFindEarlier
  <1>1. SInv => ReadsFindEarlier
    BY DEF SInv, ReadsFind, Finds, Owed, ReadsFindEarlier, Follows
  <1> QED
    BY <1>1, StoreInvariant, PTL

-----------------------------------------------------------------------------
(* The largest of a bounded set of numbers *)

LEMMA LargestExists ==
  ASSUME NEW S \in SUBSET Nat, S # {}, NEW b \in Nat, \A s \in S : s <= b
  PROVE  \E v \in S : \A w \in S : w <= v
  <1> DEFINE U == {u \in Nat : \A s \in S : s <= u}
  <1>1. PICK m \in U : \A y \in U : ~ (<<y, m>> \in OpToRel(<, Nat))
    <2>1. U \subseteq Nat /\ U # {}
      OBVIOUS
    <2> HIDE DEF U
    <2> QED
      BY <2>1, NatLessThanWellFounded, WFMin
  <1>2. \A y \in U : ~ (y < m)
    BY <1>1, Zenon DEF OpToRel
  <1>3. m \in Nat /\ \A s \in S : s <= m
    OBVIOUS
  <1>4. m \in S
    <2> SUFFICES ASSUME m \notin S PROVE FALSE
      OBVIOUS
    <2>1. PICK s \in S : s <= m /\ s # m
      BY <1>3
    <2>2. m - 1 \in U
      BY <1>3, <2>1
    <2> QED
      BY <1>2, <1>3, <2>2
  <1> QED
    BY <1>3, <1>4

-----------------------------------------------------------------------------
(* The join of a set of vectors *)

JoinOf(V) == [s \in Node |-> LET vs == {0} \cup {v[s] : v \in V}
                             IN  CHOOSE x \in vs : \A y \in vs : y <= x]

LEMMA JoinOfIsLeast ==
  ASSUME NEW V \in SUBSET Vector, NEW u \in Vector, \A v \in V : Covers(u, v)
  PROVE  /\ JoinOf(V) \in Vector /\ Covers(u, JoinOf(V))
         /\ \A v \in V : Covers(JoinOf(V), v)
  <1> DEFINE vs(s) == {0} \cup {v[s] : v \in V}
  <1>1. ASSUME NEW s \in Node
        PROVE  /\ JoinOf(V)[s] \in vs(s) /\ \A y \in vs(s) : y <= JoinOf(V)[s]
               /\ vs(s) \subseteq Nat /\ \A y \in vs(s) : y <= u[s]
    <2>1. vs(s) \in SUBSET Nat /\ vs(s) # {} /\ u[s] \in Nat
      BY DEF Vector
    <2>2. \A y \in vs(s) : y <= u[s]
      BY <2>1 DEF Covers, Vector
    <2>3. JoinOf(V)[s] = CHOOSE x \in vs(s) : \A y \in vs(s) : y <= x
      BY DEF JoinOf
    <2> HIDE DEF vs
    <2>4. \E x \in vs(s) : \A y \in vs(s) : y <= x
      BY <2>1, <2>2, LargestExists
    <2> QED
      BY <2>1, <2>2, <2>3, <2>4
  <1>2. JoinOf(V) \in Vector
    <2>1. \A s \in Node : JoinOf(V)[s] \in Nat
      BY <1>1
    <2>2. JoinOf(V) = [s \in Node |-> JoinOf(V)[s]]
      BY DEF JoinOf
    <2> QED
      BY <2>1, <2>2 DEF Vector
  <1>3. Covers(u, JoinOf(V))
    BY <1>1 DEF Covers
  <1>4. ASSUME NEW v \in V PROVE Covers(JoinOf(V), v)
    <2>1. \A s \in Node : v[s] \in vs(s)
      OBVIOUS
    <2> QED
      BY <1>1, <2>1 DEF Covers
  <1> QED
    BY <1>2, <1>3, <1>4

\* What the majority requests of S have left.
Gains(S) == {Kept(o) : o \in {x \in S : Majority(x)}}
Done == {o \in Op : pc[o] = "done"}

LEMMA KeptByJoins ==
  /\ KeptBy(Done) = JoinOf(Gains(Done))
  /\ \A r \in Op : KeptBy(before[r]) = JoinOf(Gains(before[r]))
  /\ KeptBy(Done)' = JoinOf(Gains(Done)')
  /\ \A r \in Op : KeptBy(before[r])' = JoinOf(Gains(before[r])')
  <1>1. \A S : KeptBy(S) = JoinOf(Gains(S))
    BY DEF KeptBy, JoinOf, Gains
  <1>2. KeptBy(Done)' = JoinOf(Gains(Done)')
    BY DEF KeptBy, JoinOf, Gains
  <1>3. \A r \in Op : KeptBy(before[r])' = JoinOf(Gains(before[r])')
    BY DEF KeptBy, JoinOf, Gains
  <1> QED
    BY <1>1, <1>2, <1>3

LEMMA KeptIsApplied ==
  SInv => \A o \in Op : Kept(o) \in Vector /\ Covers(Applied, Kept(o))
  <1> SUFFICES ASSUME SInv, NEW o \in Op
               PROVE  Kept(o) \in Vector /\ Covers(Applied, Kept(o))
    OBVIOUS
  <1>1. /\ pushed[o] \in Vector /\ result[o] \in Vector /\ at[o] \in Node
        /\ st[at[o]] \in Vector /\ Applied \in Vector
    BY AppliedType DEF SInv, IInv, TypeOK
  <1>2. Covers(Applied, st[at[o]])
    BY <1>1 DEF SInv, OwnersLead
  <1>3. Covers(st[at[o]], pushed[o]) /\ Covers(st[at[o]], result[o])
    BY DEF SInv, CoordinatorKeeps
  <1> QED
    BY <1>1, <1>2, <1>3, CoversTrans DEF Kept

LEMMA KeptIsAppliedNext ==
  SInv' => (\A o \in Op : Kept(o) \in Vector /\ Covers(Applied, Kept(o)))'
  BY KeptIsApplied, PTL

\* What is stable changes only when a majority request succeeds, and what was
\* stable when a query began never does.
LEMMA StableMoves ==
  ASSUME TypeOK, BeforeOver, NEW o \in Op, ratio' = ratio, pc[o] # "done",
         \A w \in Op \ {o} : /\ pc'[w] = pc[w] /\ pushed'[w] = pushed[w]
                             /\ result'[w] = result[w]
  PROVE  /\ \A r \in Op : before'[r] = before[r] =>
                            KeptBy(before[r])' = KeptBy(before[r])
         /\ KeptBy(Done)' = IF pc'[o] = "done" /\ Majority(o)
                            THEN JoinOf(Gains(Done) \cup {Kept(o)'})
                            ELSE KeptBy(Done)
  <1>1. \A w \in Op : Majority(w)' = Majority(w)
    BY DEF Majority
  <1>2. ASSUME NEW w \in Op, w # o PROVE Kept(w)' = Kept(w)
    BY <1>2 DEF Kept
  <1>3. ASSUME NEW r \in Op, before'[r] = before[r]
        PROVE  KeptBy(before[r])' = KeptBy(before[r])
    <2>1. \A w \in before[r] : w \in Op /\ w # o
      BY DEF BeforeOver
    <2>2. Gains(before[r])' = Gains(before[r])
      BY <1>1, <1>2, <1>3, <2>1 DEF Gains
    <2> QED
      BY <2>2, KeptByJoins
  <1>4. Done' = Done \cup (IF pc'[o] = "done" THEN {o} ELSE {}) /\ o \notin Done
    BY DEF Done
  <1>5. Done \subseteq Op
    BY DEF Done
  <1>6. Gains(Done)' = {Kept(w)' : w \in {x \in Done' : Majority(x)'}}
    BY DEF Gains
  <1>7. CASE pc'[o] = "done" /\ Majority(o)
    <2>1. Gains(Done)' = Gains(Done) \cup {Kept(o)'}
      BY <1>1, <1>2, <1>4, <1>5, <1>6, <1>7 DEF Gains
    <2> QED
      BY <1>3, <1>7, <2>1, KeptByJoins
  <1>8. CASE ~(pc'[o] = "done" /\ Majority(o))
    <2>1. Gains(Done)' = Gains(Done)
      BY <1>1, <1>2, <1>4, <1>5, <1>6, <1>8 DEF Gains
    <2> QED
      BY <1>3, <1>8, <2>1, KeptByJoins
  <1> QED
    BY <1>7, <1>8

\* Only an update applies anything.
LEMMA OnlyApplyApplies ==
  ASSUME TypeOK, OwnersLead, [Next]_vars, \A o \in Op : ~Apply(o)
  PROVE  Applied' = Applied
  <1> USE DEF nodeVars, netVars, opVars, reqVars
  <1>1. UNCHANGED st => Applied' = Applied
    BY DEF Applied
  <1>2. ASSUME NEW o \in Op, \/ BeginRead(o) \/ BeginPush(o) \/ DiscardAck(o)
                             \/ Query(o) \/ Timeout(o)
        PROVE  Applied' = Applied
    BY <1>1, <1>2 DEF BeginRead, BeginPush, DiscardAck, Query, Timeout
  <1>3. ASSUME NEW o \in Op, CollectAck(o) PROVE Applied' = Applied
    <2>1. PICK a \in ch[o] : CollectAck(o)!(a)
      BY <1>3 DEF CollectAck
    <2>2. a.snap \in Vector /\ Covers(Applied, a.snap) /\ at[o] \in Node
      BY DEF TypeOK, AckMsg, OwnersLead
    <2> QED
      BY <1>1, <2>1, <2>2, MergeStep
  <1>4. ASSUME NEW m \in msgs, HandleSyncPush(m) \/ HandleGossip(m)
        PROVE  Applied' = Applied
    <2>1. m.snap \in Vector /\ m.to \in Node /\ Covers(Applied, m.snap)
      BY <1>4, MessageFields DEF HandleSyncPush, HandleGossip, TypeOK, OwnersLead
    <2> QED
      BY <1>1, <1>4, <2>1, MergeStep DEF HandleSyncPush, HandleGossip
  <1>5. ASSUME NEW m \in msgs, \/ HandleSyncPull(m) \/ HandleSyncAck(m)
                               \/ HandleDeploy(m) \/ Lose(m) \/ Duplicate(m)
        PROVE  Applied' = Applied
    BY <1>1, <1>5 DEF HandleSyncPull, HandleSyncAck, HandleDeploy, Lose, Duplicate
  <1>6. ASSUME NEW n \in Node, NEW p \in Node, Gossip(n, p) PROVE Applied' = Applied
    BY <1>1, <1>6 DEF Gossip
  <1>7. ASSUME NEW n \in Node, NEW q \in Plan, Deploy(n, q) PROVE Applied' = Applied
    BY <1>1, <1>7 DEF Deploy
  <1>8. ASSUME NEW c \in CutSets, SetLinks(c) PROVE Applied' = Applied
    BY <1>1, <1>8 DEF SetLinks
  <1>9. UNCHANGED vars => Applied' = Applied
    BY <1>1 DEF vars
  <1> QED
    BY <1>2, <1>3, <1>4, <1>5, <1>6, <1>7, <1>8, <1>9
       DEF Next, Coordinate, Receive, Handle

-----------------------------------------------------------------------------
(* The steps of the store *)

LEMMA SameVectors ==
  /\ Store!Op = Op /\ Store!Vector = Vector /\ Store!Empty = Empty
  /\ \A v, w : Store!Covers(v, w) = Covers(v, w)
  BY DEF Store!Op, Store!Vector, Store!Empty, Store!Covers, Op, Vector, Empty, Covers

\* applySync: the update is one step of the store.
LEMMA ApplyUpdates ==
  ASSUME SInv, [Next]_vars, SInv', NEW o \in Op, NEW n \in Node, n = at[o], Apply(o)
  PROVE  Store!Update(o, n)
  <1> USE DEF SInv, IInv, nodeVars, opVars, reqVars
  <1>1. /\ o \in Write /\ pc[o] = "idle" /\ pc' = [pc EXCEPT ![o] = "toPush"]
        /\ st' = [st EXCEPT ![n][n] = @ + 1] /\ result' = [result EXCEPT ![o] = st'[n]]
        /\ UNCHANGED <<pushed, before, ratio, at>> /\ n \in Node
        /\ st \in [Node -> [Node -> Nat]] /\ st' \in [Node -> Vector]
        /\ pc \in [Op -> {"idle", "pull", "toPush", "push", "query", "done", "failed"}]
        /\ result \in [Op -> Vector]
    BY DEF Apply, TypeOK, Vector
  <1>2. /\ \A r \in Op : KeptBy(before[r])' = KeptBy(before[r])
        /\ KeptBy(Done)' = KeptBy(Done)
    BY <1>1, StableMoves
  <1>3. Applied' = [Applied EXCEPT ![n] = @ + 1]
    BY <1>1 DEF Applied
  <1>4. Status(o) = "idle" /\ [w \in Op |-> Status(w)'] = [[w \in Op |-> Status(w)] EXCEPT ![o] = "open"]
    BY <1>1 DEF Status
  <1>5. result'[o] = st'[n] /\ st'[n] \in Vector /\ Covers(Applied', result'[o])
        /\ result'[o][n] = Applied'[n]
    BY <1>1 DEF OwnersLead, Applied
  <1>6. result' = [result EXCEPT ![o] = result'[o]]
    BY <1>1, <1>5
  <1>7. \A w \in Op : Majority(w)' = Majority(w)
    BY <1>1 DEF Majority
  <1>8. UNCHANGED <<[r \in Op |-> KeptBy(before[r])], KeptBy(Done)>>
        /\ {r \in Op : Majority(r)}' = {r \in Op : Majority(r)}
    BY <1>2, <1>7
  <1>9. Store!Covers(Applied', result'[o]) /\ result'[o][n] = Applied'[n]
        /\ result'[o] \in Store!Vector
    BY <1>5, SameVectors
  <1> QED
    BY <1>1, <1>3, <1>4, <1>6, <1>8, <1>9 DEF Store!Update, Store!Reply, Applied, Done

\* querySync: a query begins.
LEMMA BeginReadAsks ==
  ASSUME SInv, [Next]_vars, NEW o \in Op, BeginRead(o)
  PROVE  Store!Ask(o)
  <1> USE DEF SInv, IInv, nodeVars, opVars, reqVars
  <1>1. /\ o \in Read /\ pc[o] = "idle" /\ before' = [before EXCEPT ![o] = Done]
        /\ UNCHANGED <<st, pushed, result, ratio, at>>
        /\ pc' = [pc EXCEPT ![o] = pc'[o]] /\ pc'[o] \in {"pull", "toPush"}
        /\ pc \in [Op -> {"idle", "pull", "toPush", "push", "query", "done", "failed"}]
        /\ before \in [Op -> SUBSET Op]
    BY DEF BeginRead, TypeOK, Done
  <1>2. /\ \A r \in Op : before'[r] = before[r] => KeptBy(before[r])' = KeptBy(before[r])
        /\ KeptBy(Done)' = KeptBy(Done)
    BY <1>1, StableMoves
  <1>3. KeptBy(before[o])' = KeptBy(Done)
    <2>1. before'[o] = Done /\ Done' = Done
      BY <1>1 DEF Done
    <2>2. Gains(before[o])' = Gains(Done)'
      BY <2>1 DEF Gains
    <2> QED
      BY <1>2, <2>2, KeptByJoins
  <1>4. [r \in Op |-> KeptBy(before[r])'] = [[r \in Op |-> KeptBy(before[r])] EXCEPT ![o] = KeptBy(Done)]
    BY <1>1, <1>2, <1>3
  <1>5. Status(o) = "idle" /\ [w \in Op |-> Status(w)'] = [[w \in Op |-> Status(w)] EXCEPT ![o] = "open"]
    BY <1>1 DEF Status
  <1>6. \A w \in Op : Majority(w)' = Majority(w)
    BY <1>1 DEF Majority
  <1> QED
    BY <1>1, <1>2, <1>4, <1>5, <1>6 DEF Store!Ask, Done

\* A request that times out.
LEMMA TimeoutFails ==
  ASSUME SInv, [Next]_vars, NEW o \in Op, Timeout(o)
  PROVE  Store!Fail(o)
  <1> USE DEF SInv, IInv, nodeVars, opVars, reqVars
  <1>1. /\ pc[o] \in {"pull", "push"} /\ pc' = [pc EXCEPT ![o] = "failed"]
        /\ UNCHANGED <<st, pushed, result, ratio, at, before>>
        /\ pc \in [Op -> {"idle", "pull", "toPush", "push", "query", "done", "failed"}]
    BY DEF Timeout, TypeOK, Waiting
  <1>2. /\ \A r \in Op : KeptBy(before[r])' = KeptBy(before[r])
        /\ KeptBy(Done)' = KeptBy(Done)
    BY <1>1, StableMoves
  <1>3. Status(o) = "open" /\ [w \in Op |-> Status(w)'] = [[w \in Op |-> Status(w)] EXCEPT ![o] = "failed"]
    BY <1>1 DEF Status
  <1>4. \A w \in Op : Majority(w)' = Majority(w)
    BY <1>1 DEF Majority
  <1> QED
    BY <1>1, <1>2, <1>3, <1>4 DEF Store!Fail, Done

\* Before it answers, a query at a majority ratio has at its coordinator what was
\* stable when it began.
LEMMA FloorFound ==
  ASSUME SInv, NEW o \in Read, pc[o] = "query", Majority(o)
  PROVE  Covers(st[at[o]], KeptBy(before[o]))
  <1> USE DEF SInv, IInv
  <1>1. /\ o \in Op /\ at[o] \in Node /\ st[at[o]] \in Vector
        /\ ratio[o] \in Ratios
    BY DEF TypeOK, Op
  <1>2. ASSUME NEW w \in before[o], Majority(w)
        PROVE  Kept(w) \in Vector /\ Covers(st[at[o]], Kept(w))
    <2>1. w \in Op /\ at[w] \in Node /\ ratio[w] \in Ratios
      BY <1>1 DEF BeforeOver, TypeOK
    <2>2. CASE Reached(1, ratio[w])
      <3>1. at[w] = at[o]
        BY <1>1, <1>2, <2>1, <2>2, OneIsMajority DEF Majority
      <3> QED
        BY <2>1, <2>2, <3>1, KeptIsApplied DEF Kept, CoordinatorKeeps
    <2>3. CASE ~Reached(1, ratio[w])
      <3>1. Finds(o, pushed[w])
        BY <1>2 DEF ReadsFind, Owed
      <3> QED
        BY <2>1, <2>3, <3>1, KeptIsApplied DEF Kept, Finds
    <2> QED
      BY <2>2, <2>3
  <1>3. /\ Gains(before[o]) \in SUBSET Vector
        /\ \A v \in Gains(before[o]) : Covers(st[at[o]], v)
    BY <1>2 DEF Gains
  <1> QED
    BY <1>1, <1>3, JoinOfIsLeast, KeptByJoins

\* A request that succeeds: an update is confirmed, a query answered.
LEMMA SuccessConfirms ==
  ASSUME SInv, SInv', NEW o \in Op, ratio' = ratio, before' = before,
         pc[o] \in {"toPush", "push", "query"}, pc' = [pc EXCEPT ![o] = "done"],
         Applied' = Applied, pushed' = pushed,
         \/ o \in Write /\ result' = result
         \/ o \in Read /\ result' = [result EXCEPT ![o] = st[at[o]]] /\ pc[o] = "query"
  PROVE  Store!Confirm(o) \/ Store!Answer(o)
  <1> USE DEF SInv, IInv
  <1>1. /\ pc \in [Op -> {"idle", "pull", "toPush", "push", "query", "done", "failed"}]
        /\ result \in [Op -> Vector] /\ result' \in [Op -> Vector] /\ pc'[o] = "done"
        /\ at[o] \in Node /\ st[at[o]] \in Vector /\ Applied \in Vector
        /\ \A w \in Op \ {o} : pc'[w] = pc[w] /\ result'[w] = result[w]
    BY AppliedType DEF TypeOK
  <1>2. /\ \A r \in Op : KeptBy(before[r])' = KeptBy(before[r])
        /\ KeptBy(Done)' = IF Majority(o) THEN JoinOf(Gains(Done) \cup {Kept(o)'})
                                          ELSE KeptBy(Done)
    BY <1>1, StableMoves
  <1>3. Status(o) = "open" /\ [w \in Op |-> Status(w)'] = [[w \in Op |-> Status(w)] EXCEPT ![o] = "done"]
    BY <1>1 DEF Status
  <1>4. \A w \in Op : Majority(w)' = Majority(w)
    BY DEF Majority
  <1>5. /\ Gains(Done) \in SUBSET Vector /\ \A v \in Gains(Done) : Covers(Applied, v)
        /\ KeptBy(Done) = JoinOf(Gains(Done))
    BY KeptIsApplied, KeptByJoins DEF Gains, Done
  <1>6. Kept(o)' \in Vector /\ Covers(Applied, Kept(o)')
    BY KeptIsAppliedNext
  \* What majority requests leave behind is more and more of what is applied.
  <1>7. /\ Store!Stabilize(o)
        /\ Majority(o) => KeptBy(Done)' \in Vector /\ Covers(KeptBy(Done)', Kept(o)')
    <2>1. CASE Majority(o)
      <3> DEFINE V == Gains(Done) \cup {Kept(o)'}
      <3>1. /\ JoinOf(V) \in Vector /\ Covers(Applied, JoinOf(V))
            /\ \A v \in V : Covers(JoinOf(V), v)
        BY <1>1, <1>5, <1>6, JoinOfIsLeast
      <3>2. Covers(JoinOf(V), JoinOf(Gains(Done)))
        BY <1>5, <3>1, JoinOfIsLeast
      <3>3. KeptBy(Done)' = JoinOf(V)
        BY <1>2, <2>1
      <3> HIDE DEF V
      <3>4. Covers(JoinOf(V), Kept(o)')
        BY <3>1 DEF V
      <3> QED
        BY <1>5, <2>1, <3>1, <3>2, <3>3, <3>4, SameVectors
           DEF Store!Stabilize, Applied, Done
    <2>2. CASE ~Majority(o)
      BY <1>2, <2>2 DEF Store!Stabilize, Done
    <2> QED
      BY <2>1, <2>2
  <1>8. CASE o \in Write /\ result' = result
    <2>1. ~Reached(1, ratio[o]) => Covers(pushed'[o], result'[o])
      BY <1>1, <1>8 DEF UpdatesPushed
    <2>2. Covers(Kept(o)', result[o]) /\ result[o] \in Vector
      BY <1>1, <1>8, <2>1, CoversRefl DEF Kept
    <2>3. Majority(o) => Covers(KeptBy(Done)', result[o])
      BY <1>6, <1>7, <2>2, CoversTrans
    <2>4. Store!Confirm(o)
      BY <1>1, <1>2, <1>3, <1>4, <1>7, <1>8, <2>3, SameVectors
         DEF Store!Confirm, Applied, Done
    <2> QED
      BY <2>4
  <1>9. CASE o \in Read /\ result' = [result EXCEPT ![o] = st[at[o]]] /\ pc[o] = "query"
    <2>1. result'[o] = st[at[o]]
      BY <1>1, <1>9
    <2>2. Store!Reply(o)
      BY <1>1, <1>9, <2>1, SameVectors DEF Store!Reply
    <2>3. Covers(Applied, result'[o])
      BY <1>1, <2>1 DEF OwnersLead
    <2>4. Majority(o) => Covers(result'[o], KeptBy(before[o]))
      BY <1>9, <2>1, FloorFound
    <2>5. Store!Answer(o)
      BY <1>1, <1>2, <1>3, <1>4, <1>7, <1>9, <2>2, <2>3, <2>4, SameVectors
         DEF Store!Answer, Applied, Done
    <2> QED
      BY <2>5
  <1> QED
    BY <1>8, <1>9

\* A step at which no request begins or ends, and nothing is applied, is not seen
\* by the clients.
LEMMA NothingSeen ==
  ASSUME SInv, [Next]_vars, ratio' = ratio, result' = result, before' = before,
         \A o \in Op : Status(o)' = Status(o),
         \A o \in Op : pc[o] = "done" => pushed'[o] = pushed[o]
  PROVE  UNCHANGED Store!storeVars
  <1> USE DEF SInv, IInv
  <1>1. \A o \in Op : /\ pc[o] = "done" <=> pc'[o] = "done"
                      /\ pc[o] = "idle" <=> pc'[o] = "idle"
    BY DEF Status
  <1>2. \A o \in Op : ~Apply(o)
    BY <1>1 DEF Apply, TypeOK
  <1>3. Applied' = Applied
    BY <1>2, OnlyApplyApplies
  <1>4. Done' = Done
    BY <1>1 DEF Done
  <1>5. \A o \in Op : Majority(o)' = Majority(o)
    BY DEF Majority
  <1>6. \A o \in Done : Kept(o)' = Kept(o)
    BY DEF Kept, Done
  <1>7. Gains(Done)' = Gains(Done)
    BY <1>4, <1>5, <1>6 DEF Gains, Done
  <1>8. ASSUME NEW r \in Op PROVE KeptBy(before[r])' = KeptBy(before[r])
    <2>1. \A o \in before[r] : o \in Done
      BY DEF BeforeOver, Done
    <2>2. Gains(before[r])' = Gains(before[r])
      BY <1>5, <1>6, <2>1 DEF Gains, Done
    <2> QED
      BY <2>2, KeptByJoins
  <1>9. KeptBy(Done)' = KeptBy(Done)
    BY <1>7, KeptByJoins
  <1> QED
    BY <1>3, <1>5, <1>8, <1>9 DEF Store!storeVars, Applied, Done

\* Every step of the cluster is a step of the store or is not seen by the clients.
LEMMA StepRefines == SInv /\ SInv' /\ [Next]_vars => [Store!Next]_(Store!storeVars)
  <1> SUFFICES ASSUME SInv, SInv', [Next]_vars
               PROVE  Store!Next \/ UNCHANGED Store!storeVars
    OBVIOUS
  <1> USE DEF nodeVars, netVars, opVars, reqVars
  <1> DEFINE Unseen == UNCHANGED <<pc, ratio, result, before, pushed>>
  <1>1. /\ pc \in [Op -> {"idle", "pull", "toPush", "push", "query", "done", "failed"}]
        /\ pushed \in [Op -> Vector] /\ at \in [Op -> Node]
    BY DEF SInv, IInv, TypeOK
  <1>2. Unseen => UNCHANGED Store!storeVars
    <2>1. Unseen => \A o \in Op : Status(o)' = Status(o)
      BY DEF Status
    <2> QED
      BY <2>1, NothingSeen
  <1>3. ASSUME NEW o \in Op, Store!Ask(o) \/ Store!Confirm(o) \/ Store!Answer(o) \/ Store!Fail(o)
        PROVE  Store!Next
    BY <1>3, SameVectors DEF Store!Next
  \* A request that stays open.
  <1>4. ASSUME NEW o \in Op, pc[o] \in {"pull", "toPush", "push", "query"},
               NEW x \in {"pull", "toPush", "push", "query"},
               pc' = [pc EXCEPT ![o] = x], ratio' = ratio, result' = result,
               before' = before, \A w \in Op \ {o} : pushed'[w] = pushed[w]
        PROVE  UNCHANGED Store!storeVars
    <2>1. \A w \in Op : Status(w)' = Status(w)
      BY <1>1, <1>4 DEF Status
    <2>2. \A w \in Op : pc[w] = "done" => pushed'[w] = pushed[w]
      BY <1>4
    <2> QED
      BY <1>4, <2>1, <2>2, NothingSeen
  \* A request that succeeds.
  <1>5. ASSUME NEW o \in Op, pc[o] \in {"toPush", "push", "query"},
               pc' = [pc EXCEPT ![o] = "done"], ratio' = ratio, before' = before,
               pushed' = pushed,
               \/ o \in Write /\ result' = result
               \/ o \in Read /\ result' = [result EXCEPT ![o] = st[at[o]]] /\ pc[o] = "query"
        PROVE  Store!Next
    <2>1. \A w \in Op : ~Apply(w)
      BY <1>1, <1>5 DEF Apply
    <2>2. Applied' = Applied
      BY <2>1, OnlyApplyApplies DEF SInv, IInv
    <2>3. Store!Confirm(o) \/ Store!Answer(o)
      BY <1>5, <2>2, SuccessConfirms
    <2> QED
      BY <1>3, <2>3
  <1>6. ASSUME NEW o \in Op, Apply(o) PROVE Store!Next
    <2>1. PICK n \in Node : n = at[o]
      BY <1>1
    <2>2. Store!Update(o, n)
      BY <1>6, <2>1, ApplyUpdates
    <2> QED
      BY <2>2, SameVectors DEF Store!Next
  <1>7. ASSUME NEW o \in Op, BeginRead(o) PROVE Store!Next
    BY <1>3, <1>7, BeginReadAsks
  <1>8. ASSUME NEW o \in Op, BeginPush(o)
        PROVE  Store!Next \/ UNCHANGED Store!storeVars
    <2>1. CASE Reached(1, ratio[o]) /\ o \in Write
      BY <1>5, <1>8, <2>1 DEF BeginPush, AfterPush
    <2>2. CASE Reached(1, ratio[o]) /\ o \notin Write
      BY <1>4, <1>8, <2>2 DEF BeginPush, AfterPush
    <2>3. CASE ~Reached(1, ratio[o])
      <3>1. /\ pc[o] = "toPush" /\ pc' = [pc EXCEPT ![o] = "push"]
            /\ UNCHANGED <<ratio, result, before>>
            /\ pushed' = [pushed EXCEPT ![o] = st[at[o]]]
        BY <1>8, <2>3 DEF BeginPush
      <3>2. \A w \in Op \ {o} : pushed'[w] = pushed[w]
        BY <1>1, <3>1
      <3> QED
        BY <1>4, <3>1, <3>2
    <2> QED
      BY <2>1, <2>2, <2>3
  <1>9. ASSUME NEW o \in Op, CollectAck(o)
        PROVE  Store!Next \/ UNCHANGED Store!storeVars
    <2>1. PICK a \in ch[o] : CollectAck(o)!(a)
      BY <1>9 DEF CollectAck
    <2>2. pc[o] \in {"pull", "push"} /\ UNCHANGED <<ratio, result, before, pushed>>
      BY <2>1 DEF Waiting
    <2>3. CASE ~Reached(1 + count[o] + 1, ratio[o])
      BY <1>2, <2>1, <2>2, <2>3
    <2>4. CASE Reached(1 + count[o] + 1, ratio[o]) /\ pc[o] = "push" /\ o \in Write
      BY <1>5, <2>1, <2>2, <2>4 DEF AfterPush
    <2>5. CASE /\ Reached(1 + count[o] + 1, ratio[o])
               /\ ~(pc[o] = "push" /\ o \in Write)
      <3>1. /\ pc[o] = "pull" => pc' = [pc EXCEPT ![o] = "toPush"]
            /\ pc[o] = "push" => pc' = [pc EXCEPT ![o] = "query"]
        BY <1>1, <2>1, <2>2, <2>5 DEF AfterPush
      <3> QED
        BY <1>4, <2>2, <3>1
    <2> QED
      BY <2>3, <2>4, <2>5
  <1>10. ASSUME NEW o \in Op, Query(o) PROVE Store!Next
    <2>1. o \in Read
      BY <1>10 DEF Query, SInv, UpdatesPushed, Op
    <2> QED
      BY <1>5, <1>10, <2>1 DEF Query
  <1>11. ASSUME NEW o \in Op, Timeout(o) PROVE Store!Next
    BY <1>3, <1>11, TimeoutFails
  <1>12. ASSUME NEW m \in msgs, Handle(m) \/ Lose(m) \/ Duplicate(m) PROVE Unseen
    BY <1>12 DEF Handle, HandleSyncPush, HandleSyncPull, HandleSyncAck,
                 HandleGossip, HandleDeploy, Lose, Duplicate
  <1>13. ASSUME NEW n \in Node, NEW p \in Node, Gossip(n, p) PROVE Unseen
    BY <1>13 DEF Gossip
  <1>14. ASSUME NEW n \in Node, NEW q \in Plan, Deploy(n, q) PROVE Unseen
    BY <1>14 DEF Deploy
  <1>15. ASSUME NEW c \in CutSets, SetLinks(c) PROVE Unseen
    BY <1>15 DEF SetLinks
  <1>16. UNCHANGED vars => Unseen
    BY DEF vars
  <1>17. ASSUME NEW o \in Op, DiscardAck(o) PROVE Unseen
    BY <1>17 DEF DiscardAck
  <1> HIDE DEF Unseen
  <1> QED
    BY <1>2, <1>6, <1>7, <1>8, <1>9, <1>10, <1>11, <1>12, <1>13, <1>14, <1>15,
       <1>16, <1>17
       DEF Next, Coordinate, Receive

\* A cluster that has served no request is a store nothing was done to.
LEMMA InitRefines == Init => Store!Init
  <1> SUFFICES ASSUME Init PROVE Store!Init
    OBVIOUS
  <1>1. Done = {} /\ \A o \in Op : before[o] = {}
    BY DEF Init, InitWith, Done
  <1>2. Gains(Done) = {} /\ \A o \in Op : Gains(before[o]) = {}
    BY <1>1 DEF Gains
  <1>3. Covers(Empty, JoinOf({})) /\ JoinOf({}) \in Vector /\ Empty \in Vector
    <2>1. Empty \in Vector /\ {} \in SUBSET Vector /\ \A v \in {} : Covers(Empty, v)
      BY DEF Empty, Vector
    <2> QED
      BY <2>1, JoinOfIsLeast
  <1>4. JoinOf({}) = Empty
    BY <1>3 DEF Covers, Empty, Vector
  <1>5. KeptBy(Done) = Empty /\ \A o \in Op : KeptBy(before[o]) = Empty
    BY <1>2, <1>4, KeptByJoins
  <1>6. [s \in Node |-> st[s][s]] = Empty
    BY DEF Init, InitWith, Empty
  <1>7. [o \in Op |-> Status(o)] = [o \in Op |-> "idle"]
    BY DEF Init, InitWith, Status
  <1>8. result = [o \in Op |-> Empty]
    BY DEF Init, InitWith
  <1>9. KeptBy({o \in Op : pc[o] = "done"}) = Empty
    BY <1>5 DEF Done
  <1> QED
    BY <1>5, <1>6, <1>7, <1>8, <1>9, SameVectors DEF Store!Init

\* Whatever messages are lost, repeated or handled in whatever order, and whichever
\* requests time out, clients of applySync and querySync see the regular store of
\* QuorumStore: an update that a majority ratio confirms is found by every query
\* at a majority ratio that begins later.
THEOREM ClusterIsAStore == Spec => ImplementsStore
  <1>1. Init => Store!Init
    BY InitRefines
  <1>2. SInv /\ SInv' /\ [Next]_vars => [Store!Next]_(Store!storeVars)
    BY StepRefines
  <1> QED
    BY <1>1, <1>2, StoreInvariant, PTL DEF Spec, ImplementsStore, Store!Spec

-----------------------------------------------------------------------------
(* The vectors *)

Counts == INSTANCE UpdateCounts WITH counts <- st

\* A merge of what no owner is behind is a merge of counts.
LEMMA JoinMerges ==
  ASSUME TypeOK, NEW n \in Node, NEW v \in Vector, Covers(Applied, v),
         st' = [st EXCEPT ![n] = Join(@, v)]
  PROVE  Counts!Next
  <1>1. v \in Counts!Vector /\ Counts!Ahead(Counts!Owners, v)
    BY DEF Vector, Covers, Applied, Counts!Vector, Counts!Ahead, Counts!Owners
  <1>2. st' = [st EXCEPT ![n] = Counts!Larger(@, v)]
    BY DEF Join, Counts!Larger
  <1> QED
    BY <1>1, <1>2 DEF Counts!Merge, Counts!Next

\* The nodes' vectors change as those of VectorCRDT count: by updates of a node's
\* own slot, and by merges of vectors that are nowhere ahead of the owners, in acks
\* of pulls, pushes and gossip alike (Apply, collectAcks, handleSyncPush, Receive).
THEOREM NodesCount == Spec => Counts!Spec
  <1>1. Init => Counts!Init
    BY DEF Init, InitWith, Empty, Counts!Init
  <1>2. ASSUME SInv, [Next]_vars PROVE [Counts!Next]_st
    <2> DEFINE G == Counts!Next \/ st' = st
    <2> USE DEF nodeVars, netVars, opVars, reqVars
    <2>1. TypeOK /\ OwnersLead
      BY <1>2 DEF SInv, IInv
    <2>2. ASSUME NEW o \in Op, Apply(o) PROVE Counts!Next
      BY <2>1, <2>2 DEF Apply, TypeOK, Counts!Update, Counts!Next
    <2>3. ASSUME NEW o \in Op, CollectAck(o) PROVE G
      <3>1. PICK a \in ch[o] : CollectAck(o)!(a)
        BY <2>3 DEF CollectAck
      <3>2. a.snap \in Vector /\ Covers(Applied, a.snap) /\ at[o] \in Node
        BY <2>1 DEF TypeOK, AckMsg, OwnersLead
      <3> QED
        BY <2>1, <3>1, <3>2, JoinMerges
    <2>4. ASSUME NEW m \in msgs, HandleSyncPush(m) \/ HandleGossip(m) PROVE G
      <3>1. m.snap \in Vector /\ m.to \in Node /\ Covers(Applied, m.snap)
        BY <2>1, <2>4, MessageFields DEF HandleSyncPush, HandleGossip, TypeOK, OwnersLead
      <3> QED
        BY <2>1, <2>4, <3>1, JoinMerges DEF HandleSyncPush, HandleGossip
    <2>5. ASSUME NEW o \in Op, \/ BeginRead(o) \/ BeginPush(o) \/ DiscardAck(o)
                               \/ Query(o) \/ Timeout(o)
          PROVE  st' = st
      BY <2>5 DEF BeginRead, BeginPush, DiscardAck, Query, Timeout
    <2>6. ASSUME NEW m \in msgs, \/ HandleSyncPull(m) \/ HandleSyncAck(m)
                                 \/ HandleDeploy(m) \/ Lose(m) \/ Duplicate(m)
          PROVE  st' = st
      BY <2>6 DEF HandleSyncPull, HandleSyncAck, HandleDeploy, Lose, Duplicate
    <2>7. ASSUME \/ \E n, p \in Node : Gossip(n, p)
                 \/ \E n \in Node, q \in Plan : Deploy(n, q)
                 \/ \E c \in CutSets : SetLinks(c)
                 \/ UNCHANGED vars
          PROVE  st' = st
      BY <2>7 DEF Gossip, Deploy, SetLinks, vars
    <2>8. G
      BY <1>2, <2>2, <2>3, <2>4, <2>5, <2>6, <2>7 DEF Next, Coordinate, Receive, Handle
    <2> QED
      BY <2>8
  <1> QED
    BY <1>1, <1>2, StoreInvariant, PTL DEF Spec, Counts!Spec
=============================================================================
