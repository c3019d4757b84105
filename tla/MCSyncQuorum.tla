---------------------------- MODULE MCSyncQuorum ----------------------------
(***************************************************************************)
(* Instances of SyncQuorum for TLC.  A deployed cluster, the state every   *)
(* client of a running system meets, is one where each node has got the    *)
(* same plan and the deploy messages are gone; the runs about the          *)
(* operations start there, the run about deployment at Init.               *)
(***************************************************************************)
EXTENDS SyncQuorum

FirstNode == CHOOSE n \in Node : TRUE

DeployedInit == \E q \in Plan : InitWith([n \in Node |-> q])

\* Nodes are interchangeable when no link is ever cut: the updates are made at
\* the first one.
OperationsInit == DeployedInit /\ \A w \in Write : at[w] = FirstNode
OperationsSpec == OperationsInit /\ [][Next]_vars /\ Fairness

\* Bound of the run about deployment: gossip is sent, and links are cut, only
\* where the updates are asynchronous.
GossipOrQuorum ==
  \/ \A o \in Op : ratio[o] = 0
  \/ cut = {} /\ \A m \in msgs : m.type # "gossip"

\* An update and the first query share a coordinator, the second one does not.
SharedCoordinatorInit ==
  /\ DeployedInit
  /\ \A r \in Read, w \in Write :
       at[r] = at[w] <=> r = CHOOSE x \in Read : TRUE
SharedCoordinatorSpec == SharedCoordinatorInit /\ [][Next]_vars

\* Bound for a run that looks for one behaviour: the queries come one after the
\* other, and no request times out.
ReadsInTurn ==
  /\ \A o \in Op : pc[o] # "failed"
  /\ \A q, r \in Read : q # r => pc[q] \in {"idle", "done"} \/ pc[r] \in {"idle", "done"}

\* The ratios clients ask for.
Majorities == {50}
AllRatios == {0, 50, All}

\* Of two plans one lets updates through whose slots peers refuse: those of the
\* first node fail on the wire.  Those of the second node break its merge function
\* in gossip.
SecondNode == CHOOSE n \in Node : n # FirstNode
SoundPlan == CHOOSE q \in Plan : TRUE
FirstUnfit ==
  LET vs == [Node -> 0..Cardinality(Write)] IN
  {<<"wire", q, v, w>> : q \in Plan \ {SoundPlan}, v \in vs, w \in {u \in vs : u[FirstNode] > 0}}
  \cup
  {<<"gossip", q, v, w>> : q \in Plan \ {SoundPlan}, v \in vs, w \in {u \in vs : u[SecondNode] > 0}}

\* Clients deploy at two nodes at once.
TwoDeployers == {FirstNode, SecondNode}

\* The first node can be cut off.
IsolateFirst == {{}, {{FirstNode, p} : p \in Peers(FirstNode)}}
=============================================================================
