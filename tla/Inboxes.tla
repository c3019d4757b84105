------------------------------ MODULE Inboxes -------------------------------
(***************************************************************************)
(* The goroutines of a cluster and the channels between them: the inbox of *)
(* each node, of bounded capacity, its message loop, its gossip loop, the  *)
(* call that deploys a plan, requests with the goroutines that carry their *)
(* pushes and acks, and nodes that stop.                                   *)
(*                                                                         *)
(* Go serves the goroutines that wait to send on a channel in turn, so an  *)
(* inbox and those who wait at it are one queue: whoever stands behind its *)
(* first Capacity places waits in Peer.Send, for a message to be taken out *)
(* or for the receiver to stop.  What the messages carry is left out, and  *)
(* with it the merges that fail; SyncQuorum has these.                     *)
(***************************************************************************)
EXTENDS Naturals, Sequences, FiniteSets

CONSTANTS
  Node,       \* the nodes of the cluster
  Request,    \* synchronous requests, at the ratio `all`
  Capacity,   \* places in an inbox
  Stoppable   \* bound: the nodes that may be stopped

ASSUME InboxAssumption == Capacity \in Nat \ {0}

VARIABLES
  up,         \* the nodes that have not been stopped
  ended,      \* the loops that have returned
  inbox,      \* inbox[n]: messages and senders at the inbox of n, oldest first
  carriers,   \* goroutines on their way to Send: who, to whom, what
  has,        \* the nodes that have a plan
  deployer,   \* the node the plan is deployed at
  todo,       \* the peers PropagatePlan still has to send the plan to
  call,       \* the deployment: "idle", "sending" or "answered"
  at,         \* at[r]: the coordinator of request r
  pc,         \* pc[r]: "idle", "open", "done" or "failed"
  acked,      \* acked[r]: the peers whose ack was counted
  ready       \* history: the requests begun after the deployment was answered

loops == <<up, ended>>
deploy == <<has, deployer, todo, call>>
request == <<at, pc, acked, ready>>
vars == <<loops, inbox, carriers, deploy, request>>

Peers(n) == Node \ {n}

\* The goroutines: two loops to a node, the handler of the deployment, and one
\* for each push and each ack.
Loop(n) == <<"loop", n>>
GossipLoop(n) == <<"gossip", n>>
DeployHandler == <<"deploy">>
Carrier(m, p) == <<m.type, m.req, p>>
Goroutines ==
  {Loop(n) : n \in Node} \cup {GossipLoop(n) : n \in Node} \cup {DeployHandler}
    \cup {<<t, r, p>> : t \in {"push", "ack"}, r \in Request, p \in Node}

PlanMsg(n) == [type |-> "deploy", from |-> n]
GossipMsg(n) == [type |-> "gossip", from |-> n]
Push(n, r) == [type |-> "push", from |-> n, req |-> r]
Ack(n, r) == [type |-> "ack", from |-> n, req |-> r]

\* The places of those who wait at the inbox of n.
Behind(n) == {i \in DOMAIN inbox[n] : i > Capacity}

\* The calls of Send that goroutine g is about to make, and those it waits in.
Calls(g) == {c \in carriers : c.by = g}
Waits(g) == {n \in Node : \E i \in Behind(n) : inbox[n][i].by = g}
Sending(g) == Calls(g) # {} \/ Waits(g) # {}

Init ==
  /\ up = Node /\ ended = {}
  /\ inbox = [n \in Node |-> <<>>]
  /\ carriers = {}
  /\ has = {} /\ deployer \in Node /\ todo = {} /\ call = "idle"
  /\ at \in [Request -> Node]
  /\ pc = [r \in Request |-> "idle"]
  /\ acked = [r \in Request |-> {}]
  /\ ready = {}

-----------------------------------------------------------------------------
(* Send *)

\* Goroutine g calls peer.Send(m) of peer p.  A peer that was stopped keeps
\* nobody waiting, but may still get the message while there is room.
Send(g, p, m) ==
  \/ /\ p \in up \/ Len(inbox[p]) < Capacity
     /\ inbox' = [inbox EXCEPT ![p] = Append(@, [by |-> g, msg |-> m])]
  \/ p \notin up /\ UNCHANGED inbox

\* A carrier comes to Send.
Carry(c) ==
  /\ Send(c.by, c.to, c.msg)
  /\ carriers' = carriers \ {c}
  /\ UNCHANGED <<loops, deploy, request>>

-----------------------------------------------------------------------------
(* Deployment *)

\* handleDeploy of the gateway: the node takes the plan, then PropagatePlan.
Deploy ==
  /\ call = "idle"
  /\ has' = has \cup {deployer}
  /\ todo' = Peers(deployer)
  /\ call' = "sending"
  /\ UNCHANGED <<loops, inbox, carriers, deployer, request>>

\* PropagatePlan: one peer after another.
Propagate(p) ==
  /\ p \in todo /\ ~Sending(DeployHandler)
  /\ todo' = todo \ {p}
  /\ Send(DeployHandler, p, PlanMsg(deployer))
  /\ UNCHANGED <<loops, carriers, has, deployer, call, request>>

\* Mutant of Answer: PropagatePlan is left running in the background.
AnswerAtOnce ==
  /\ call = "sending"
  /\ call' = "answered"
  /\ UNCHANGED <<loops, inbox, carriers, has, deployer, todo, request>>

\* The deployment is answered, once PropagatePlan has returned.
Answer ==
  /\ call = "sending" /\ todo = {} /\ ~Sending(DeployHandler)
  /\ call' = "answered"
  /\ UNCHANGED <<loops, inbox, carriers, has, deployer, todo, request>>

-----------------------------------------------------------------------------
(* Requests *)

\* A phase of a request up to its broadcast, with a goroutine for each peer.
Begin(r) ==
  LET push == Push(at[r], r)
  IN /\ pc[r] = "idle" /\ at[r] \in has
     /\ pc' = [pc EXCEPT ![r] = "open"]
     /\ ready' = IF call = "answered" THEN ready \cup {r} ELSE ready
     /\ carriers' = carriers \cup
          {[by |-> Carrier(push, p), to |-> p, msg |-> push] : p \in Peers(at[r])}
     /\ UNCHANGED <<loops, inbox, deploy, at, acked>>

\* The deadline in collectAcks, which comes whatever the carriers wait for.
Deadline(r) ==
  /\ pc[r] = "open"
  /\ pc' = [pc EXCEPT ![r] = "failed"]
  /\ UNCHANGED <<loops, inbox, carriers, deploy, at, acked, ready>>

-----------------------------------------------------------------------------
(* The loops *)

\* The message loop of n takes m out of its inbox.
Take(n, m) ==
  /\ Loop(n) \notin ended /\ ~Sending(Loop(n))
  /\ inbox[n] # <<>> /\ m = Head(inbox[n]).msg
  /\ inbox' = [inbox EXCEPT ![n] = Tail(@)]

HandleDeploy(n, m) ==
  /\ m.type = "deploy"
  /\ has' = has \cup {n}
  /\ UNCHANGED <<carriers, deployer, todo, call, request>>

HandleGossip(n, m) ==
  /\ m.type = "gossip"
  /\ UNCHANGED <<carriers, deploy, request>>

\* Mutant of RouteAck: the message loop sends the ack itself.
RouteAckInLoop(n, m) == [by |-> Loop(n), to |-> m.from, msg |-> Ack(n, m.req)]

\* routeAck: a goroutine carries the ack of m.
RouteAck(n, m) ==
  [by |-> Carrier(Ack(n, m.req), n), to |-> m.from, msg |-> Ack(n, m.req)]

\* A push, which a node without a plan drops.
HandleSyncPush(n, m) ==
  /\ m.type = "push"
  /\ carriers' = IF n \in has THEN carriers \cup {RouteAck(n, m)} ELSE carriers
  /\ UNCHANGED <<deploy, request>>

\* An ack, which is counted while its request is open.
HandleSyncAck(n, m) ==
  /\ m.type = "ack"
  /\ IF pc[m.req] = "open"
     THEN /\ acked' = [acked EXCEPT ![m.req] = @ \cup {m.from}]
          /\ pc' = [pc EXCEPT ![m.req] =
                      IF acked'[m.req] = Peers(n) THEN "done" ELSE @]
     ELSE UNCHANGED <<acked, pc>>
  /\ UNCHANGED <<carriers, deploy, at, ready>>

\* One round of the message loop.
Receive(n) ==
  /\ \E m \in {inbox[n][i].msg : i \in DOMAIN inbox[n]} :
       /\ Take(n, m)
       /\ \/ HandleDeploy(n, m) \/ HandleGossip(n, m)
          \/ HandleSyncPush(n, m) \/ HandleSyncAck(n, m)
  /\ UNCHANGED loops

\* Mutant of Gossip: a round does not wait for the last.
GossipApart(n, p) ==
  /\ n \in has /\ p \in Peers(n)
  /\ GossipLoop(n) \notin ended
  /\ carriers' = carriers \cup {[by |-> GossipLoop(n), to |-> p, msg |-> GossipMsg(n)]}
  /\ UNCHANGED <<loops, inbox, deploy, request>>

\* One round of the gossip loop, which waits in Send itself.
Gossip(n, p) ==
  /\ n \in has /\ p \in Peers(n)
  /\ GossipLoop(n) \notin ended /\ ~Sending(GossipLoop(n))
  /\ Send(GossipLoop(n), p, GossipMsg(n))
  /\ UNCHANGED <<loops, carriers, deploy, request>>

-----------------------------------------------------------------------------
(* The end of a node *)

\* Stop closes the quit channel, which wakes everyone who waits at the inbox.
Stop(n) ==
  /\ n \in up \cap Stoppable
  /\ up' = up \ {n}
  /\ inbox' = [inbox EXCEPT ![n] = SubSeq(@, 1, IF Len(@) > Capacity THEN Capacity ELSE Len(@))]
  /\ UNCHANGED <<ended, carriers, deploy, request>>

\* A loop of n finds the quit channel closed, once it is out of Send.
Quit(n, g) ==
  /\ n \notin up /\ g \in {Loop(n), GossipLoop(n)}
  /\ g \notin ended /\ ~Sending(g)
  /\ ended' = ended \cup {g}
  /\ UNCHANGED <<up, inbox, carriers, deploy, request>>

Next ==
  \/ \E c \in carriers : Carry(c)
  \/ Deploy \/ Answer \/ \E p \in Node : Propagate(p)
  \/ \E n \in Node : Receive(n) \/ Stop(n)
  \/ \E n, p \in Node : Gossip(n, p)
  \/ \E r \in Request : Begin(r) \/ Deadline(r)
  \/ \E n \in Node : \E g \in {Loop(n), GossipLoop(n)} : Quit(n, g)

Spec == Init /\ [][Next]_vars

\* Every goroutine that can go on goes on.  A loop that could go on or quit
\* picks at random, so it quits at last.  Deadlines come; nobody has to gossip,
\* to begin a request or to stop a node.
Fairness ==
  /\ WF_vars(\E c \in carriers : Carry(c))
  /\ \A n \in Node : /\ WF_vars(Receive(n))
                     /\ WF_vars(Quit(n, Loop(n))) /\ SF_vars(Quit(n, GossipLoop(n)))
  /\ WF_vars(Answer \/ \E p \in Node : Propagate(p))
  /\ \A r \in Request : WF_vars(Deadline(r))

FairSpec == Spec /\ Fairness

-----------------------------------------------------------------------------
(* Correctness *)

Message ==
  [type : {"deploy", "gossip"}, from : Node]
    \cup [type : {"push", "ack"}, from : Node, req : Request]

\* Every variable holds a value of its kind, and no goroutine calls Send again
\* before it has returned from it.
TypeOK ==
  /\ up \subseteq Node
  /\ ended \subseteq {Loop(n) : n \in Node} \cup {GossipLoop(n) : n \in Node}
  /\ inbox \in [Node -> Seq([by : Goroutines, msg : Message])]
  /\ carriers \subseteq [by : Goroutines, to : Node, msg : Message]
  /\ \A g \in Goroutines : Cardinality(Calls(g)) + Cardinality(Waits(g)) <= 1
  /\ has \subseteq Node /\ deployer \in Node /\ todo \subseteq Node
  /\ call \in {"idle", "sending", "answered"}
  /\ at \in [Request -> Node]
  /\ pc \in [Request -> {"idle", "open", "done", "failed"}]
  /\ acked \in [Request -> SUBSET Node]
  /\ ready \subseteq Request

\* Message m is on its way to p.
Moving(m, p) ==
  \/ \E c \in carriers : c.to = p /\ c.msg = m
  \/ \E i \in DOMAIN inbox[p] : inbox[p][i].msg = m

\* Once a deployment has been answered, no request is turned away by a node that
\* has no plan yet: while the request is open, the answer of each peer has come
\* or is on its way (PropagatePlan, which sends in the calling goroutine, and
\* broadcast, through the same inboxes).  Merges succeed here: a peer whose merge
\* fails does not answer either, for a reason of its own.
AnswersOnTheWay ==
  up = Node =>
    \A r \in ready : pc[r] = "open" =>
      \A p \in Peers(at[r]) :
        p \in acked[r] \/ Moving(Push(at[r], r), p) \/ Moving(Ack(p, r), at[r])

\* Nobody stays in Send for ever, requests and the deployment are answered, and
\* a node that is stopped comes to rest: there is no circle of full inboxes
\* (routeAck's comment, ChanPeer's comment, Stop's comment).
GoroutinesEnd ==
  /\ \A g \in Goroutines : []<>~Sending(g)
  /\ \A r \in Request : []<>(pc[r] # "open")
  /\ []<>(call # "sending")
  /\ \A n \in Node : []<>(n \in up \/ {Loop(n), GossipLoop(n)} \subseteq ended)
=============================================================================
