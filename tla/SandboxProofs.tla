--------------------------- MODULE SandboxProofs ----------------------------
(***************************************************************************)
(* Proofs about Sandbox, for every cluster and every set of requests.      *)
(*                                                                         *)
(* The argument is the lock's: whoever writes is alone, so what a deployer *)
(* read when it got the lock still holds at each of its later steps, and a *)
(* reset is over, links and all, before the next deployer is let in.       *)
(***************************************************************************)
EXTENDS Sandbox, FiniteSetTheorems, TLAPS

-----------------------------------------------------------------------------
(* The inductive invariant *)

\* How far each kind of handler can have come.
Stages ==
  /\ pc \in [Handler -> {"start", "waiting", "queued", "locked", "sending",
                         "swapped", "stopping", "operating", "end"}]
  /\ \A h \in Handler :
       /\ pc[h] = "sending" => h \in Deployer
       /\ pc[h] = "operating" => h \in Operator
       /\ pc[h] \in {"swapped", "stopping"} => h \in Resetter
       /\ pc[h] \in {"queued", "locked"} => h \notin Operator \cup Linker

\* A writer is alone: it owns the lock, and reads on nobody's behalf go on.
Writing(h) == pc[h] \in {"locked", "sending", "swapped"}
WriterAlone ==
  /\ \A h \in Handler : pc[h] = "queued" \/ Writing(h) => owner = h
  /\ readers = {h \in Handler : pc[h] = "operating"}
  /\ \A h \in Handler : Writing(h) => readers = {}
  /\ owner \in Handler \cup {None}

\* The resets that have published their cluster, and the clusters there are.
Resets == {h \in Resetter : pc[h] \in {"swapped", "stopping", "end"}}
ClustersCounted == current = Cardinality(Resets)

\* Who holds the lock deploys to, or operates on, the current cluster.
UsesCurrent ==
  /\ using \in [Handler -> Cluster]
  /\ \A h \in Handler :
       pc[h] \in {"locked", "sending", "operating"} => using[h] = current

\* The links that are cut were cut in the current cluster, unless a reset is
\* between its swap and its reconnect.
CutsCurrent ==
  (\A h \in Handler : pc[h] # "swapped") => \A x \in cut : x.when = current

\* Plan p is the one of cluster c: pinned, or being sent by its deployer.
PlanOf(p, c) ==
  \/ p = pinned[c]
  \/ p \in Deployer /\ pc[p] = "sending" /\ using[p] = c

OnePlan ==
  /\ \A h \in Handler : pc[h] = "sending" => pinned[using[h]] = None
  /\ \A c \in Cluster, n \in Node : has[c][n] # None => PlanOf(has[c][n], c)
  /\ \A m \in flight : PlanOf(m.plan, m.cluster)

\* The variables of TypeOK that the parts above leave open.
Kinds ==
  /\ pinned \in [Cluster -> Deployer \cup {None}]
  /\ has \in [Cluster -> [Node -> Deployer \cup {None}]]
  /\ stops \in [Cluster -> Nat]
  /\ cut \subseteq [link : Link, when : Cluster]
  /\ flight \subseteq [cluster : Cluster, to : Node, plan : Deployer,
                       at : {"delay", "inbox"}]
  /\ todo \in [Handler -> SUBSET (Node \X Node)]

IInv == /\ Stages /\ WriterAlone /\ ClustersCounted /\ UsesCurrent
        /\ CutsCurrent /\ OnePlan /\ Kinds

-----------------------------------------------------------------------------
(* What the invariant says *)

\* There is a cluster for each reset that has published one.
LEMMA CurrentIsCluster ==
  ASSUME ClustersCounted
  PROVE  current \in Cluster
  <1>1. IsFiniteSet(Resetter) /\ Resets \subseteq Resetter
    BY HandlerAssumption DEF Resets
  <1>2. Cardinality(Resets) \in Nat /\ Cardinality(Resetter) \in Nat
        /\ Cardinality(Resets) <= Cardinality(Resetter)
    BY <1>1, FS_Subset, FS_CardinalityType
  <1> QED
    BY <1>2 DEF ClustersCounted, Cluster

\* Two writers are one.
LEMMA OneWriter ==
  ASSUME WriterAlone, NEW g \in Handler, NEW h \in Handler,
         Writing(g), pc[h] = "queued" \/ Writing(h)
  PROVE  g = h
  BY DEF WriterAlone

\* Where nothing is pinned, nobody runs a plan and none is under way, unless its
\* deployer is still sending it.
LEMMA NothingInstalled ==
  ASSUME IInv, NEW h \in Handler, pc[h] = "locked", pinned[using[h]] = None
  PROVE  \A n \in Node : has[using[h]][n] = None
  <1> SUFFICES ASSUME NEW n \in Node, has[using[h]][n] # None PROVE FALSE
    OBVIOUS
  <1> DEFINE p == has[using[h]][n]
  <1>1. using[h] \in Cluster /\ p \in Deployer
    BY DEF IInv, UsesCurrent, Kinds
  <1>2. PlanOf(p, using[h])
    BY <1>1 DEF IInv, OnePlan
  <1>3. p \in Handler /\ pc[p] = "sending"
    BY <1>1, <1>2 DEF PlanOf, Handler
  <1> HIDE DEF p
  <1>4. p = h
    BY <1>3, OneWriter DEF IInv, Writing
  <1> QED
    BY <1>3, <1>4

\* A node that has a plan keeps it.
LEMMA InstallOnce ==
  ASSUME Kinds, NEW c \in Cluster, NEW n \in Node, NEW p \in Deployer,
         has' = [has EXCEPT ![c][n] = IF @ = None THEN p ELSE @]
  PROVE  /\ has' \in [Cluster -> [Node -> Deployer \cup {None}]]
         /\ \A d \in Cluster, m \in Node :
              has'[d][m] = has[d][m] \/ (d = c /\ m = n /\ has'[d][m] = p)
  <1>1. has \in [Cluster -> [Node -> Deployer \cup {None}]]
    BY DEF Kinds
  <1> DEFINE q == IF has[c][n] = None THEN p ELSE has[c][n]
             f == [has[c] EXCEPT ![n] = q]
  <1>2. q \in Deployer \cup {None} /\ q \in {p, has[c][n]}
    BY <1>1
  <1>3. has' = [has EXCEPT ![c] = f]
    OBVIOUS
  <1> HIDE DEF q
  <1>4. /\ f \in [Node -> Deployer \cup {None}] /\ f[n] = q
        /\ \A m \in Node : m # n => f[m] = has[c][m]
    BY <1>1, <1>2
  <1> HIDE DEF f
  <1>5. has' \in [Cluster -> [Node -> Deployer \cup {None}]]
    BY <1>1, <1>3, <1>4
  <1>6. has'[c] = f /\ \A d \in Cluster : d # c => has'[d] = has[d]
    BY <1>1, <1>3
  <1> QED
    BY <1>2, <1>4, <1>5, <1>6

\* The invariant gives what the runs check.
LEMMA InvariantImplies ==
  IInv => TypeOK /\ NoStalePartition /\ PinnedIsInstalled
  <1> SUFFICES ASSUME IInv PROVE TypeOK /\ NoStalePartition /\ PinnedIsInstalled
    OBVIOUS
  <1> USE DEF IInv
  <1>1. TypeOK
    <2>1. current \in Cluster
      BY CurrentIsCluster
    <2>2. readers \subseteq Operator
      BY DEF WriterAlone, Stages
    <2>3. Operator \subseteq Handler
      BY DEF Handler
    <2> QED
      BY <2>1, <2>2, <2>3 DEF TypeOK, Kinds, WriterAlone, Writing, UsesCurrent
  <1>2. NoStalePartition
    <2> SUFFICES ASSUME NEW h \in Deployer, pc[h] = "sending", NEW x \in cut
                 PROVE  x.when = using[h]
      BY DEF NoStalePartition
    <2>1. h \in Handler
      BY DEF Handler
    <2>2. ASSUME NEW g \in Handler PROVE pc[g] # "swapped"
      BY <2>1, OneWriter DEF Writing
    <2> QED
      BY <2>1, <2>2 DEF CutsCurrent, UsesCurrent
  <1>3. PinnedIsInstalled
    <2> SUFFICES ASSUME NEW c \in Cluster, pinned[c] # None, NEW n \in Node,
                        has[c][n] # None
                 PROVE  has[c][n] = pinned[c]
      BY DEF PinnedIsInstalled
    <2>1. PlanOf(has[c][n], c)
      BY DEF OnePlan
    <2>2. ASSUME NEW p \in Deployer, pc[p] = "sending", using[p] = c PROVE FALSE
      BY <2>2 DEF OnePlan, Handler
    <2> QED
      BY <2>1, <2>2 DEF PlanOf
  <1> QED
    BY <1>1, <1>2, <1>3
-----------------------------------------------------------------------------
(* The invariant is inductive *)

\* Each handler follows the program of its kind.
LEMMA StagesStep ==
  ASSUME IInv, [Next]_vars
  PROVE  Stages'
  <1> USE DEF IInv, Stages, WriterAlone, lockVars, Goto, Handler
  <1>1. ASSUME NEW h \in Handler, Arrive(h) PROVE Stages'
    BY <1>1 DEF Arrive
  <1>2. ASSUME NEW h \in Handler, Queue(h) PROVE Stages'
    BY <1>2, HandlerAssumption DEF Queue
  <1>3. ASSUME NEW h \in Handler, Lock(h) PROVE Stages'
    BY <1>3 DEF Lock
  <1>4. ASSUME NEW h \in Handler, Operate(h) PROVE Stages'
    BY <1>4 DEF Operate
  <1>5. ASSUME NEW h \in Handler, Answer(h) PROVE Stages'
    BY <1>5 DEF Answer
  <1>6. ASSUME NEW h \in Handler, Refuse(h) PROVE Stages'
    BY <1>6 DEF Refuse
  <1>7. ASSUME NEW h \in Handler, Install(h) PROVE Stages'
    BY <1>7 DEF Install
  <1>8. ASSUME NEW h \in Handler, SendPlan(h) PROVE Stages'
    BY <1>8 DEF SendPlan
  <1>9. ASSUME NEW h \in Handler, Pin(h) PROVE Stages'
    BY <1>9 DEF Pin
  <1>10. ASSUME NEW h \in Handler, Swap(h) PROVE Stages'
    BY <1>10 DEF Swap
  <1>11. ASSUME NEW h \in Handler, Reconnect(h) PROVE Stages'
    BY <1>11 DEF Reconnect
  <1>12. ASSUME NEW h \in Handler, StopOld(h) PROVE Stages'
    BY <1>12 DEF StopOld
  <1>13. ASSUME NEW h \in Handler, Shutdown(h) PROVE Stages'
    BY <1>13 DEF Shutdown
  <1>14. ASSUME NEW h \in Handler, SetLink(h) PROVE Stages'
    BY <1>14 DEF SetLink
  <1>15. ASSUME NEW m \in flight, Fire(m) \/ Deliver(m) \/ Abort(m) PROVE Stages'
    BY <1>15 DEF Fire, Deliver, Abort
  <1>16. CASE UNCHANGED vars
    BY <1>16 DEF vars
  <1> QED
    BY <1>1, <1>2, <1>3, <1>4, <1>5, <1>6, <1>7, <1>8, <1>9, <1>10, <1>11, <1>12, <1>13, <1>14, <1>15, <1>16 DEF Next, Proceed

\* The lock keeps writers alone.
LEMMA AloneStep ==
  ASSUME IInv, [Next]_vars
  PROVE  WriterAlone'
  <1> USE DEF IInv, Stages, WriterAlone, Writing, lockVars, Goto, Release
  <1>1. ASSUME NEW h \in Handler, Arrive(h) PROVE WriterAlone'
    BY <1>1 DEF Arrive
  <1>2. ASSUME NEW h \in Handler, Queue(h) PROVE WriterAlone'
    BY <1>2, HandlerAssumption DEF Queue
  <1>3. ASSUME NEW h \in Handler, Lock(h) PROVE WriterAlone'
    BY <1>3 DEF Lock
  <1>4. ASSUME NEW h \in Handler, Operate(h) PROVE WriterAlone'
    BY <1>4, HandlerAssumption DEF Operate
  <1>5. ASSUME NEW h \in Handler, Answer(h) PROVE WriterAlone'
    BY <1>5 DEF Answer
  <1>6. ASSUME NEW h \in Handler, Refuse(h) PROVE WriterAlone'
    BY <1>6 DEF Refuse
  <1>7. ASSUME NEW h \in Handler, Install(h) PROVE WriterAlone'
    BY <1>7 DEF Install
  <1>8. ASSUME NEW h \in Handler, SendPlan(h) PROVE WriterAlone'
    BY <1>8 DEF SendPlan
  <1>9. ASSUME NEW h \in Handler, Pin(h) PROVE WriterAlone'
    BY <1>9 DEF Pin
  <1>10. ASSUME NEW h \in Handler, Swap(h) PROVE WriterAlone'
    BY <1>10 DEF Swap
  <1>11. ASSUME NEW h \in Handler, Reconnect(h) PROVE WriterAlone'
    BY <1>11 DEF Reconnect
  <1>12. ASSUME NEW h \in Handler, StopOld(h) PROVE WriterAlone'
    BY <1>12 DEF StopOld
  <1>13. ASSUME NEW h \in Handler, Shutdown(h) PROVE WriterAlone'
    BY <1>13 DEF Shutdown
  <1>14. ASSUME NEW h \in Handler, SetLink(h) PROVE WriterAlone'
    BY <1>14 DEF SetLink
  <1>15. ASSUME NEW m \in flight, Fire(m) \/ Deliver(m) \/ Abort(m) PROVE WriterAlone'
    BY <1>15 DEF Fire, Deliver, Abort
  <1>16. CASE UNCHANGED vars
    BY <1>16 DEF vars
  <1> QED
    BY <1>1, <1>2, <1>3, <1>4, <1>5, <1>6, <1>7, <1>8, <1>9, <1>10, <1>11, <1>12, <1>13, <1>14, <1>15, <1>16 DEF Next, Proceed

\* A reset publishes one cluster, and nobody else publishes any.
LEMMA ClustersStep ==
  ASSUME IInv, [Next]_vars
  PROVE  ClustersCounted'
  <1> USE DEF IInv, Stages, lockVars, Goto
  <1>1. Resets' = Resets /\ current' = current => ClustersCounted'
    BY DEF ClustersCounted
  <1> DEFINE Over == {"swapped", "stopping", "end"}
  <1>2. ASSUME NEW h \in Handler, NEW l, pc' = [pc EXCEPT ![h] = l], current' = current,
               h \in Resetter => (pc[h] \in Over <=> l \in Over)
        PROVE  ClustersCounted'
    <2>1. Resets' = Resets
      BY <1>2 DEF Resets
    <2> QED
      BY <1>1, <1>2, <2>1
  <1>3. ASSUME NEW h \in Handler, \/ Arrive(h) \/ Queue(h) \/ Lock(h) \/ Reconnect(h)
                                  \/ StopOld(h)
        PROVE  ClustersCounted'
    BY <1>3, <1>2 DEF Arrive, Queue, Lock, Reconnect, StopOld
  <1>4. ASSUME NEW h \in Handler, \/ Operate(h) \/ Answer(h) \/ Refuse(h) \/ Install(h)
                                  \/ SendPlan(h) \/ Pin(h) \/ Shutdown(h) \/ SetLink(h)
        PROVE  ClustersCounted'
    <2>1. h \notin Resetter
      BY <1>4, HandlerAssumption
         DEF Operate, Answer, Refuse, Install, SendPlan, Pin, Shutdown, SetLink
    <2>2. current' = current /\ (pc' = pc \/ \E l : pc' = [pc EXCEPT ![h] = l])
      BY <1>4 DEF Operate, Answer, Refuse, Install, SendPlan, Pin, Shutdown, SetLink
    <2>3. CASE pc' = pc
      BY <1>1, <2>2, <2>3 DEF Resets
    <2> QED
      BY <1>2, <2>1, <2>2, <2>3
  <1>5. ASSUME NEW h \in Handler, Swap(h) PROVE ClustersCounted'
    <2>1. Resets' = Resets \cup {h} /\ h \notin Resets
      BY <1>5 DEF Swap, Resets
    <2>2. IsFiniteSet(Resets)
      BY HandlerAssumption, FS_Subset DEF Resets
    <2>3. Cardinality(Resets') = Cardinality(Resets) + 1
      BY <2>1, <2>2, FS_AddElement
    <2> QED
      BY <1>5, <2>3 DEF Swap, ClustersCounted
  <1>6. ASSUME NEW m \in flight, Fire(m) \/ Deliver(m) \/ Abort(m) PROVE ClustersCounted'
    BY <1>1, <1>6 DEF Fire, Deliver, Abort, Resets
  <1>7. CASE UNCHANGED vars
    BY <1>1, <1>7 DEF vars, Resets
  <1> QED
    BY <1>3, <1>4, <1>5, <1>6, <1>7 DEF Next, Proceed

\* While a handler holds the lock no reset replaces its cluster.
LEMMA UsesStep ==
  ASSUME IInv, [Next]_vars
  PROVE  UsesCurrent'
  <1> USE DEF IInv, Stages, UsesCurrent, Kinds, lockVars, Goto, Grab
  <1>1. ASSUME NEW h \in Handler, Lock(h) \/ Operate(h) PROVE UsesCurrent'
    <2>1. current \in Cluster
      BY CurrentIsCluster
    <2> QED
      BY <1>1, <2>1 DEF Lock, Operate
  <1>2. ASSUME NEW h \in Handler, Swap(h) PROVE UsesCurrent'
    <2>1. ASSUME NEW g \in Handler, g # h
          PROVE  pc[g] \notin {"locked", "sending", "operating"}
      BY <1>2, <2>1 DEF Swap, WriterAlone, Writing
    <2> QED
      BY <1>2, <2>1 DEF Swap
  <1>3. ASSUME UNCHANGED <<current, using>>, NEW h \in Handler,
               NEW l \in {"waiting", "queued", "swapped", "stopping", "end"},
               pc' = pc \/ pc' = [pc EXCEPT ![h] = l]
        PROVE  UsesCurrent'
    BY <1>3
  <1>4. ASSUME NEW h \in Handler, Install(h) PROVE UsesCurrent'
    BY <1>4 DEF Install
  <1>5. ASSUME NEW h \in Handler,
               \/ Arrive(h) \/ Queue(h) \/ Answer(h) \/ Refuse(h) \/ SendPlan(h) \/ Pin(h)
               \/ Reconnect(h) \/ StopOld(h) \/ Shutdown(h) \/ SetLink(h)
        PROVE  UsesCurrent'
    BY <1>3, <1>5 DEF Arrive, Queue, Answer, Refuse, SendPlan, Pin, Reconnect, StopOld,
                      Shutdown, SetLink
  <1>6. ASSUME NEW m \in flight, Fire(m) \/ Deliver(m) \/ Abort(m) PROVE UsesCurrent'
    BY <1>6 DEF Fire, Deliver, Abort
  <1>7. CASE UNCHANGED vars
    BY <1>7 DEF vars
  <1> QED
    BY <1>1, <1>2, <1>4, <1>5, <1>6, <1>7 DEF Next, Proceed

\* A reset reconnects every link before it lets go of the lock.
LEMMA CutsStep ==
  ASSUME IInv, [Next]_vars
  PROVE  CutsCurrent'
  <1> USE DEF IInv, Stages, CutsCurrent, lockVars, Goto
  <1>1. ASSUME UNCHANGED <<current, cut>>,
               \A h \in Handler : pc[h] = "swapped" => pc'[h] = "swapped"
        PROVE  CutsCurrent'
    BY <1>1
  <1>2. ASSUME NEW h \in Handler,
               \/ Arrive(h) \/ Queue(h) \/ Lock(h) \/ Operate(h) \/ Answer(h) \/ Refuse(h)
               \/ Install(h) \/ SendPlan(h) \/ Pin(h) \/ StopOld(h) \/ Shutdown(h)
        PROVE  CutsCurrent'
    BY <1>1, <1>2 DEF Arrive, Queue, Lock, Operate, Answer, Refuse, Install, SendPlan,
                      Pin, StopOld, Shutdown
  <1>3. ASSUME NEW h \in Handler, Swap(h) PROVE CutsCurrent'
    BY <1>3 DEF Swap
  <1>4. ASSUME NEW h \in Handler, Reconnect(h) PROVE CutsCurrent'
    BY <1>4 DEF Reconnect
  <1>5. ASSUME NEW h \in Handler, SetLink(h) PROVE CutsCurrent'
    <2>1. /\ current' = current
          /\ \A g \in Handler : pc[g] = "swapped" => pc'[g] = "swapped"
          /\ \A x \in cut' : x \in cut \/ x.when = current
      BY <1>5 DEF SetLink
    <2> QED
      BY <2>1
  <1>6. ASSUME NEW m \in flight, Fire(m) \/ Deliver(m) \/ Abort(m) PROVE CutsCurrent'
    BY <1>1, <1>6 DEF Fire, Deliver, Abort
  <1>7. CASE UNCHANGED vars
    BY <1>1, <1>7 DEF vars
  <1> QED
    BY <1>2, <1>3, <1>4, <1>5, <1>6, <1>7 DEF Next, Proceed

\* Every variable keeps its kind.
LEMMA KindsStep ==
  ASSUME IInv, [Next]_vars
  PROVE  Kinds'
  <1> USE DEF IInv, Stages, Kinds, UsesCurrent, lockVars, Goto
  <1>1. ASSUME UNCHANGED <<pinned, has, stops, cut, flight, todo>> PROVE Kinds'
    BY <1>1
  <1>2. ASSUME NEW h \in Handler,
               \/ Arrive(h) \/ Queue(h) \/ Lock(h) \/ Operate(h) \/ Answer(h)
               \/ Refuse(h) \/ Swap(h)
        PROVE  Kinds'
    BY <1>1, <1>2 DEF Arrive, Queue, Lock, Operate, Answer, Refuse, Swap
  <1>3. ASSUME NEW h \in Handler, Install(h) PROVE Kinds'
    BY <1>3 DEF Install
  <1>4. ASSUME NEW h \in Handler, SendPlan(h) PROVE Kinds'
    <2>1. PICK e \in todo[h] : SendPlan(h)!2!(e)
      BY <1>4 DEF SendPlan
    <2>2. h \in Deployer /\ e[2] \in Node /\ using[h] \in Cluster
      BY <1>4 DEF SendPlan
    <2> QED
      BY <1>4, <2>1, <2>2 DEF SendPlan
  <1>5. ASSUME NEW h \in Handler, Pin(h) PROVE Kinds'
    BY <1>5 DEF Pin
  <1>6. ASSUME NEW h \in Handler, Reconnect(h) \/ StopOld(h) \/ Shutdown(h) PROVE Kinds'
    BY <1>6 DEF Reconnect, StopOld, Shutdown
  <1>7. ASSUME NEW h \in Handler, SetLink(h) PROVE Kinds'
    BY <1>7, CurrentIsCluster DEF SetLink
  <1>8. ASSUME NEW m \in flight, Fire(m) \/ Deliver(m) \/ Abort(m) PROVE Kinds'
    <2>1. /\ m.cluster \in Cluster /\ m.to \in Node /\ m.plan \in Deployer
          /\ [m EXCEPT !.at = "inbox"] \in
               [cluster : Cluster, to : Node, plan : Deployer, at : {"delay", "inbox"}]
      OBVIOUS
    <2>2. CASE Fire(m)
      BY <2>1, <2>2 DEF Fire
    <2>3. CASE Deliver(m)
      <3>1. has' \in [Cluster -> [Node -> Deployer \cup {None}]]
        BY <2>1, <2>3, InstallOnce DEF Deliver
      <3> QED
        BY <2>3, <3>1 DEF Deliver
    <2>4. CASE Abort(m)
      BY <2>4 DEF Abort
    <2> QED
      BY <1>8, <2>2, <2>3, <2>4
  <1>9. CASE UNCHANGED vars
    BY <1>1, <1>9 DEF vars
  <1> QED
    BY <1>2, <1>3, <1>4, <1>5, <1>6, <1>7, <1>8, <1>9 DEF Next, Proceed

\* A plan is sent and installed by the one deployer that goes on to pin it.
LEMMA PlanStep ==
  ASSUME IInv, [Next]_vars
  PROVE  OnePlan'
  <1> USE DEF IInv, Stages, Kinds, OnePlan, PlanOf, lockVars, Goto
  <1>1. ASSUME UNCHANGED <<pinned, has, flight>>,
               \A h \in Deployer : pc[h] = "sending" <=> pc'[h] = "sending",
               \A h \in Deployer : pc[h] = "sending" => using'[h] = using[h]
        PROVE  OnePlan'
    BY <1>1, StagesStep DEF Handler
  <1>2. ASSUME NEW h \in Handler,
               \/ Arrive(h) \/ Queue(h) \/ Lock(h) \/ Operate(h) \/ Answer(h) \/ Refuse(h)
               \/ Swap(h) \/ Reconnect(h) \/ StopOld(h) \/ Shutdown(h) \/ SetLink(h)
        PROVE  OnePlan'
    <2>1. /\ UNCHANGED <<pinned, has, flight>>
          /\ \A g \in Handler : pc[g] = "sending" <=> pc'[g] = "sending"
          /\ \A g \in Handler : pc[g] = "sending" => using'[g] = using[g]
      BY <1>2 DEF Arrive, Queue, Lock, Operate, Answer, Refuse, Swap, Reconnect, StopOld,
                  Shutdown, SetLink, Grab, UsesCurrent
    <2> QED
      BY <1>1, <2>1 DEF Handler
  <1>3. ASSUME NEW h \in Handler, Install(h) PROVE OnePlan'
    <2>1. PICK n \in Node : Install(h)!3!(n)
      BY <1>3 DEF Install
    <2>2. /\ h \in Deployer /\ using[h] \in Cluster /\ pinned[using[h]] = None
          /\ UNCHANGED <<pinned, using, flight>> /\ pc' = [pc EXCEPT ![h] = "sending"]
      BY <1>3 DEF Install, UsesCurrent
    <2>3. \A m \in Node : has[using[h]][m] = None
      BY <1>3, NothingInstalled DEF Install
    <2>4. \A c \in Cluster, m \in Node : has'[c][m] # None =>
             has'[c][m] = has[c][m] \/ (c = using[h] /\ has'[c][m] = h)
      BY <2>1, <2>2, InstallOnce
    <2>5. \A p, c : PlanOf(p, c) => PlanOf(p, c)'
      BY <2>2 DEF Handler
    <2>6. PlanOf(h, using[h])'
      BY <2>2
    <2>7. \A g \in Handler : pc'[g] = "sending" => pinned'[using'[g]] = None
      BY <2>2
    <2> HIDE DEF PlanOf
    <2>8. (\A c \in Cluster, m \in Node : has[c][m] # None => PlanOf(has[c][m], c))'
      <3>1. ASSUME NEW c \in Cluster, NEW m \in Node, has'[c][m] # None
            PROVE  \E p : p = has'[c][m] /\ PlanOf(p, c)'
        <4>1. CASE has'[c][m] = has[c][m]
          BY <2>5, <3>1, <4>1
        <4>2. CASE c = using[h] /\ has'[c][m] = h
          BY <2>2, <2>6, <4>2
        <4> QED
          BY <2>4, <3>1, <4>1, <4>2
      <3> QED
        BY <3>1
    <2>9. (\A x \in flight : PlanOf(x.plan, x.cluster))'
      BY <2>2, <2>5
    <2> QED
      BY <2>7, <2>8, <2>9
  <1>4. ASSUME NEW h \in Handler, SendPlan(h) PROVE OnePlan'
    <2>1. h \in Deployer /\ UNCHANGED <<pinned, has, pc, using>> /\ pc[h] = "sending"
      BY <1>4 DEF SendPlan
    <2>2. \A m \in flight' : m \in flight \/ (m.plan = h /\ m.cluster = using[h])
      <3>1. PICK e \in todo[h] : SendPlan(h)!2!(e)
        BY <1>4 DEF SendPlan
      <3> QED
        BY <3>1
    <2> QED
      BY <2>1, <2>2
  <1>5. ASSUME NEW h \in Handler, Pin(h) PROVE OnePlan'
    <2>1. /\ h \in Deployer /\ using[h] \in Cluster /\ pinned[using[h]] = None
          /\ UNCHANGED <<has, flight, using>> /\ pc' = [pc EXCEPT ![h] = "end"]
          /\ pinned' = [pinned EXCEPT ![using[h]] = h]
      BY <1>5 DEF Pin, UsesCurrent
    <2>2. \A g \in Handler : pc'[g] # "sending"
      BY <1>5, <2>1, OneWriter DEF Pin, Writing
    <2>3. \A p \in Deployer, c \in Cluster : PlanOf(p, c) => p = pinned'[c]
      BY <1>5, <2>1, <2>2, HandlerAssumption DEF Handler
    <2> QED
      BY <2>1, <2>2, <2>3
  <1>6. ASSUME NEW m \in flight, Fire(m) \/ Deliver(m) \/ Abort(m) PROVE OnePlan'
    <2>1. /\ UNCHANGED <<pinned, pc, using>>
          /\ \A x \in flight' : \E y \in flight : x.plan = y.plan /\ x.cluster = y.cluster
      BY <1>6 DEF Fire, Deliver, Abort
    <2>2. \A c \in Cluster, n \in Node :
             has'[c][n] = has[c][n] \/ (c = m.cluster /\ has'[c][n] = m.plan)
      <3>1. Deliver(m) \/ has' = has
        BY <1>6 DEF Fire, Abort
      <3>2. m.cluster \in Cluster /\ m.to \in Node /\ m.plan \in Deployer
        OBVIOUS
      <3> QED
        BY <3>1, <3>2, InstallOnce DEF Deliver
    <2>3. \A p, c : PlanOf(p, c)' <=> PlanOf(p, c)
      BY <2>1
    <2>4. PlanOf(m.plan, m.cluster)
      OBVIOUS
    <2>5. \A h \in Handler : pc'[h] = "sending" => pinned'[using'[h]] = None
      BY <2>1
    <2> HIDE DEF PlanOf
    <2> QED
      BY <2>1, <2>2, <2>3, <2>4, <2>5
  <1>7. CASE UNCHANGED vars
    BY <1>1, <1>7 DEF vars
  <1> QED
    BY <1>2, <1>3, <1>4, <1>5, <1>6, <1>7 DEF Next, Proceed

\* The invariant holds of every reachable state.
LEMMA Invariance == Spec => []IInv
  <1>1. Init => IInv
    <2> SUFFICES ASSUME Init PROVE IInv
      OBVIOUS
    <2> USE DEF Init
    <2>1. Stages /\ WriterAlone
      BY DEF Stages, WriterAlone, Writing
    <2>2. ClustersCounted
      BY FS_EmptySet DEF ClustersCounted, Resets, Handler
    <2>3. UsesCurrent /\ CutsCurrent /\ OnePlan /\ Kinds
      <3>1. 0 \in Cluster
        BY <2>2, CurrentIsCluster
      <3> QED
        BY <3>1 DEF UsesCurrent, CutsCurrent, OnePlan, Kinds
    <2> QED
      BY <2>1, <2>2, <2>3 DEF IInv
  <1>2. IInv /\ [Next]_vars => IInv'
    BY StagesStep, AloneStep, ClustersStep, UsesStep, CutsStep, PlanStep, KindsStep DEF IInv
  <1> QED
    BY <1>1, <1>2, PTL DEF Spec

-----------------------------------------------------------------------------
(* Theorems *)

\* Every variable keeps its kind, whoever is past the lock as a writer owns it, and
\* an operation runs to its end on the cluster it found: no reset replaces it before
\* the answer (withCluster, reset).
THEOREM TypeCorrect == Spec => []TypeOK
  BY Invariance, InvariantImplies, PTL

\* A deployment meets no partition that was cut before the last reset, whenever links
\* are cut or connected meanwhile (reset, handleDeploy, network.ReconnectAll).
THEOREM ResetReconnects == Spec => []NoStalePartition
  BY Invariance, InvariantImplies, PTL

\* The nodes of a cluster run the plan it advertises or none, however deployments,
\* resets and delayed messages race (handleDeploy, PropagatePlan, interceptingPeer).
THEOREM AdvertisedIsInstalled == Spec => []PinnedIsInstalled
  BY Invariance, InvariantImplies, PTL
=============================================================================
