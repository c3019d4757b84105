--------------------------- MODULE InboxesProofs ----------------------------
(***************************************************************************)
(* Proofs about Inboxes, for every cluster, every number of requests and   *)
(* every capacity.                                                         *)
(*                                                                         *)
(* Each push and each ack is carried by a goroutine of its own, which is   *)
(* in one place at a time; the inboxes are queues.  So what was sent to a  *)
(* node before the deployment was answered is handled before what was sent *)
(* after it.                                                               *)
(***************************************************************************)
EXTENDS Inboxes, SequenceTheorems, FiniteSetTheorems, TLAPS

-----------------------------------------------------------------------------
(* The inductive invariant *)

Entry == [by : Goroutines, msg : Message]
Carriers == {<<t, r, p>> : t \in {"push", "ack"}, r \in Request, p \in Node}

\* The variables of TypeOK.
Kinds ==
  /\ up \subseteq Node
  /\ ended \subseteq {Loop(n) : n \in Node} \cup {GossipLoop(n) : n \in Node}
  /\ inbox \in [Node -> Seq(Entry)]
  /\ carriers \subseteq [by : Goroutines, to : Node, msg : Message]
  /\ has \subseteq Node /\ deployer \in Node /\ todo \subseteq Node
  /\ call \in {"idle", "sending", "answered"}
  /\ at \in [Request -> Node]
  /\ pc \in [Request -> {"idle", "open", "done", "failed"}]
  /\ acked \in [Request -> SUBSET Node]
  /\ ready \subseteq Request

\* Pushes go from the coordinator to its peers, acks back to it.
Fits(m, n) ==
  /\ m.type = "push" => m.req \in Request /\ m.from = at[m.req] /\ n \in Peers(m.from)
  /\ m.type = "ack" => m.req \in Request /\ n = at[m.req] /\ m.from \in Peers(n)

\* The goroutine that sends m to n.
Sender(m, n) ==
  CASE m.type = "deploy" -> DeployHandler
    [] m.type = "gossip" -> GossipLoop(m.from)
    [] m.type = "push" -> Carrier(m, n)
    [] m.type = "ack" -> Carrier(m, m.from)

Shapes ==
  /\ \A c \in carriers : /\ c.msg.type \in {"push", "ack"} /\ Fits(c.msg, c.to)
                         /\ c.by = Sender(c.msg, c.to)
  /\ \A n \in Node : \A i \in DOMAIN inbox[n] :
       /\ Fits(inbox[n][i].msg, n)
       /\ inbox[n][i].by = Sender(inbox[n][i].msg, n)

\* Goroutine g is on its way with its message, or the message is in an inbox.
Active(g) == \/ \E c \in carriers : c.by = g
             \/ \E n \in Node : \E i \in DOMAIN inbox[n] : inbox[n][i].by = g

\* A push or an ack is in one place, no ack is under way before its push was
\* handled, and nothing before its request has begun.
Once ==
  /\ \A c, d \in carriers : c.by = d.by => c = d
  /\ \A c \in carriers : \A n \in Node : \A i \in DOMAIN inbox[n] :
       inbox[n][i].by # c.by
  /\ \A m, n \in Node : \A i \in DOMAIN inbox[m], j \in DOMAIN inbox[n] :
       inbox[m][i].by = inbox[n][j].by /\ inbox[m][i].by \in Carriers => m = n /\ i = j
  /\ \A r \in Request, p \in Node :
       /\ ~(Active(<<"push", r, p>>) /\ Active(<<"ack", r, p>>))
       /\ pc[r] = "idle" => ~Active(<<"push", r, p>>) /\ ~Active(<<"ack", r, p>>)

\* The loops and the deployment wait at one inbox at a time.
WaitsOnce == \A g \in Goroutines \ Carriers : \A m, n \in Waits(g) : m = n

IsPlan(p, i) == inbox[p][i].msg.type = "deploy"
Known(p) == p \in has \/ \E i \in DOMAIN inbox[p] : IsPlan(p, i)

\* While no node is stopped, the plan was handled by, or is queued at, every peer
\* PropagatePlan is done with, and ahead of each push of a request that began after
\* the deployment was answered.
PlanFirst ==
  up = Node =>
    /\ call # "idle" => deployer \in has /\ \A p \in Peers(deployer) \ todo : Known(p)
    /\ call = "answered" => todo = {}
    /\ ready # {} => call = "answered"
    /\ \A r \in ready, p \in Node : \A i \in DOMAIN inbox[p] :
         inbox[p][i].msg = Push(at[r], r) =>
           p \in has \/ \E j \in DOMAIN inbox[p] : j < i /\ IsPlan(p, j)

IInv == Kinds /\ Shapes /\ Once /\ WaitsOnce /\ PlanFirst /\ AnswersOnTheWay

-----------------------------------------------------------------------------
(* Inboxes *)

Places(n) == 1..Len(inbox[n])

LEMMA InboxPlaces ==
  ASSUME Kinds, NEW n \in Node
  PROVE  /\ inbox[n] \in Seq(Entry) /\ Len(inbox[n]) \in Nat
         /\ DOMAIN inbox[n] = Places(n) /\ \A i \in Places(n) : inbox[n][i] \in Entry
  <1>1. inbox[n] \in Seq(Entry)
    BY DEF Kinds
  <1> QED
    BY <1>1, LenProperties DEF Places

\* What is sent comes last.
LEMMA Appended ==
  ASSUME Kinds, NEW n \in Node, NEW e \in Entry,
         inbox' = [inbox EXCEPT ![n] = Append(@, e)]
  PROVE  /\ inbox' \in [Node -> Seq(Entry)]
         /\ \A k \in Node : /\ k # n => inbox'[k] = inbox[k]
                            /\ \A i \in DOMAIN inbox[k] :
                                 i \in DOMAIN inbox'[k] /\ inbox'[k][i] = inbox[k][i]
         /\ DOMAIN inbox'[n] = 1..(Len(inbox[n]) + 1)
         /\ inbox'[n][Len(inbox[n]) + 1] = e
  <1>1. /\ inbox[n] \in Seq(Entry) /\ Len(inbox[n]) \in Nat
        /\ DOMAIN inbox[n] = 1..Len(inbox[n])
    BY InboxPlaces DEF Places
  <1>2. inbox \in [Node -> Seq(Entry)]
    BY DEF Kinds
  <1> DEFINE s == Append(inbox[n], e)
  <1>3. /\ s \in Seq(Entry) /\ Len(s) = Len(inbox[n]) + 1
        /\ \A i \in 1..Len(inbox[n]) : s[i] = inbox[n][i]
        /\ s[Len(inbox[n]) + 1] = e
    BY <1>1, AppendProperties
  <1>4. DOMAIN s = 1..(Len(inbox[n]) + 1)
    BY <1>3, LenProperties
  <1> HIDE DEF s
  <1>5. inbox' = [inbox EXCEPT ![n] = s]
    BY DEF s
  <1>6. inbox' \in [Node -> Seq(Entry)]
    BY <1>2, <1>3, <1>5
  <1>7. inbox'[n] = s /\ \A k \in Node : k # n => inbox'[k] = inbox[k]
    BY <1>2, <1>5
  <1>8. \A i \in DOMAIN inbox[n] : i \in DOMAIN inbox'[n] /\ inbox'[n][i] = inbox[n][i]
    BY <1>1, <1>3, <1>4, <1>7
  <1> QED
    BY <1>3, <1>4, <1>6, <1>7, <1>8

\* The entries of every inbox are some of those that were there, in their order.
Fewer ==
  \A k \in Node : \E d \in Nat : \A i \in DOMAIN inbox'[k] :
    i + d \in DOMAIN inbox[k] /\ inbox'[k][i] = inbox[k][i + d]

\* What is taken out came first.
LEMMA Taken ==
  ASSUME Kinds, NEW n \in Node, inbox[n] # <<>>,
         inbox' = [inbox EXCEPT ![n] = Tail(@)]
  PROVE  /\ inbox' \in [Node -> Seq(Entry)] /\ Fewer
         /\ 1 \in DOMAIN inbox[n] /\ Head(inbox[n]) = inbox[n][1]
         /\ \A k \in Node : k # n => inbox'[k] = inbox[k]
         /\ \A i \in DOMAIN inbox[n] : i # 1 =>
              i - 1 \in DOMAIN inbox'[n] /\ inbox'[n][i - 1] = inbox[n][i]
         /\ \A i \in DOMAIN inbox'[n] :
              i + 1 \in DOMAIN inbox[n] /\ inbox'[n][i] = inbox[n][i + 1]
  <1>1. /\ inbox[n] \in Seq(Entry) /\ Len(inbox[n]) \in Nat
        /\ \A k \in Node : DOMAIN inbox[k] = 1..Len(inbox[k]) /\ Len(inbox[k]) \in Nat
    BY InboxPlaces DEF Places
  <1>2. inbox \in [Node -> Seq(Entry)]
    BY DEF Kinds
  <1> DEFINE s == Tail(inbox[n])
  <1>3. /\ s \in Seq(Entry) /\ Len(s) = Len(inbox[n]) - 1
        /\ \A i \in 1..Len(s) : s[i] = inbox[n][i + 1]
    BY <1>1, HeadTailProperties
  <1>4. DOMAIN s = 1..(Len(inbox[n]) - 1) /\ Len(s) \in Nat
    BY <1>3, LenProperties
  <1>5. Head(inbox[n]) = inbox[n][1]
    BY <1>1
  <1> HIDE DEF s
  <1>6. inbox' = [inbox EXCEPT ![n] = s]
    BY DEF s
  <1>7. inbox' \in [Node -> Seq(Entry)]
    BY <1>2, <1>3, <1>6
  <1>8. inbox'[n] = s /\ \A k \in Node : k # n => inbox'[k] = inbox[k]
    BY <1>2, <1>6
  <1>9. 1 \in DOMAIN inbox[n]
    BY <1>1, <1>3, <1>4
  <1>10. \A i \in DOMAIN inbox'[n] :
           i + 1 \in DOMAIN inbox[n] /\ inbox'[n][i] = inbox[n][i + 1]
    BY <1>1, <1>3, <1>4, <1>8
  <1>11. \A i \in DOMAIN inbox[n] : i # 1 =>
           i - 1 \in DOMAIN inbox'[n] /\ inbox'[n][i - 1] = inbox[n][i]
    BY <1>1, <1>3, <1>4, <1>8
  <1>12. Fewer
    <2> SUFFICES ASSUME NEW k \in Node
                 PROVE  \E d \in Nat : \A i \in DOMAIN inbox'[k] :
                          i + d \in DOMAIN inbox[k] /\ inbox'[k][i] = inbox[k][i + d]
      BY DEF Fewer
    <2>1. CASE k = n
      BY <1>10, <2>1
    <2>2. CASE k # n
      <3>1. \A i \in DOMAIN inbox'[k] :
              i + 0 \in DOMAIN inbox[k] /\ inbox'[k][i] = inbox[k][i + 0]
        BY <1>1, <1>8, <2>2
      <3> QED
        BY <3>1
    <2> QED
      BY <2>1, <2>2
  <1> QED
    BY <1>5, <1>7, <1>8, <1>9, <1>10, <1>11, <1>12

\* A node that stops keeps what its inbox has room for.
LEMMA CutShort ==
  ASSUME Kinds, NEW n \in Node,
         inbox' = [inbox EXCEPT ![n] = SubSeq(@, 1, IF Len(@) > Capacity THEN Capacity
                                                                       ELSE Len(@))]
  PROVE  inbox' \in [Node -> Seq(Entry)] /\ Fewer
  <1>1. /\ inbox[n] \in Seq(Entry)
        /\ \A k \in Node : /\ DOMAIN inbox[k] = 1..Len(inbox[k]) /\ Len(inbox[k]) \in Nat
                           /\ \A i \in 1..Len(inbox[k]) : inbox[k][i] \in Entry
    BY InboxPlaces DEF Places
  <1>2. inbox \in [Node -> Seq(Entry)]
    BY DEF Kinds
  <1> DEFINE l == IF Len(inbox[n]) > Capacity THEN Capacity ELSE Len(inbox[n])
             s == SubSeq(inbox[n], 1, l)
  <1>3. l \in Nat /\ l <= Len(inbox[n])
    BY <1>1, InboxAssumption
  <1> HIDE DEF l
  <1>4. /\ s \in Seq(Entry) /\ Len(s) = l
        /\ \A i \in 1..l : s[i] = inbox[n][i]
    <2>1. 1 \in Int /\ l \in Int /\ \A i \in 1..l : inbox[n][i] \in Entry
      BY <1>1, <1>3
    <2>2. /\ s \in Seq(Entry) /\ Len(s) = IF 1 <= l THEN l - 1 + 1 ELSE 0
          /\ \A i \in 1..(l - 1 + 1) : s[i] = inbox[n][1 + i - 1]
      BY <2>1, SubSeqProperties
    <2> QED
      BY <1>3, <2>2
  <1>5. DOMAIN s = 1..l
    BY <1>4, LenProperties
  <1> HIDE DEF s
  <1>6. inbox' = [inbox EXCEPT ![n] = s]
    BY DEF s, l
  <1>7. inbox'[n] = s /\ \A k \in Node : k # n => inbox'[k] = inbox[k]
    BY <1>2, <1>6
  <1>8. ASSUME NEW k \in Node, NEW i \in DOMAIN inbox'[k]
        PROVE  i + 0 \in DOMAIN inbox[k] /\ inbox'[k][i] = inbox[k][i + 0]
    <2>1. i \in Nat
      BY <1>1, <1>5, <1>7, <1>8
    <2>2. CASE k = n
      <3>1. i \in DOMAIN s
        BY <1>7, <1>8, <2>2
      <3>2. i \in 1..l /\ i + 0 = i
        BY <1>5, <2>1, <3>1
      <3>3. inbox'[k][i] = inbox[k][i]
        BY <1>4, <1>7, <2>2, <3>2
      <3>4. i \in DOMAIN inbox[k]
        BY <1>1, <1>3, <2>2, <3>2
      <3> QED
        BY <3>2, <3>3, <3>4
    <2>3. CASE k # n
      BY <1>7, <1>8, <2>1, <2>3
    <2> QED
      BY <2>2, <2>3
  <1> QED
    BY <1>2, <1>4, <1>6, <1>8 DEF Fewer

\* An inbox that nothing is done to.
LEMMA Untouched ==
  ASSUME Kinds, UNCHANGED inbox
  PROVE  Fewer
  <1>1. \A k \in Node : \A i \in DOMAIN inbox[k] : i + 0 = i
    BY InboxPlaces DEF Places
  <1> QED
    BY <1>1 DEF Fewer

-----------------------------------------------------------------------------
(* Where a push or an ack is *)

\* The goroutines have names of their own.
LEMMA Names ==
  /\ \A r \in Request, p \in Node : /\ <<"push", r, p>> \in Carriers
                                    /\ <<"ack", r, p>> \in Carriers
  /\ \A r, s \in Request, p, q \in Node : <<"push", r, p>> # <<"ack", s, q>>
  /\ Carriers \subseteq Goroutines
  /\ \A n \in Node : GossipLoop(n) \notin Carriers /\ GossipLoop(n) \in Goroutines
  /\ DeployHandler \notin Carriers /\ DeployHandler \in Goroutines
  BY DEF Carriers, Goroutines, GossipLoop, DeployHandler

\* Where entries are taken out, those that stay keep to themselves.
LEMMA PlacesFewer ==
  ASSUME Once, Fewer, inbox' \in [Node -> Seq(Entry)],
         NEW m \in Node, NEW n \in Node, NEW i \in DOMAIN inbox'[m],
         NEW j \in DOMAIN inbox'[n],
         inbox'[m][i].by = inbox'[n][j].by, inbox'[m][i].by \in Carriers
  PROVE  m = n /\ i = j
  <1>1. PICK d \in Nat : \A x \in DOMAIN inbox'[m] :
          x + d \in DOMAIN inbox[m] /\ inbox'[m][x] = inbox[m][x + d]
    BY DEF Fewer
  <1>2. PICK e \in Nat : \A x \in DOMAIN inbox'[n] :
          x + e \in DOMAIN inbox[n] /\ inbox'[n][x] = inbox[n][x + e]
    BY DEF Fewer
  <1>3. ASSUME NEW x \in DOMAIN inbox[m], NEW y \in DOMAIN inbox[n],
               inbox[m][x] = inbox'[m][i], inbox[n][y] = inbox'[n][j]
        PROVE  m = n /\ x = y
    BY <1>3 DEF Once
  <1>4. m = n /\ i + d = j + d
    <2>1. m = n
      BY <1>1, <1>2, <1>3
    <2>2. j + d \in DOMAIN inbox[n] /\ inbox[n][j + d] = inbox'[n][j]
      BY <1>1, <2>1
    <2> QED
      BY <1>1, <1>3, <2>1, <2>2
  <1>5. i \in Nat /\ j \in Nat
    <2>1. inbox'[m] \in Seq(Entry) /\ inbox'[n] \in Seq(Entry)
      OBVIOUS
    <2> QED
      BY <2>1, LenProperties
  <1> QED
    BY <1>4, <1>5

\* Nothing is lost or gained by taking entries out of inboxes.
LEMMA OnceFewer ==
  ASSUME Once, Fewer, inbox' \in [Node -> Seq(Entry)], carriers' \subseteq carriers,
         \A r \in Request : pc'[r] = "idle" => pc[r] = "idle"
  PROVE  Once' /\ \A g : Active(g)' => Active(g)
  <1>1. \A g : Active(g)' => Active(g)
    BY DEF Active, Fewer
  <1>2. \A c, d \in carriers' : c.by = d.by => c = d
    BY DEF Once
  <1>3. \A c \in carriers' : \A n \in Node : \A i \in DOMAIN inbox'[n] :
          inbox'[n][i].by # c.by
    BY DEF Once, Fewer
  <1>4. ASSUME NEW m \in Node, NEW n \in Node, NEW i \in DOMAIN inbox'[m],
               NEW j \in DOMAIN inbox'[n],
               inbox'[m][i].by = inbox'[n][j].by, inbox'[m][i].by \in Carriers
        PROVE  m = n /\ i = j
    BY <1>4, PlacesFewer
  <1> QED
    BY <1>1, <1>2, <1>3, <1>4 DEF Once

\* A goroutine that was not under way anywhere sends its message.
PutOnce(n, e) ==
  /\ inbox' = [inbox EXCEPT ![n] = Append(@, e)] /\ carriers' \subseteq carriers
  /\ \A c \in carriers' : c.by # e.by
  /\ e.by \in Carriers => \A k \in Node : \A i \in DOMAIN inbox[k] : inbox[k][i].by # e.by
  /\ e.by \in Carriers => \E c \in carriers : c.by = e.by

IdleBefore == \A r \in Request : pc'[r] = "idle" => pc[r] = "idle"

LEMMA OnceSent ==
  ASSUME Once, Kinds, IdleBefore, NEW n \in Node, NEW e \in Entry, PutOnce(n, e)
  PROVE  Once'
  <1> USE DEF PutOnce, IdleBefore
  <1> DEFINE l == Len(inbox[n]) + 1
  <1>1. /\ \A k \in Node : k # n => inbox'[k] = inbox[k]
        /\ \A k \in Node : DOMAIN inbox[k] = 1..Len(inbox[k]) /\ Len(inbox[k]) \in Nat
        /\ \A k \in Node : \A i \in DOMAIN inbox[k] : inbox'[k][i] = inbox[k][i]
        /\ DOMAIN inbox'[n] = 1..l /\ inbox'[n][l] = e
    BY Appended, InboxPlaces DEF Places
  <1>2. ASSUME NEW k \in Node, NEW i \in DOMAIN inbox'[k]
        PROVE  \/ i \in DOMAIN inbox[k] /\ inbox'[k][i] = inbox[k][i]
               \/ k = n /\ i = l /\ inbox'[k][i] = e
    BY <1>1, <1>2
  <1> HIDE DEF l
  <1>3. \A c, d \in carriers' : c.by = d.by => c = d
    BY DEF Once
  <1>4. \A c \in carriers' : \A k \in Node : \A i \in DOMAIN inbox'[k] :
          inbox'[k][i].by # c.by
    BY <1>2 DEF Once
  <1>5. ASSUME NEW m \in Node, NEW k \in Node, NEW i \in DOMAIN inbox'[m],
               NEW j \in DOMAIN inbox'[k],
               inbox'[m][i].by = inbox'[k][j].by, inbox'[m][i].by \in Carriers
        PROVE  m = k /\ i = j
    BY <1>2, <1>5 DEF Once
  <1>6. \A g \in Carriers : Active(g)' => Active(g)
    BY <1>2 DEF Active
  <1> QED
    BY <1>3, <1>4, <1>5, <1>6, Names DEF Once

\* Goroutine g is under way, and its message has not just been taken out.
Left(g) == \/ \E c \in carriers : c.by = g
           \/ \E n \in Node : \E i \in DOMAIN inbox'[n] : inbox'[n][i].by = g

\* Goroutines that are not under way anywhere are started.
Starts(new) ==
  /\ carriers' = carriers \cup new
  /\ \A c \in new : ~Left(c.by)
  /\ \A c, d \in new : c.by = d.by => c = d
  /\ \A r \in Request, p \in Node : \A c \in new :
       /\ c.by \in {<<"push", r, p>>, <<"ack", r, p>>} => pc'[r] # "idle"
       /\ c.by = <<"push", r, p>> => ~Left(<<"ack", r, p>>)
       /\ c.by = <<"ack", r, p>> => ~Left(<<"push", r, p>>)
       /\ c.by = <<"push", r, p>> => \A d \in new : d.by # <<"ack", r, p>>

LEMMA OnceStarted ==
  ASSUME Once, Fewer, IdleBefore, inbox' \in [Node -> Seq(Entry)], NEW new, Starts(new)
  PROVE  Once'
  <1> USE DEF Starts, IdleBefore
  <1>1. \A g : Active(g)' => Left(g) \/ \E c \in new : c.by = g
    BY DEF Active, Left
  <1>2. \A g : Left(g) => Active(g)
    BY DEF Active, Left, Fewer
  <1>3. \A c, d \in carriers' : c.by = d.by => c = d
    BY DEF Once, Left
  <1>4. \A c \in carriers' : \A n \in Node : \A i \in DOMAIN inbox'[n] :
          inbox'[n][i].by # c.by
    BY DEF Once, Fewer, Left
  <1>5. ASSUME NEW m \in Node, NEW n \in Node, NEW i \in DOMAIN inbox'[m],
               NEW j \in DOMAIN inbox'[n],
               inbox'[m][i].by = inbox'[n][j].by, inbox'[m][i].by \in Carriers
        PROVE  m = n /\ i = j
    BY <1>5, PlacesFewer DEF Once
  <1>6. ASSUME NEW r \in Request, NEW p \in Node
        PROVE  /\ ~(Active(<<"push", r, p>>)' /\ Active(<<"ack", r, p>>)')
               /\ pc'[r] = "idle" => ~Active(<<"push", r, p>>)' /\ ~Active(<<"ack", r, p>>)'
    <2>1. /\ ~(Left(<<"push", r, p>>) /\ Left(<<"ack", r, p>>))
          /\ pc'[r] = "idle" => ~Left(<<"push", r, p>>) /\ ~Left(<<"ack", r, p>>)
      BY <1>2 DEF Once
    <2>2. /\ Active(<<"push", r, p>>)' =>
               Left(<<"push", r, p>>) \/ \E c \in new : c.by = <<"push", r, p>>
          /\ Active(<<"ack", r, p>>)' =>
               Left(<<"ack", r, p>>) \/ \E c \in new : c.by = <<"ack", r, p>>
      BY <1>1
    <2>3. ASSUME NEW c \in new, c.by = <<"push", r, p>>
          PROVE  /\ pc'[r] # "idle" /\ ~Left(<<"ack", r, p>>)
                 /\ ~\E d \in new : d.by = <<"ack", r, p>>
      BY <2>3
    <2>4. ASSUME NEW c \in new, c.by = <<"ack", r, p>>
          PROVE  pc'[r] # "idle" /\ ~Left(<<"push", r, p>>)
      BY <2>4
    <2> QED
      BY <2>1, <2>2, <2>3, <2>4
  <1> QED
    BY <1>3, <1>4, <1>5, <1>6 DEF Once

-----------------------------------------------------------------------------
(* The invariant is inductive *)

\* The messages the goroutines send.
LEMMA Sent ==
  /\ \A n \in Node : /\ PlanMsg(n) \in Message /\ PlanMsg(n).type = "deploy"
                     /\ GossipMsg(n) \in Message /\ GossipMsg(n).type = "gossip"
                     /\ GossipMsg(n).from = n
  /\ \A n \in Node, r \in Request :
       /\ Push(n, r) \in Message /\ Push(n, r).type = "push"
       /\ Push(n, r).from = n /\ Push(n, r).req = r
       /\ Ack(n, r) \in Message /\ Ack(n, r).type = "ack"
       /\ Ack(n, r).from = n /\ Ack(n, r).req = r
  BY DEF Message, PlanMsg, GossipMsg, Push, Ack

LEMMA MessageParts ==
  ASSUME NEW m \in Message
  PROVE  /\ m.from \in Node /\ m.type \in {"deploy", "gossip", "push", "ack"}
         /\ m.type \in {"push", "ack"} => m.req \in Request
         /\ m.type = "push" => m = Push(m.from, m.req)
         /\ m.type = "ack" => m = Ack(m.from, m.req)
  BY DEF Message, Push, Ack

\* The message a loop takes is the one at the head of its inbox.
LEMMA Takes ==
  ASSUME Kinds, NEW n \in Node, Receive(n)
  PROVE  \E m \in Message : /\ Take(n, m) /\ m = inbox[n][1].msg /\ 1 \in DOMAIN inbox[n]
                            /\ inbox[n] # <<>> /\ inbox' = [inbox EXCEPT ![n] = Tail(@)]
                            /\ inbox' \in [Node -> Seq(Entry)] /\ Fewer /\ UNCHANGED loops
                            /\ \/ HandleDeploy(n, m) \/ HandleGossip(n, m)
                               \/ HandleSyncPush(n, m) \/ HandleSyncAck(n, m)
  <1>1. PICK m : /\ Take(n, m)
                 /\ \/ HandleDeploy(n, m) \/ HandleGossip(n, m)
                    \/ HandleSyncPush(n, m) \/ HandleSyncAck(n, m)
    BY DEF Receive
  <1>2. /\ inbox[n] # <<>> /\ m = Head(inbox[n]).msg
        /\ inbox' = [inbox EXCEPT ![n] = Tail(@)]
    BY <1>1 DEF Take
  <1>3. /\ inbox' \in [Node -> Seq(Entry)] /\ Fewer /\ 1 \in DOMAIN inbox[n]
        /\ Head(inbox[n]) = inbox[n][1]
    BY <1>2, Taken
  <1>4. inbox[n][1] \in Entry
    BY <1>3, InboxPlaces
  <1> QED
    BY <1>1, <1>2, <1>3, <1>4 DEF Entry, Receive

\* An ack counts for its sender while its request is open, and begins nothing.
LEMMA AckCounts ==
  ASSUME Kinds, NEW n \in Node, NEW m \in Message, HandleSyncAck(n, m)
  PROVE  /\ acked' \in [Request -> SUBSET Node]
         /\ pc' \in [Request -> {"idle", "open", "done", "failed"}]
         /\ \A r \in Request : /\ acked[r] \subseteq acked'[r]
                               /\ pc'[r] \in {"idle", "open"} => pc[r] = pc'[r]
         /\ pc[m.req] = "open" => m.from \in acked'[m.req]
  <1>1. m.from \in Node /\ m.req \in Request
    BY MessageParts DEF HandleSyncAck
  <1>2. /\ acked \in [Request -> SUBSET Node]
        /\ pc \in [Request -> {"idle", "open", "done", "failed"}]
    BY DEF Kinds
  <1>3. CASE pc[m.req] = "open"
    <2>1. acked' = [acked EXCEPT ![m.req] = acked[m.req] \cup {m.from}]
      BY <1>3 DEF HandleSyncAck
    <2>2. pc' = [pc EXCEPT ![m.req] = IF acked'[m.req] = Peers(n) THEN "done" ELSE "open"]
      BY <1>3 DEF HandleSyncAck
    <2> QED
      BY <1>1, <1>2, <1>3, <2>1, <2>2
  <1>4. CASE pc[m.req] # "open"
    BY <1>2, <1>4 DEF HandleSyncAck
  <1> QED
    BY <1>3, <1>4

\* Every variable keeps its kind.
LEMMA KindsStep ==
  ASSUME Kinds, Shapes, [Next]_vars
  PROVE  Kinds' /\ UNCHANGED at
  <1> USE DEF Kinds, loops, deploy, request
  <1>1. ASSUME NEW g \in Goroutines, NEW p \in Node, NEW m \in Message, Send(g, p, m)
        PROVE  inbox' \in [Node -> Seq(Entry)]
    <2>1. [by |-> g, msg |-> m] \in Entry
      BY DEF Entry
    <2> QED
      BY <1>1, <2>1, Appended DEF Send
  <1>2. ASSUME NEW c \in carriers, Carry(c) PROVE Kinds' /\ UNCHANGED at
    <2>1. c.by \in Goroutines /\ c.to \in Node /\ c.msg \in Message
      OBVIOUS
    <2> QED
      BY <1>1, <1>2, <2>1 DEF Carry
  <1>3. CASE Deploy \/ Answer \/ \E n \in Node : \E g \in {Loop(n), GossipLoop(n)} : Quit(n, g)
    BY <1>3 DEF Deploy, Answer, Quit, Peers
  <1>4. ASSUME NEW p \in Node, Propagate(p) PROVE Kinds' /\ UNCHANGED at
    BY <1>1, <1>4, Names, Sent DEF Propagate
  <1>5. ASSUME NEW n \in Node, NEW p \in Node, Gossip(n, p) PROVE Kinds' /\ UNCHANGED at
    BY <1>1, <1>5, Names, Sent DEF Gossip
  <1>6. ASSUME NEW n \in Node, Stop(n) PROVE Kinds' /\ UNCHANGED at
    BY <1>6, CutShort DEF Stop
  <1>7. ASSUME NEW r \in Request, Begin(r) PROVE Kinds' /\ UNCHANGED at
    <2>1. \A p \in Peers(at[r]) :
            [by |-> Carrier(Push(at[r], r), p), to |-> p, msg |-> Push(at[r], r)]
              \in [by : Goroutines, to : Node, msg : Message]
      <3> SUFFICES ASSUME NEW p \in Peers(at[r])
                   PROVE  [by |-> Carrier(Push(at[r], r), p), to |-> p, msg |-> Push(at[r], r)]
                            \in [by : Goroutines, to : Node, msg : Message]
        OBVIOUS
      <3>1. at[r] \in Node /\ p \in Node
        BY DEF Peers
      <3>2. Carrier(Push(at[r], r), p) = <<"push", r, p>>
        BY <3>1, Sent DEF Carrier
      <3>3. <<"push", r, p>> \in Goroutines
        BY <3>1, Names
      <3>4. Push(at[r], r) \in Message
        BY <3>1, Sent
      <3> QED
        BY <3>1, <3>2, <3>3, <3>4
    <2> QED
      BY <1>7, <2>1 DEF Begin
  <1>8. ASSUME NEW r \in Request, Deadline(r) PROVE Kinds' /\ UNCHANGED at
    BY <1>8 DEF Deadline
  <1>9. ASSUME NEW n \in Node, Receive(n) PROVE Kinds' /\ UNCHANGED at
    <2>1. PICK m \in Message :
            /\ inbox' \in [Node -> Seq(Entry)] /\ UNCHANGED loops
            /\ \/ HandleDeploy(n, m) \/ HandleGossip(n, m)
               \/ HandleSyncPush(n, m) \/ HandleSyncAck(n, m)
      BY <1>9, Takes
    <2>2. CASE HandleDeploy(n, m) \/ HandleGossip(n, m)
      BY <2>1, <2>2 DEF HandleDeploy, HandleGossip
    <2>3. CASE HandleSyncPush(n, m)
      <3>1. RouteAck(n, m) \in [by : Goroutines, to : Node, msg : Message]
        <4>1. m.from \in Node /\ m.req \in Request
          BY <2>3, MessageParts DEF HandleSyncPush
        <4>2. Ack(n, m.req) \in Message /\ Ack(n, m.req).type = "ack"
              /\ Ack(n, m.req).req = m.req
          BY <4>1, Sent
        <4>3. Carrier(Ack(n, m.req), n) \in Goroutines
          BY <4>1, <4>2, Names DEF Carrier
        <4> QED
          BY <4>1, <4>2, <4>3 DEF RouteAck
      <3> QED
        BY <2>1, <2>3, <3>1 DEF HandleSyncPush
    <2>4. CASE HandleSyncAck(n, m)
      BY <2>1, <2>4, AckCounts DEF HandleSyncAck
    <2> QED
      BY <2>1, <2>2, <2>3, <2>4
  <1>10. CASE UNCHANGED vars
    BY <1>10 DEF vars
  <1> QED
    BY <1>2, <1>3, <1>4, <1>5, <1>6, <1>7, <1>8, <1>9, <1>10 DEF Next

\* What a step does to the inboxes and the carriers.
PutIn(n, g, m) == inbox' = [inbox EXCEPT ![n] = Append(@, [by |-> g, msg |-> m])]
Quiet == Fewer /\ UNCHANGED carriers
CarrierSends(c) == carriers' = carriers \ {c} /\ (Fewer \/ PutIn(c.to, c.by, c.msg))
LoopSends(g, n, m) ==
  /\ g \notin Carriers /\ m.type \in {"deploy", "gossip"} /\ g = Sender(m, n)
  /\ ~Sending(g) /\ PutIn(n, g, m) /\ UNCHANGED carriers
Acks(n, m) ==
  /\ m.type = "push" /\ m = inbox[n][1].msg /\ 1 \in DOMAIN inbox[n]
  /\ inbox[n] # <<>> /\ inbox' = [inbox EXCEPT ![n] = Tail(@)]
  /\ n \in has /\ carriers' = carriers \cup {RouteAck(n, m)} /\ UNCHANGED request

LEMMA StepForms ==
  ASSUME Kinds, [Next]_vars
  PROVE  /\ \/ Quiet
            \/ \E c \in carriers : CarrierSends(c)
            \/ \E g \in Goroutines, n \in Node, m \in Message : LoopSends(g, n, m)
            \/ \E r \in Request : Begin(r)
            \/ \E n \in Node, m \in Message : Acks(n, m)
         /\ \A r \in Request : pc'[r] = "idle" => pc[r] = "idle"
  <1> USE DEF loops, deploy, request
  <1> DEFINE NoneIdled == \A r \in Request : pc'[r] = "idle" => pc[r] = "idle"
  <1>1. UNCHANGED inbox => Fewer
    BY Untouched
  <1>2. pc \in [Request -> {"idle", "open", "done", "failed"}]
    BY DEF Kinds
  <1>3. ASSUME NEW c \in carriers, Carry(c) PROVE CarrierSends(c) /\ NoneIdled
    BY <1>1, <1>3 DEF Carry, Send, CarrierSends, PutIn
  <1>4. CASE Deploy \/ Answer \/ \E n \in Node : \E g \in {Loop(n), GossipLoop(n)} : Quit(n, g)
    BY <1>1, <1>4 DEF Deploy, Answer, Quit, Quiet
  <1>5. ASSUME NEW p \in Node, Propagate(p)
        PROVE  (Quiet \/ LoopSends(DeployHandler, p, PlanMsg(deployer))) /\ NoneIdled
    <2>1. deployer \in Node
      BY DEF Kinds
    <2>2. Sender(PlanMsg(deployer), p) = DeployHandler
      BY <2>1, Sent DEF Sender
    <2> QED
      BY <1>1, <1>5, <2>1, <2>2, Sent, Names DEF Propagate, Send, LoopSends, PutIn, Quiet
  <1>6. ASSUME NEW n \in Node, NEW p \in Node, Gossip(n, p)
        PROVE  (Quiet \/ LoopSends(GossipLoop(n), p, GossipMsg(n))) /\ NoneIdled
    <2>1. Sender(GossipMsg(n), p) = GossipLoop(n)
      BY Sent DEF Sender
    <2> QED
      BY <1>1, <1>6, <2>1, Sent, Names DEF Gossip, Send, LoopSends, PutIn, Quiet
  <1>7. ASSUME NEW n \in Node, Stop(n) PROVE Quiet /\ NoneIdled
    BY <1>7, CutShort DEF Stop, Quiet
  <1>8. ASSUME NEW r \in Request, Begin(r) PROVE NoneIdled
    BY <1>2, <1>8 DEF Begin
  <1>9. ASSUME NEW r \in Request, Deadline(r) PROVE Quiet /\ NoneIdled
    BY <1>1, <1>2, <1>9 DEF Deadline, Quiet
  <1>10. ASSUME NEW n \in Node, Receive(n)
         PROVE  (Quiet \/ \E m \in Message : Acks(n, m)) /\ NoneIdled
    <2>1. PICK m \in Message :
            /\ m = inbox[n][1].msg /\ 1 \in DOMAIN inbox[n] /\ inbox[n] # <<>>
            /\ inbox' = [inbox EXCEPT ![n] = Tail(@)] /\ Fewer
            /\ \/ HandleDeploy(n, m) \/ HandleGossip(n, m)
               \/ HandleSyncPush(n, m) \/ HandleSyncAck(n, m)
      BY <1>10, Takes
    <2>2. CASE HandleDeploy(n, m) \/ HandleGossip(n, m)
      BY <2>1, <2>2 DEF HandleDeploy, HandleGossip, Quiet
    <2>3. CASE HandleSyncPush(n, m)
      BY <2>1, <2>3 DEF HandleSyncPush, Quiet, Acks
    <2>4. CASE HandleSyncAck(n, m)
      BY <2>1, <2>4, AckCounts DEF HandleSyncAck, Quiet
    <2> QED
      BY <2>1, <2>2, <2>3, <2>4
  <1>11. CASE UNCHANGED vars
    BY <1>1, <1>11 DEF vars, Quiet
  <1>12. deployer \in Node /\ DeployHandler \in Goroutines
         /\ \A n \in Node : /\ GossipLoop(n) \in Goroutines
                            /\ GossipMsg(n) \in Message /\ PlanMsg(n) \in Message
    BY Names, Sent DEF Kinds
  <1> HIDE DEF NoneIdled
  <1>13. [Next]_vars => NoneIdled
    BY <1>3, <1>4, <1>5, <1>6, <1>7, <1>8, <1>9, <1>10, <1>11 DEF Next, NoneIdled
  <1> QED
    BY <1>3, <1>4, <1>5, <1>6, <1>7, <1>9, <1>10, <1>11, <1>12, <1>13 DEF Next, NoneIdled

\* Every message is between a coordinator and a peer, with the goroutine it has.
Shaped(m, g, n) == Fits(m, n) /\ g = Sender(m, n)

LEMMA ShapesKept ==
  ASSUME Kinds, Shapes, UNCHANGED at
  PROVE  /\ \A m, g, n : Shaped(m, g, n)' <=> Shaped(m, g, n)
         /\ \A c \in carriers : Shaped(c.msg, c.by, c.to)
         /\ \A n \in Node : \A i \in DOMAIN inbox[n] : Shaped(inbox[n][i].msg, inbox[n][i].by, n)
         /\ (\A c \in carriers' : c.msg.type \in {"push", "ack"} /\ Shaped(c.msg, c.by, c.to))
            /\ (\A n \in Node : \A i \in DOMAIN inbox'[n] :
                  Shaped(inbox'[n][i].msg, inbox'[n][i].by, n))
              => Shapes'
  <1>1. \A m, g, n : Shaped(m, g, n)' <=> Shaped(m, g, n)
    BY DEF Shaped, Fits
  <1>2. \A c \in carriers : Shaped(c.msg, c.by, c.to)
    BY DEF Shapes, Shaped
  <1>3. \A n \in Node : \A i \in DOMAIN inbox[n] : Shaped(inbox[n][i].msg, inbox[n][i].by, n)
    BY DEF Shapes, Shaped
  <1>4. (\A c \in carriers' : c.msg.type \in {"push", "ack"} /\ Shaped(c.msg, c.by, c.to))
        /\ (\A n \in Node : \A i \in DOMAIN inbox'[n] :
              Shaped(inbox'[n][i].msg, inbox'[n][i].by, n))
          => Shapes'
    BY DEF Shapes, Shaped, Fits
  <1> QED
    BY <1>1, <1>2, <1>3, <1>4

LEMMA ShapesStep ==
  ASSUME Kinds, Shapes, [Next]_vars
  PROVE  Shapes'
  <1>1. Kinds' /\ UNCHANGED at
    BY KindsStep
  <1> DEFINE InboxesShaped == \A n \in Node : \A i \in DOMAIN inbox'[n] :
                                Shaped(inbox'[n][i].msg, inbox'[n][i].by, n)
             CarriersShaped == \A c \in carriers' :
                                 c.msg.type \in {"push", "ack"} /\ Shaped(c.msg, c.by, c.to)
  <1>2. InboxesShaped /\ CarriersShaped => Shapes'
    BY <1>1, ShapesKept
  <1>3. /\ \A c \in carriers : c.msg.type \in {"push", "ack"} /\ Shaped(c.msg, c.by, c.to)
        /\ \A n \in Node : \A i \in DOMAIN inbox[n] :
             Shaped(inbox[n][i].msg, inbox[n][i].by, n)
    BY <1>1, ShapesKept DEF Shapes
  <1>4. Fewer => InboxesShaped
    BY <1>3 DEF Fewer
  <1>5. carriers' \subseteq carriers => CarriersShaped
    BY <1>3
  <1>6. ASSUME NEW n \in Node, NEW g \in Goroutines, NEW m \in Message, PutIn(n, g, m),
               Shaped(m, g, n)
        PROVE  InboxesShaped
    <2>1. [by |-> g, msg |-> m] \in Entry
      BY DEF Entry
    <2>2. /\ \A k \in Node : k # n => inbox'[k] = inbox[k]
          /\ \A k \in Node : DOMAIN inbox[k] = 1..Len(inbox[k]) /\ Len(inbox[k]) \in Nat
          /\ \A k \in Node : \A i \in DOMAIN inbox[k] : inbox'[k][i] = inbox[k][i]
          /\ DOMAIN inbox'[n] = 1..(Len(inbox[n]) + 1)
          /\ inbox'[n][Len(inbox[n]) + 1] = [by |-> g, msg |-> m]
      BY <1>6, <2>1, Appended, InboxPlaces DEF Places, PutIn
    <2>3. ASSUME NEW k \in Node, NEW i \in DOMAIN inbox'[k]
          PROVE  \/ i \in DOMAIN inbox[k] /\ inbox'[k][i] = inbox[k][i]
                 \/ k = n /\ inbox'[k][i] = [by |-> g, msg |-> m]
      BY <2>2, <2>3
    <2> QED
      BY <1>3, <1>6, <2>3
  <1>7. ASSUME Quiet PROVE Shapes'
    BY <1>2, <1>4, <1>5, <1>7 DEF Quiet
  <1>8. ASSUME NEW c \in carriers, CarrierSends(c) PROVE Shapes'
    <2>1. c.by \in Goroutines /\ c.to \in Node /\ c.msg \in Message
      BY DEF Kinds
    <2> QED
      BY <1>2, <1>3, <1>4, <1>5, <1>6, <1>8, <2>1 DEF CarrierSends
  <1>9. ASSUME NEW g \in Goroutines, NEW n \in Node, NEW m \in Message, LoopSends(g, n, m)
        PROVE  Shapes'
    BY <1>2, <1>5, <1>6, <1>9 DEF LoopSends, Shaped, Fits
  <1>10. ASSUME NEW r \in Request, Begin(r) PROVE Shapes'
    <2>1. at[r] \in Node /\ UNCHANGED inbox
      BY <1>10 DEF Kinds, Begin
    <2>2. ASSUME NEW p \in Peers(at[r])
          PROVE  /\ Push(at[r], r).type = "push"
                 /\ Shaped(Push(at[r], r), Carrier(Push(at[r], r), p), p)
      BY <2>1, <2>2, Sent DEF Shaped, Fits, Sender
    <2>3. CarriersShaped
      BY <1>3, <1>10, <2>2 DEF Begin
    <2>4. InboxesShaped
      BY <1>4, <2>1, Untouched
    <2> QED
      BY <1>2, <2>3, <2>4
  <1>11. ASSUME NEW n \in Node, NEW m \in Message, Acks(n, m) PROVE Shapes'
    <2>1. InboxesShaped
      BY <1>4, <1>11, Taken DEF Acks
    <2>2. Fits(m, n) /\ m.type = "push"
      BY <1>3, <1>11 DEF Acks, Shaped
    <2>3. m.req \in Request /\ m.from \in Node /\ m.from = at[m.req] /\ n \in Peers(m.from)
      BY <2>2, MessageParts DEF Fits
    <2> DEFINE a == Ack(n, m.req)
    <2>4. a.type = "ack" /\ a.from = n /\ a.req = m.req
      BY <2>3, Sent
    <2> HIDE DEF a
    <2>5. Shaped(a, Carrier(a, n), m.from)
      BY <2>3, <2>4 DEF Shaped, Fits, Sender
    <2>6. RouteAck(n, m) = [by |-> Carrier(a, n), to |-> m.from, msg |-> a]
      BY DEF RouteAck, a
    <2>7. CarriersShaped
      BY <1>3, <1>11, <2>4, <2>5, <2>6 DEF Acks
    <2> QED
      BY <1>2, <2>1, <2>7
  <1> HIDE DEF InboxesShaped, CarriersShaped
  <1> QED
    BY <1>7, <1>8, <1>9, <1>10, <1>11, StepForms

\* What the name of a carrier says of its message.
LEMMA CarrierNames ==
  ASSUME NEW m \in Message, m.type \in {"push", "ack"}, NEW n \in Node, Fits(m, n)
  PROVE  /\ Sender(m, n) \in Carriers
         /\ \A r, p : Sender(m, n) = <<"push", r, p>> =>
                        m.type = "push" /\ m.req = r /\ n = p
         /\ \A r, p : Sender(m, n) = <<"ack", r, p>> =>
                        m.type = "ack" /\ m.req = r /\ m.from = p
         /\ m.type = "push" => Sender(m, n) = <<"push", m.req, n>>
         /\ m.type = "ack" => Sender(m, n) = <<"ack", m.req, m.from>>
  <1>1. m.req \in Request /\ m.from \in Node
    BY MessageParts
  <1>2. CASE m.type = "push"
    <2>1. Sender(m, n) = <<"push", m.req, n>>
      BY <1>2 DEF Sender, Carrier
    <2> QED
      BY <1>1, <1>2, <2>1 DEF Carriers
  <1>3. CASE m.type = "ack"
    <2>1. Sender(m, n) = <<"ack", m.req, m.from>>
      BY <1>3 DEF Sender, Carrier
    <2> QED
      BY <1>1, <1>3, <2>1 DEF Carriers
  <1> QED
    BY <1>2, <1>3

LEMMA OnceStep ==
  ASSUME Kinds, Shapes, Once, [Next]_vars
  PROVE  Once'
  <1>1. Kinds' /\ \A r \in Request : pc'[r] = "idle" => pc[r] = "idle"
    BY KindsStep, StepForms
  <1>2. inbox' \in [Node -> Seq(Entry)] /\ pc \in [Request -> {"idle", "open", "done", "failed"}]
    BY <1>1 DEF Kinds
  <1>3. ASSUME Quiet PROVE Once'
    BY <1>1, <1>2, <1>3, OnceFewer DEF Quiet
  <1>4. ASSUME NEW c \in carriers, CarrierSends(c) PROVE Once'
    <2>1. c.by \in Goroutines /\ c.to \in Node /\ c.msg \in Message
      BY DEF Kinds
    <2>2. CASE Fewer
      BY <1>1, <1>2, <1>4, <2>2, OnceFewer DEF CarrierSends
    <2>3. CASE PutIn(c.to, c.by, c.msg)
      <3> DEFINE e == [by |-> c.by, msg |-> c.msg]
      <3>1. e \in Entry /\ e.by = c.by
        BY <2>1 DEF Entry
      <3>2. /\ \A d \in carriers' : d.by # c.by
            /\ \A k \in Node : \A i \in DOMAIN inbox[k] : inbox[k][i].by # c.by
            /\ carriers' \subseteq carriers
        BY <1>4 DEF CarrierSends, Once
      <3>3. inbox' = [inbox EXCEPT ![c.to] = Append(@, e)]
        BY <2>3 DEF PutIn
      <3> HIDE DEF e
      <3>4. PutOnce(c.to, e)
        BY <3>1, <3>2, <3>3 DEF PutOnce
      <3>5. IdleBefore
        BY <1>1 DEF IdleBefore
      <3> QED
        BY <2>1, <3>1, <3>4, <3>5, OnceSent
    <2> QED
      BY <1>4, <2>2, <2>3 DEF CarrierSends
  <1>5. ASSUME NEW g \in Goroutines, NEW n \in Node, NEW m \in Message, LoopSends(g, n, m)
        PROVE  Once'
    <2> DEFINE e == [by |-> g, msg |-> m]
    <2>1. e \in Entry /\ e.by = g /\ g \notin Carriers /\ UNCHANGED carriers
      BY <1>5 DEF Entry, LoopSends
    <2>2. \A c \in carriers : c.by \in Carriers
      BY CarrierNames DEF Shapes, Kinds
    <2>3. inbox' = [inbox EXCEPT ![n] = Append(@, e)]
      BY <1>5 DEF LoopSends, PutIn
    <2> HIDE DEF e
    <2>4. PutOnce(n, e)
      BY <2>1, <2>2, <2>3 DEF PutOnce
    <2>5. IdleBefore
      BY <1>1 DEF IdleBefore
    <2> QED
      BY <2>1, <2>4, <2>5, OnceSent
  <1>6. ASSUME NEW r \in Request, Begin(r) PROVE Once'
    <2> DEFINE new == {[by |-> Carrier(Push(at[r], r), p), to |-> p, msg |-> Push(at[r], r)] :
                         p \in Peers(at[r])}
    <2>1. /\ at[r] \in Node /\ UNCHANGED inbox /\ pc[r] = "idle" /\ pc'[r] = "open"
          /\ carriers' = carriers \cup new
      BY <1>2, <1>6 DEF Kinds, Begin
    <2>2. \A c \in new : c.to \in Node /\ c.by = <<"push", r, c.to>>
                         /\ c.msg = Push(at[r], r)
      BY <2>1, Sent DEF Peers, Carrier
    <2>3. \A c, d \in new : c.to = d.to => c = d
      OBVIOUS
    <2> HIDE DEF new
    <2>4. \A g : Left(g) => Active(g)
      BY <2>1 DEF Left, Active
    <2>5. \A p \in Node : ~Left(<<"push", r, p>>) /\ ~Left(<<"ack", r, p>>)
      BY <2>1, <2>4 DEF Once
    <2>6. ASSUME NEW c \in new, NEW s \in Request, NEW p \in Node
          PROVE  /\ c.by = <<"push", s, p>> => s = r /\ p = c.to
                 /\ c.by # <<"ack", s, p>>
      BY <2>2
    <2>7. \A c, d \in new : c.by = d.by => c = d
      BY <2>2, <2>3
    <2>8. Fewer
      BY <2>1, Untouched
    <2>9. \A c \in new : ~Left(c.by)
      BY <2>2, <2>5
    <2>10. ASSUME NEW s \in Request, NEW p \in Node, NEW c \in new
           PROVE  /\ c.by \in {<<"push", s, p>>, <<"ack", s, p>>} => pc'[s] # "idle"
                  /\ c.by = <<"push", s, p>> => ~Left(<<"ack", s, p>>)
                  /\ c.by = <<"ack", s, p>> => ~Left(<<"push", s, p>>)
                  /\ c.by = <<"push", s, p>> => \A d \in new : d.by # <<"ack", s, p>>
      BY <2>1, <2>5, <2>6
    <2>11. Starts(new)
      BY <2>1, <2>7, <2>9, <2>10 DEF Starts
    <2>12. IdleBefore
      BY <1>1 DEF IdleBefore
    <2> QED
      BY <1>2, <2>8, <2>11, <2>12, OnceStarted
  <1>7. ASSUME NEW n \in Node, NEW m \in Message, Acks(n, m) PROVE Once'
    <2> DEFINE r == m.req
    <2>1. /\ 1 \in DOMAIN inbox[n] /\ m = inbox[n][1].msg /\ m.type = "push"
          /\ inbox[n] # <<>> /\ inbox' = [inbox EXCEPT ![n] = Tail(@)]
          /\ carriers' = carriers \cup {RouteAck(n, m)} /\ pc' = pc
      BY <1>7 DEF Acks, request
    <2>2. /\ Fewer /\ \A k \in Node : k # n => inbox'[k] = inbox[k]
          /\ \A i \in DOMAIN inbox'[n] : i + 1 \in DOMAIN inbox[n]
                                         /\ inbox'[n][i] = inbox[n][i + 1]
      BY <2>1, Taken
    <2>3. /\ r \in Request /\ inbox[n][1].by = <<"push", r, n>>
          /\ <<"push", r, n>> \in Carriers
      BY <2>1, MessageParts, CarrierNames DEF Shapes
    <2>4. RouteAck(n, m).by = <<"ack", r, n>>
      BY <2>3, Sent DEF RouteAck, Carrier
    <2> HIDE DEF r
    <2>5. Active(<<"push", r, n>>)
      BY <2>1, <2>3 DEF Active
    <2>6. pc[r] # "idle" /\ ~Active(<<"ack", r, n>>)
      BY <2>3, <2>5 DEF Once
    <2>7. ~Left(<<"push", r, n>>)
      <3>1. \A c \in carriers : c.by # <<"push", r, n>>
        BY <2>1, <2>3 DEF Once
      <3>2. ASSUME NEW k \in Node, NEW i \in DOMAIN inbox'[k],
                   inbox'[k][i].by = <<"push", r, n>>
            PROVE  FALSE
        <4>1. k = n
          BY <2>1, <2>2, <2>3, <3>2 DEF Once
        <4>2. i + 1 \in DOMAIN inbox[n] /\ inbox[n][i + 1].by = <<"push", r, n>>
          BY <2>2, <3>2, <4>1
        <4>3. i + 1 = 1
          <5>1. ASSUME NEW x \in DOMAIN inbox[n], inbox[n][x].by = <<"push", r, n>>
                PROVE  x = 1
            <6>1. 1 \in DOMAIN inbox[n] /\ inbox[n][x].by = inbox[n][1].by
                  /\ inbox[n][x].by \in Carriers
              BY <2>1, <2>3, <5>1
            <6> QED
              BY <6>1 DEF Once
          <5> QED
            BY <4>2, <5>1
        <4>4. DOMAIN inbox'[n] \subseteq Nat \ {0}
          BY <1>2, LenProperties
        <4> QED
          BY <3>2, <4>1, <4>3, <4>4
      <3> QED
        BY <3>1, <3>2 DEF Left
    <2>8. ~Left(<<"ack", r, n>>)
      BY <2>2, <2>6 DEF Left, Active, Fewer
    <2>9. ASSUME NEW s \in Request, NEW p \in Node
          PROVE  /\ <<"ack", r, n>> = <<"ack", s, p>> => s = r /\ p = n
                 /\ <<"ack", r, n>> # <<"push", s, p>>
      OBVIOUS
    <2> DEFINE new == {RouteAck(n, m)}
    <2>10. \A c \in new : c.by = <<"ack", r, n>>
      BY <2>4
    <2>11. carriers' = carriers \cup new /\ \A c, d \in new : c = d
      BY <2>1
    <2> HIDE DEF new
    <2>12. ASSUME NEW s \in Request, NEW p \in Node, NEW c \in new
           PROVE  /\ c.by \in {<<"push", s, p>>, <<"ack", s, p>>} => pc'[s] # "idle"
                  /\ c.by = <<"push", s, p>> => ~Left(<<"ack", s, p>>)
                  /\ c.by = <<"ack", s, p>> => ~Left(<<"push", s, p>>)
                  /\ c.by = <<"push", s, p>> => \A d \in new : d.by # <<"ack", s, p>>
      BY <2>1, <2>6, <2>7, <2>9, <2>10
    <2>13. \A c \in new : ~Left(c.by)
      BY <2>8, <2>10
    <2>14. \A c, d \in new : c.by = d.by => c = d
      BY <2>11
    <2>15. Starts(new)
      BY <2>11, <2>12, <2>13, <2>14 DEF Starts
    <2>16. IdleBefore
      BY <1>1 DEF IdleBefore
    <2> QED
      BY <1>2, <2>2, <2>15, <2>16, OnceStarted
  <1> QED
    BY <1>3, <1>4, <1>5, <1>6, <1>7, StepForms

\* A loop waits at no second inbox, since it calls Send only when it is out of it.
LEMMA WaitsStep ==
  ASSUME Kinds, Shapes, WaitsOnce, [Next]_vars
  PROVE  WaitsOnce'
  <1>1. inbox' \in [Node -> Seq(Entry)]
    BY KindsStep DEF Kinds
  <1>2. ASSUME \A g \in Goroutines \ Carriers : Waits(g)' \subseteq Waits(g)
        PROVE  WaitsOnce'
    BY <1>2 DEF WaitsOnce
  <1>3. ASSUME Fewer PROVE WaitsOnce'
    <2> SUFFICES ASSUME NEW g \in Goroutines, NEW n \in Node,
                        NEW i \in Behind(n)', inbox'[n][i].by = g
                 PROVE  n \in Waits(g)
      BY <1>2 DEF Waits
    <2>1. i \in DOMAIN inbox'[n] /\ i > Capacity /\ i \in Nat
      BY <1>1, LenProperties DEF Behind
    <2>2. PICK d \in Nat : i + d \in DOMAIN inbox[n] /\ inbox'[n][i] = inbox[n][i + d]
      BY <1>3, <2>1 DEF Fewer
    <2>3. i + d > Capacity
      BY <2>1, <2>2, InboxAssumption
    <2> QED
      BY <2>2, <2>3 DEF Waits, Behind
  <1>4. ASSUME NEW n \in Node, NEW g \in Goroutines, NEW m \in Message, PutIn(n, g, m)
        PROVE  \A h : Waits(h)' \subseteq Waits(h) \cup (IF h = g THEN {n} ELSE {})
    <2>1. [by |-> g, msg |-> m] \in Entry
      BY DEF Entry
    <2>2. /\ \A k \in Node : k # n => inbox'[k] = inbox[k]
          /\ \A k \in Node : DOMAIN inbox[k] = 1..Len(inbox[k]) /\ Len(inbox[k]) \in Nat
          /\ \A k \in Node : \A i \in DOMAIN inbox[k] : inbox'[k][i] = inbox[k][i]
          /\ DOMAIN inbox'[n] = 1..(Len(inbox[n]) + 1)
          /\ inbox'[n][Len(inbox[n]) + 1] = [by |-> g, msg |-> m]
      BY <1>4, <2>1, Appended, InboxPlaces DEF Places, PutIn
    <2>3. ASSUME NEW k \in Node, NEW i \in DOMAIN inbox'[k]
          PROVE  \/ i \in DOMAIN inbox[k] /\ inbox'[k][i] = inbox[k][i]
                 \/ k = n /\ inbox'[k][i].by = g
      BY <2>2, <2>3
    <2> QED
      BY <2>3 DEF Waits, Behind
  <1>5. ASSUME NEW c \in carriers, CarrierSends(c) PROVE WaitsOnce'
    <2>1. c.by \in Goroutines /\ c.to \in Node /\ c.msg \in Message /\ c.by \in Carriers
      BY CarrierNames DEF Kinds, Shapes
    <2>2. CASE PutIn(c.to, c.by, c.msg)
      BY <1>2, <1>4, <2>1, <2>2
    <2> QED
      BY <1>3, <1>5, <2>2 DEF CarrierSends
  <1>6. ASSUME NEW g \in Goroutines, NEW n \in Node, NEW m \in Message, LoopSends(g, n, m)
        PROVE  WaitsOnce'
    <2>1. Waits(g) = {}
      BY <1>6 DEF LoopSends, Sending
    <2>2. \A h : Waits(h)' \subseteq Waits(h) \cup (IF h = g THEN {n} ELSE {})
      BY <1>4, <1>6 DEF LoopSends
    <2> QED
      BY <2>1, <2>2 DEF WaitsOnce
  <1>7. ASSUME NEW r \in Request, Begin(r) PROVE WaitsOnce'
    BY <1>3, <1>7, Untouched DEF Begin
  <1>8. ASSUME NEW n \in Node, NEW m \in Message, Acks(n, m) PROVE WaitsOnce'
    BY <1>3, <1>8, Taken DEF Acks
  <1> QED
    BY <1>3, <1>5, <1>6, <1>7, <1>8, StepForms DEF Quiet

\* Nobody is in two calls of Send.
LEMMA OneCall ==
  ASSUME Kinds, Shapes, Once, WaitsOnce, NEW g \in Goroutines
  PROVE  Cardinality(Calls(g)) + Cardinality(Waits(g)) <= 1
  <1>1. \A S : (\A x, y \in S : x = y) => Cardinality(S) \in {0, 1} /\ (S = {} => Cardinality(S) = 0)
    <2> SUFFICES ASSUME NEW S, \A x, y \in S : x = y
                 PROVE  Cardinality(S) \in {0, 1} /\ (S = {} => Cardinality(S) = 0)
      OBVIOUS
    <2>1. CASE S = {}
      BY <2>1, FS_EmptySet
    <2>2. CASE S # {}
      <3>1. PICK x \in S : TRUE
        BY <2>2
      <3>2. S = {x}
        BY <3>1
      <3> QED
        BY <2>2, <3>2, FS_Singleton
    <2> QED
      BY <2>1, <2>2
  <1>2. \A x, y \in Calls(g) : x = y
    BY DEF Calls, Once
  <1>3. \A x, y \in Waits(g) : x = y
    BY DEF Waits, Behind, Once, WaitsOnce
  <1>4. Calls(g) = {} \/ Waits(g) = {}
    BY DEF Calls, Waits, Behind, Once
  <1> QED
    BY <1>1, <1>2, <1>3, <1>4

\* A message put in an inbox comes after the others there.
LEMMA PutLast ==
  ASSUME Kinds, NEW n \in Node, NEW g \in Goroutines, NEW m \in Message, PutIn(n, g, m)
  PROVE  \E l \in Nat :
           /\ l \in DOMAIN inbox'[n] /\ inbox'[n][l].msg = m
           /\ \A i \in DOMAIN inbox[n] : i < l
           /\ \A k \in Node : \A i \in DOMAIN inbox[k] :
                i \in DOMAIN inbox'[k] /\ inbox'[k][i] = inbox[k][i]
           /\ \A k \in Node : \A i \in DOMAIN inbox'[k] :
                \/ i \in DOMAIN inbox[k] /\ inbox'[k][i] = inbox[k][i]
                \/ k = n /\ i = l
  <1> DEFINE l == Len(inbox[n]) + 1
  <1>1. [by |-> g, msg |-> m] \in Entry
    BY DEF Entry
  <1>2. /\ \A k \in Node : k # n => inbox'[k] = inbox[k]
        /\ \A k \in Node : DOMAIN inbox[k] = 1..Len(inbox[k]) /\ Len(inbox[k]) \in Nat
        /\ \A k \in Node : \A i \in DOMAIN inbox[k] :
             i \in DOMAIN inbox'[k] /\ inbox'[k][i] = inbox[k][i]
        /\ DOMAIN inbox'[n] = 1..l
        /\ inbox'[n][l] = [by |-> g, msg |-> m]
    BY <1>1, Appended, InboxPlaces DEF Places, PutIn
  <1>3. /\ l \in Nat /\ l \in DOMAIN inbox'[n] /\ \A i \in DOMAIN inbox[n] : i < l
        /\ inbox'[n][l].msg = m
    BY <1>2
  <1>4. \A k \in Node : \A i \in DOMAIN inbox'[k] :
          \/ i \in DOMAIN inbox[k] /\ inbox'[k][i] = inbox[k][i]
          \/ k = n /\ i = l
    BY <1>2
  <1> HIDE DEF l
  <1> QED
    BY <1>2, <1>3, <1>4

\* While no node is stopped, Send puts the message in the inbox.
LEMMA SendArrives ==
  ASSUME up = Node, NEW g, NEW p \in Node, NEW m, Send(g, p, m)
  PROVE  PutIn(p, g, m)
  BY DEF Send, PutIn

\* A node that is stopped stays so.
LEMMA UpBefore ==
  ASSUME Kinds, [Next]_vars, up' = Node
  PROVE  up = Node /\ \A n \in Node : ~Stop(n)
  <1> USE DEF Kinds, loops
  <1>1. \A n \in Node : ~Stop(n)
    BY DEF Stop
  <1>2. ASSUME NEW n \in Node, Receive(n) PROVE up' = up
    BY <1>2 DEF Receive
  <1> QED
    BY <1>1, <1>2
       DEF Next, vars, Carry, Deploy, Answer, Propagate, Gossip, Begin, Deadline, Quit

\* The part of PlanFirst about the plan alone, and the one about its place.
PlanSent ==
  /\ call # "idle" => deployer \in has /\ \A p \in Peers(deployer) \ todo : Known(p)
  /\ call = "answered" => todo = {}
  /\ ready # {} => call = "answered"
PlanAhead(r, p, i) ==
  inbox[p][i].msg = Push(at[r], r) =>
    p \in has \/ \E j \in DOMAIN inbox[p] : j < i /\ IsPlan(p, j)
PlansAhead == \A r \in ready, p \in Node : \A i \in DOMAIN inbox[p] : PlanAhead(r, p, i)

\* What is put in an inbox leaves the plan ahead of the pushes that were behind it.
LEMMA PutBehind ==
  ASSUME Kinds, PlansAhead, NEW n \in Node, NEW g \in Goroutines, NEW m \in Message,
         PutIn(n, g, m), has \subseteq has', UNCHANGED <<at, ready>>,
         \A r \in ready : m = Push(at[r], r) => Known(n)
  PROVE  PlansAhead' /\ \A p \in Node : Known(p) => Known(p)'
  <1>1. PICK l \in Nat :
          /\ l \in DOMAIN inbox'[n] /\ inbox'[n][l].msg = m
          /\ \A i \in DOMAIN inbox[n] : i < l
          /\ \A k \in Node : \A i \in DOMAIN inbox[k] :
               i \in DOMAIN inbox'[k] /\ inbox'[k][i] = inbox[k][i]
          /\ \A k \in Node : \A i \in DOMAIN inbox'[k] :
               \/ i \in DOMAIN inbox[k] /\ inbox'[k][i] = inbox[k][i]
               \/ k = n /\ i = l
    BY PutLast
  <1>2. \A p \in Node : Known(p) => Known(p)'
    BY <1>1 DEF Known, IsPlan
  <1>3. ASSUME NEW r \in ready, NEW p \in Node, NEW i \in DOMAIN inbox'[p]
        PROVE  PlanAhead(r, p, i)'
    <2>1. CASE i \in DOMAIN inbox[p] /\ inbox'[p][i] = inbox[p][i]
      <3>1. PlanAhead(r, p, i)
        BY <2>1 DEF PlansAhead
      <3> QED
        BY <1>1, <2>1, <3>1 DEF PlanAhead, IsPlan
    <2>2. CASE p = n /\ i = l
      BY <1>1, <2>2 DEF PlanAhead, IsPlan, Known
    <2> QED
      BY <1>1, <2>1, <2>2
  <1> QED
    BY <1>2, <1>3 DEF PlansAhead

\* A loop that takes the plan out of its inbox has it from then on.
LEMMA TakeBehind ==
  ASSUME Kinds, PlansAhead, NEW n \in Node, Receive(n)
  PROVE  /\ PlansAhead' /\ \A p \in Node : Known(p) => Known(p)'
         /\ has \subseteq has' /\ UNCHANGED <<at, ready, call, todo, deployer>>
  <1> USE DEF deploy, request
  <1>1. PICK m \in Message :
          /\ m = inbox[n][1].msg /\ 1 \in DOMAIN inbox[n] /\ inbox[n] # <<>>
          /\ inbox' = [inbox EXCEPT ![n] = Tail(@)] /\ inbox' \in [Node -> Seq(Entry)]
          /\ \/ HandleDeploy(n, m) \/ HandleGossip(n, m)
             \/ HandleSyncPush(n, m) \/ HandleSyncAck(n, m)
    BY Takes
  <1>2. /\ \A k \in Node : k # n => inbox'[k] = inbox[k]
        /\ \A i \in DOMAIN inbox[n] : i # 1 =>
             i - 1 \in DOMAIN inbox'[n] /\ inbox'[n][i - 1] = inbox[n][i]
        /\ \A i \in DOMAIN inbox'[n] :
             i + 1 \in DOMAIN inbox[n] /\ inbox'[n][i] = inbox[n][i + 1]
    BY <1>1, Taken
  <1>3. /\ has \subseteq has' /\ UNCHANGED <<at, ready, call, todo, deployer>>
        /\ m.type = "deploy" => n \in has'
    BY <1>1 DEF HandleDeploy, HandleGossip, HandleSyncPush, HandleSyncAck
  <1>4. (\A i \in DOMAIN inbox[n] : i \in Nat) /\ \A i \in DOMAIN inbox'[n] : i \in Nat
    BY <1>1, LenProperties DEF Kinds
  <1>5. ASSUME NEW j \in DOMAIN inbox[n], IsPlan(n, j), n \notin has'
        PROVE  j - 1 \in DOMAIN inbox'[n] /\ IsPlan(n, j - 1)'
    <2>1. j # 1
      BY <1>1, <1>3, <1>5 DEF IsPlan
    <2> QED
      BY <1>2, <1>5, <2>1 DEF IsPlan
  <1>6. ASSUME NEW p \in Node, Known(p) PROVE Known(p)'
    BY <1>2, <1>3, <1>5, <1>6 DEF Known, IsPlan
  <1>7. ASSUME NEW r \in ready, NEW p \in Node, NEW i \in DOMAIN inbox'[p]
        PROVE  PlanAhead(r, p, i)'
    <2>1. CASE p # n
      BY <1>2, <1>3, <1>7, <2>1 DEF PlansAhead, PlanAhead, IsPlan
    <2>2. CASE p = n
      <3> SUFFICES ASSUME inbox'[n][i].msg = Push(at[r], r), n \notin has'
                   PROVE  \E j \in DOMAIN inbox'[n] : j < i /\ IsPlan(n, j)'
        BY <1>3, <2>2 DEF PlanAhead, IsPlan
      <3>1. i + 1 \in DOMAIN inbox[n] /\ inbox[n][i + 1].msg = Push(at[r], r)
        BY <1>2, <2>2
      <3>2. PICK j \in DOMAIN inbox[n] : j < i + 1 /\ IsPlan(n, j)
        BY <1>3, <3>1 DEF PlansAhead, PlanAhead
      <3>3. j - 1 \in DOMAIN inbox'[n] /\ IsPlan(n, j - 1)' /\ j - 1 < i
        BY <1>4, <1>5, <1>7, <2>2, <3>2
      <3> QED
        BY <3>3
    <2> QED
      BY <2>1, <2>2
  <1> QED
    BY <1>3, <1>6, <1>7 DEF PlansAhead

LEMMA PlanStep ==
  ASSUME Kinds, Shapes, Once, PlanFirst, [Next]_vars
  PROVE  PlanFirst'
  <1> USE DEF loops, deploy, request
  <1> SUFFICES ASSUME up' = Node PROVE PlanSent' /\ PlansAhead'
    BY DEF PlanFirst, PlanSent, PlansAhead, PlanAhead
  <1>1. up = Node /\ \A n \in Node : ~Stop(n)
    BY UpBefore
  <1>2. PlanSent /\ PlansAhead
    BY <1>1 DEF PlanFirst, PlanSent, PlansAhead, PlanAhead
  <1>3. ASSUME UNCHANGED <<inbox, at, ready>>, has \subseteq has'
        PROVE  PlansAhead' /\ \A p \in Node : Known(p) => Known(p)'
    BY <1>2, <1>3 DEF PlansAhead, PlanAhead, Known, IsPlan
  <1>4. ASSUME \A p \in Node : Known(p) => Known(p)', has \subseteq has',
               UNCHANGED <<call, todo, ready, deployer>>
        PROVE  PlanSent'
    BY <1>2, <1>4 DEF PlanSent, Peers
  <1>5. ASSUME NEW c \in carriers, Carry(c) PROVE PlanSent' /\ PlansAhead'
    <2>1. c.by \in Goroutines /\ c.to \in Node /\ c.msg \in Message
      BY DEF Kinds
    <2>2. PutIn(c.to, c.by, c.msg) /\ UNCHANGED <<has, at, ready, call, todo, deployer>>
      BY <1>1, <1>5, <2>1, SendArrives DEF Carry
    <2>3. ASSUME NEW r \in ready PROVE Known(c.to)
      BY <1>2, <2>1 DEF PlanSent, Known, Peers
    <2>4. PlansAhead' /\ \A p \in Node : Known(p) => Known(p)'
      BY <1>2, <2>1, <2>2, <2>3, PutBehind
    <2> QED
      BY <1>4, <2>2, <2>4
  <1>6. CASE Deploy
    <2>1. ready = {}
      BY <1>2, <1>6 DEF Deploy, PlanSent
    <2> QED
      BY <1>3, <1>6, <2>1 DEF Deploy, PlanSent
  <1>7. CASE Answer
    <2>1. UNCHANGED <<inbox, at, ready, has, todo, deployer>> /\ todo = {}
          /\ call = "sending" /\ call' = "answered"
      BY <1>7 DEF Answer
    <2>2. PlansAhead' /\ \A p \in Node : Known(p) => Known(p)'
      BY <1>3, <2>1
    <2> QED
      BY <1>2, <2>1, <2>2 DEF PlanSent, Peers
  <1>8. ASSUME NEW p \in Node, Propagate(p) PROVE PlanSent' /\ PlansAhead'
    <2>1. deployer \in Node /\ DeployHandler \in Goroutines
          /\ PlanMsg(deployer) \in Message /\ PlanMsg(deployer).type = "deploy"
      BY Names, Sent DEF Kinds
    <2>2. PutIn(p, DeployHandler, PlanMsg(deployer)) /\ p \in todo /\ todo' = todo \ {p}
          /\ UNCHANGED <<has, at, ready, call, deployer>>
      BY <1>1, <1>8, SendArrives DEF Propagate
    <2>3. ready = {}
      BY <1>2, <2>2 DEF PlanSent
    <2>4. PlansAhead' /\ \A q \in Node : Known(q) => Known(q)'
      BY <1>2, <2>1, <2>2, <2>3, PutBehind
    <2>5. Known(p)'
      <3>1. PICK l \in Nat : l \in DOMAIN inbox'[p] /\ inbox'[p][l].msg = PlanMsg(deployer)
        BY <2>1, <2>2, PutLast
      <3> QED
        BY <2>1, <3>1 DEF Known, IsPlan
    <2> QED
      BY <1>2, <2>2, <2>3, <2>4, <2>5 DEF PlanSent, Peers
  <1>9. ASSUME NEW n \in Node, Receive(n) PROVE PlanSent' /\ PlansAhead'
    BY <1>2, <1>4, <1>9, TakeBehind
  <1>10. ASSUME NEW n \in Node, NEW p \in Node, Gossip(n, p) PROVE PlanSent' /\ PlansAhead'
    <2>1. GossipLoop(n) \in Goroutines /\ GossipMsg(n) \in Message
          /\ GossipMsg(n).type = "gossip"
      BY Names, Sent
    <2>2. PutIn(p, GossipLoop(n), GossipMsg(n)) /\ UNCHANGED <<has, at, ready, call, todo, deployer>>
      BY <1>1, <1>10, SendArrives DEF Gossip
    <2>3. \A r \in ready : GossipMsg(n) # Push(at[r], r)
      BY <2>1, Sent DEF Kinds
    <2>4. PlansAhead' /\ \A q \in Node : Known(q) => Known(q)'
      BY <1>2, <2>1, <2>2, <2>3, PutBehind
    <2> QED
      BY <1>4, <2>2, <2>4
  <1>11. ASSUME NEW r \in Request, Begin(r) PROVE PlanSent' /\ PlansAhead'
    <2>1. /\ UNCHANGED <<inbox, has, at, call, todo, deployer>> /\ pc[r] = "idle"
          /\ ready' = IF call = "answered" THEN ready \cup {r} ELSE ready
          /\ at[r] \in Node
      BY <1>11 DEF Begin, Kinds
    <2>2. PlanSent'
      BY <1>2, <2>1 DEF PlanSent, Known, IsPlan, Peers
    <2>3. ASSUME NEW p \in Node, NEW i \in DOMAIN inbox[p], inbox[p][i].msg = Push(at[r], r)
          PROVE  FALSE
      <3>1. inbox[p][i].by = <<"push", r, p>>
        <4>1. /\ Push(at[r], r).type = "push" /\ Push(at[r], r).req = r
          BY <2>1, Sent
        <4>2. Sender(Push(at[r], r), p) = <<"push", r, p>>
          BY <4>1 DEF Sender, Carrier
        <4> QED
          BY <2>3, <4>2 DEF Shapes
      <3> QED
        BY <2>1, <3>1 DEF Once, Active
    <2>4. PlansAhead'
      BY <1>2, <2>1, <2>3 DEF PlansAhead, PlanAhead, IsPlan
    <2> QED
      BY <2>2, <2>4
  <1>12. CASE \/ \E r \in Request : Deadline(r)
              \/ \E n \in Node : \E g \in {Loop(n), GossipLoop(n)} : Quit(n, g)
              \/ UNCHANGED vars
    <2>1. UNCHANGED <<inbox, has, at, ready, call, todo, deployer>>
      BY <1>12 DEF Deadline, Quit, vars
    <2> QED
      BY <1>3, <1>4, <2>1
  <1> QED
    BY <1>1, <1>5, <1>6, <1>7, <1>8, <1>9, <1>10, <1>11, <1>12 DEF Next

\* While no node is stopped a message stays on its way until a loop takes it.
LEMMA MovingKept ==
  ASSUME Kinds, [Next]_vars, up' = Node, NEW m, NEW p \in Node, Moving(m, p),
         \A n \in Node : ~Receive(n)
  PROVE  Moving(m, p)'
  <1> USE DEF Kinds, loops, deploy, request
  <1>1. up = Node /\ \A n \in Node : ~Stop(n)
    BY UpBefore
  <1>2. ASSUME UNCHANGED inbox, carriers \subseteq carriers' PROVE Moving(m, p)'
    BY <1>2 DEF Moving
  <1>3. ASSUME NEW n \in Node, NEW g \in Goroutines, NEW x \in Message, PutIn(n, g, x),
               \A c \in carriers : c \in carriers' \/ (c.to = n /\ c.msg = x)
        PROVE  Moving(m, p)'
    <2>1. PICK l \in Nat :
            /\ l \in DOMAIN inbox'[n] /\ inbox'[n][l].msg = x
            /\ \A k \in Node : \A i \in DOMAIN inbox[k] :
                 i \in DOMAIN inbox'[k] /\ inbox'[k][i] = inbox[k][i]
      BY <1>3, PutLast
    <2> QED
      BY <1>3, <2>1 DEF Moving
  <1>4. ASSUME NEW c \in carriers, Carry(c) PROVE Moving(m, p)'
    <2>1. c.by \in Goroutines /\ c.to \in Node /\ c.msg \in Message
      OBVIOUS
    <2>2. PutIn(c.to, c.by, c.msg) /\ carriers' = carriers \ {c}
      BY <1>1, <1>4, <2>1, SendArrives DEF Carry
    <2> QED
      BY <1>3, <2>1, <2>2
  <1>5. ASSUME NEW q \in Node, Propagate(q) PROVE Moving(m, p)'
    <2>1. PutIn(q, DeployHandler, PlanMsg(deployer)) /\ UNCHANGED carriers
      BY <1>1, <1>5, SendArrives DEF Propagate
    <2> QED
      BY <1>3, <2>1, Names, Sent
  <1>6. ASSUME NEW n \in Node, NEW q \in Node, Gossip(n, q) PROVE Moving(m, p)'
    <2>1. PutIn(q, GossipLoop(n), GossipMsg(n)) /\ UNCHANGED carriers
      BY <1>1, <1>6, SendArrives DEF Gossip
    <2> QED
      BY <1>3, <2>1, Names, Sent
  <1>7. CASE \/ Deploy \/ Answer \/ \E r \in Request : Begin(r) \/ Deadline(r)
             \/ \E n \in Node : \E g \in {Loop(n), GossipLoop(n)} : Quit(n, g)
             \/ UNCHANGED vars
    <2>1. UNCHANGED inbox /\ carriers \subseteq carriers'
      BY <1>7 DEF Deploy, Answer, Begin, Deadline, Quit, vars
    <2> QED
      BY <1>2, <2>1
  <1> QED
    BY <1>1, <1>4, <1>5, <1>6, <1>7 DEF Next

LEMMA AnswersStep ==
  ASSUME Kinds, Shapes, PlanFirst, AnswersOnTheWay, [Next]_vars
  PROVE  AnswersOnTheWay'
  <1> USE DEF loops, deploy, request
  <1> SUFFICES ASSUME up' = Node, NEW r \in ready', pc'[r] = "open", NEW p \in Peers(at'[r])
               PROVE  \/ p \in acked'[r] \/ Moving(Push(at[r], r), p)'
                      \/ Moving(Ack(p, r), at[r])'
    <2>1. at' = at
      BY KindsStep
    <2> QED
      BY <2>1 DEF AnswersOnTheWay
  <1>1. up = Node /\ at' = at /\ Kinds'
    BY UpBefore, KindsStep
  <1>2. r \in Request /\ at[r] \in Node /\ p \in Node
    BY <1>1 DEF Kinds, Peers
  <1> DEFINE OnTheWay == p \in acked[r] \/ Moving(Push(at[r], r), p) \/ Moving(Ack(p, r), at[r])
  <1>3. r \in ready /\ pc[r] = "open" => OnTheWay
    BY <1>1 DEF AnswersOnTheWay
  <1>4. ASSUME \A n \in Node : ~Receive(n), acked' = acked, r \in ready, pc[r] = "open"
        PROVE  p \in acked'[r] \/ Moving(Push(at[r], r), p)' \/ Moving(Ack(p, r), at[r])'
    <2>1. ASSUME NEW n \in Node, n = at[r], Moving(Ack(p, r), n) PROVE Moving(Ack(p, r), n)'
      BY <1>4, <2>1, MovingKept
    <2> QED
      BY <1>1, <1>2, <1>3, <1>4, <2>1, MovingKept
  <1> DEFINE Goal == \/ p \in acked'[r] \/ Moving(Push(at[r], r), p)'
                     \/ Moving(Ack(p, r), at[r])'
  <1>5. ASSUME NEW s \in Request, Begin(s) PROVE Goal
    <2>1. \A n \in Node : ~Receive(n)
      BY <1>5 DEF Begin, Receive, Take, Kinds
    <2>2. CASE s = r
      <3> DEFINE push == Push(at[r], r)
                 c == [by |-> Carrier(push, p), to |-> p, msg |-> push]
      <3>1. p \in Peers(at[r])
        BY <1>1
      <3>2. c \in carriers'
        BY <1>5, <2>2, <3>1 DEF Begin
      <3>3. c.to = p /\ c.msg = push
        OBVIOUS
      <3>4. \E x \in carriers' : x.to = p /\ x.msg = Push(at'[r], r)
        BY <1>1, <3>2, <3>3
      <3> HIDE DEF push, c
      <3> QED
        BY <3>4 DEF Moving
    <2>3. CASE s # r
      BY <1>4, <1>5, <2>1, <2>3 DEF Begin, Kinds
    <2> QED
      BY <2>2, <2>3
  <1>6. ASSUME NEW n \in Node, Receive(n) PROVE Goal
    <2>1. PICK m \in Message :
            /\ m = inbox[n][1].msg /\ 1 \in DOMAIN inbox[n] /\ inbox[n] # <<>>
            /\ inbox' = [inbox EXCEPT ![n] = Tail(@)]
            /\ \/ HandleDeploy(n, m) \/ HandleGossip(n, m)
               \/ HandleSyncPush(n, m) \/ HandleSyncAck(n, m)
      BY <1>6, Takes
    <2>2. /\ \A k \in Node : k # n => inbox'[k] = inbox[k]
          /\ \A i \in DOMAIN inbox[n] : i # 1 =>
               i - 1 \in DOMAIN inbox'[n] /\ inbox'[n][i - 1] = inbox[n][i]
      BY <2>1, Taken
    <2>3. /\ carriers \subseteq carriers' /\ acked[r] \subseteq acked'[r]
          /\ r \in ready /\ pc[r] = "open"
      BY <1>2, <2>1, AckCounts
         DEF HandleDeploy, HandleGossip, HandleSyncPush, HandleSyncAck
    <2>4. ASSUME NEW x, NEW q \in Node, Moving(x, q), ~(q = n /\ x = m)
          PROVE  Moving(x, q)'
      <3>1. CASE \E c \in carriers : c.to = q /\ c.msg = x
        BY <2>3, <3>1 DEF Moving
      <3>2. ASSUME NEW i \in DOMAIN inbox[q], inbox[q][i].msg = x
            PROVE  \E j \in DOMAIN inbox'[q] : inbox'[q][j].msg = x
        <4>1. CASE q = n
          <5>1. i # 1
            BY <2>1, <2>4, <3>2, <4>1
          <5> QED
            BY <2>2, <3>2, <4>1, <5>1
        <4>2. CASE q # n
          BY <2>2, <3>2, <4>2
        <4> QED
          BY <4>1, <4>2
      <3>3. CASE \E i \in DOMAIN inbox[q] : inbox[q][i].msg = x
        BY <3>2, <3>3 DEF Moving
      <3> QED
        BY <2>4, <3>1, <3>3 DEF Moving
    \* The loop of p takes the push: it has the plan by now, and acks.
    <2>5. CASE n = p /\ m = Push(at[r], r)
      <3>1. p \in has
        <4>1. PlanAhead(r, p, 1)
          BY <1>1, <1>2, <2>1, <2>3, <2>5 DEF PlanFirst, PlanAhead
        <4>2. \A j \in DOMAIN inbox[p] : ~(j < 1)
          BY <1>2, InboxPlaces DEF Places
        <4> QED
          BY <2>1, <2>5, <4>1, <4>2 DEF PlanAhead
      <3>2. m.type = "push" /\ m.req = r /\ m.from = at[r]
        BY <1>2, <2>5, Sent
      <3>3. RouteAck(n, m) \in carriers'
        BY <2>1, <2>5, <3>1, <3>2
           DEF HandleDeploy, HandleGossip, HandleSyncPush, HandleSyncAck
      <3>4. RouteAck(n, m).to = at[r] /\ RouteAck(n, m).msg = Ack(p, r)
        BY <2>5, <3>2 DEF RouteAck
      <3> QED
        BY <1>1, <3>3, <3>4 DEF Moving
    \* The coordinator's loop takes the ack, and counts it.
    <2>6. CASE n = at[r] /\ m = Ack(p, r)
      <3>1. m.type = "ack" /\ m.req = r /\ m.from = p
        BY <1>2, <2>6, Sent
      <3> QED
        BY <2>1, <2>3, <3>1, AckCounts
           DEF HandleDeploy, HandleGossip, HandleSyncPush
    <2>7. CASE /\ ~(p = n /\ Push(at[r], r) = m) /\ ~(at[r] = n /\ Ack(p, r) = m)
      <3>1. PICK q \in Node : q = at[r]
        BY <1>2
      <3>2. Moving(Push(q, r), p) => Moving(Push(q, r), p)'
        BY <1>2, <2>4, <2>7, <3>1
      <3>3. Moving(Ack(p, r), q) => Moving(Ack(p, r), q)'
        BY <2>4, <2>7, <3>1
      <3> QED
        BY <1>1, <1>3, <2>3, <3>1, <3>2, <3>3
    <2> QED
      BY <2>5, <2>6, <2>7
  <1>7. ASSUME \/ \E c \in carriers : Carry(c)
               \/ Deploy \/ Answer \/ \E q \in Node : Propagate(q)
               \/ \E n, q \in Node : Gossip(n, q)
               \/ \E s \in Request : Deadline(s)
               \/ \E n \in Node : \E g \in {Loop(n), GossipLoop(n)} : Quit(n, g)
               \/ UNCHANGED vars
        PROVE  Goal
    <2>1. acked' = acked /\ ready' = ready /\ pc[r] = "open"
      BY <1>2, <1>7 DEF Carry, Deploy, Answer, Propagate, Gossip, Deadline, Quit, vars, Kinds
    <2>2. CASE \A n \in Node : ~Receive(n)
      BY <1>4, <2>1, <2>2
    <2> QED
      BY <1>6, <2>2
  <1>8. \A n \in Node : ~Stop(n)
    BY UpBefore
  <1> HIDE DEF Goal
  <1>9. ASSUME Next PROVE Goal
    <2>1. ASSUME \E s \in Request : Begin(s) PROVE Goal
      BY <1>5, <2>1
    <2>2. ASSUME \E n \in Node : Receive(n) PROVE Goal
      BY <1>6, <2>2
    <2>3. ~(\E s \in Request : Begin(s)) /\ ~(\E n \in Node : Receive(n)) => Goal
      BY <1>7, <1>8, <1>9 DEF Next
    <2> QED
      BY <2>1, <2>2, <2>3
  <1>10. ASSUME UNCHANGED vars PROVE Goal
    BY <1>7, <1>10
  <1>11. Goal
    BY <1>9, <1>10
  <1> QED
    BY <1>11 DEF Goal

\* The invariant gives what the run checks.
LEMMA InvariantImplies == IInv => TypeOK /\ AnswersOnTheWay
  BY OneCall DEF IInv, TypeOK, Kinds, Entry

\* The invariant holds of every reachable state.
LEMMA Invariance == Spec => []IInv
  <1>1. Init => IInv
    <2> SUFFICES ASSUME Init PROVE IInv
      OBVIOUS
    <2> USE DEF Init
    <2>1. Kinds
      <3>1. <<>> \in Seq(Entry)
        BY EmptySeq
      <3> QED
        BY <3>1 DEF Kinds
    <2>2. \A n \in Node : DOMAIN inbox[n] = {}
      OBVIOUS
    <2>3. Shapes /\ Once /\ WaitsOnce
      BY <2>2 DEF Shapes, Once, WaitsOnce, Active, Waits, Behind
    <2>4. PlanFirst /\ AnswersOnTheWay
      BY <2>2 DEF PlanFirst, AnswersOnTheWay
    <2> QED
      BY <2>1, <2>3, <2>4 DEF IInv
  <1>2. IInv /\ [Next]_vars => IInv'
    BY KindsStep, ShapesStep, OnceStep, WaitsStep, PlanStep, AnswersStep DEF IInv
  <1> QED
    BY <1>1, <1>2, PTL DEF Spec

-----------------------------------------------------------------------------
(* Theorems *)

\* Every variable keeps its kind, and no goroutine calls Send again before it has
\* returned from it, whoever is stopped meanwhile (Peer.Send, runGossip, broadcast,
\* routeAck).
THEOREM TypeCorrect == Spec => []TypeOK
  BY Invariance, InvariantImplies, PTL

\* A request that begins once the deployment was answered is not turned away by a
\* node that has no plan yet: the answer of each peer has been counted or is on its
\* way, since PropagatePlan sends before it returns and an inbox is a queue
\* (handleDeploy, PropagatePlan, handleSyncPush).
THEOREM AnswersCome == Spec => []AnswersOnTheWay
  BY Invariance, InvariantImplies, PTL
=============================================================================
