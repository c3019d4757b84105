------------------------------ MODULE Gateway -------------------------------
(***************************************************************************)
(* The HTTP gateways of a cluster and the nodes behind them: deployments,  *)
(* updates and queries with the status each is answered with, the page     *)
(* that describes the deployed program, and the documents of one           *)
(* collection, addressed by the key a client writes in the URL.            *)
(*                                                                         *)
(* A program is known by the key of its collection: a numeric type,        *)
(* "string", "single" for a collection without keys, "absent" for a        *)
(* program without this collection, "empty" for one without any.  A        *)
(* document is the set of the updates it has absorbed.                     *)
(*                                                                         *)
(* A push or pull, its handling at the peer and the counting of its ack    *)
(* are one step, which may leave the ack uncounted; SyncQuorum takes them  *)
(* apart.                                                                  *)
(***************************************************************************)
EXTENDS Integers, SequencesExt

CONSTANTS
  Node,      \* the nodes, each behind a gateway
  Deploy,    \* deployments
  Update,    \* updates
  Query,     \* queries
  Inputs,    \* bound: Inputs[r] is what request r may ask for, and at which node
  Digits     \* bound: decimal places of a key

Type == INSTANCE NumTypes WITH Unit <- 10 ^ Digits

None == "none"
Request == Deploy \cup Update \cup Query
NoInput == [at |-> None]
NoKey == [neg |-> FALSE, whole |-> <<>>, frac |-> <<>>, word |-> FALSE]

Program == {"rat", "int", "string", "single", "absent", "empty"}

\* The values of the header X-Gospr-Sync-Ratio.
Header == {"absent", "blank", "zero", "half", "one", "NaN", "all"}

\* The keys clients write, NoKey for the route without one.
Spelling == [neg : BOOLEAN, whole : Seq(0..9), frac : Seq(0..9), word : BOOLEAN]

ASSUME GatewayAssumption ==
  /\ \A r \in Deploy : Inputs[r] \subseteq [at : Node, program : Program]
  /\ \A r \in Update \cup Query :
       Inputs[r] \subseteq [at : Node, key : Spelling, header : Header, bad : BOOLEAN]
  /\ Deploy \cap (Update \cup Query) = {} /\ Update \cap Query = {}

\* No client writes more decimal places than Digits.
ASSUME DigitsAssumption ==
  /\ Digits \in Nat
  /\ \A r \in Update \cup Query : \A i \in Inputs[r] : Len(i.key.frac) <= Digits

ASSUME NodeAssumption == IsFiniteSet(Node)

VARIABLES
  plan,    \* plan[n]: the program node n was initialized with, or None
  page,    \* page[n]: the program the page of n describes, or None
  docs,    \* docs[n]: the documents node n stores, by canonical key
  plans,   \* deploy messages on their way, <<program, receiver>>
  net,     \* pushes and pulls on their way
  input,   \* input[r]: what request r asks for, NoInput if it was refused
  pc,      \* pc[r]: "idle", "page", "pull", "pulled", "push" or "answered"
  acks,    \* acks[r]: the peers counted in the current phase of r
  status   \* status[r]: the answer to r, 0 while there is none

node == <<plan, page, docs>>
request == <<input, pc, acks, status>>
vars == <<node, plans, net, request>>

Peers(n) == Node \ {n}

Init ==
  /\ plan = [n \in Node |-> None]
  /\ page = [n \in Node |-> None]
  /\ docs = [n \in Node |-> <<>>]
  /\ plans = {} /\ net = {}
  /\ input = [r \in Request |-> NoInput]
  /\ pc = [r \in Request |-> "idle"]
  /\ acks = [r \in Request |-> {}]
  /\ status = [r \in Request |-> 0]

-----------------------------------------------------------------------------
(* Keys *)

\* Mutant of TrimLeft: a single zero is taken off.
TrimLeftOnce(s) == IF s # <<>> /\ s[1] = 0 THEN Tail(s) ELSE s

\* strings.TrimLeft and strings.TrimRight of zeros.
TrimLeft(s) ==
  LET nonzero == {i \in DOMAIN s : s[i] # 0}
  IN IF nonzero = {} THEN <<>> ELSE SubSeq(s, Min(nonzero), Len(s))
TrimRight(s) == Reverse(TrimLeft(Reverse(s)))

\* Mutant of CanonicalDecimal: the fraction keeps its zeros.
CanonicalKeepsZeros(k) ==
  LET whole == IF TrimLeft(k.whole) = <<>> THEN <<0>> ELSE TrimLeft(k.whole)
  IN [k EXCEPT !.whole = whole,
               !.neg = @ /\ (whole # <<0>> \/ k.frac # <<>>)]

\* canonicalDecimal: one spelling for each number.
CanonicalDecimal(k) ==
  LET whole == IF TrimLeft(k.whole) = <<>> THEN <<0>> ELSE TrimLeft(k.whole)
      frac == TrimRight(k.frac)
  IN [k EXCEPT !.whole = whole, !.frac = frac,
               !.neg = @ /\ (whole # <<0>> \/ frac # <<>>)]

\* The number a sequence of digits spells.
Value(s) ==
  LET value[i \in 0..Len(s)] == IF i = 0 THEN 0 ELSE 10 * value[i - 1] + s[i]
  IN value[Len(s)]

\* The digits of a decimal with all its places, and the number it stands for, in
\* units of 10^-Digits.
Padding(n) == [i \in 1..n |-> 0]
AllDigits(k) == k.whole \o (k.frac \o Padding(Digits - Len(k.frac)))
Number(k) == IF k.neg THEN -Value(AllDigits(k)) ELSE Value(AllDigits(k))

Numeric == [rat |-> [domain |-> "Rat", sign |-> "Any"],
            int |-> [domain |-> "Int", sign |-> "Any"]]
Keyed(p) == p \in DOMAIN Numeric \cup {"string"}

\* resolveDocument with normalizeDocumentKey at a node that runs p: the keys it
\* takes, and the document a key leads to.
Accepts(p, k) ==
  \/ p = "single" /\ k = NoKey
  \/ p = "string" /\ k # NoKey
  \/ p \in DOMAIN Numeric /\ k # NoKey /\ ~k.word /\ Type!Allows(Numeric[p], Number(k))

Resolve(p, k) == IF p \in DOMAIN Numeric THEN CanonicalDecimal(k) ELSE k

-----------------------------------------------------------------------------
(* Documents *)

Content(d, k) == IF k \in DOMAIN d THEN d[k] ELSE {}

\* Mutant of Merge: an empty snapshot allocates its document.
MergeAllocates(d, k, s) ==
  [l \in DOMAIN d \cup {k} |-> Content(d, l) \cup IF l = k THEN s ELSE {}]

\* mergeCollection, and the body of MergeSnapshot: an empty snapshot of a
\* document that is not stored leaves it so.
Merge(d, k, s) ==
  [l \in DOMAIN d \cup (IF s = {} THEN {} ELSE {k}) |->
     Content(d, l) \cup IF l = k THEN s ELSE {}]

\* MergeSnapshot of all documents e into the documents d of a node that runs p.
MergeAll(p, d, e) ==
  LET into(k) == UNION {e[l] : l \in {m \in DOMAIN e : Accepts(p, m) /\ Resolve(p, m) = k}}
      keys == {Resolve(p, m) : m \in {l \in DOMAIN e : Accepts(p, l) /\ e[l] # {}}}
  IN [k \in DOMAIN d \cup keys |-> Content(d, k) \cup into(k)]

-----------------------------------------------------------------------------
(* Deployments *)

\* Initialize: the first program stays.  A collection without keys has its
\* document from the start.
Initialize(n, p) ==
  IF plan[n] # None THEN UNCHANGED <<plan, docs>>
  ELSE /\ plan' = [plan EXCEPT ![n] = p]
       /\ docs' = [docs EXCEPT ![n] = [k \in IF p = "single" THEN {NoKey} ELSE {} |-> {}]]

Answer(r, s) ==
  /\ pc' = [pc EXCEPT ![r] = "answered"]
  /\ status' = [status EXCEPT ![r] = s]
  /\ acks' = [acks EXCEPT ![r] = {}]

\* Mutant of BeginDeploy: the page is made before the program is looked at.
BeginDeployPageFirst(r, i) ==
  /\ pc[r] = "idle"
  /\ page' = [page EXCEPT ![i.at] = i.program]
  /\ IF i.program = "empty"
     THEN Answer(r, 400) /\ UNCHANGED <<plan, docs, plans, input>>
     ELSE /\ input' = [input EXCEPT ![r] = i]
          /\ Initialize(i.at, i.program)
          /\ plans' = plans \cup {<<i.program, n>> : n \in Peers(i.at)}
          /\ pc' = [pc EXCEPT ![r] = "page"]
          /\ UNCHANGED <<acks, status>>
  /\ UNCHANGED net

\* handleDeploy, first half; "empty" stands for all programs that are refused.
\* PropagatePlan follows whether or not the program was taken.
BeginDeploy(r, i) ==
  /\ pc[r] = "idle"
  /\ IF i.program = "empty"
     THEN Answer(r, 400) /\ UNCHANGED <<plan, docs, plans, input>>
     ELSE /\ input' = [input EXCEPT ![r] = i]
          /\ Initialize(i.at, i.program)
          /\ plans' = plans \cup {<<i.program, n>> : n \in Peers(i.at)}
          /\ pc' = [pc EXCEPT ![r] = "page"]
          /\ UNCHANGED <<acks, status>>
  /\ UNCHANGED <<page, net>>

\* handleDeploy, second half: the page follows the program, taken or not.
EndDeploy(r) ==
  /\ pc[r] = "page"
  /\ page' = [page EXCEPT ![input[r].at] = input[r].program]
  /\ Answer(r, 200)
  /\ UNCHANGED <<plan, docs, plans, net, input>>

\* A node takes a deploy message out of its inbox.
HandleDeploy(m) ==
  /\ m \in plans /\ plans' = plans \ {m}
  /\ Initialize(m[2], m[1])
  /\ UNCHANGED <<page, net, request>>

-----------------------------------------------------------------------------
(* Updates and queries *)

\* parseSync: the header values that are not refused.
ParseSync == {"absent", "zero", "half", "all"}

\* reached, for a coordinator and so many peers.
Reached(peers, h) ==
  CASE h = "all" -> 1 + peers >= Cardinality(Node)
    [] h = "half" -> 2 * (1 + peers) > Cardinality(Node)
    [] OTHER -> TRUE

\* The document request i leads to at its node.
Document(i) == Resolve(plan[i.at], i.key)

\* A phase of r, with input i, sends a message of type t to each peer.
Broadcast(t, r, i, snap) ==
  {[type |-> t, req |-> r, to |-> n, prog |-> plan[i.at], key |-> Document(i),
    snap |-> snap] : n \in Peers(i.at)}

\* The checks that end a request with 400 before anything is changed: the
\* header, the body or the parameters, the document route and the key.
Valid(i) == i.header \in ParseSync /\ ~i.bad /\ Accepts(plan[i.at], i.key)

Refuse(r, i) == pc[r] = "idle" /\ ~Valid(i) /\ Answer(r, 400) /\ UNCHANGED input
Accept(r, i) == pc[r] = "idle" /\ Valid(i) /\ input' = [input EXCEPT ![r] = i]

\* Self alone satisfies the ratio, or request r waits in the phase of type t.
Proceed(t, r, i, snap) ==
  IF Reached(0, i.header)
  THEN Answer(r, 200) /\ UNCHANGED net
  ELSE /\ net' = net \cup Broadcast(t, r, i, snap)
       /\ pc' = [pc EXCEPT ![r] = t]
       /\ UNCHANGED <<acks, status>>

\* handleApply down to the end of apply and the broadcast of pushQuorum.
BeginUpdate(r, i) ==
  LET k == Document(i)
      d == Merge(docs[i.at], k, {r})
  IN /\ \/ Refuse(r, i) /\ UNCHANGED <<docs, net>>
        \/ /\ Accept(r, i)
           /\ docs' = [docs EXCEPT ![i.at] = d]
           /\ Proceed("push", r, i, d[k])
     /\ UNCHANGED <<plan, page, plans>>

\* handleQuery down to ValidateQuery and the broadcast of pullQuorum.
BeginQuery(r, i) ==
  /\ \/ Refuse(r, i) /\ UNCHANGED net
     \/ Accept(r, i) /\ Proceed("pull", r, i, {})
  /\ UNCHANGED <<node, plans>>

\* The second phase of a query: pushQuorum with what is now in the document.
WriteBack(r) ==
  /\ pc[r] = "pulled"
  /\ Proceed("push", r, input[r], Content(docs[input[r].at], Document(input[r])))
  /\ UNCHANGED <<node, plans, input>>

\* A peer answers only for a document that the same program leads it to.
Welcome(m) ==
  /\ plan[m.to] = m.prog
  /\ Accepts(m.prog, m.key) /\ Resolve(m.prog, m.key) = m.key

\* collectAcks counts the ack of m, the last of its phase or not.
Count(m) ==
  LET r == m.req
      counted == acks[r] \cup {m.to}
  IN /\ pc[r] = m.type
     /\ IF ~Reached(Cardinality(counted), input[r].header)
        THEN acks' = [acks EXCEPT ![r] = counted] /\ UNCHANGED <<pc, status>>
        ELSE IF m.type = "push" THEN Answer(r, 200)
        ELSE /\ pc' = [pc EXCEPT ![r] = "pulled"]
             /\ acks' = [acks EXCEPT ![r] = {}]
             /\ UNCHANGED status

\* handleSyncPush; the ack comes late or never, or it is counted.
HandleSyncPush(m) ==
  /\ m \in net /\ m.type = "push" /\ net' = net \ {m}
  /\ IF Welcome(m)
     THEN /\ docs' = [docs EXCEPT ![m.to] = Merge(@, m.key, m.snap)]
          /\ Count(m) \/ UNCHANGED <<pc, acks, status>>
     ELSE UNCHANGED <<docs, pc, acks, status>>
  /\ UNCHANGED <<plan, page, plans, input>>

\* handleSyncPull, with the merge of the answer that collectAcks counts.
HandleSyncPull(m) ==
  /\ m \in net /\ m.type = "pull" /\ net' = net \ {m}
  /\ \/ /\ Welcome(m) /\ Count(m)
        /\ docs' = [docs EXCEPT ![input[m.req].at] =
                      Merge(@, m.key, Content(docs[m.to], m.key))]
     \/ UNCHANGED <<docs, pc, acks, status>>
  /\ UNCHANGED <<plan, page, plans, input>>

\* Mutant of Deadline: every error is answered with 400.
DeadlineBadRequest(r) ==
  /\ pc[r] \in {"pull", "push"}
  /\ Answer(r, 400)
  /\ UNCHANGED <<node, plans, net, input>>

\* The deadline of a phase: ErrQuorumUnreached, which writeOpError turns into 503.
Deadline(r) ==
  /\ pc[r] \in {"pull", "push"}
  /\ Answer(r, 503)
  /\ UNCHANGED <<node, plans, net, input>>

\* Mutant of Gossip: documents the receiver does not store are not created.
GossipKnown(n, p) ==
  /\ p \in Peers(n) /\ plan[n] # None /\ plan[p] # None
  /\ docs' = [docs EXCEPT ![p] =
                [k \in DOMAIN @ |-> MergeAll(plan[p], @, docs[n])[k]]]
  /\ UNCHANGED <<plan, page, plans, net, request>>

\* A round of runGossip at n and MergeSnapshot at p, whatever program p runs.
Gossip(n, p) ==
  /\ p \in Peers(n) /\ plan[n] # None /\ plan[p] # None
  /\ docs' = [docs EXCEPT ![p] = MergeAll(plan[p], @, docs[n])]
  /\ UNCHANGED <<plan, page, plans, net, request>>

Next ==
  \/ \E r \in Deploy : EndDeploy(r) \/ \E i \in Inputs[r] : BeginDeploy(r, i)
  \/ \E r \in Update : \E i \in Inputs[r] : BeginUpdate(r, i)
  \/ \E r \in Query : WriteBack(r) \/ \E i \in Inputs[r] : BeginQuery(r, i)
  \/ \E r \in Update \cup Query : Deadline(r)
  \/ \E m \in plans : HandleDeploy(m)
  \/ \E m \in net : HandleSyncPush(m) \/ HandleSyncPull(m)
  \/ \E n, p \in Node : Gossip(n, p)

Spec == Init /\ [][Next]_vars

\* Every node gossips with every peer again and again, and message loops take
\* deploy messages; nothing else has to happen.
Fairness ==
  /\ WF_vars(\E m \in plans : HandleDeploy(m))
  /\ \A n, p \in Node : WF_vars(Gossip(n, p))

FairSpec == Spec /\ Fairness

-----------------------------------------------------------------------------
(* Correctness *)

\* No node stores a document its program does not lead to, nor, but for the one
\* of a collection without keys, an empty one ("a read does not allocate it").
DocumentsOK(n) ==
  \A k \in DOMAIN docs[n] :
    /\ Accepts(plan[n], k)
    /\ docs[n][k] \subseteq Update
    /\ docs[n][k] # {} \/ k = NoKey

\* Every variable holds a value of its kind, and every document its place.
TypeOK ==
  /\ plan \in [Node -> Program \cup {None}]
  /\ page \in [Node -> Program \cup {None}]
  /\ \A n \in Node : DocumentsOK(n)
  /\ plans \subseteq Program \X Node
  /\ pc \in [Request -> {"idle", "page", "pull", "pulled", "push", "answered"}]
  /\ acks \in [Request -> SUBSET Node]
  /\ status \in [Request -> {0, 200, 400, 503}]

\* The nodes where update u is in document k.
Holders(u, k) == {n \in Node : u \in Content(docs[n], k)}

\* What a status says about an update: after 400 it is in no document of any
\* node and no push carries it; after 200 it is where its header asked for; after
\* 503 it has been applied at the coordinator all the same (ApplySync's comment).
StatusTellsEffect ==
  \A u \in Update :
    /\ status[u] = 400 =>
         /\ \A n \in Node : \A k \in DOMAIN docs[n] : u \notin docs[n][k]
         /\ \A m \in net : u \notin m.snap
    /\ status[u] \in {200, 503} => input[u].at \in Holders(u, Document(input[u]))
    /\ status[u] = 200 =>
         Reached(Cardinality(Holders(u, Document(input[u]))) - 1, input[u].header)

\* All nodes that have a program run the same one.
OneProgram == \A n, p \in Node : None \in {plan[n], plan[p]} \/ plan[n] = plan[p]

SameKey(p, k, l) == IF p \in DOMAIN Numeric THEN Number(k) = Number(l) ELSE k = l

\* "Equivalent decimals identify one document", and other keys others: in a
\* cluster with one program, every update is, wherever it has come to, in one
\* document, the only one whose key is equal to the key the client wrote.
OneDocumentPerKey ==
  OneProgram =>
    \A n \in Node : \A k \in DOMAIN docs[n] :
      /\ \A u \in docs[n][k] : SameKey(plan[n], k, input[u].key)
      /\ \A l \in DOMAIN docs[n] : SameKey(plan[n], k, l) => k = l

\* A peer with the coordinator's program never turns away a push or a pull for
\* its key, which would cost the request a holder on every try.
KeysWelcome == \A m \in net : plan[m.to] = m.prog => Welcome(m)

\* The page of a gateway never describes a program before its node has one, and
\* in a cluster that was given one program it describes that program.
PageMatchesPlan ==
  \A n \in Node : page[n] # None =>
    /\ plan[n] # None
    /\ (\E p \in Program : \A r \in Deploy : input[r] # NoInput => input[r].program = p)
         => page[n] = plan[n]

\* In the end all nodes with the same program store the same documents, whatever
\* other programs the cluster runs (runGossip, MergeSnapshot).
DocumentsConverge ==
  <>[](\A n, p \in Node : plan[n] = plan[p] => docs[n] = docs[p])
=============================================================================
