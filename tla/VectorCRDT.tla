----------------------------- MODULE VectorCRDT -----------------------------
(***************************************************************************)
(* One document of one collection at every node that serves it: the vector *)
(* of crdt/vector.go with the merge and the updates of a program, whatever *)
(* they compute, and the obligations under which builder/ and prover/ let  *)
(* the program through.  SyncQuorum counts the updates of each slot;  here *)
(* a slot has a value, and the two agree.                                  *)
(*                                                                         *)
(* Snapshots travel by gossip, pushes and answers to pulls.  All three are *)
(* merged in the same way, so a snapshot here is just a record in the air: *)
(* it can be merged by any node at any time, again, late, or never.        *)
(***************************************************************************)
EXTENDS Integers, Sequences, FiniteSets

CONSTANTS
  Node,
  Value,         \* what a slot may hold
  Zero,          \* the default of a slot nobody has written
  Absent,        \* no slot
  Level,         \* the results of folding a vector
  Proj,          \* the number a fold takes from a slot
  Program,       \* the programs in question
  MaxUpdates,    \* bound on the updates of each node
  MaxSnapshots   \* bound on the snapshots in the air

\* A program has an element type, a merge, and updates, one for each choice of
\* its parameters.  A local update sees the own slot, a write also a fold.
Update == [kind : {"local", "write"}, fn : [Value \X Level -> Value]]

ASSUME ValueAssumption == Zero \in Value /\ Absent \notin Value
ASSUME LevelAssumption == Level \subseteq Nat /\ 0 \in Level /\ Proj \in [Value -> Level]
ASSUME ProgramAssumption ==
  \A p \in Program : /\ p.elem \subseteq Value
                     /\ p.merge \in [Value \X Value -> Value]
                     /\ p.updates \subseteq Update

VARIABLES
  prog,      \* the program
  verdict,   \* "open", "accepted" or "rejected"
  st,        \* st[n][s]: the slot of s at n
  hist,      \* history: hist[s][i] is the own slot of s after its update i
  seen,      \* history: seen[n][s] is how many updates of s the slot holds
  msgs       \* the snapshots in the air

vars == <<prog, verdict, st, hist, seen, msgs>>

Slot == Value \cup {Absent}
Snapshot == [slots : [Node -> Slot], seen : [Node -> Nat]]

Init ==
  /\ prog \in Program /\ verdict = "open"
  /\ st = [n \in Node |-> [s \in Node |-> Absent]]
  /\ hist = [s \in Node |-> <<>>]
  /\ seen = [n \in Node |-> [s \in Node |-> 0]]
  /\ msgs = {}

Merge(a, b) == prog.merge[<<a, b>>]

-----------------------------------------------------------------------------
(* The obligations *)

\* What an update makes of a slot x when the fold gives m.
Updated(u, x, m) == u.fn[<<x, IF u.kind = "local" THEN 0 ELSE m>>]

\* Mutant of Closed: the results of updates are not checked.
ClosedMerge ==
  Zero \in prog.elem /\ \A a, b \in prog.elem : Merge(a, b) \in prog.elem

\* Merges and updates stay within the element type, which holds the default.
Closed ==
  /\ Zero \in prog.elem
  /\ \A a, b \in prog.elem : Merge(a, b) \in prog.elem
  /\ \A u \in prog.updates, x \in prog.elem, m \in Level : Updated(u, x, m) \in prog.elem

\* Mutant of Semilattice: the order of the operands is not checked.
SemilatticeOneSided ==
  \A a, b, c \in prog.elem : /\ Merge(a, Merge(b, c)) = Merge(Merge(a, b), c)
                             /\ Merge(a, a) = a

\* The merge is commutative, associative and idempotent.
Semilattice ==
  \A a, b, c \in prog.elem : /\ Merge(a, b) = Merge(b, a)
                             /\ Merge(a, Merge(b, c)) = Merge(Merge(a, b), c)
                             /\ Merge(a, a) = a

\* b is what the merge makes of a and b.
Below(a, b) == Merge(a, b) = b

\* An update goes up in the order of the merge.  Of the fold a write sees, the
\* prover assumes that it is no less than where it starts, nor than the slot.
Inflationary ==
  \A u \in prog.updates, x \in prog.elem, m \in Level :
    m >= 0 /\ m >= Proj[x] => Below(x, Updated(u, x, m))

\* The builder's verdict.  A solver that cannot decide rejects as well.
Prove ==
  /\ verdict = "open"
  /\ verdict' \in {"accepted", "rejected"}
  /\ verdict' = "accepted" => Closed /\ Semilattice /\ Inflationary
  /\ UNCHANGED <<prog, st, hist, seen, msgs>>

-----------------------------------------------------------------------------
(* The vector *)

Own(n) == IF st[n][n] = Absent THEN Zero ELSE st[n][n]

\* The numbers n folds: the start, its own slot, and all other slots there are.
Folded(n) ==
  {0, Proj[Own(n)]} \cup {Proj[st[n][s]] : s \in {x \in Node : st[n][x] # Absent}}

Greatest(S) == {m \in S : \A k \in S : k <= m}

\* Mutant of Store: any slot is overwritten.
StoreAnywhere(n, v) ==
  /\ \E s \in Node : st' = [st EXCEPT ![n][s] = v]
  /\ hist' = [hist EXCEPT ![n] = Append(@, v)]
  /\ seen' = [seen EXCEPT ![n][n] = @ + 1]
  /\ UNCHANGED <<prog, verdict, msgs>>

\* The own slot of n becomes v.
Store(n, v) ==
  /\ st' = [st EXCEPT ![n][n] = v]
  /\ hist' = [hist EXCEPT ![n] = Append(@, v)]
  /\ seen' = [seen EXCEPT ![n][n] = @ + 1]
  /\ UNCHANGED <<prog, verdict, msgs>>

\* Mutant of Apply: a write folds the slots of the other nodes alone.
ApplyForeign(n) ==
  /\ verdict = "accepted" /\ Len(hist[n]) < MaxUpdates
  /\ \E u \in prog.updates :
       \E m \in Greatest({0} \cup {Proj[st[n][s]] : s \in {x \in Node \ {n} : st[n][x] # Absent}}) :
         Store(n, Updated(u, Own(n), m))

\* An update at n.
Apply(n) ==
  /\ verdict = "accepted" /\ Len(hist[n]) < MaxUpdates
  /\ \E u \in prog.updates, m \in Greatest(Folded(n)) : Store(n, Updated(u, Own(n), m))

\* A copy of the vector leaves n.
Send(n) ==
  /\ verdict = "accepted" /\ Cardinality(msgs) < MaxSnapshots
  /\ msgs' = msgs \cup {[slots |-> st[n], seen |-> seen[n]]}
  /\ UNCHANGED <<prog, verdict, st, hist, seen>>

\* A slot that is absent on one side is adopted from the other.
Combine(a, b) == IF Absent \notin {a, b} THEN Merge(a, b) ELSE IF a = Absent THEN b ELSE a

Most(i, j) == IF i < j THEN j ELSE i

\* n merges a snapshot, slot by slot, under its lock.
MergeRemote(n, c) ==
  /\ st' = [st EXCEPT ![n] = [s \in Node |-> Combine(st[n][s], c.slots[s])]]
  /\ seen' = [seen EXCEPT ![n] = [s \in Node |-> Most(seen[n][s], c.seen[s])]]
  /\ UNCHANGED <<prog, verdict, hist, msgs>>

\* A snapshot has been merged for the last time, or is lost.
Drop(c) ==
  /\ msgs' = msgs \ {c}
  /\ UNCHANGED <<prog, verdict, st, hist, seen>>

Next ==
  \/ Prove
  \/ \E n \in Node : Apply(n) \/ Send(n)
  \/ \E c \in msgs : Drop(c) \/ \E n \in Node : MergeRemote(n, c)

Spec == Init /\ [][Next]_vars

-----------------------------------------------------------------------------
(* Correctness *)

\* The copies of vectors there are, at nodes and in the air.
Copy == msgs \cup {[slots |-> st[n], seen |-> seen[n]] : n \in Node}

\* Every variable holds a value of its kind, every node holds all of its own
\* updates, and every slot is of the element type, so that no peer refuses a
\* snapshot (wireToSlot).
TypeOK ==
  /\ prog \in Program /\ verdict \in {"open", "accepted", "rejected"}
  /\ hist \in [Node -> Seq(prog.elem)]
  /\ msgs \subseteq Snapshot
  /\ st \in [Node -> [Node -> prog.elem \cup {Absent}]]
  /\ seen \in [Node -> [Node -> Nat]]
  /\ \A n \in Node : seen[n][n] = Len(hist[n])

\* Copies that have got the same updates of a node agree on its slot, in
\* whatever order, how often and by whatever way they have got them: what the
\* prover's obligations are for (Prove: "convergence").
SameUpdatesSameState ==
  \A c, d \in Copy, s \in Node : c.seen[s] = d.seen[s] => c.slots[s] = d.slots[s]

\* No copy of a slot, stale or not, is ahead of its owner's in the order of the
\* merge: the owner's next update, computed from its own slot alone, is the
\* join of all there are (Apply, mergeRemote).
OwnerLeads ==
  \A c \in Copy, s \in Node :
    c.slots[s] # Absent => st[s][s] # Absent /\ Below(c.slots[s], st[s][s])

\* No step takes a slot down in the order of the merge, and none forgets one: a
\* node never answers from less than it has answered from (mergeRemote).
OnlyUp ==
  [][\A n, s \in Node : st[n][s] # Absent =>
       st'[n][s] # Absent /\ Below(st[n][s], st'[n][s])]_vars
=============================================================================
