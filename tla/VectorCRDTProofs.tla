-------------------------- MODULE VectorCRDTProofs --------------------------
(***************************************************************************)
(* Proofs about VectorCRDT, for any nodes, values, program and number of   *)
(* updates and snapshots.                                                  *)
(*                                                                         *)
(* The invariant ties every copy of a slot to the history of its owner: a  *)
(* copy that holds i updates is what the owner's slot was after i of them. *)
(* It is inductive because the history is a chain in the order of the      *)
(* merge, so that merging two copies gives the one with more updates; and  *)
(* the history is a chain because the program was accepted.                *)
(***************************************************************************)
EXTENDS VectorCRDT, TLAPS

\* The slot of s after its update i.
At(s, i) == IF i = 0 THEN Absent ELSE hist[s][i]

\* Only an accepted program runs, and it meets the obligations.
Accepted ==
  /\ verdict = "accepted" => Closed /\ Semilattice /\ Inflationary
  /\ verdict # "accepted" => msgs = {}

\* The history of a slot only goes up.
Chain ==
  \A s \in Node : \A j \in 1..Len(hist[s]) : \A i \in 1..j : Below(hist[s][i], hist[s][j])

\* What a copy holds of slot s.
Faithful(c, s) == c.seen[s] \in 0..Len(hist[s]) /\ c.slots[s] = At(s, c.seen[s])

NodesFaithful ==
  \A n, s \in Node : seen[n][s] \in 0..Len(hist[s]) /\ st[n][s] = At(s, seen[n][s])
SnapshotsFaithful == \A c \in msgs, s \in Node : Faithful(c, s)

IInv == TypeOK /\ Accepted /\ Chain /\ NodesFaithful /\ SnapshotsFaithful

-----------------------------------------------------------------------------
(* The lattice *)

\* The order of an accepted merge is transitive: what a slot was merged into
\* stays below what that is merged into.
LEMMA BelowTransitive ==
  ASSUME Semilattice, NEW a \in prog.elem, NEW b \in prog.elem, NEW c \in prog.elem,
         Below(a, b), Below(b, c)
  PROVE  Below(a, c)
<1>1. Merge(a, c) = Merge(a, Merge(b, c))
  BY DEF Below
<1>2. Merge(a, Merge(b, c)) = Merge(Merge(a, b), c)
  BY DEF Semilattice
<1> QED
  BY <1>1, <1>2 DEF Below

\* The slot after any of its updates is of the element type.
LEMMA HistoryTyped ==
  ASSUME TypeOK, NEW s \in Node, NEW i \in 1..Len(hist[s])
  PROVE  hist[s][i] \in prog.elem
<1>1. hist[s] \in Seq(prog.elem)
  BY DEF TypeOK
<1> QED
  BY <1>1

\* Merging two copies of a slot gives the one that holds more updates
\* (mergeRemote).
LEMMA MergeTakesTheLater ==
  ASSUME TypeOK, Chain, Semilattice, NEW s \in Node,
         NEW i \in 0..Len(hist[s]), NEW j \in 0..Len(hist[s])
  PROVE  Combine(At(s, i), At(s, j)) = At(s, Most(i, j))
<1>0. hist[s] \in Seq(prog.elem) /\ Len(hist[s]) \in Nat
  BY DEF TypeOK
<1>1. prog.elem \subseteq Value /\ Absent \notin prog.elem
  BY ProgramAssumption, ValueAssumption DEF TypeOK
<1>2. CASE i = 0
  <2>1. Most(i, j) = j
    BY <1>0, <1>2 DEF Most
  <2> QED
    BY <2>1, <1>2 DEF Combine, At
<1>3. CASE i # 0 /\ j = 0
  <2>1. Most(i, j) = i
    BY <1>0, <1>3 DEF Most
  <2>2. hist[s][i] # Absent
    BY <1>0, <1>1, <1>3, HistoryTyped
  <2> QED
    BY <2>1, <2>2, <1>3 DEF Combine, At
<1>4. CASE i # 0 /\ j # 0
  <2>1. /\ i \in 1..Len(hist[s]) /\ j \in 1..Len(hist[s])
        /\ hist[s][i] \in prog.elem /\ hist[s][j] \in prog.elem
    BY <1>0, <1>4, HistoryTyped
  <2>2. Combine(At(s, i), At(s, j)) = Merge(hist[s][i], hist[s][j])
    BY <2>1, <1>1, <1>4 DEF Combine, At
  <2>3. CASE i < j
    <3>1. Below(hist[s][i], hist[s][j])
      BY <2>1, <2>3, <1>0 DEF Chain
    <3>2. Most(i, j) = j
      BY <2>3 DEF Most
    <3> QED
      BY <3>1, <3>2, <2>2, <1>4 DEF Below, At
  <2>4. CASE ~(i < j)
    <3>1. j \in 1..i
      BY <2>1, <2>4, <1>0
    <3>2. Below(hist[s][j], hist[s][i])
      BY <2>1, <3>1 DEF Chain
    <3>3. Merge(hist[s][i], hist[s][j]) = Merge(hist[s][j], hist[s][i])
      BY <2>1 DEF Semilattice
    <3>4. Most(i, j) = i
      BY <2>4 DEF Most
    <3> QED
      BY <3>2, <3>3, <3>4, <2>2, <1>4 DEF Below, At
  <2> QED
    BY <2>3, <2>4
<1> QED
  BY <1>2, <1>3, <1>4

-----------------------------------------------------------------------------
(* The invariant is inductive *)

\* A collection starts without slots and updates.
LEMMA InitInvariant == Init => IInv
<1> SUFFICES ASSUME Init PROVE IInv
  OBVIOUS
<1>1. TypeOK
  BY DEF Init, TypeOK
<1>2. Accepted
  BY DEF Init, Accepted
<1>3. Chain
  BY DEF Init, Chain
<1>4. NodesFaithful
  BY DEF Init, NodesFaithful, At
<1>5. SnapshotsFaithful
  BY DEF Init, SnapshotsFaithful
<1> QED
  BY <1>1, <1>2, <1>3, <1>4, <1>5 DEF IInv

\* The obligations and the order of the merge belong to the program, which never
\* changes.
LEMMA ProgramFixed ==
  ASSUME prog' = prog
  PROVE  /\ Closed' <=> Closed
         /\ Semilattice' <=> Semilattice
         /\ Inflationary' <=> Inflationary
<1>1. Closed' <=> Closed
  BY DEF Closed, Merge, Updated
<1>2. Semilattice' <=> Semilattice
  BY DEF Semilattice, Merge
<1>3. Inflationary' <=> Inflationary
  BY DEF Inflationary, Below, Merge, Updated
<1> QED
  BY <1>1, <1>2, <1>3

\* A verdict changes nothing else.
LEMMA ProveInvariant ==
  ASSUME IInv, Prove
  PROVE  IInv'
<1> USE DEF Prove
<1>1. TypeOK'
  BY DEF IInv, TypeOK
<1>2. Accepted'
  BY ProgramFixed DEF IInv, Accepted
<1>3. Chain'
  BY DEF IInv, Chain, Below, Merge
<1>4. NodesFaithful'
  BY DEF IInv, NodesFaithful, At
<1>5. SnapshotsFaithful'
  BY DEF IInv, SnapshotsFaithful, Faithful, At
<1> QED
  BY <1>1, <1>2, <1>3, <1>4, <1>5 DEF IInv

\* An accepted update of a slot of the element type stays in it and goes up,
\* whatever other slots the fold has seen (prover.Prove).
LEMMA UpdateGoesUp ==
  ASSUME Closed, Inflationary, NEW u \in prog.updates, NEW x \in prog.elem, x \in Value,
         NEW m, m \in Level, m >= Proj[x]
  PROVE  Updated(u, x, m) \in prog.elem /\ Below(x, Updated(u, x, m))
<1>1. m \in Nat
  BY LevelAssumption
<1>2. m >= 0
  BY <1>1
<1> QED
  BY <1>2 DEF Closed, Inflationary

\* What a fold gives is at least what the own slot has (the self default of
\* Apply's snapshot).
LEMMA FoldSeesOwn ==
  ASSUME TypeOK, Zero \in prog.elem, NEW n \in Node, NEW m \in Greatest(Folded(n))
  PROVE  m \in Level /\ m >= Proj[Own(n)]
<1>1. prog.elem \subseteq Value /\ Own(n) \in Value
  BY ProgramAssumption DEF TypeOK, Own
<1>2. \A s \in Node : st[n][s] # Absent => st[n][s] \in Value
  BY <1>1 DEF TypeOK
<1>3. Folded(n) \subseteq Level
  BY <1>1, <1>2, LevelAssumption DEF Folded
<1>4. m \in Folded(n) /\ Proj[Own(n)] <= m
  BY DEF Greatest, Folded
<1> QED
  BY <1>3, <1>4, <1>1, LevelAssumption

\* An update extends the chain of its slot, and no other copy changes.
LEMMA ApplyInvariant ==
  ASSUME IInv, NEW n \in Node, Apply(n)
  PROVE  IInv'
<1> DEFINE k == Len(hist[n])
<1>1. /\ TypeOK /\ Chain /\ NodesFaithful /\ SnapshotsFaithful
      /\ verdict = "accepted" /\ Closed /\ Semilattice /\ Inflationary
  BY DEF IInv, Accepted, Apply
<1>2. PICK u \in prog.updates, m \in Greatest(Folded(n)) : Store(n, Updated(u, Own(n), m))
  BY DEF Apply
<1> DEFINE v == Updated(u, Own(n), m)
<1>3. prog.elem \subseteq Value /\ Absent \notin prog.elem
  BY <1>1, ProgramAssumption, ValueAssumption DEF TypeOK
<1>4. Own(n) \in prog.elem
  BY <1>1 DEF Own, TypeOK, Closed
<1>5. v \in prog.elem /\ Below(Own(n), v)
  <2>1. m \in Level /\ m >= Proj[Own(n)]
    BY <1>1, FoldSeesOwn DEF Closed
  <2> QED
    BY <1>1, <1>3, <1>4, <2>1, UpdateGoesUp
<1>6. hist[n] \in Seq(prog.elem) /\ k \in Nat /\ seen[n][n] = k
  BY <1>1 DEF TypeOK
<1>7. /\ prog' = prog /\ verdict' = verdict /\ msgs' = msgs
      /\ st' = [st EXCEPT ![n][n] = v]
      /\ hist' = [hist EXCEPT ![n] = Append(@, v)]
      /\ seen' = [seen EXCEPT ![n][n] = @ + 1]
  BY <1>2 DEF Store
<1>8. /\ hist'[n] = Append(hist[n], v)
      /\ \A s \in Node \ {n} : hist'[s] = hist[s]
  BY <1>1, <1>7 DEF TypeOK
<1>9. /\ hist'[n] \in Seq(prog.elem) /\ Len(hist'[n]) = k + 1 /\ hist'[n][k + 1] = v
      /\ \A i \in 1..k : hist'[n][i] = hist[n][i]
  <2> HIDE DEF v
  <2>1. /\ Append(hist[n], v) \in Seq(prog.elem) /\ Len(Append(hist[n], v)) = k + 1
        /\ Append(hist[n], v)[k + 1] = v
        /\ \A i \in 1..k : Append(hist[n], v)[i] = hist[n][i]
    <3> DEFINE E == prog.elem
               h == hist[n]
    <3>1. h \in Seq(E) /\ v \in E
      BY <1>6, <1>5
    <3> HIDE DEF E, h
    <3>2. /\ Append(h, v) \in Seq(E) /\ Len(Append(h, v)) = Len(h) + 1
          /\ Append(h, v)[Len(h) + 1] = v
          /\ \A i \in 1..Len(h) : Append(h, v)[i] = h[i]
      BY <3>1
    <3> QED
      BY <3>2 DEF E, h
  <2> QED
    BY <2>1, <1>8
<1>10. \A s \in Node : \A i \in 0..Len(hist[s]) :
         i \in 0..Len(hist'[s]) /\ At(s, i)' = At(s, i)
  <2> SUFFICES ASSUME NEW s \in Node, NEW i \in 0..Len(hist[s])
               PROVE  i \in 0..Len(hist'[s]) /\ At(s, i)' = At(s, i)
    OBVIOUS
  <2>1. CASE s = n
    BY <2>1, <1>6, <1>9 DEF At
  <2>2. CASE s # n
    BY <2>2, <1>8 DEF At
  <2> QED
    BY <2>1, <2>2
<1>11. TypeOK'
  <2>1. hist' \in [Node -> Seq(prog'.elem)]
    BY <1>1, <1>7, <1>9 DEF TypeOK
  <2>2. st' \in [Node -> [Node -> prog'.elem \cup {Absent}]]
    BY <1>1, <1>5, <1>7 DEF TypeOK
  <2>3. seen' \in [Node -> [Node -> Nat]]
    BY <1>1, <1>6, <1>7 DEF TypeOK
  <2>4. \A p \in Node : seen'[p][p] = Len(hist'[p])
    BY <1>1, <1>6, <1>7, <1>8, <1>9 DEF TypeOK
  <2>5. msgs' \subseteq Snapshot
    BY <1>1, <1>7 DEF TypeOK
  <2>6. prog' \in Program /\ verdict' \in {"open", "accepted", "rejected"}
    BY <1>1, <1>7 DEF TypeOK
  <2> QED
    BY <2>1, <2>2, <2>3, <2>4, <2>5, <2>6 DEF TypeOK
<1>12. Accepted'
  BY <1>1, <1>7, ProgramFixed DEF Accepted
<1>13. Chain'
  <2> SUFFICES ASSUME NEW s \in Node, NEW j \in 1..Len(hist'[s]), NEW i \in 1..j
               PROVE  Below(hist'[s][i], hist'[s][j])
    BY <1>7 DEF Chain, Below, Merge
  <2>1. CASE s # n
    BY <2>1, <1>1, <1>8 DEF Chain
  <2>2. CASE s = n /\ j \in 1..k
    BY <2>2, <1>1, <1>6, <1>9 DEF Chain
  <2>3. CASE s = n /\ j = k + 1 /\ i = k + 1
    BY <2>3, <1>1, <1>5, <1>9 DEF Semilattice, Below
  <2>4. CASE s = n /\ j = k + 1 /\ i \in 1..k
    <3>1. Own(n) = hist[n][k] /\ k \in 1..k
      BY <2>4, <1>1, <1>3, <1>6, HistoryTyped DEF NodesFaithful, At, Own
    <3>2. Below(hist[n][i], hist[n][k])
      BY <3>1, <2>4, <1>1 DEF Chain
    <3>3. hist[n][i] \in prog.elem /\ hist[n][k] \in prog.elem
      BY <2>4, <3>1, <1>1, HistoryTyped
    <3>4. Below(hist[n][i], v)
      BY <3>1, <3>2, <3>3, <1>1, <1>5, BelowTransitive
    <3> QED
      BY <3>4, <2>4, <1>9
  <2> QED
    BY <2>1, <2>2, <2>3, <2>4, <1>6, <1>9
<1>14. NodesFaithful'
  <2> SUFFICES ASSUME NEW p \in Node, NEW s \in Node
               PROVE  seen'[p][s] \in 0..Len(hist'[s]) /\ st'[p][s] = At(s, seen[p][s])'
    BY DEF NodesFaithful, At
  <2>1. CASE p = n /\ s = n
    <3>1. seen'[n][n] = k + 1 /\ st'[n][n] = v
      BY <1>1, <1>6, <1>7 DEF TypeOK
    <3> QED
      BY <2>1, <3>1, <1>6, <1>9 DEF At
  <2>2. CASE ~(p = n /\ s = n)
    <3>1. seen'[p][s] = seen[p][s] /\ st'[p][s] = st[p][s]
      BY <2>2, <1>1, <1>7 DEF TypeOK
    <3>2. seen[p][s] \in 0..Len(hist[s]) /\ st[p][s] = At(s, seen[p][s])
      BY <1>1 DEF NodesFaithful
    <3> QED
      BY <3>1, <3>2, <1>10 DEF At
  <2> QED
    BY <2>1, <2>2
<1>15. SnapshotsFaithful'
  <2> SUFFICES ASSUME NEW c \in msgs, NEW s \in Node
               PROVE  c.seen[s] \in 0..Len(hist'[s]) /\ c.slots[s] = At(s, c.seen[s])'
    BY <1>7 DEF SnapshotsFaithful, Faithful, At
  <2>1. c.seen[s] \in 0..Len(hist[s]) /\ c.slots[s] = At(s, c.seen[s])
    BY <1>1 DEF SnapshotsFaithful, Faithful
  <2> QED
    BY <2>1, <1>10 DEF At
<1> QED
  BY <1>11, <1>12, <1>13, <1>14, <1>15 DEF IInv

\* A snapshot is a copy of what its sender holds.
LEMMA SendInvariant ==
  ASSUME IInv, NEW n \in Node, Send(n)
  PROVE  IInv'
<1> DEFINE c == [slots |-> st[n], seen |-> seen[n]]
<1>1. /\ TypeOK /\ Accepted /\ Chain /\ NodesFaithful /\ SnapshotsFaithful
      /\ verdict = "accepted" /\ msgs' = msgs \cup {c}
      /\ prog' = prog /\ verdict' = verdict /\ st' = st /\ hist' = hist /\ seen' = seen
  BY DEF IInv, Send
<1>2. c \in Snapshot
  <2>1. st[n] \in [Node -> Slot] /\ seen[n] \in [Node -> Nat]
    <3>1. prog.elem \subseteq Value /\ st[n] \in [Node -> prog.elem \cup {Absent}]
          /\ seen[n] \in [Node -> Nat]
      BY <1>1, ProgramAssumption DEF TypeOK
    <3>2. prog.elem \cup {Absent} \subseteq Slot
      BY <3>1 DEF Slot
    <3> QED
      BY <3>1, <3>2
  <2> QED
    BY <2>1 DEF Snapshot
<1>3. TypeOK'
  BY <1>1, <1>2 DEF TypeOK
<1>4. Accepted'
  BY <1>1, ProgramFixed DEF Accepted
<1>5. Chain'
  BY <1>1 DEF Chain, Below, Merge
<1>6. NodesFaithful'
  BY <1>1 DEF NodesFaithful, At
<1>7. SnapshotsFaithful'
  <2>1. \A s \in Node : Faithful(c, s)
    BY <1>1 DEF NodesFaithful, Faithful
  <2>2. \A d \in msgs \cup {c}, s \in Node : Faithful(d, s)
    BY <2>1, <1>1 DEF SnapshotsFaithful
  <2> QED
    BY <2>2, <1>1 DEF SnapshotsFaithful, Faithful, At
<1> QED
  BY <1>3, <1>4, <1>5, <1>6, <1>7 DEF IInv

\* A merge leaves each slot as the later of the two copies.
LEMMA MergeRemoteInvariant ==
  ASSUME IInv, NEW n \in Node, NEW c \in msgs, MergeRemote(n, c)
  PROVE  IInv'
<1>1. /\ TypeOK /\ Accepted /\ Chain /\ NodesFaithful /\ SnapshotsFaithful
      /\ verdict = "accepted" /\ Semilattice /\ Closed
  BY DEF IInv, Accepted
<1>2. /\ st' = [st EXCEPT ![n] = [s \in Node |-> Combine(st[n][s], c.slots[s])]]
      /\ seen' = [seen EXCEPT ![n] = [s \in Node |-> Most(seen[n][s], c.seen[s])]]
      /\ prog' = prog /\ verdict' = verdict /\ hist' = hist /\ msgs' = msgs
  BY DEF MergeRemote
<1>3. \A s \in Node : /\ seen[n][s] \in 0..Len(hist[s]) /\ c.seen[s] \in 0..Len(hist[s])
                      /\ Len(hist[s]) \in Nat
                      /\ Most(seen[n][s], c.seen[s]) \in 0..Len(hist[s])
  BY <1>1 DEF NodesFaithful, SnapshotsFaithful, Faithful, Most, TypeOK
<1>4. \A s \in Node : Combine(st[n][s], c.slots[s]) = At(s, Most(seen[n][s], c.seen[s]))
  BY <1>1, <1>3, MergeTakesTheLater DEF NodesFaithful, SnapshotsFaithful, Faithful
<1>5. \A s \in Node : \A i \in 0..Len(hist[s]) : At(s, i) \in prog.elem \cup {Absent}
  BY <1>1, HistoryTyped DEF At
<1>6. \A p, s \in Node : /\ seen'[p][s] \in 0..Len(hist[s])
                         /\ st'[p][s] = At(s, seen'[p][s])
  <2> SUFFICES ASSUME NEW p \in Node, NEW s \in Node
               PROVE  seen'[p][s] \in 0..Len(hist[s]) /\ st'[p][s] = At(s, seen'[p][s])
    OBVIOUS
  <2>1. CASE p = n
    <3>1. /\ seen'[p][s] = Most(seen[n][s], c.seen[s])
          /\ st'[p][s] = Combine(st[n][s], c.slots[s])
      BY <2>1, <1>1, <1>2 DEF TypeOK
    <3> QED
      BY <3>1, <1>3, <1>4
  <2>2. CASE p # n
    <3>1. seen'[p][s] = seen[p][s] /\ st'[p][s] = st[p][s]
      BY <2>2, <1>1, <1>2 DEF TypeOK
    <3> QED
      BY <3>1, <1>1 DEF NodesFaithful
  <2> QED
    BY <2>1, <2>2
<1>7. TypeOK'
  <2>1. st' \in [Node -> [Node -> prog.elem \cup {Absent}]]
    <3>1. [s \in Node |-> Combine(st[n][s], c.slots[s])] \in [Node -> prog.elem \cup {Absent}]
      BY <1>3, <1>4, <1>5
    <3> QED
      BY <3>1, <1>1, <1>2 DEF TypeOK
  <2>2. seen' \in [Node -> [Node -> Nat]]
    <3>1. [s \in Node |-> Most(seen[n][s], c.seen[s])] \in [Node -> Nat]
      BY <1>3
    <3> QED
      BY <3>1, <1>1, <1>2 DEF TypeOK
  <2>3. \A p \in Node : seen'[p][p] = Len(hist[p])
    <3> SUFFICES ASSUME NEW p \in Node PROVE seen'[p][p] = Len(hist[p])
      OBVIOUS
    <3>1. CASE p = n
      <4>1. seen'[p][p] = Most(seen[n][n], c.seen[n])
        BY <3>1, <1>1, <1>2 DEF TypeOK
      <4>2. seen[n][n] = Len(hist[n])
        BY <1>1 DEF TypeOK
      <4> QED
        BY <4>1, <4>2, <3>1, <1>3 DEF Most
    <3>2. CASE p # n
      BY <3>2, <1>1, <1>2 DEF TypeOK
    <3> QED
      BY <3>1, <3>2
  <2> QED
    BY <2>1, <2>2, <2>3, <1>1, <1>2 DEF TypeOK
<1>8. Accepted'
  BY <1>1, <1>2, ProgramFixed DEF Accepted
<1>9. Chain'
  BY <1>1, <1>2 DEF Chain, Below, Merge
<1>10. NodesFaithful'
  BY <1>6, <1>2 DEF NodesFaithful, At
<1>11. SnapshotsFaithful'
  BY <1>1, <1>2 DEF SnapshotsFaithful, Faithful, At
<1> QED
  BY <1>7, <1>8, <1>9, <1>10, <1>11 DEF IInv

\* Every step keeps the invariant.
LEMMA StepInvariant ==
  ASSUME IInv, [Next]_vars
  PROVE  IInv'
<1>1. CASE Prove
  BY <1>1, ProveInvariant
<1>2. ASSUME NEW n \in Node, Apply(n) PROVE IInv'
  BY <1>2, ApplyInvariant
<1>3. ASSUME NEW n \in Node, Send(n) PROVE IInv'
  BY <1>3, SendInvariant
<1>4. ASSUME NEW c \in msgs, NEW n \in Node, MergeRemote(n, c) PROVE IInv'
  BY <1>4, MergeRemoteInvariant
<1>5. ASSUME NEW c \in msgs, Drop(c) PROVE IInv'
  <2>1. /\ TypeOK /\ Accepted /\ Chain /\ NodesFaithful /\ SnapshotsFaithful
        /\ msgs' \subseteq msgs
        /\ prog' = prog /\ verdict' = verdict /\ st' = st /\ hist' = hist /\ seen' = seen
    BY <1>5 DEF IInv, Drop
  <2>2. TypeOK' /\ Accepted' /\ Chain'
    BY <2>1, ProgramFixed DEF TypeOK, Accepted, Chain, Below, Merge
  <2>3. NodesFaithful' /\ SnapshotsFaithful'
    BY <2>1 DEF NodesFaithful, SnapshotsFaithful, Faithful, At
  <2> QED
    BY <2>2, <2>3 DEF IInv
<1>6. CASE UNCHANGED vars
  <2>1. /\ TypeOK /\ Accepted /\ Chain /\ NodesFaithful /\ SnapshotsFaithful
        /\ prog' = prog /\ verdict' = verdict /\ st' = st /\ hist' = hist /\ seen' = seen
        /\ msgs' = msgs
    BY <1>6 DEF IInv, vars
  <2>2. TypeOK' /\ Accepted' /\ Chain'
    BY <2>1, ProgramFixed DEF TypeOK, Accepted, Chain, Below, Merge
  <2>3. NodesFaithful' /\ SnapshotsFaithful'
    BY <2>1 DEF NodesFaithful, SnapshotsFaithful, Faithful, At
  <2> QED
    BY <2>2, <2>3 DEF IInv
<1> QED
  BY <1>1, <1>2, <1>3, <1>4, <1>5, <1>6 DEF Next

\* Every copy of a slot is one of its owner's history, which only goes up.
THEOREM Invariant == Spec => []IInv
<1>1. IInv /\ [Next]_vars => IInv'
  BY StepInvariant
<1> QED
  BY InitInvariant, <1>1, PTL DEF Spec

-----------------------------------------------------------------------------
(* What follows from it *)

\* Every slot there is holds an element of the program's type, so no snapshot
\* is refused (wireToSlot).
THEOREM TypeCorrect == Spec => []TypeOK
<1>1. IInv => TypeOK
  BY DEF IInv
<1> QED
  BY Invariant, <1>1, PTL

\* A copy, at a node or in the air, holds what its owner held.
LEMMA CopiesFaithful ==
  ASSUME IInv, NEW c \in Copy, NEW s \in Node
  PROVE  Faithful(c, s)
<1>1. CASE c \in msgs
  BY <1>1 DEF IInv, SnapshotsFaithful
<1>2. CASE c \notin msgs
  <2>1. PICK n \in Node : c = [slots |-> st[n], seen |-> seen[n]]
    BY <1>2 DEF Copy
  <2> QED
    BY <2>1 DEF IInv, NodesFaithful, Faithful
<1> QED
  BY <1>1, <1>2

\* Copies that have got the same updates agree: nodes converge whatever the
\* network does to snapshots (mergeRemote).
THEOREM CopiesAgree == Spec => []SameUpdatesSameState
<1>1. IInv => SameUpdatesSameState
  BY CopiesFaithful DEF Faithful, SameUpdatesSameState
<1> QED
  BY Invariant, <1>1, PTL

\* No copy of a slot is ahead of its owner's (Apply).
THEOREM OwnersLead == Spec => []OwnerLeads
<1>1. IInv => OwnerLeads
  <2> SUFFICES ASSUME IInv, NEW c \in Copy, NEW s \in Node, c.slots[s] # Absent
               PROVE  st[s][s] # Absent /\ Below(c.slots[s], st[s][s])
    BY DEF OwnerLeads
  <2> DEFINE k == Len(hist[s])
             i == c.seen[s]
  <2>1. /\ TypeOK /\ Chain /\ k \in Nat /\ prog.elem \subseteq Value
        /\ st[s][s] = At(s, k)
    BY ProgramAssumption DEF IInv, TypeOK, NodesFaithful
  <2>2. i \in 0..k /\ c.slots[s] = At(s, i)
    BY CopiesFaithful DEF Faithful
  <2>3. i \in 1..k /\ k \in 1..k
    BY <2>1, <2>2 DEF At
  <2>4. c.slots[s] = hist[s][i] /\ st[s][s] = hist[s][k]
    BY <2>1, <2>2, <2>3 DEF At
  <2>5. Below(hist[s][i], hist[s][k])
    BY <2>1, <2>3 DEF Chain
  <2>6. hist[s][k] # Absent
    BY <2>1, <2>3, HistoryTyped, ValueAssumption
  <2> QED
    BY <2>4, <2>5, <2>6
<1> QED
  BY Invariant, <1>1, PTL

\* A slot that a node holds now and after a step is a slot of its owner's
\* history at both times, later the second time.
LEMMA SeenGrows ==
  ASSUME IInv, IInv', [Next]_vars, NEW n \in Node, NEW s \in Node
  PROVE  /\ seen'[n][s] >= seen[n][s]
         /\ Len(hist'[s]) >= Len(hist[s])
         /\ \A i \in 1..Len(hist[s]) : hist'[s][i] = hist[s][i]
         /\ prog' = prog
<1> DEFINE grows == /\ seen'[n][s] >= seen[n][s]
                    /\ Len(hist'[s]) >= Len(hist[s])
                    /\ \A i \in 1..Len(hist[s]) : hist'[s][i] = hist[s][i]
                    /\ prog' = prog
<1>1. TypeOK /\ seen[n][s] \in Nat /\ Len(hist[s]) \in Nat
  BY DEF IInv, TypeOK
<1>2. CASE UNCHANGED <<prog, hist, seen>>
  BY <1>1, <1>2
<1>3. ASSUME NEW p \in Node, Apply(p) PROVE grows
  <2>1. PICK v : /\ hist' = [hist EXCEPT ![p] = Append(@, v)]
                 /\ seen' = [seen EXCEPT ![p][p] = @ + 1] /\ prog' = prog
    BY <1>3 DEF Apply, Store
  <2>2. seen'[n][s] >= seen[n][s]
    BY <2>1, <1>1 DEF TypeOK
  <2>3. hist'[s] = IF s = p THEN Append(hist[s], v) ELSE hist[s]
    BY <2>1, <1>1 DEF TypeOK
  <2>4. hist[s] \in Seq(prog.elem)
    BY <1>1 DEF TypeOK
  <2>5. Len(hist'[s]) >= Len(hist[s]) /\ \A i \in 1..Len(hist[s]) : hist'[s][i] = hist[s][i]
    BY <2>3, <2>4, <1>1
  <2> QED
    BY <2>1, <2>2, <2>5
<1>4. ASSUME NEW p \in Node, NEW c \in msgs, MergeRemote(p, c) PROVE grows
  <2>1. /\ seen' = [seen EXCEPT ![p] = [x \in Node |-> Most(seen[p][x], c.seen[x])]]
        /\ prog' = prog /\ hist' = hist
    BY <1>4 DEF MergeRemote
  <2>2. c.seen[s] \in Nat
    BY <1>1 DEF IInv, SnapshotsFaithful, Faithful
  <2>3. seen'[n][s] = IF n = p THEN Most(seen[n][s], c.seen[s]) ELSE seen[n][s]
    BY <2>1, <1>1 DEF TypeOK
  <2> QED
    BY <2>1, <2>2, <2>3, <1>1 DEF Most
<1> QED
  BY <1>2, <1>3, <1>4 DEF Next, Prove, Send, Drop, vars

\* A node's slots only go up: it never answers from less than it has answered
\* from (mergeRemote, Apply).
THEOREM SlotsOnlyUp == Spec => OnlyUp
<1>1. ASSUME IInv, IInv', [Next]_vars, NEW n \in Node, NEW s \in Node, st[n][s] # Absent
      PROVE  st'[n][s] # Absent /\ Below(st[n][s], st'[n][s])
  <2> DEFINE i == seen[n][s]
             j == seen'[n][s]
  <2>1. /\ i \in 0..Len(hist[s]) /\ st[n][s] = At(s, i) /\ Len(hist[s]) \in Nat
        /\ j \in 0..Len(hist'[s]) /\ st'[n][s] = At(s, seen[n][s])' /\ Len(hist'[s]) \in Nat
    BY <1>1 DEF IInv, NodesFaithful, TypeOK, At
  <2>2. /\ j >= i /\ Len(hist'[s]) >= Len(hist[s])
        /\ \A x \in 1..Len(hist[s]) : hist'[s][x] = hist[s][x]
        /\ prog' = prog
    BY <1>1, SeenGrows
  <2>3. i \in 1..Len(hist[s]) /\ i \in 1..j /\ j \in 1..Len(hist'[s])
    BY <2>1, <2>2, <1>1 DEF At
  <2>4. st[n][s] = hist'[s][i] /\ st'[n][s] = hist'[s][j]
    BY <2>1, <2>2, <2>3 DEF At
  <2>5. Below(hist'[s][i], hist'[s][j])
    BY <2>2, <2>3, <1>1 DEF IInv, Chain, Below, Merge
  <2>6. hist'[s][j] \in prog.elem
    <3>1. hist'[s] \in Seq(prog'.elem)
      BY <1>1 DEF IInv, TypeOK
    <3> QED
      BY <3>1, <2>2, <2>3
  <2>7. Absent \notin prog.elem
    BY <1>1, ProgramAssumption, ValueAssumption DEF IInv, TypeOK
  <2> QED
    BY <2>4, <2>5, <2>6, <2>7
<1>2. IInv /\ IInv' /\ [Next]_vars =>
        [\A n, s \in Node : st[n][s] # Absent =>
           st'[n][s] # Absent /\ Below(st[n][s], st'[n][s])]_vars
  BY <1>1
<1> QED
  BY Invariant, <1>2, PTL DEF Spec, OnlyUp
-----------------------------------------------------------------------------
(* The counts behind the values *)

Counts == INSTANCE UpdateCounts WITH counts <- seen

\* A merge of a snapshot takes the larger counts (mergeRemote).
LEMMA MergeCounts ==
  ASSUME IInv, NEW n \in Node, NEW c \in msgs, MergeRemote(n, c)
  PROVE  Counts!Merge(n)
<1>1. /\ c.seen \in [Node -> Nat] /\ seen \in [Node -> [Node -> Nat]]
      /\ \A s \in Node : seen[s][s] = Len(hist[s])
  BY DEF IInv, TypeOK, Snapshot
<1>2. ASSUME NEW s \in Node PROVE c.seen[s] <= Counts!Owners[s]
  <2>1. c.seen[s] \in 0..Len(hist[s])
    BY DEF IInv, SnapshotsFaithful, Faithful
  <2> QED
    BY <1>1, <2>1 DEF Counts!Owners
<1>3. ASSUME NEW s \in Node
      PROVE  Most(seen[n][s], c.seen[s]) = Counts!Larger(seen[n], c.seen)[s]
  <2>1. seen[n][s] \in Nat /\ c.seen[s] \in Nat
    BY <1>1
  <2> QED
    BY <2>1 DEF Most, Counts!Larger
<1>4. [s \in Node |-> Most(seen[n][s], c.seen[s])] = Counts!Larger(seen[n], c.seen)
  BY <1>3 DEF Counts!Larger
<1>5. seen' = [seen EXCEPT ![n] = Counts!Larger(seen[n], c.seen)]
  BY <1>4 DEF MergeRemote
<1> QED
  BY <1>1, <1>2, <1>5 DEF Counts!Merge, Counts!Ahead, Counts!Vector

\* The vectors of crdt/vector.go, whatever their values, count updates: an update
\* counts up the own slot, and a merge in the program's order is the larger count
\* of each slot (Apply, mergeRemote).
THEOREM VectorsCount == Spec => Counts!Spec
<1>1. Init => Counts!Init
  BY DEF Init, Counts!Init
<1>2. ASSUME IInv, [Next]_vars PROVE [Counts!Next]_seen
  <2>1. ASSUME NEW n \in Node, Apply(n) PROVE Counts!Next
    BY <2>1 DEF Apply, Store, Counts!Update, Counts!Next
  <2>2. ASSUME NEW c \in msgs, NEW n \in Node, MergeRemote(n, c) PROVE Counts!Next
    BY <1>2, <2>2, MergeCounts DEF Counts!Next
  <2> QED
    BY <1>2, <2>1, <2>2 DEF Next, Prove, Send, Drop, vars
<1> QED
  BY <1>1, <1>2, Invariant, PTL DEF Spec, Counts!Spec

\* Every copy holds what the owners had after as many updates as it counts.
CountsTellSlots == \A c \in Copy, s \in Node : Faithful(c, s)

\* What the counts are, the values are: the slot of s at any node or in any
\* snapshot is what its owner had after that many updates, whichever way it got
\* there (Apply, mergeRemote).
THEOREM SlotsAreCounts == Spec => []CountsTellSlots
<1>1. IInv => CountsTellSlots
  BY CopiesFaithful DEF CountsTellSlots
<1> QED
  BY Invariant, <1>1, PTL
=============================================================================
