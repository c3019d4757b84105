----------------------------- MODULE Documents ------------------------------
(***************************************************************************)
(* How one node materializes a keyed document that several goroutines      *)
(* touch for the first time at once: client updates (apply), gossiped and  *)
(* pushed snapshots (mergeSnapshot, mergeCollection) and readers           *)
(* (snapshotCollection).                                                   *)
(*                                                                         *)
(* The document is a pointer in a map guarded by the node's mutex; the     *)
(* CRDT it points to has a mutex of its own.  A step is one critical       *)
(* section of either mutex, so a goroutine acts on a pointer it read in an *)
(* earlier step.                                                           *)
(*                                                                         *)
(* A CRDT is the pair of the node's own slot, the number of updates it has *)
(* absorbed, and the slot of one peer; merging takes the larger of each.   *)
(***************************************************************************)
EXTENDS Integers, FiniteSets

CONSTANTS
  Updater,   \* goroutines that apply one client update each
  Merger,    \* goroutines that merge one remote snapshot each
  Reader,    \* goroutines that take one snapshot each
  Bad,       \* the updaters whose payload the update rejects
  Incoming,  \* the snapshots peers may send, the empty one for no slots
  None       \* no CRDT

Value == [own : Nat, peer : Nat]
Zero == [own |-> 0, peer |-> 0]
Thread == Updater \cup Merger \cup Reader

ASSUME ThreadAssumption ==
  /\ Updater \cap Merger = {} /\ Updater \cap Reader = {} /\ Merger \cap Reader = {}
  /\ Bad \subseteq Updater /\ None \notin Thread
  /\ IsFiniteSet(Updater)
\* A peer's snapshot holds of this node's slot only what the node once held.
ASSUME IncomingAssumption ==
  Incoming \subseteq Value /\ \A v \in Incoming : v.own = 0

VARIABLES
  doc,     \* the pointer in the map: the thread that created the CRDT, or None
  heap,    \* heap[t]: the value of the CRDT that thread t creates
  pc,      \* pc[t]: the next critical section of t
  ptr,     \* ptr[t]: the pointer t read from the map
  snap,    \* snap[t]: the snapshot t merges, or has taken
  done     \* history: the updaters whose update was acknowledged

vars == <<doc, heap, pc, ptr, snap, done>>

Larger(a, b) == IF a >= b THEN a ELSE b
Join(v, w) == [own |-> Larger(v.own, w.own), peer |-> Larger(v.peer, w.peer)]
Covers(v, w) == w.own <= v.own /\ w.peer <= v.peer

Init ==
  /\ doc = None
  /\ heap = [t \in Thread |-> Zero]
  /\ pc = [t \in Thread |-> "lookup"]
  /\ ptr = [t \in Thread |-> None]
  /\ snap \in [Thread -> Incoming \cup {Zero}]
  /\ \A t \in Thread \ Merger : snap[t] = Zero
  /\ done = {}

Goto(t, l) == pc' = [pc EXCEPT ![t] = l]

\* The map lookup under the read lock, with which every operation starts.
Lookup(t) ==
  /\ pc[t] = "lookup"
  /\ ptr' = [ptr EXCEPT ![t] = doc]
  /\ Goto(t, IF doc = None THEN "absent" ELSE "present")
  /\ UNCHANGED <<doc, heap, snap, done>>

-----------------------------------------------------------------------------
(* apply *)

\* Mutant of UpdatePresent: a rejected update is acknowledged.
UpdatePresentSilent(t) ==
  /\ t \in Updater /\ pc[t] = "present"
  /\ heap' = IF t \in Bad THEN heap ELSE [heap EXCEPT ![ptr[t]].own = @ + 1]
  /\ done' = done \cup {t}
  /\ Goto(t, "end")
  /\ UNCHANGED <<doc, ptr, snap>>

\* The update of an existing CRDT computes the new slot before it stores it.
UpdatePresent(t) ==
  /\ t \in Updater /\ pc[t] = "present"
  /\ IF t \in Bad THEN UNCHANGED <<heap, done>>
     ELSE /\ heap' = [heap EXCEPT ![ptr[t]].own = @ + 1]
          /\ done' = done \cup {t}
  /\ Goto(t, "end")
  /\ UNCHANGED <<doc, ptr, snap>>

\* Mutant of UpdateAbsent: no second look under the write lock.
UpdateAbsentBlind(t) ==
  /\ t \in Updater /\ pc[t] = "absent"
  /\ IF t \in Bad THEN UNCHANGED <<doc, heap, done>>
     ELSE /\ heap' = [heap EXCEPT ![t].own = @ + 1]
          /\ doc' = t
          /\ done' = done \cup {t}
  /\ Goto(t, "end")
  /\ UNCHANGED <<ptr, snap>>

\* Mutant of UpdateAbsent: the CRDT is published before its update is tried.
UpdateAbsentEager(t) ==
  /\ t \in Updater /\ pc[t] = "absent"
  /\ doc' = IF doc = None THEN t ELSE doc
  /\ IF t \in Bad THEN UNCHANGED <<heap, done>>
     ELSE /\ heap' = [heap EXCEPT ![doc'].own = @ + 1]
          /\ done' = done \cup {t}
  /\ Goto(t, "end")
  /\ UNCHANGED <<ptr, snap>>

\* First touch, all under the write lock: look again, and otherwise publish a
\* new CRDT that has already absorbed the update.
UpdateAbsent(t) ==
  /\ t \in Updater /\ pc[t] = "absent"
  /\ LET c == IF doc = None THEN t ELSE doc IN
     IF t \in Bad THEN UNCHANGED <<doc, heap, done>>
     ELSE /\ heap' = [heap EXCEPT ![c].own = @ + 1]
          /\ doc' = c
          /\ done' = done \cup {t}
  /\ Goto(t, "end")
  /\ UNCHANGED <<ptr, snap>>

-----------------------------------------------------------------------------
(* mergeSnapshot and mergeCollection *)

\* Mutant of MergePresent: the snapshot replaces the state.
MergePresentReplace(t) ==
  /\ t \in Merger /\ pc[t] = "present"
  /\ heap' = [heap EXCEPT ![ptr[t]] = snap[t]]
  /\ Goto(t, "end")
  /\ UNCHANGED <<doc, ptr, snap, done>>

MergePresent(t) ==
  /\ t \in Merger /\ pc[t] = "present"
  /\ heap' = [heap EXCEPT ![ptr[t]] = Join(@, snap[t])]
  /\ Goto(t, "end")
  /\ UNCHANGED <<doc, ptr, snap, done>>

\* An empty snapshot is skipped; any other goes to a private CRDT first.
MergeAbsent(t) ==
  /\ t \in Merger /\ pc[t] = "absent"
  /\ IF snap[t] = Zero
     THEN Goto(t, "end") /\ UNCHANGED heap
     ELSE Goto(t, "publish") /\ heap' = [heap EXCEPT ![t] = Join(@, snap[t])]
  /\ UNCHANGED <<doc, ptr, snap, done>>

\* Mutant of Publish: a goroutine that comes second gives up.
PublishOrDrop(t) ==
  /\ t \in Merger /\ pc[t] = "publish"
  /\ doc' = IF doc = None THEN t ELSE doc
  /\ Goto(t, "end")
  /\ UNCHANGED <<heap, ptr, snap, done>>

\* Under the write lock: publish the private CRDT unless another one is there.
Publish(t) ==
  /\ t \in Merger /\ pc[t] = "publish"
  /\ IF doc = None
     THEN doc' = t /\ Goto(t, "end") /\ UNCHANGED ptr
     ELSE Goto(t, "winner") /\ ptr' = [ptr EXCEPT ![t] = doc] /\ UNCHANGED doc
  /\ UNCHANGED <<heap, snap, done>>

\* The private CRDT is merged into the one that was published first.
MergeWinner(t) ==
  /\ t \in Merger /\ pc[t] = "winner"
  /\ heap' = [heap EXCEPT ![ptr[t]] = Join(@, heap[t])]
  /\ Goto(t, "end")
  /\ UNCHANGED <<doc, ptr, snap, done>>

-----------------------------------------------------------------------------
(* snapshotCollection *)

Read(t) ==
  /\ t \in Reader /\ pc[t] \in {"absent", "present"}
  /\ snap' = [snap EXCEPT ![t] = IF pc[t] = "absent" THEN Zero ELSE heap[ptr[t]]]
  /\ Goto(t, "end")
  /\ UNCHANGED <<doc, heap, ptr, done>>

Next ==
  \E t \in Thread :
    \/ Lookup(t)
    \/ UpdatePresent(t) \/ UpdateAbsent(t)
    \/ MergePresent(t) \/ MergeAbsent(t) \/ Publish(t) \/ MergeWinner(t)
    \/ Read(t)

Spec == Init /\ [][Next]_vars

-----------------------------------------------------------------------------
(* Correctness *)

\* Every variable holds a value of its kind; only a CRDT that a thread may
\* have created is pointed to.
TypeOK ==
  /\ doc \in Updater \cup Merger \cup {None}
  /\ heap \in [Thread -> Value]
  /\ pc \in [Thread -> {"lookup", "absent", "present", "publish", "winner", "end"}]
  /\ ptr \in [Thread -> Updater \cup Merger \cup {None}]
  /\ snap \in [Thread -> Value]
  /\ done \subseteq Updater \ Bad

Current == IF doc = None THEN Zero ELSE heap[doc]

\* Each acknowledged update counts exactly once in the published document,
\* whoever materialized it (the comment in apply: two local updates made to
\* different CRDTs would collapse under the merge).
UpdatesCountOnce == Current.own = Cardinality(done)

\* A snapshot whose merge is over is in the published document: the goroutine
\* that loses the race to publish hands its CRDT on (mergeSnapshot,
\* mergeCollection, which acks the push after it).
MergesKept ==
  \A t \in Merger : pc[t] = "end" => Covers(Current, snap[t])

\* A pointer read from the map stays the document's CRDT, so an operation that
\* uses it after the lock is gone does not act on an orphan.
PointersStayLive == \A t \in Thread : ptr[t] # None => ptr[t] = doc

\* A keyed document exists only once it has a slot: neither a rejected update
\* nor an empty snapshot materializes one (apply, mergeCollection).
DocumentsHaveContent == doc # None => Current # Zero

\* What readers find in the document never shrinks.
VisibleGrows == [][Covers(Current', Current)]_vars
=============================================================================
