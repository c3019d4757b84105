-------------------------- MODULE DocumentsProofs ---------------------------
(***************************************************************************)
(* Proofs about Documents, for any number of goroutines and any snapshots  *)
(* of peers: no update is lost or doubled when a document is materialized, *)
(* no merge is lost, and nobody acts on an orphaned CRDT.                  *)
(***************************************************************************)
EXTENDS Documents, FiniteSetTheorems, TLAPS

Label == {"lookup", "absent", "present", "publish", "winner", "end"}

LEMMA JoinCovers ==
  ASSUME NEW v \in Value, NEW w \in Value
  PROVE  /\ Join(v, w) \in Value
         /\ Covers(Join(v, w), v) /\ Covers(Join(v, w), w)
         /\ v.own = 0 /\ w.own = 0 => Join(v, w).own = 0
         /\ w.own = 0 => Join(v, w).own = v.own
  BY DEF Value, Join, Covers, Larger

LEMMA CoversOrder ==
  /\ \A v \in Value : Covers(v, v) /\ Covers(v, Zero)
  /\ \A u, v, w \in Value : Covers(u, v) /\ Covers(v, w) => Covers(u, w)
  /\ \A v, w \in Value : Covers(v, w) /\ w # Zero => v # Zero
  /\ Zero \in Value
  BY DEF Value, Covers, Zero

-----------------------------------------------------------------------------
(* The inductive invariant *)

\* A goroutine that has found the document, or lost the race to publish one,
\* points to it; one that has not finished has not published.
PointersOK ==
  \A t \in Thread :
    /\ ptr[t] # None => ptr[t] = doc
    /\ pc[t] \in {"present", "winner"} => ptr[t] # None
    /\ pc[t] # "end" => t # doc

\* No CRDT but the published one holds an update of this node, and no snapshot
\* of a peer brings one.
PrivateOK ==
  /\ \A t \in Thread : t # doc => heap[t].own = 0
  /\ \A t \in Merger : snap[t].own = 0
  /\ \A t \in done : pc[t] = "end"

\* A private CRDT that waits to be published holds its snapshot.
MergersOK ==
  \A t \in Merger :
    /\ pc[t] \in {"publish", "winner"} => Covers(heap[t], snap[t]) /\ heap[t] # Zero
    /\ pc[t] = "winner" => doc # None

IInv ==
  /\ TypeOK /\ PointersOK /\ PrivateOK /\ MergersOK
  /\ UpdatesCountOnce /\ MergesKept /\ DocumentsHaveContent

LEMMA Initially == Init => IInv
  <1> SUFFICES ASSUME Init PROVE IInv
    OBVIOUS
  <1> USE DEF Init
  <1>1. snap \in [Thread -> Value] /\ \A t \in Merger : snap[t].own = 0
    BY IncomingAssumption, CoversOrder DEF Thread, Zero
  <1>2. TypeOK
    BY <1>1, CoversOrder DEF TypeOK
  <1>3. PointersOK
    BY ThreadAssumption DEF PointersOK
  <1>4. PrivateOK /\ MergersOK /\ MergesKept /\ DocumentsHaveContent
    BY <1>1 DEF PrivateOK, MergersOK, MergesKept, DocumentsHaveContent, Thread, Zero
  <1>5. UpdatesCountOnce
    BY FS_EmptySet DEF UpdatesCountOnce, Current, Zero
  <1> QED
    BY <1>2, <1>3, <1>4, <1>5 DEF IInv

-----------------------------------------------------------------------------
(* Steps *)

LEMMA CurrentType == TypeOK => Current \in Value
  BY CoversOrder, ThreadAssumption DEF TypeOK, Current, Thread

\* The properties from what a step does to the published CRDT: at most one
\* update more, acknowledged; nothing taken away; a snapshot whose merge ends
\* kept; no empty document published.
LEMMA PropertiesStep ==
  ASSUME IInv, TypeOK', NEW t \in Thread, NEW l, Goto(t, l),
         \A m \in Merger : snap'[m] = snap[m],
         Covers(Current', Current),
         \/ done' = done /\ Current'.own = Current.own
         \/ /\ t \notin done /\ done' = done \cup {t}
            /\ Current'.own = Current.own + 1,
         t \in Merger /\ l = "end" => Covers(Current', snap[t]),
         doc' # None => doc # None \/ Current' # Zero,
         doc # None => doc' # None
  PROVE  UpdatesCountOnce' /\ MergesKept' /\ DocumentsHaveContent'
  <1>1. Current \in Value /\ Current' \in Value
    <2>1. Current \in Value
      BY CurrentType DEF IInv
    <2>2. Current' \in Value
      BY CoversOrder, ThreadAssumption DEF TypeOK, Current, Thread
    <2> QED
      BY <2>1, <2>2
  <1>2. UpdatesCountOnce'
    <2>1. IsFiniteSet(done)
      BY ThreadAssumption, FS_Subset DEF IInv, TypeOK
    <2>2. t \notin done => Cardinality(done \cup {t}) = Cardinality(done) + 1
      BY <2>1, FS_AddElement
    <2> QED
      BY <2>2 DEF IInv, UpdatesCountOnce
  <1>3. MergesKept'
    <2> SUFFICES ASSUME NEW m \in Merger, pc'[m] = "end"
                 PROVE  Covers(Current', snap'[m])
      BY DEF MergesKept
    <2>1. CASE m = t
      BY <2>1 DEF Goto, IInv, TypeOK
    <2>2. CASE m # t
      <3>1. pc[m] = "end" /\ snap[m] \in Value
        BY <2>2 DEF Goto, IInv, TypeOK, Thread
      <3> QED
        BY <1>1, <3>1, CoversOrder DEF IInv, MergesKept
    <2> QED
      BY <2>1, <2>2
  <1>4. DocumentsHaveContent'
    BY <1>1, CoversOrder DEF IInv, DocumentsHaveContent
  <1> QED
    BY <1>2, <1>3, <1>4

\* Each action keeps the invariant, and takes nothing from the document.
LEMMA Step ==
  ASSUME IInv, Next
  PROVE  IInv' /\ Covers(Current', Current)
  <1> DEFINE G == IInv' /\ Covers(Current', Current)
  <1> USE DEF TypeOK, Goto
  <1>0. /\ TypeOK /\ PointersOK /\ PrivateOK /\ MergersOK
        /\ Current \in Value /\ Covers(Current, Current)
        /\ None \notin Thread /\ Updater \subseteq Thread /\ Merger \subseteq Thread
    BY CurrentType, CoversOrder, ThreadAssumption DEF IInv, Thread
  <1>1. ASSUME NEW t \in Thread, Lookup(t) PROVE G
    <2> USE <1>1 DEF Lookup
    <2>1. TypeOK'
      BY <1>0
    <2>2. PointersOK'
      BY <1>0 DEF PointersOK
    <2>3. PrivateOK' /\ MergersOK'
      BY <1>0 DEF PrivateOK, MergersOK
    <2>4. Current' = Current
      BY DEF Current
    <2> QED
      BY <1>0, <2>1, <2>2, <2>3, <2>4, PropertiesStep DEF IInv
  <1>2. ASSUME NEW t \in Thread, UpdatePresent(t) PROVE G
    <2> USE <1>2 DEF UpdatePresent
    <2>1. ptr[t] = doc /\ doc \in Thread
      BY <1>0 DEF PointersOK
    <2>2. TypeOK'
      <3>1. heap' \in [Thread -> Value]
        BY <1>0, <2>1 DEF Value
      <3>2. done' \subseteq Updater \ Bad
        BY <1>0
      <3> QED
        BY <1>0, <3>1, <3>2
    <2>3. PointersOK'
      BY <1>0 DEF PointersOK
    <2>4. PrivateOK'
      BY <1>0, <2>1 DEF PrivateOK, Value
    <2>5. MergersOK'
      BY <1>0, <2>1 DEF MergersOK, PointersOK
    <2>6. /\ Covers(Current', Current)
          /\ \/ done' = done /\ Current'.own = Current.own
             \/ /\ t \notin done /\ done' = done \cup {t}
                /\ Current'.own = Current.own + 1
      BY <1>0, <2>1 DEF Current, Covers, Value, PrivateOK
    <2> QED
      BY <1>0, <2>1, <2>2, <2>3, <2>4, <2>5, <2>6, PropertiesStep, ThreadAssumption
         DEF IInv
  <1>3. ASSUME NEW t \in Thread, UpdateAbsent(t) PROVE G
    <2> USE <1>3 DEF UpdateAbsent
    <2> DEFINE c == IF doc = None THEN t ELSE doc
    <2>1. CASE t \in Bad
      <3>1. UNCHANGED <<doc, heap, done, ptr, snap>> /\ Goto(t, "end")
        BY <2>1
      <3>2. TypeOK' /\ PointersOK' /\ PrivateOK' /\ MergersOK' /\ Current' = Current
        BY <1>0, <3>1 DEF PointersOK, PrivateOK, MergersOK, Current
      <3> QED
        BY <1>0, <3>1, <3>2, PropertiesStep, ThreadAssumption DEF IInv
    <2>2. CASE t \notin Bad
      <3>1. /\ heap' = [heap EXCEPT ![c].own = @ + 1] /\ doc' = c
            /\ done' = done \cup {t} /\ c \in Thread /\ c \in Updater \cup Merger
        BY <1>0, <2>2
      <3>2. TypeOK'
        BY <1>0, <2>2, <3>1 DEF Value
      <3>3. PointersOK'
        BY <1>0, <3>1 DEF PointersOK
      <3>4. PrivateOK'
        BY <1>0, <3>1 DEF PrivateOK, Value
      <3>5. MergersOK'
        BY <1>0, <3>1, ThreadAssumption DEF MergersOK, PointersOK
      <3>6. /\ Covers(Current', Current) /\ t \notin done
            /\ Current'.own = Current.own + 1
        BY <1>0, <3>1 DEF Current, Covers, Value, PrivateOK, PointersOK, Zero
      <3>7. Current' # Zero /\ doc' # None
        BY <1>0, <3>1, <3>6 DEF Zero, Value
      <3> QED
        BY <1>0, <3>1, <3>2, <3>3, <3>4, <3>5, <3>6, <3>7, PropertiesStep,
           ThreadAssumption DEF IInv
    <2> QED
      BY <2>1, <2>2
  <1>4. ASSUME NEW t \in Thread, MergePresent(t) PROVE G
    <2> USE <1>4 DEF MergePresent
    <2>1. /\ ptr[t] = doc /\ doc \in Thread /\ snap[t] \in Value /\ snap[t].own = 0
          /\ heap[doc] \in Value /\ Current = heap[doc] /\ doc # None
      BY <1>0 DEF PointersOK, PrivateOK, Current
    <2>2. heap' = [heap EXCEPT ![doc] = Join(heap[doc], snap[t])]
      BY <2>1
    <2>3. TypeOK'
      BY <1>0, <2>1, <2>2, JoinCovers
    <2>4. PointersOK' /\ PrivateOK'
      BY <1>0, <2>1, <2>2 DEF PointersOK, PrivateOK
    <2>5. MergersOK'
      BY <1>0, <2>1, <2>2 DEF MergersOK, PointersOK
    <2>6. /\ Covers(Current', Current) /\ Covers(Current', snap[t])
          /\ Current'.own = Current.own
      BY <1>0, <2>1, <2>2, JoinCovers DEF Current
    <2> QED
      BY <1>0, <2>1, <2>3, <2>4, <2>5, <2>6, PropertiesStep DEF IInv
  <1>5. ASSUME NEW t \in Thread, MergeAbsent(t) PROVE G
    <2> USE <1>5 DEF MergeAbsent
    <2>1. /\ t # doc /\ snap[t] \in Value /\ snap[t].own = 0 /\ heap[t] \in Value
          /\ heap[t].own = 0
      BY <1>0 DEF PointersOK, PrivateOK
    <2>2. CASE snap[t] = Zero
      <3>1. UNCHANGED <<doc, heap, done, ptr, snap>> /\ Goto(t, "end")
        BY <2>2
      <3>2. TypeOK' /\ PointersOK' /\ PrivateOK' /\ MergersOK' /\ Current' = Current
        BY <1>0, <3>1 DEF PointersOK, PrivateOK, MergersOK, Current
      <3>3. Covers(Current, snap[t])
        BY <1>0, <2>2, CoversOrder
      <3> QED
        BY <1>0, <3>1, <3>2, <3>3, PropertiesStep DEF IInv
    <2>3. CASE snap[t] # Zero
      <3>1. /\ heap' = [heap EXCEPT ![t] = Join(heap[t], snap[t])]
            /\ pc' = [pc EXCEPT ![t] = "publish"]
            /\ UNCHANGED <<doc, ptr, snap, done>>
        BY <2>3
      <3>2. TypeOK'
        BY <1>0, <2>1, <3>1, JoinCovers
      <3>3. PointersOK'
        BY <1>0, <2>1, <3>1 DEF PointersOK
      <3>4. PrivateOK'
        BY <1>0, <2>1, <3>1, JoinCovers DEF PrivateOK
      <3>5. MergersOK'
        BY <1>0, <2>1, <2>3, <3>1, JoinCovers, CoversOrder DEF MergersOK
      <3>6. Current' = Current
        BY <2>1, <3>1 DEF Current
      <3> QED
        BY <1>0, <3>1, <3>2, <3>3, <3>4, <3>5, <3>6, PropertiesStep DEF IInv
    <2> QED
      BY <2>2, <2>3
  <1>6. ASSUME NEW t \in Thread, Publish(t) PROVE G
    <2> USE <1>6 DEF Publish
    <2>1. /\ heap[t] \in Value /\ heap[t] # Zero /\ Covers(heap[t], snap[t])
          /\ t # doc /\ heap[t].own = 0
      BY <1>0 DEF MergersOK, PointersOK, PrivateOK
    <2>2. CASE doc = None
      <3>1. doc' = t /\ Goto(t, "end") /\ UNCHANGED <<heap, done, ptr, snap>>
        BY <2>2
      <3>2. TypeOK' /\ PointersOK' /\ PrivateOK' /\ MergersOK'
        BY <1>0, <2>2, <3>1 DEF PointersOK, PrivateOK, MergersOK
      <3>3. Current = Zero /\ Current' = heap[t]
        BY <1>0, <2>2, <3>1 DEF Current
      <3>4. Covers(Current', Current) /\ Current'.own = Current.own
        BY <2>1, <3>3, CoversOrder DEF Zero
      <3> QED
        BY <1>0, <2>1, <2>2, <3>1, <3>2, <3>3, <3>4, PropertiesStep DEF IInv
    <2>3. CASE doc # None
      <3>1. /\ Goto(t, "winner") /\ ptr' = [ptr EXCEPT ![t] = doc]
            /\ UNCHANGED <<doc, heap, done, snap>>
        BY <2>3
      <3>2. TypeOK' /\ PointersOK' /\ PrivateOK' /\ MergersOK' /\ Current' = Current
        BY <1>0, <2>3, <3>1 DEF PointersOK, PrivateOK, MergersOK, Current
      <3> QED
        BY <1>0, <3>1, <3>2, PropertiesStep DEF IInv
    <2> QED
      BY <2>2, <2>3
  <1>7. ASSUME NEW t \in Thread, MergeWinner(t) PROVE G
    <2> USE <1>7 DEF MergeWinner
    <2>1. /\ ptr[t] = doc /\ doc \in Thread /\ heap[doc] \in Value
          /\ Current = heap[doc] /\ doc # None /\ t # doc
          /\ heap[t] \in Value /\ heap[t].own = 0 /\ snap[t] \in Value
          /\ Covers(heap[t], snap[t])
      BY <1>0 DEF PointersOK, PrivateOK, MergersOK, Current
    <2>2. heap' = [heap EXCEPT ![doc] = Join(heap[doc], heap[t])]
      BY <2>1
    <2>3. TypeOK'
      BY <1>0, <2>1, <2>2, JoinCovers
    <2>4. PointersOK' /\ PrivateOK'
      BY <1>0, <2>1, <2>2 DEF PointersOK, PrivateOK
    <2>5. MergersOK'
      BY <1>0, <2>1, <2>2 DEF MergersOK, PointersOK
    <2>6. /\ Covers(Current', Current) /\ Current'.own = Current.own
          /\ Current' \in Value /\ Covers(Current', heap[t])
      BY <1>0, <2>1, <2>2, JoinCovers DEF Current
    <2>7. Covers(Current', snap[t])
      BY <2>1, <2>6, CoversOrder
    <2> QED
      BY <1>0, <2>1, <2>3, <2>4, <2>5, <2>6, <2>7, PropertiesStep DEF IInv
  <1>8. ASSUME NEW t \in Thread, Read(t) PROVE G
    <2> USE <1>8 DEF Read
    <2>1. t \notin Merger /\ t \notin Updater
      BY ThreadAssumption
    <2>2. pc[t] = "present" => heap[ptr[t]] \in Value
      BY <1>0 DEF PointersOK
    <2>3. TypeOK'
      BY <1>0, <2>2, CoversOrder
    <2>4. PointersOK' /\ PrivateOK' /\ MergersOK' /\ Current' = Current
      BY <1>0, <2>1 DEF PointersOK, PrivateOK, MergersOK, Current
    <2>5. \A m \in Merger : snap'[m] = snap[m] /\ pc'[m] = pc[m]
      BY <1>0, <2>1
    <2>6. doc' = doc /\ done' = done
      OBVIOUS
    <2> HIDE <1>8 DEF Read, TypeOK, Goto
    <2>7. UpdatesCountOnce'
      BY <1>0, <2>4, <2>6 DEF IInv, UpdatesCountOnce
    <2>8. MergesKept'
      BY <2>4, <2>5 DEF IInv, MergesKept
    <2>9. DocumentsHaveContent'
      BY <2>4, <2>6 DEF IInv, DocumentsHaveContent
    <2> QED
      BY <1>0, <2>3, <2>4, <2>7, <2>8, <2>9 DEF IInv
  <1> QED
    BY <1>1, <1>2, <1>3, <1>4, <1>5, <1>6, <1>7, <1>8 DEF Next

LEMMA Stutter == ASSUME IInv, UNCHANGED vars PROVE IInv' /\ Current' = Current
  BY DEF vars, IInv, TypeOK, PointersOK, PrivateOK, MergersOK, UpdatesCountOnce,
         MergesKept, DocumentsHaveContent, Current

LEMMA InductiveInvariant == Spec => []IInv
  BY Initially, Step, Stutter, PTL DEF Spec

-----------------------------------------------------------------------------
(* The theorems *)

\* Every variable holds a value of its kind, and the map and the threads point
\* to no CRDT but one that an update or a merge may have created.
THEOREM TypeCorrect == Spec => []TypeOK
  BY InductiveInvariant, PTL DEF IInv

\* However updates, merges and reads interleave over the map and the CRDTs,
\* the published document counts each acknowledged update exactly once.
THEOREM UpdatesCount == Spec => []UpdatesCountOnce
  BY InductiveInvariant, PTL DEF IInv

\* A merge that returned is in the published document.
THEOREM MergesStay == Spec => []MergesKept
  BY InductiveInvariant, PTL DEF IInv

\* A rejected first update and an empty snapshot publish nothing: a document that
\* exists has content.
THEOREM NeverEmpty == Spec => []DocumentsHaveContent
  BY InductiveInvariant, PTL DEF IInv

\* A pointer that a goroutine carries out of the lock is never an orphan.
THEOREM PointersLive == Spec => []PointersStayLive
  <1>1. IInv => PointersStayLive
    BY DEF IInv, PointersOK, PointersStayLive
  <1> QED
    BY <1>1, InductiveInvariant, PTL

\* Readers never see the document shrink.
THEOREM VisibleOnlyGrows == Spec => VisibleGrows
  <1>1. IInv /\ [Next]_vars => [Covers(Current', Current)]_vars
    BY Step
  <1> QED
    BY <1>1, InductiveInvariant, PTL DEF Spec, VisibleGrows
=============================================================================
