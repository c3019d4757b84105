---------------------------- MODULE QuorumStore -----------------------------
(***************************************************************************)
(* What the synchronous coordinator promises its clients, with no nodes'   *)
(* vectors, messages or quorums in it.  There is one store.  An update     *)
(* moves one slot of it up by one.  An operation that asked for a majority *)
(* and reports success makes some part of the store stable; a query that   *)
(* asked for a majority answers with something between what was stable     *)
(* when it began and what has been applied when it ends.                   *)
(*                                                                         *)
(* The store is regular and no more: two such queries one after the other  *)
(* may answer with a later and then an earlier part of the store, as long  *)
(* as both contain what was stable before they began.                      *)
(***************************************************************************)
EXTENDS Integers

CONSTANTS Node, Write, Read

VARIABLES
  strong,    \* the operations that ask for a majority; it never changes
  applied,   \* the vector of all the updates applied so far
  stable,    \* the part of it that majority operations have replicated
  status,    \* status[o]: "idle", "open", "done" or "failed"
  floor,     \* floor[o]: what was stable when query o began
  answer     \* answer[o]: what update o left, or query o answered

storeVars == <<strong, applied, stable, status, floor, answer>>

Op == Write \cup Read
Vector == [Node -> Nat]
Empty == [s \in Node |-> 0]
Covers(v, w) == \A s \in Node : w[s] <= v[s]

Init ==
  /\ strong \in SUBSET Op
  /\ applied = Empty
  /\ stable = Empty
  /\ status = [o \in Op |-> "idle"]
  /\ floor = [o \in Op |-> Empty]
  /\ answer = [o \in Op |-> Empty]

\* answer[o] becomes some vector.
Reply(o) ==
  /\ answer'[o] \in Vector
  /\ answer' = [answer EXCEPT ![o] = answer'[o]]

Update(o, n) ==
  /\ o \in Write /\ status[o] = "idle"
  /\ status' = [status EXCEPT ![o] = "open"]
  /\ applied' = [applied EXCEPT ![n] = @ + 1]
  /\ Reply(o)
  /\ Covers(applied', answer'[o]) /\ answer'[o][n] = applied'[n]
  /\ UNCHANGED <<strong, stable, floor>>

Ask(o) ==
  /\ o \in Read /\ status[o] = "idle"
  /\ status' = [status EXCEPT ![o] = "open"]
  /\ floor' = [floor EXCEPT ![o] = stable]
  /\ UNCHANGED <<strong, applied, stable, answer>>

\* A strong operation may make more of the store stable, never less.
Stabilize(o) ==
  IF o \in strong
  THEN /\ stable' \in Vector
       /\ Covers(stable', stable) /\ Covers(applied, stable')
  ELSE UNCHANGED stable

\* A strong update that succeeds is stable itself.
Confirm(o) ==
  /\ o \in Write /\ status[o] = "open"
  /\ status' = [status EXCEPT ![o] = "done"]
  /\ Stabilize(o)
  /\ o \in strong => Covers(stable', answer[o])
  /\ UNCHANGED <<strong, applied, floor, answer>>

\* A strong query answers with its floor at least, any query with no more
\* than has been applied.
Answer(o) ==
  /\ o \in Read /\ status[o] = "open"
  /\ status' = [status EXCEPT ![o] = "done"]
  /\ Stabilize(o)
  /\ Reply(o)
  /\ Covers(applied, answer'[o])
  /\ o \in strong => Covers(answer'[o], floor[o])
  /\ UNCHANGED <<strong, applied, floor>>

Fail(o) ==
  /\ status[o] = "open"
  /\ status' = [status EXCEPT ![o] = "failed"]
  /\ UNCHANGED <<strong, applied, stable, floor, answer>>

Next ==
  \/ \E o \in Op, n \in Node : Update(o, n)
  \/ \E o \in Op : Ask(o) \/ Confirm(o) \/ Answer(o) \/ Fail(o)

Spec == Init /\ [][Next]_storeVars
=============================================================================
