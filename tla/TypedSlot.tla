----------------------------- MODULE TypedSlot ------------------------------
(***************************************************************************)
(* Does the static type of an update bound what the update does?  A vector *)
(* declares the type of its slots.  An update computes a new slot from the *)
(* old one, parameters and literals; the builder types that term           *)
(* (typeOf, applyArgs, typeOfGuards, typeOfReduce) and accepts the update  *)
(* when its type is a subtype of the slot's (checkCombinatorFn), and at    *)
(* run time the term is evaluated and stored with no further check         *)
(* (VectorCRDT.Apply).  Every peer that gets the slot in a push or a pull  *)
(* does check it, and drops the message when it is off its type            *)
(* (wireToSlot).                                                           *)
(*                                                                         *)
(* The model follows one term, built one operator at a time, with its      *)
(* static type beside the value it has in one evaluation.                  *)
(***************************************************************************)
EXTENDS NumTypes

CONSTANTS
  Values,         \* bound: the rationals in use, in units of 1 / Unit
  LooseProducts   \* whether terms multiply two operands of unknown sign

ASSUME ValuesAssumption == Values \subseteq Int /\ 0 \in Values
ASSUME LooseAssumption == LooseProducts \in BOOLEAN

VARIABLES
  elem,    \* the declared type of the slots
  slot,    \* the value of this node's slot
  phase,   \* "idle", "term" while a term is built, or the operator it folds
  type,    \* the static type of the term
  value    \* the value of the term

vars == <<elem, slot, phase, type, value>>

Init ==
  /\ elem \in Spellable
  /\ slot = 0
  /\ phase = "idle"
  /\ type = LiteralType(0)
  /\ value = 0

\* What a term may be built from: a parameter, which bindParams has checked
\* against its declared type, a literal, or the slot.
Operand(u, v) ==
  \/ u \in Spellable /\ Allows(u, v)
  \/ u = LiteralType(v)
  \/ u = elem /\ v = slot

Typable(op, a, b) ==
  op = "*" /\ a.sign = "Any" /\ b.sign = "Any" => LooseProducts

\* A term begins with an operand.
Begin(u, v) ==
  /\ phase = "idle" /\ Operand(u, v)
  /\ phase' = "term" /\ type' = u /\ value' = v
  /\ UNCHANGED <<elem, slot>>

\* An operator is applied to the term and an operand, in either order.
Apply(op, u, v) ==
  /\ phase = "term" /\ Operand(u, v) /\ Typable(op, type, u)
  /\ \E r \in Values :
       /\ value' = r
       /\ \/ type' = NumBin(op, type, u) /\ IsResult(op, value, v, r)
          \/ type' = NumBin(op, u, type) /\ IsResult(op, v, value, r)
  /\ UNCHANGED <<elem, slot, phase>>

\* The term becomes one of two guarded results, whichever its guard picks.
Guard(u, v) ==
  /\ phase = "term" /\ Operand(u, v)
  /\ type' = Join(type, u)
  /\ value' \in {value, v}
  /\ UNCHANGED <<elem, slot, phase>>

\* The term is passed to a function whose parameter has type u.
Pass(u) ==
  /\ phase = "term" /\ u \in Spellable /\ Sub(type, u)
  /\ type' = u
  /\ UNCHANGED <<elem, slot, phase, value>>

\* One round of typeOfReduce, and the end of its rounds: a type can grow
\* three times at most, so the fourth round changes nothing.
Widen(op, t) == Join(t, NumBin(op, t, elem))

\* Mutant of ReduceType: the rounds are taken for one application.
ReduceTypeOnce(op, t) == NumBin(op, t, elem)

ReduceType(op, t) == Widen(op, Widen(op, Widen(op, t)))

\* The term becomes the initial value of a fold over the slots.
BeginReduce(op) ==
  /\ phase = "term"
  /\ op = "*" => LooseProducts \/ elem.sign # "Any"
  /\ phase' = op
  /\ type' = ReduceType(op, type)
  /\ UNCHANGED <<elem, slot, value>>

\* The fold takes in one slot, its own or one it has merged from a peer.
ReduceSlot(v) ==
  /\ phase \in Operator
  /\ v = slot \/ Allows(elem, v)
  /\ \E r \in Values : IsResult(phase, value, v, r) /\ value' = r
  /\ UNCHANGED <<elem, slot, phase, type>>

EndReduce ==
  /\ phase \in Operator
  /\ phase' = "term"
  /\ UNCHANGED <<elem, slot, type, value>>

\* Mutant of Store: the update's type is not compared with the slot's.
StoreUnchecked ==
  /\ phase = "term"
  /\ slot' = value
  /\ phase' = "idle" /\ type' = LiteralType(0) /\ value' = 0
  /\ UNCHANGED elem

\* Mutant of Store: the slot takes the type of the update.
StoreRetyped ==
  /\ phase = "term" /\ Sub(type, elem)
  /\ slot' = value
  /\ elem' = type
  /\ phase' = "idle" /\ type' = LiteralType(0) /\ value' = 0

\* An update the builder accepts is evaluated and stored; any other one is a
\* build error.
Store ==
  /\ phase = "term" /\ Sub(type, elem)
  /\ slot' = value
  /\ phase' = "idle" /\ type' = LiteralType(0) /\ value' = 0
  /\ UNCHANGED elem

Next ==
  \/ \E u \in NumType, v \in Values :
       \/ Begin(u, v) \/ Guard(u, v)
       \/ \E op \in Operator : Apply(op, u, v)
  \/ \E u \in NumType : Pass(u)
  \/ \E op \in Operator : BeginReduce(op)
  \/ \E v \in Values : ReduceSlot(v)
  \/ EndReduce \/ Store

Spec == Init /\ [][Next]_vars

-----------------------------------------------------------------------------
(* Correctness *)

TypeOK ==
  /\ elem \in Spellable
  /\ slot \in Values /\ value \in Values
  /\ phase \in {"idle", "term"} \cup Operator
  /\ type \in NumType

\* The static type of a term allows its value, whatever operators, guards and
\* folds it is made of (numBin: "the sign follows the operator's sound rule").
TermsSound == Allows(type, value)

\* A slot never leaves its declared type, so no peer ever drops a push or the
\* answer to a pull that carries it (checkCombinatorFn, wireToSlot).
PeersAcceptSlot == Allows(elem, slot)
=============================================================================
