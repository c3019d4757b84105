------------------------------- MODULE Builder ------------------------------
(***************************************************************************)
(* How builder/ turns a parsed program into a plan: the type registry, the *)
(* symbol table, the inference of return types, the checks of the methods  *)
(* against the slots, and the prover's verdict, in this order and each     *)
(* with its ways to refuse the program; and what the functions of a        *)
(* program that was built then return.                                     *)
(*                                                                         *)
(* Types and functions refer to each other by name, in any order and in    *)
(* circles.  Both are visited depth first with a memo, so the state is a   *)
(* stack of visits and the memo.                                           *)
(*                                                                         *)
(* A function body is a sequence of guarded results.  A result is a value  *)
(* of some static type, a call, or an operator on a call and a value; its  *)
(* guard may be true or false whenever it is evaluated.  A program may     *)
(* also have a method and functions with bodies that are terms; what the   *)
(* builder makes of terms is left to Methods.                              *)
(***************************************************************************)
EXTENDS NumTypes, Sequences

CONSTANTS
  Program,           \* the programs in question
  Values,            \* bound: the rationals in use, in units of 1 / Unit
  BodiesResolve(_),  \* names resolve in the bodies that are terms
  BodiesTyped(_),    \* these bodies have types
  MethodFits(_),     \* the method, if there is one, resolves and has its type
  Outcomes(_),       \* what running the method may give
  None               \* no type, no name

Elements(s) == {s[i] : i \in DOMAIN s}

\* What the parser hands to the builder: declarations that refer to each other
\* by any names.
TypeDef == [name : STRING, kind : {"struct", "vector", "alias"},
            refs : Seq([base : STRING, elem : BOOLEAN])]
Guarded == [call : STRING \cup {None}, op : Operator \cup {"id"}, type : NumType]
FnDef == [name : STRING, returns : NumType \cup {None}, cases : Seq(Guarded)]

IsProgram(p) ==
  /\ p.types \in Seq(TypeDef) /\ p.fns \in Seq(FnDef)
  /\ p.merge \in STRING \cup {None} /\ p.updates \subseteq STRING
  /\ p.slot \in NumType

ASSUME ProgramAssumption == \A p \in Program : IsProgram(p)
ASSUME ValuesAssumption == Values \subseteq Int
ASSUME NoneAssumption == None \notin STRING /\ None \notin NumType

VARIABLES
  prog,      \* the program
  phase,     \* the pass the builder is in
  verdict,   \* "open", "built" or "rejected"
  stack,     \* the visits under way, the innermost last
  types,     \* the names in the type registry
  result,    \* result[f]: the return type in the memo, or None
  loose,     \* history: some call was typed by deferring, see Lax
  ret        \* a function and a value it has returned, once built

checkVars == <<types, result, loose>>
vars == <<prog, phase, verdict, stack, checkVars, ret>>

TypeNames == {t.name : t \in Elements(prog.types)}
TypeNamed(x) == CHOOSE t \in Elements(prog.types) : t.name = x
OfKind(kinds) == {t.name : t \in {u \in Elements(prog.types) : u.kind \in kinds}}

Fn == {f.name : f \in Elements(prog.fns)}
FnNamed(f) == CHOOSE d \in Elements(prog.fns) : d.name = f
Cases(f) == FnNamed(f).cases
Declared(f) == FnNamed(f).returns

Distinct(s) == \A i, j \in DOMAIN s : s[i].name = s[j].name => i = j

InitWith(p) ==
  /\ prog = p
  /\ phase = "declare" /\ verdict = "open"
  /\ stack = <<>>
  /\ types = {}
  /\ result = [f \in Fn |-> None]
  /\ loose = FALSE
  /\ ret = None

Init == \E p \in Program : InitWith(p)

-----------------------------------------------------------------------------
(* The stack of visits *)

Top == stack[Len(stack)]
Visiting == {v.name : v \in Elements(stack)}

Push(x) == stack' = Append(stack, [name |-> x, at |-> 1, acc |-> None])
Pop == stack' = SubSeq(stack, 1, Len(stack) - 1)
Advance(t) ==
  stack' = [stack EXCEPT ![Len(stack)] = [name |-> Top.name, at |-> Top.at + 1, acc |-> t]]

Reject == verdict' = "rejected" /\ UNCHANGED <<prog, phase, stack, checkVars, ret>>
Enter(p) == phase' = p /\ UNCHANGED <<prog, verdict, stack, checkVars, ret>>

\* The first of names that s declares, in source order.
First(s, names) ==
  LET i == CHOOSE k \in DOMAIN s : s[k].name \in names /\ \A j \in 1..(k - 1) : s[j].name \notin names
  IN  s[i].name

-----------------------------------------------------------------------------
(* The type registry *)

\* The names of types, sorted into the three kinds, are different from each
\* other and from the reserved ones, for which "rat" stands.
DeclareTypes ==
  /\ verdict = "open" /\ phase = "declare"
  /\ IF Distinct(prog.types) /\ "rat" \notin TypeNames THEN Enter("types") ELSE Reject

\* The next type in source order that is not in the registry yet.
BeginType ==
  /\ verdict = "open" /\ phase = "types" /\ stack = <<>>
  /\ TypeNames \ types # {}
  /\ Push(First(prog.types, TypeNames \ types))
  /\ UNCHANGED <<prog, phase, verdict, checkVars, ret>>

\* A number or a string, the element of a vector, or a struct or an alias.
Fits(ref) ==
  \/ ref.base = "rat" /\ ~ref.elem
  \/ ref.elem /\ ref.base \in OfKind({"vector"})
  \/ ~ref.elem /\ ref.base \in OfKind({"struct", "alias"})

Ref == TypeNamed(Top.name).refs[Top.at]
HasRef == Top.at <= Len(TypeNamed(Top.name).refs)

\* Mutant of ResolveRef: a type under way passes for one in the registry.
ResolveRefUnguarded ==
  /\ verdict = "open" /\ phase = "types" /\ stack # <<>> /\ HasRef
  /\ IF ~Fits(Ref) THEN Reject
     ELSE /\ IF Ref.base \in types \cup Visiting \cup {"rat"} THEN Advance(None)
             ELSE Push(Ref.base)
          /\ UNCHANGED <<prog, phase, verdict, checkVars, ret>>

\* One reference of the innermost type: to a type in the registry, to one on
\* the stack, which is a circle, or to one that has to be visited first.
ResolveRef ==
  /\ verdict = "open" /\ phase = "types" /\ stack # <<>> /\ HasRef
  /\ IF ~Fits(Ref) \/ Ref.base \in Visiting THEN Reject
     ELSE /\ IF Ref.base \in types \cup {"rat"} THEN Advance(None)
             ELSE Push(Ref.base)
          /\ UNCHANGED <<prog, phase, verdict, checkVars, ret>>

\* Mutant of FinishType: the visit stays on the stack.
FinishTypeKept ==
  /\ verdict = "open" /\ phase = "types" /\ stack # <<>> /\ ~HasRef
  /\ types' = types \cup {Top.name}
  /\ UNCHANGED <<prog, phase, verdict, stack, result, loose, ret>>

\* All references are resolved: the type enters the registry.
FinishType ==
  /\ verdict = "open" /\ phase = "types" /\ stack # <<>> /\ ~HasRef
  /\ types' = types \cup {Top.name}
  /\ Pop
  /\ UNCHANGED <<prog, phase, verdict, result, loose, ret>>

\* All types are in the registry.
TypesResolved ==
  /\ verdict = "open" /\ phase = "types" /\ stack = <<>> /\ TypeNames \subseteq types
  /\ Enter("names")

\* The symbol table: functions have names of their own, every call is of one of
\* them, and names resolve in the body of each.
ResolveNames ==
  /\ verdict = "open" /\ phase = "names"
  /\ IF /\ Distinct(prog.fns)
        /\ \A f \in Fn : \A c \in Elements(Cases(f)) : c.call \in Fn \cup {None}
        /\ BodiesResolve(prog)
     THEN Enter("returns") ELSE Reject

-----------------------------------------------------------------------------
(* Return types *)

\* A visit of f begins; a declared type is in the memo from now on.
Visit(f) ==
  /\ Push(f)
  /\ result' = [result EXCEPT ![f] = Declared(f)]
  /\ UNCHANGED <<prog, phase, verdict, types, loose, ret>>

\* The next function in source order that has no return type yet.
BeginFn ==
  /\ verdict = "open" /\ phase = "returns" /\ stack = <<>>
  /\ \E f \in Fn : result[f] = None
  /\ Visit(First(prog.fns, {f \in Fn : result[f] = None}))

Case == Cases(Top.name)[Top.at]
HasCase == Top.at <= Len(Cases(Top.name))
Typing == verdict = "open" /\ phase = "returns" /\ stack # <<>> /\ HasCase

\* The type of a result whose call has type t; None stands for an unknown one.
CaseType(c, t) ==
  IF c.op = "id" \/ t = None THEN t ELSE NumBin(c.op, t, c.type)

\* Mutant of Unify: the first of two types is kept.
UnifyFirst(t, u) == IF t = None THEN u ELSE t

\* The type of guarded results: an unknown one adds nothing.
Unify(t, u) == IF t = None THEN u ELSE IF u = None THEN t ELSE Join(t, u)

\* A result that is a value.
TypeValue ==
  /\ Typing /\ Case.call = None
  /\ Advance(Unify(Top.acc, Case.type))
  /\ UNCHANGED <<prog, phase, verdict, checkVars, ret>>

\* A call of a function whose return type is in the memo.
TypeCall ==
  /\ Typing /\ Case.call # None /\ result[Case.call] # None
  /\ Advance(Unify(Top.acc, CaseType(Case, result[Case.call])))
  /\ UNCHANGED <<prog, phase, verdict, checkVars, ret>>

\* A call of a function that has to be visited first.
VisitCallee ==
  /\ Typing /\ Case.call # None /\ result[Case.call] = None
  /\ Case.call \notin Visiting
  /\ Visit(Case.call)

\* The deferral may lose something: all but a plain call of the function to
\* itself, whose type adds nothing to what its other results have.
Lax == ~(Case.call = Top.name /\ Case.op = "id")

\* Mutant of Defer: the call waits for the return type of the function.
DeferBlocked == Typing /\ FALSE /\ UNCHANGED vars

\* The callee is being visited and has no declared type: its type is unknown.
Defer ==
  /\ Typing /\ Case.call # None /\ result[Case.call] = None
  /\ Case.call \in Visiting
  /\ Advance(Unify(Top.acc, CaseType(Case, None)))
  /\ loose' = (loose \/ Lax)
  /\ UNCHANGED <<prog, phase, verdict, types, result, ret>>

FnTyped == verdict = "open" /\ phase = "returns" /\ stack # <<>> /\ ~HasCase

\* Mutant of FinishFn: an unknown return type passes for any number.
FinishFnUnknown ==
  /\ FnTyped
  /\ LET t == IF Top.acc = None THEN [domain |-> "Rat", sign |-> "Any"] ELSE Top.acc
         d == Declared(Top.name)
     IN  IF d # None /\ ~Sub(t, d) THEN Reject
         ELSE /\ result' = [result EXCEPT ![Top.name] = IF d = None THEN t ELSE d]
              /\ Pop
              /\ UNCHANGED <<prog, phase, verdict, types, loose, ret>>

\* All results are typed.  The type must be known, and within the declared one.
FinishFn ==
  /\ FnTyped
  /\ LET d == Declared(Top.name)
     IN  IF Top.acc = None \/ (d # None /\ ~Sub(Top.acc, d)) THEN Reject
         ELSE /\ result' = [result EXCEPT ![Top.name] = IF d = None THEN Top.acc ELSE d]
              /\ Pop
              /\ UNCHANGED <<prog, phase, verdict, types, loose, ret>>

\* All functions have return types, or some body has none.
ReturnsInferred ==
  /\ verdict = "open" /\ phase = "returns" /\ stack = <<>>
  /\ \A f \in Fn : result[f] # None
  /\ IF BodiesTyped(prog) THEN Enter("methods") ELSE Reject

-----------------------------------------------------------------------------
(* Methods, the prover, and evaluation *)

\* There is a merge, the merge and all updates return what a slot takes, and so
\* does the method, or what a query may answer with.
CheckMethods ==
  /\ verdict = "open" /\ phase = "methods"
  /\ IF /\ prog.merge # None /\ {prog.merge} \cup prog.updates \subseteq Fn
        /\ \A f \in {prog.merge} \cup prog.updates : Sub(result[f], prog.slot)
        /\ MethodFits(prog)
     THEN Enter("proofs") ELSE Reject

\* The functions f calls, directly or through others, and f itself.
Calls(f) == {c.call : c \in Elements(Cases(f))} \ {None}
Reach(f) ==
  {g \in Fn : \A S \in SUBSET Fn : f \in S /\ (\A h \in S : Calls(h) \subseteq S) => g \in S}

\* No call leads f back to a function it is in.
Inlines(f) == \A g \in Reach(f) : \A h \in Calls(g) : g \notin Reach(h)

\* Mutant of Prove: recursive functions are left to the solver.
ProveRecursive ==
  /\ verdict = "open" /\ phase = "proofs"
  /\ verdict' \in {"built", "rejected"}
  /\ UNCHANGED <<prog, phase, stack, checkVars, ret>>

\* The merge and the updates are lowered to formulas by inlining, which refuses
\* recursion, and the solver finds the lattice laws to hold, or not.  A program
\* may also be refused for its collections.
Prove ==
  /\ verdict = "open" /\ phase = "proofs"
  /\ verdict' \in IF \A f \in {prog.merge} \cup prog.updates : Inlines(f)
                    THEN {"built", "rejected"} ELSE {"rejected"}
  /\ UNCHANGED <<prog, phase, stack, checkVars, ret>>

\* Any function may be called by some query.  An evaluation begins with the
\* function whose result needs no call, ...
Evaluate ==
  /\ verdict = "built" /\ ret = None
  /\ \E f \in Fn : \E c \in Elements(Cases(f)), v \in Values :
       /\ c.call = None /\ Allows(c.type, v)
       /\ ret' = [fn |-> f, value |-> v]
  /\ UNCHANGED <<prog, phase, verdict, stack, checkVars>>

\* ... and goes on in the function that has called it.
Return ==
  /\ verdict = "built" /\ ret # None /\ ret.fn \in Fn
  /\ \E f \in Fn : \E c \in Elements(Cases(f)), w, r \in Values :
       /\ c.call = ret.fn
       /\ IF c.op = "id" THEN r = ret.value
          ELSE Allows(c.type, w) /\ IsResult(c.op, ret.value, w, r)
       /\ ret' = [fn |-> f, value |-> r]
  /\ UNCHANGED <<prog, phase, verdict, stack, checkVars>>

\* The method is run; no function is what has returned.
Run ==
  /\ verdict = "built" /\ ret = None
  /\ \E v \in Outcomes(prog) : ret' = [fn |-> None, value |-> v]
  /\ UNCHANGED <<prog, phase, verdict, stack, checkVars>>

-----------------------------------------------------------------------------
(* The specification *)

Build ==
  \/ DeclareTypes \/ BeginType \/ ResolveRef \/ FinishType \/ TypesResolved
  \/ ResolveNames
  \/ BeginFn \/ TypeValue \/ TypeCall \/ VisitCallee \/ Defer \/ FinishFn
  \/ ReturnsInferred \/ CheckMethods \/ Prove

Next == Build \/ Evaluate \/ Return \/ Run

Spec == Init /\ [][Next]_vars

\* The builder is one goroutine that runs to its end.
FairSpec == Spec /\ WF_vars(Build)

-----------------------------------------------------------------------------
(* Correctness *)

Phases == <<"declare", "types", "names", "returns", "methods", "proofs">>
Past(p) == \E i, j \in DOMAIN Phases : Phases[i] = p /\ Phases[j] = phase /\ i < j

\* Every variable holds a value of its kind, nothing is visited twice at once,
\* and a type is not known before its visit is over.
TypeOK ==
  /\ IsProgram(prog)
  /\ phase \in Elements(Phases) /\ verdict \in {"open", "built", "rejected"}
  /\ types \subseteq TypeNames
  /\ result \in [Fn -> NumType \cup {None}]
  /\ loose \in BOOLEAN
  /\ stack \in Seq([name : STRING, at : Nat \ {0}, acc : NumType \cup {None}])
  /\ Distinct(stack)
  /\ phase = "types" => Visiting \subseteq TypeNames \ types
  /\ phase = "returns" => Visiting \subseteq Fn
  /\ phase \notin {"types", "returns"} => stack = <<>>
  /\ ret # None => ret.fn = None \/ (ret.fn \in Fn /\ ret.value \in Values)

\* Types with names of their own whose references fit, and that do not refer to
\* each other in a circle.
WellFormed ==
  /\ Distinct(prog.types) /\ "rat" \notin TypeNames
  /\ \A t \in Elements(prog.types) : \A ref \in Elements(t.refs) : Fits(ref)
  /\ \A S \in SUBSET TypeNames :
       S # {} => \E x \in S : \A ref \in Elements(TypeNamed(x).refs) : ref.base \notin S

\* The registry takes exactly the well-formed types: no circle through structs,
\* aliases and the elements of vectors gets by, and no type that several others
\* refer to is taken for one (resolveTypes).
TypesResolveRight ==
  /\ Past("types") => WellFormed
  /\ verdict = "rejected" /\ phase \in {"declare", "types"} => ~WellFormed

\* A group of functions without declared types that only ever call each other
\* is never given return types (inferReturn: "wholly-unanchored recursion is
\* rejected").
ReturnsAnchored ==
  Past("returns") =>
    \A S \in SUBSET Fn :
      S # {} => \E f \in S : \/ Declared(f) # None
                             \/ \E c \in Elements(Cases(f)) : c.call \notin S

\* A function only returns what its return type allows, through calls of any
\* depth, unless some call was typed in a way that loses something: as an
\* operand, or in a circle of several functions, while its callee was visited.
ReturnsSound ==
  verdict = "built" /\ ~loose /\ ret # None /\ ret.fn \in Fn =>
    Allows(result[ret.fn], ret.value)

\* No update of a program that was built stores what its slot does not take: a
\* return type on which a deferred call may have lost something is never that of
\* an update (checkCombinatorFn, and refFn of the prover, which refuses recursion
\* and with it all calls that are deferred).
UpdatesFitSlot ==
  verdict = "built" /\ ret # None /\ ret.fn \in prog.updates =>
    Allows(prog.slot, ret.value)

\* The builder comes to a verdict on every program, whatever circles its types
\* and functions go in (resolving, inProgress).
Terminates == <>(verdict # "open")
=============================================================================
