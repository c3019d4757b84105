------------------------------- MODULE Methods ------------------------------
(***************************************************************************)
(* The methods of a program, whose bodies are terms, with the functions    *)
(* they call, here not in circles: what the builder asks of them before it *)
(* accepts the program, and what running a method gives.                   *)
(***************************************************************************)
EXTENDS Builder, Terms

CONSTANT MaxSlots   \* bound: the slots of the vector a method is run on

\* Names resolve in the body of each function.
FunsResolve(p) == \A f \in DOMAIN p.funs : BodyResolves(f, p.funs)

\* Every function has a type.
FunsTyped(p) == \A f \in DOMAIN p.funs : TypeOf(Name(f), <<>>, p.funs) # Untyped

\* The method returns what a slot takes, or what a query may answer with.
MethodAccepted(p) ==
  p.method # None => MethodResolves(p.method, p.funs) /\ MethodTyped(p.method, p.funs)

RECURSIVE Members(_)
\* The values of type t in use.
Members(t) ==
  CASE t.kind = "num" -> {NumLit(v) : v \in {w \in Values : Allows(t.num, w)}}
    [] t.kind = "struct" ->
         LET any == UNION {Members(t.fields[x]) : x \in DOMAIN t.fields}
         IN {v \in {StructLit(g) : g \in [DOMAIN t.fields -> any]} : IsOf(v, t)}
    [] t.kind = "vector" ->
         {Vector(s) : s \in UNION {[1..n -> Members(t.elem)] : n \in 0..MaxSlots}}

\* The method is run with parameters of their types, on any slots or vector.
MethodOutcomes(p) ==
  IF p.method = None THEN {}
  ELSE LET given == Given(p.method)
           inputs == UNION {Members(given[i]) : i \in DOMAIN given}
       IN {RunMethod(p.method, [k |-> k], args, p.funs) :
             k \in Members(p.method.params.k), args \in [DOMAIN given -> inputs]}

\* A method of a program that was built never fails when it is run, and stores
\* or answers with what its type says: no name is unbound, no function is short
\* of an argument or has one too many, nothing is folded, compared or taken apart
\* that is not of that kind (eval's errors, which the builder is to rule out).
MethodsSound ==
  verdict = "built" /\ ret # None /\ ret.fn = None =>
    IsOf(ret.value, IF prog.method.kind = "query" THEN MethodType(prog.method, prog.funs)
                                                  ELSE prog.method.elem)
=============================================================================
