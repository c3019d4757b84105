-------------------------------- MODULE Terms --------------------------------
(***************************************************************************)
(* The terms that the bodies of functions and methods consist of: what the *)
(* builder makes of their names and arguments (builder/resolve.go), the    *)
(* type it gives them (builder/checker.go) and what a node evaluates them  *)
(* to (crdt/vector.go).                                                    *)
(*                                                                         *)
(* A term, a type and a value are records with a kind.  funs holds the     *)
(* functions of a program, [params |-> <<[name, type], ...>>, body |-> t], *)
(* here without recursion, which Builder is about.  A string is known by   *)
(* its place in the order of strings.                                      *)
(***************************************************************************)
EXTENDS NumTypes, Sequences
LOCAL INSTANCE SequencesExt

Comparison == {">", "<", ">=", "<=", "==", "/="}
Primitive == Operator \cup Comparison

\* Terms
NumLit(k) == [kind |-> "num", num |-> k]
StrLit(s) == [kind |-> "str", str |-> s]
Name(x) == [kind |-> "name", name |-> x]
App(h, args) == [kind |-> "app", head |-> h, args |-> args]
StructLit(fields) == [kind |-> "struct", fields |-> fields]
Field(e, x) == [kind |-> "field", target |-> e, field |-> x]
Reduce(fn, init, vec) == [kind |-> "reduce", fn |-> fn, init |-> init, vec |-> vec]

\* Guarded results [when |-> e or Otherwise, then |-> e].
Otherwise == [kind |-> "otherwise"]
Guards(cases) == [kind |-> "guards", cases |-> cases]

\* Types.  Of a partial application of a primitive, bound are the types of the
\* operands it has.
NumT(t) == [kind |-> "num", num |-> t]
StrT == [kind |-> "str"]
BoolT == [kind |-> "bool"]
StructT(fields) == [kind |-> "struct", fields |-> fields]
VectorT(t) == [kind |-> "vector", elem |-> t]
FunT(params, result, op) ==
  [kind |-> "fun", params |-> params, result |-> result, op |-> op, bound |-> <<>>]
Untyped == [kind |-> "error"]

NumTop == NumT([domain |-> "Rat", sign |-> "Any"])
IsValue(t) == t.kind \notin {"fun", "error"}

\* F of each element of s.
Each(F(_), s) == <<>> \o [i \in DOMAIN s |-> F(s[i])]

\* F(v) where v is e, which is computed once.
With(e, F(_)) == CHOOSE r \in {F(v) : v \in {e}} : TRUE

ParamNames(funs, f) == {funs[f].params[i].name : i \in DOMAIN funs[f].params}

-----------------------------------------------------------------------------
(* Names and arities *)

RECURSIVE ArityOf(_, _, _)
\* arityOf: how many arguments e is short of a value; params are in scope.
ArityOf(e, params, funs) ==
  CASE e.kind = "name" /\ e.name \in params -> 0
    [] e.kind = "name" /\ e.name \in Primitive -> 2
    [] e.kind = "name" -> Len(funs[e.name].params)
    [] e.kind = "app" -> ArityOf(e.head, params, funs) - Len(e.args)
    [] OTHER -> 0

RECURSIVE Resolves(_, _, _)
\* resolve: every name is known, and no place for a value holds a function.
Resolves(e, params, funs) ==
  LET In(t) == Resolves(t, params, funs)
      Value(t) == In(t) /\ ArityOf(t, params, funs) = 0
  IN CASE e.kind \in {"num", "str"} -> TRUE
       [] e.kind = "name" -> e.name \in params \cup Primitive \cup DOMAIN funs
       [] e.kind = "app" -> /\ In(e.head)
                            /\ Len(e.args) <= ArityOf(e.head, params, funs)
                            /\ \A i \in DOMAIN e.args : Value(e.args[i])
       [] e.kind = "guards" ->
            \A i \in DOMAIN e.cases : /\ e.cases[i].when # Otherwise => In(e.cases[i].when)
                                      /\ In(e.cases[i].then)
       [] e.kind = "struct" -> \A x \in DOMAIN e.fields : Value(e.fields[x])
       [] e.kind = "field" -> Value(e.target)
       [] e.kind = "reduce" -> /\ In(e.fn) /\ ArityOf(e.fn, params, funs) = 2
                               /\ Value(e.init) /\ Value(e.vec)

\* The body of a function is a value.
BodyResolves(f, funs) ==
  /\ Resolves(funs[f].body, ParamNames(funs, f), funs)
  /\ ArityOf(funs[f].body, ParamNames(funs, f), funs) = 0

-----------------------------------------------------------------------------
(* Types *)

RECURSIVE SubVtype(_, _)
SubVtype(a, b) ==
  /\ a.kind = b.kind /\ IsValue(a)
  /\ CASE a.kind = "num" -> Sub(a.num, b.num)
       [] a.kind = "struct" -> /\ DOMAIN a.fields = DOMAIN b.fields
                               /\ \A x \in DOMAIN a.fields : SubVtype(a.fields[x], b.fields[x])
       [] a.kind = "vector" -> SubVtype(a.elem, b.elem)
       [] OTHER -> TRUE

RECURSIVE UnifyTypes(_, _)
\* unify: of two vectors the first.
UnifyTypes(a, b) ==
  CASE a.kind # b.kind -> Untyped
    [] a.kind = "num" -> NumT(Join(a.num, b.num))
    [] a.kind = "struct" ->
         LET t == [x \in DOMAIN a.fields |->
                     IF x \in DOMAIN b.fields THEN UnifyTypes(a.fields[x], b.fields[x])
                                              ELSE Untyped]
         IN IF \/ Cardinality(DOMAIN a.fields) # Cardinality(DOMAIN b.fields)
               \/ \E x \in DOMAIN t : t[x] = Untyped
            THEN Untyped ELSE StructT(t)
    [] OTHER -> a

\* Mutant of ApplyArgs: operands of a comparison are checked one by one only.
ApplyArgsUnmatched(f, args) ==
  LET bound == f.bound \o args
      Takes(a, t) == IF f.op \in Comparison THEN a.kind \in {"num", "str"} ELSE SubVtype(a, t)
  IN CASE \/ Len(args) > Len(f.params)
          \/ \E i \in DOMAIN args : ~Takes(args[i], f.params[i]) -> Untyped
       [] Len(args) < Len(f.params) ->
            [f EXCEPT !.params = SubSeq(@, Len(args) + 1, Len(@)), !.bound = bound]
       [] f.op \in Comparison -> BoolT
       [] f.op \in Operator -> NumT(NumBin(f.op, bound[1].num, bound[2].num))
       [] OTHER -> f.result

\* applyArgs: a comparison takes two numbers or two strings, which is looked at
\* once it has both.
ApplyArgs(f, args) ==
  LET bound == f.bound \o args
      Takes(a, t) == IF f.op \in Comparison THEN a.kind \in {"num", "str"} ELSE SubVtype(a, t)
  IN CASE \/ Len(args) > Len(f.params)
          \/ \E i \in DOMAIN args : ~Takes(args[i], f.params[i]) -> Untyped
       [] Len(args) < Len(f.params) ->
            [f EXCEPT !.params = SubSeq(@, Len(args) + 1, Len(@)), !.bound = bound]
       [] f.op \in Comparison -> IF bound[1].kind = bound[2].kind THEN BoolT ELSE Untyped
       [] f.op \in Operator -> NumT(NumBin(f.op, bound[1].num, bound[2].num))
       [] OTHER -> f.result

RECURSIVE FoldType(_, _, _, _)
\* The type of a fold of f over elements of type elem that has got type acc: more
\* rounds, until it no longer grows.
FoldType(f, acc, elem, rounds) ==
  LET Grown(sat) == IF sat = Untyped THEN sat ELSE UnifyTypes(acc, sat)
      Settled(next) == IF next \in {Untyped, acc} \/ rounds = 1 THEN next
                       ELSE FoldType(f, next, elem, rounds - 1)
  IN With(With(ApplyArgs(f, <<acc, elem>>), Grown), Settled)

RECURSIVE TypeOf(_, _, _)
\* typeOf: scope gives the types of the parameters.
TypeOf(e, scope, funs) ==
  LET Typed(t) == TypeOf(t, scope, funs)
      AllValues(s) == \A i \in DOMAIN s : IsValue(s[i])
  IN CASE e.kind = "num" -> NumT(LiteralType(e.num))
       [] e.kind = "str" -> StrT
       [] e.kind = "name" /\ e.name \in DOMAIN scope -> scope[e.name]
       [] e.kind = "name" /\ e.name \in Primitive ->
            FunT(<<NumTop, NumTop>>, Untyped, e.name)
       [] e.kind = "name" ->
            LET f == funs[e.name]
                inner == [x \in ParamNames(funs, e.name) |->
                            f.params[CHOOSE i \in DOMAIN f.params : f.params[i].name = x].type]
                result == TypeOf(f.body, inner, funs)
            IN IF IsValue(result)
               THEN FunT([i \in DOMAIN f.params |-> f.params[i].type], result, "")
               ELSE Untyped
       [] e.kind = "app" ->
            LET Applied(p) == IF p[1].kind # "fun" \/ ~AllValues(p[2]) THEN Untyped
                              ELSE ApplyArgs(p[1], p[2])
            IN With(<<Typed(e.head), Each(Typed, e.args)>>, Applied)
       [] e.kind = "guards" ->
            LET Then(c) == Typed(c.then)
                results == Each(Then, e.cases)
                ends(i) == i = Len(e.cases)
                fits(i) == IF e.cases[i].when = Otherwise THEN ends(i)
                           ELSE ~ends(i) /\ Typed(e.cases[i].when) = BoolT
            IN IF AllValues(results) /\ \A i \in DOMAIN e.cases : fits(i)
               THEN FoldLeft(UnifyTypes, results[1], Tail(results)) ELSE Untyped
       [] e.kind = "struct" ->
            LET fields == [x \in DOMAIN e.fields |-> Typed(e.fields[x])]
            IN IF AllValues(fields) THEN StructT(fields) ELSE Untyped
       [] e.kind = "field" ->
            LET t == Typed(e.target)
            IN IF t.kind = "struct" /\ e.field \in DOMAIN t.fields
               THEN t.fields[e.field] ELSE Untyped
       [] e.kind = "reduce" ->
            LET Folded(p) == IF /\ p[1].kind = "fun" /\ Len(p[1].params) = 2
                                /\ IsValue(p[2]) /\ p[3].kind = "vector"
                             THEN FoldType(p[1], p[2], p[3].elem, 16) ELSE Untyped
            IN With(<<Typed(e.fn), Typed(e.init), Typed(e.vec)>>, Folded)

-----------------------------------------------------------------------------
(* Values *)

Failed == [kind |-> "error"]
Bool(p) == [kind |-> "bool", bool |-> p]
Fun(f, arity) == [kind |-> "fun", fun |-> f, arity |-> arity, bound |-> <<>>]
Vector(s) == [kind |-> "vector", slots |-> s]

Compare(op, x, y) ==
  CASE op = ">" -> x > y [] op = "<" -> x < y [] op = ">=" -> x >= y
    [] op = "<=" -> x <= y [] op = "==" -> x = y [] op = "/=" -> x # y

\* The value that IsResult describes.
Compute(op, x, y) ==
  CASE op = "+" -> x + y [] op = "-" -> x - y [] op = "*" -> (x * y) \div Unit
    [] op = "max" -> IF x >= y THEN x ELSE y [] op = "min" -> IF x <= y THEN x ELSE y

PrimOp(op, a, b) ==
  CASE {a.kind, b.kind} = {"num"} /\ op \in Operator -> NumLit(Compute(op, a.num, b.num))
    [] {a.kind, b.kind} = {"num"} -> Bool(Compare(op, a.num, b.num))
    [] {a.kind, b.kind} = {"str"} /\ op \in Comparison -> Bool(Compare(op, a.str, b.str))
    [] OTHER -> Failed

RECURSIVE Eval(_, _, _)

\* apply: saturated, partial, or an error.
Apply(f, args, funs) ==
  LET all == f.bound \o args
  IN CASE f.kind # "fun" -> Failed
       [] Len(args) > f.arity -> Failed
       [] Len(args) < f.arity -> [f EXCEPT !.arity = @ - Len(args), !.bound = all]
       [] f.fun \in Primitive -> PrimOp(f.fun, all[1], all[2])
       [] OTHER ->
            LET params == funs[f.fun].params
            IN Eval(funs[f.fun].body,
                    [x \in ParamNames(funs, f.fun) |->
                       all[CHOOSE i \in DOMAIN params : params[i].name = x]],
                    funs)

\* eval: env gives the values of the parameters.
Eval(e, env, funs) ==
  LET Run(t) == Eval(t, env, funs)
      AllValues(s) == \A i \in DOMAIN s : IsValue(s[i])
  IN CASE e.kind \in {"num", "str"} -> e
       [] e.kind = "name" /\ e.name \in DOMAIN env -> env[e.name]
       [] e.kind = "name" -> Fun(e.name, ArityOf(e, {}, funs))
       [] e.kind = "app" ->
            LET args == Each(Run, e.args)
            IN IF AllValues(args) THEN Apply(Run(e.head), args, funs) ELSE Failed
       [] e.kind = "guards" ->
            LET true(i) == e.cases[i].when = Otherwise \/ Run(e.cases[i].when) = Bool(TRUE)
                false(i) == e.cases[i].when # Otherwise /\ Run(e.cases[i].when) = Bool(FALSE)
                taken == {i \in DOMAIN e.cases : true(i) /\ \A j \in 1..(i - 1) : false(j)}
            IN IF taken = {} THEN Failed ELSE Run(e.cases[CHOOSE i \in taken : TRUE].then)
       [] e.kind = "struct" ->
            LET fields == [x \in DOMAIN e.fields |-> Run(e.fields[x])]
            IN IF AllValues(fields) THEN StructLit(fields) ELSE Failed
       [] e.kind = "field" ->
            LET v == Run(e.target)
            IN IF v.kind = "struct" /\ e.field \in DOMAIN v.fields
               THEN v.fields[e.field] ELSE Failed
       [] e.kind = "reduce" ->
            LET f == Run(e.fn)
                v == Run(e.vec)
            IN IF f.kind = "fun" /\ f.arity = 2 /\ Run(e.init).kind # "error" /\ v.kind = "vector"
               THEN FoldLeft(LAMBDA acc, x : IF acc = Failed THEN acc
                                             ELSE Apply(f, <<acc, x>>, funs),
                             Run(e.init), v.slots)
               ELSE Failed

RECURSIVE IsOf(_, _)
\* v is a value of type t.
IsOf(v, t) ==
  /\ v.kind = t.kind
  /\ CASE v.kind = "num" -> Allows(t.num, v.num)
       [] v.kind = "struct" -> /\ DOMAIN v.fields = DOMAIN t.fields
                               /\ \A x \in DOMAIN v.fields : IsOf(v.fields[x], t.fields[x])
       [] v.kind = "vector" -> \A i \in DOMAIN v.slots : IsOf(v.slots[i], t.elem)
       [] v.kind \in {"fun", "error"} -> FALSE
       [] OTHER -> TRUE

-----------------------------------------------------------------------------
(* Methods: [kind, params |-> the types of its parameters, elem, body] *)

\* What the function that a method's body denotes is applied to: slots, or the
\* whole vector.
Given(m) ==
  CASE m.kind = "zip" -> <<m.elem, m.elem>>
    [] m.kind = "local" -> <<m.elem>>
    [] m.kind \in {"write", "query"} -> <<VectorT(m.elem)>>

\* resolveCombinator with resolveFn, and resolve for queries.
MethodResolves(m, funs) ==
  /\ Resolves(m.body, DOMAIN m.params, funs)
  /\ m.kind # "query" => ArityOf(m.body, DOMAIN m.params, funs) = Len(Given(m))

RECURSIVE ContainsVector(_)
ContainsVector(t) ==
  \/ t.kind = "vector"
  \/ t.kind = "struct" /\ \E x \in DOMAIN t.fields : ContainsVector(t.fields[x])

\* The type of what a method returns or stores.
MethodType(m, funs) ==
  LET Result(f) == ApplyArgs(f, Given(m)) IN With(TypeOf(m.body, m.params, funs), Result)

\* checkCombinatorFn and checkQueryFn.
MethodTyped(m, funs) ==
  LET Answers(t) == IsValue(t) /\ ~ContainsVector(t)
      Fits(f) == /\ f.kind = "fun" /\ Len(f.params) = Len(Given(m))
                 /\ IF m.kind = "query"
                    THEN /\ f.params[1].kind = "vector" /\ SubVtype(Given(m)[1], f.params[1])
                         /\ With(ApplyArgs(f, Given(m)), Answers)
                    ELSE SubVtype(ApplyArgs(f, Given(m)), m.elem)
  IN With(TypeOf(m.body, m.params, funs), Fits)

\* Query, Apply and mergeRemote: evalFuncVal, then apply.
RunMethod(m, env, args, funs) ==
  LET f == Eval(m.body, env, funs)
  IN IF f.kind = "fun" /\ f.arity = Len(args) THEN Apply(f, args, funs) ELSE Failed
=============================================================================
