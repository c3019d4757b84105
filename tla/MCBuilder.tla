----------------------------- MODULE MCBuilder ------------------------------
(***************************************************************************)
(* Three families of programs.  In the first, three types refer to each    *)
(* other in every way; in the second, two functions, of one or two guarded *)
(* results each, call each other and themselves in every way; in the       *)
(* third, a method applies a function to what its kind gives it, and the   *)
(* method or the body of the function is one of many terms, most of them   *)
(* ill-typed.                                                              *)
(***************************************************************************)
EXTENDS Methods, TLC

NumAny == [domain |-> "Int", sign |-> "Any"]
NumPos == [domain |-> "Int", sign |-> "NonNeg"]
NumNeg == [domain |-> "Int", sign |-> "NonPos"]

UpTo2(S) == {<<s>> : s \in S} \cup {<<s, t>> : s, t \in S}

-----------------------------------------------------------------------------
(* Types *)

TypeRef(names) == [base : names \cup {"rat"}, elem : {FALSE}] \cup [base : names, elem : {TRUE}]

\* An alias is always of an element; only structs and inline elements have two
\* fields, and here only the first type does.
TypeDefs(x, two) ==
  LET refs == TypeRef({"A", "B", "C"})
      lists == {<<r>> : r \in refs} \cup
               IF two THEN {<<r, [base |-> "C", elem |-> e]>> : r \in refs, e \in BOOLEAN} ELSE {}
  IN  [name : {x}, kind : {"struct", "vector"}, refs : lists] \cup
      [name : {x}, kind : {"alias"}, refs : {<<r>> : r \in {s \in refs : s.elem}}]

Zero == [name |-> "zero", returns |-> None,
         cases |-> <<[call |-> None, op |-> "id", type |-> LiteralType(0)]>>]

TypeProgram(a, b, c) ==
  [types |-> <<a, b, c>>, fns |-> <<Zero>>, merge |-> "zero", updates |-> {},
   slot |-> NumAny, funs |-> <<>>, method |-> None]

Types == TypeDefs("A", TRUE) \X TypeDefs("B", FALSE) \X
         (TypeDefs("C", FALSE) \cup
            {[name |-> "A", kind |-> "struct", refs |-> <<[base |-> "rat", elem |-> FALSE]>>]})

-----------------------------------------------------------------------------
(* Functions *)

Result ==
  [call : {None}, op : {"id"}, type : {LiteralType(k) : k \in -1..1}] \cup
  [call : {"f", "g"}, op : {"id", "-"}, type : {NumPos}]

FnDefs(x) == [name : {x}, returns : {None, NumPos}, cases : UpTo2(Result)]

\* Declared twice, called and not declared, no merge, and a reserved name.
BadPrograms ==
  LET P(fns, merge) == [types |-> <<>>, fns |-> fns, merge |-> merge, updates |-> {},
                        slot |-> NumAny, funs |-> <<>>, method |-> None]
      wild == [name |-> "f", returns |-> None,
               cases |-> <<[call |-> "h", op |-> "id", type |-> NumPos]>>]
  IN  {P(<<Zero, Zero>>, "zero"), P(<<wild>>, "f"), P(<<Zero>>, None),
       [P(<<Zero>>, "zero") EXCEPT
          !.types = <<[name |-> "rat", kind |-> "struct", refs |-> <<>>]>>]}

\* The merge is a function of its own, so that f and g may call each other.
FnProgram(f, g, updates) ==
  [types |-> <<>>, fns |-> <<f, g, Zero>>, merge |-> "zero", updates |-> updates,
   slot |-> NumPos, funs |-> <<>>, method |-> None]

-----------------------------------------------------------------------------
(* Methods *)

Param(x, t) == [name |-> x, type |-> t]
Pos == NumT(NumPos)
Rec(t) == StructT([n |-> t])
RecLit(e) == StructLit([n |-> e])

\* Functions to call: a field, a join of three, and a choice between vectors of
\* different types.
Library == [
  get |-> [params |-> <<Param("r", Rec(Pos))>>, body |-> Field(Name("r"), "n")],
  top |-> [params |-> <<Param("k", Pos), Param("a", NumT(NumAny)), Param("b", Pos)>>,
           body |-> App(Name("max"), <<Name("k"), App(Name("max"), <<Name("a"), Name("b")>>)>>)],
  either |-> [params |-> <<Param("v", VectorT(Pos)), Param("w", VectorT(NumT(NumAny)))>>,
              body |-> Guards(<<[when |-> App(Name(">"), <<NumLit(1), NumLit(0)>>), then |-> Name("v")],
                                [when |-> Otherwise, then |-> Name("w")]>>)]]

Atoms == {NumLit(1), StrLit(1)} \cup
         {Name(x) : x \in {"x", "y", "+", "-", ">", "max", "get", "top", "unknown"}}
Plain == {NumLit(1), StrLit(1), Name("x"), Name("y")}
Heads == {Name(x) : x \in {"-", ">", "max", "get", "top"}}

Calls1 == {App(h, <<e>>) : h \in Heads, e \in Plain}
Calls2 == {App(h, <<e, f>>) : h \in Heads, e, f \in Plain}
Shallow ==
  {App(h, <<e>>) : h, e \in Atoms} \cup {App(h, <<e, f>>) : h, e \in Atoms, f \in Plain}
    \cup {RecLit(e) : e \in Atoms} \cup {Field(e, x) : e \in Atoms, x \in {"n", "m"}}
    \cup {Reduce(h, e, f) : h, e \in Atoms, f \in Plain}

\* Terms one level deeper, as arguments, guards, fields and folds.
Deep ==
  {App(h, <<e, f>>) : h \in Heads, e \in Calls1 \cup Calls2, f \in Plain}
    \cup {App(h, <<e>>) : h \in Calls1 \cup Heads,
                          e \in Calls2 \cup Plain \cup {RecLit(f) : f \in Plain}}
    \cup {Guards(<<[when |-> c, then |-> e], [when |-> o, then |-> f]>>) :
            c \in {g \in Calls1 \cup Calls2 : g.head \in {Name(">"), Name("get")}}
                    \cup {App(h, <<StrLit(1)>>) : h \in Calls1},
            o \in {Otherwise, App(Name(">"), <<Name("x"), NumLit(1)>>)},
            e \in Plain \cup {RecLit(NumLit(1)), Name("max")}, f \in Plain \cup {RecLit(Name("x"))}}
    \cup {Reduce(h, e, f) : h \in Calls1 \cup Heads,
                            e \in Plain \cup {RecLit(NumLit(0)), App(Name("-"), <<Name("x"), NumLit(1)>>)},
                            f \in {Name("y"), App(Name("either"), <<Name("y"), Name("y")>>)}}
    \cup {Field(RecLit(e), "n") : e \in Calls2}

\* The kinds of methods, with the second parameter of the function they apply.
Kinds == {"query", "write", "local", "zip"}
Second(kind, elem) == IF kind \in {"query", "write"} THEN VectorT(elem) ELSE elem

\* A method is the function q, or q with its first argument.
Method(kind, elem, body) ==
  [kind |-> kind, params |-> [k |-> Pos], elem |-> elem, body |-> body]
Applied(kind) == IF kind = "zip" THEN Name("q") ELSE App(Name("q"), <<Name("k")>>)

MethodProgram(m, first, body) ==
  [types |-> <<>>, fns |-> <<Zero>>, merge |-> "zero", updates |-> {}, slot |-> NumAny,
   method |-> m,
   funs |-> Library @@ [q |-> [params |-> <<Param("x", first), Param("y", Second(m.kind, m.elem))>>,
                               body |-> body]]]

\* The terms that may be the body of q.
Resolving(S) ==
  {e \in S : Resolves(e, {"x", "y"}, Library) /\ ArityOf(e, {"x", "y"}, Library) = 0}

SmallMethods ==
  {MethodProgram(Method(k, t, Applied(k)), IF k = "zip" THEN t ELSE Pos, e) :
     k \in Kinds, t \in {Pos, Rec(Pos)}, e \in Atoms \cup Resolving(Shallow)}
  \cup {MethodProgram(Method(k, Pos, e), Pos, Name("y")) :
          k \in Kinds, e \in Atoms \cup {Name("q")}
                             \cup {App(Name("q"), <<f>>) : f \in Calls2 \cup {Name("k")}}}

Programs == BadPrograms \cup SmallMethods

\* The larger terms in a query or a local update of slots of either type.
MCInit ==
  \/ Init
  \/ \E t \in Types : InitWith(TypeProgram(t[1], t[2], t[3]))
  \/ \E f \in FnDefs("f"), g \in FnDefs("g"), u \in {{}, {"g"}} : InitWith(FnProgram(f, g, u))
  \/ \E k \in {"query", "local"}, t \in {Pos, Rec(Pos)}, e \in Resolving(Deep) :
       InitWith(MethodProgram(Method(k, t, Applied(k)), Pos, e))

MCSpec == MCInit /\ [][Next]_vars /\ WF_vars(Build)

Ints == -2..2
=============================================================================
