--------------------------- MODULE BuilderProofs ----------------------------
(***************************************************************************)
(* Proofs about the builder, for programs of any size, whatever the terms  *)
(* in them: the registry takes exactly the well-formed types, functions    *)
(* have return types only if something anchors them, and what functions    *)
(* return, and updates store, is of these types.                           *)
(***************************************************************************)
EXTENDS Builder, FiniteSetTheorems, SequenceTheorems, WellFoundedInduction,
        NaturalsInduction, TLAPS

-----------------------------------------------------------------------------
(* The lattice of numeric types, and the result rules; these lemmas are     *)
(* those that TypedSlotProofs begins with.                                 *)

LEMMA TypeFields ==
  ASSUME NEW t \in NumType
  PROVE  /\ t.domain \in Domain /\ t.sign \in Sign
         /\ t = [domain |-> t.domain, sign |-> t.sign]
  BY DEF NumType

LEMMA JoinType ==
  ASSUME NEW a \in NumType, NEW b \in NumType
  PROVE  Join(a, b) \in NumType
  BY DEF Join, JoinDomain, JoinSign, NumType, Domain, Sign

LEMMA BinType ==
  ASSUME NEW op \in Operator, NEW a \in NumType, NEW b \in NumType
  PROVE  NumBin(op, a, b) \in NumType
  BY DEF NumBin, BinSign, AddSign, NegateSign, MulSign, MaxSign, MinSign,
         JoinDomain, NumType, Domain, Sign, Operator

\* Sub is a partial order.
LEMMA SubOrder ==
  ASSUME NEW a \in NumType, NEW b \in NumType, NEW c \in NumType
  PROVE  /\ Sub(a, a)
         /\ Sub(a, b) /\ Sub(b, c) => Sub(a, c)
         /\ Sub(a, b) /\ Sub(b, a) => a = b
  <1>1. /\ SubSign(a.sign, b.sign) /\ SubSign(b.sign, c.sign) => SubSign(a.sign, c.sign)
        /\ SubSign(a.sign, b.sign) /\ SubSign(b.sign, a.sign) => a.sign = b.sign
    BY TypeFields DEF SubSign, Sign
  <1>2. /\ SubDomain(a.domain, b.domain) /\ SubDomain(b.domain, c.domain)
             => SubDomain(a.domain, c.domain)
        /\ SubDomain(a.domain, b.domain) /\ SubDomain(b.domain, a.domain)
             => a.domain = b.domain
    BY TypeFields DEF SubDomain, Domain
  <1> QED
    BY <1>1, <1>2, TypeFields DEF Sub, SubSign, SubDomain

\* Join is the least upper bound.
LEMMA JoinLeastUpperBound ==
  ASSUME NEW a \in NumType, NEW b \in NumType, NEW c \in NumType
  PROVE  /\ Sub(a, Join(a, b)) /\ Sub(b, Join(a, b))
         /\ Sub(a, c) /\ Sub(b, c) => Sub(Join(a, b), c)
  BY TypeFields DEF Sub, SubDomain, SubSign, Join, JoinDomain, JoinSign, Domain, Sign

\* A value of a type is a value of every type above it.
LEMMA SubAllows ==
  ASSUME NEW a \in NumType, NEW b \in NumType, Sub(a, b), NEW v \in Int, Allows(a, v)
  PROVE  Allows(b, v)
  BY TypeFields DEF Sub, SubDomain, SubSign, Allows, Domain, Sign

-----------------------------------------------------------------------------
(* The result rules are sound *)

LEMMA IntegerMultiple ==
  ASSUME NEW v \in Int
  PROVE  IsInt(v) <=> \E i \in Int : v = i * Unit
  <1>1. Unit \in Int /\ Unit > 0
    BY UnitAssumption
  <1>2. v = Unit * (v \div Unit) + (v % Unit) /\ v \div Unit \in Int
    BY <1>1
  <1>3. ASSUME NEW i \in Int, v = i * Unit PROVE v % Unit = 0
    <2> DEFINE d == i - (v \div Unit)
    <2>1. d \in Int /\ v % Unit = Unit * d /\ v % Unit \in Int
      BY <1>1, <1>2, <1>3
    <2>2. 0 <= v % Unit /\ v % Unit < Unit
      BY <1>1
    <2>3. d = 0
      <3>1. d >= 1 => Unit * d >= Unit
        BY <1>1, <2>1
      <3>2. d <= -1 => Unit * d <= -Unit
        BY <1>1, <2>1
      <3> QED
        BY <1>1, <2>1, <2>2, <3>1, <3>2
    <2> QED
      BY <1>1, <2>1, <2>3
  <1>4. ASSUME v % Unit = 0 PROVE v = (v \div Unit) * Unit
    BY <1>1, <1>2, <1>4
  <1> QED
    BY <1>2, <1>3, <1>4 DEF IsInt

LEMMA ResultInteger ==
  ASSUME NEW op \in Operator, NEW x \in Int, NEW y \in Int, NEW r \in Int,
         IsResult(op, x, y, r), IsInt(x), IsInt(y)
  PROVE  IsInt(r)
  <1>1. PICK i \in Int, j \in Int : x = i * Unit /\ y = j * Unit
    BY IntegerMultiple
  <1>2. Unit \in Int /\ Unit # 0
    BY UnitAssumption
  <1>3. CASE op \in {"+", "-"}
    <2>1. ASSUME NEW k \in Int, NEW m \in Int, NEW u \in Int
          PROVE  k * u + m * u = (k + m) * u /\ k * u - m * u = (k - m) * u
      OBVIOUS
    <2>2. r = x + y \/ r = x - y
      BY <1>3 DEF IsResult
    <2>3. r = (i + j) * Unit \/ r = (i - j) * Unit
      BY <1>1, <1>2, <2>1, <2>2
    <2> QED
      BY <1>1, <2>3, IntegerMultiple
  <1>4. CASE op = "*"
    <2>1. ASSUME NEW k \in Int, NEW m \in Int, NEW u \in Int
          PROVE  (k * u) * (m * u) = (k * m * u) * u
      OBVIOUS
    <2>2. r * Unit = (i * j * Unit) * Unit
      BY <1>1, <1>2, <1>4, <2>1 DEF IsResult
    <2>3. r = i * j * Unit
      BY <1>1, <1>2, <2>2
    <2>4. i * j \in Int
      BY <1>1
    <2> QED
      BY <2>3, <2>4, IntegerMultiple
  <1>5. CASE op \in {"max", "min"}
    BY <1>5 DEF IsResult
  <1> QED
    BY <1>3, <1>4, <1>5 DEF Operator

\* The sign of a product, for the signs of its factors.
LEMMA ProductSign ==
  ASSUME NEW x \in Int, NEW y \in Int, NEW r \in Int, r * Unit = x * y
  PROVE  /\ (x >= 0 /\ y >= 0) \/ (x <= 0 /\ y <= 0) => r >= 0
         /\ (x >= 0 /\ y <= 0) \/ (x <= 0 /\ y >= 0) => r <= 0
         /\ x = 0 \/ y = 0 => r = 0
  BY UnitAssumption, Z3

LEMMA ResultAllowed ==
  ASSUME NEW op \in Operator, NEW a \in NumType, NEW b \in NumType,
         NEW x \in Int, NEW y \in Int, NEW r \in Int,
         Allows(a, x), Allows(b, y), IsResult(op, x, y, r),
         ~(op = "*" /\ a.sign = "Any" /\ b.sign = "Any")
  PROVE  Allows(NumBin(op, a, b), r)
  <1>1. JoinDomain(a.domain, b.domain) = "Int" => IsInt(r)
    BY TypeFields, ResultInteger DEF JoinDomain, Allows, Domain
  <1> DEFINE s == BinSign(op, a.sign, b.sign)
  <1>2. /\ s = "NonNeg" => r >= 0
        /\ s = "NonPos" => r <= 0
        /\ s = "Zero" => r = 0
    <2>1. CASE op = "*"
      BY <2>1, TypeFields, ProductSign DEF BinSign, MulSign, Allows, IsResult, Sign
    <2>2. CASE op = "+"
      BY <2>2, TypeFields DEF BinSign, AddSign, Allows, IsResult, Sign
    <2>3. CASE op = "-"
      BY <2>3, TypeFields DEF BinSign, AddSign, NegateSign, Allows, IsResult, Sign
    <2>4. CASE op = "max"
      BY <2>4, TypeFields DEF BinSign, MaxSign, Allows, IsResult, Sign
    <2>5. CASE op = "min"
      BY <2>5, TypeFields DEF BinSign, MinSign, Allows, IsResult, Sign
    <2> QED
      BY <2>1, <2>2, <2>3, <2>4, <2>5 DEF Operator
  <1> QED
    BY <1>1, <1>2 DEF Allows, NumBin

-----------------------------------------------------------------------------
(* Declarations and visits *)

\* The references of type x.
RefsOf(x) == TypeNamed(x).refs
TypeRef == [base : STRING, elem : BOOLEAN]
Frame == [name : STRING, at : Nat \ {0}, acc : NumType \cup {None}]

LEMMA LeastElement ==
  ASSUME NEW T, T \subseteq Nat, T # {}
  PROVE  \E x \in T : \A y \in T : x <= y
  <1>1. IsWellFoundedOn(OpToRel(<, Nat), Nat)
    BY NatLessThanWellFounded
  <1>2. PICK x \in T : \A y \in T : <<y, x>> \notin OpToRel(<, Nat)
    BY <1>1, WFMin
  <1>3. \A y \in T : ~(y < x)
    <2> TAKE y \in T
    <2>1. <<y, x>> \notin OpToRel(<, Nat)
      BY <1>2
    <2> QED
      BY <2>1 DEF OpToRel
  <1> QED
    BY <1>3

\* First finds a name that is declared.
LEMMA FirstDeclared ==
  ASSUME NEW D, NEW s \in Seq(D), NEW names, \E i \in DOMAIN s : s[i].name \in names
  PROVE  First(s, names) \in names
  <1> DEFINE T == {k \in DOMAIN s : s[k].name \in names}
             P(k) == s[k].name \in names /\ \A j \in 1..(k - 1) : s[j].name \notin names
  <1>1. DOMAIN s = 1..Len(s) /\ Len(s) \in Nat
    OBVIOUS
  <1>2. PICK k \in T : \A y \in T : k <= y
    <2>1. T \subseteq Nat /\ T # {}
      BY <1>1
    <2> HIDE DEF T
    <2> QED
      BY <2>1, LeastElement
  <1>3. k \in DOMAIN s /\ P(k)
    BY <1>1, <1>2
  <1>4. P(CHOOSE i \in DOMAIN s : P(i))
    BY <1>3
  <1> QED
    BY <1>4 DEF First

\* A declaration is found by its name.
LEMMA TypeFound ==
  ASSUME IsProgram(prog), NEW x \in TypeNames
  PROVE  /\ TypeNamed(x) \in Elements(prog.types) /\ TypeNamed(x).name = x
         /\ RefsOf(x) \in Seq(TypeRef)
         /\ x \in STRING
  <1>1. PICK t \in Elements(prog.types) : t.name = x
    BY DEF TypeNames
  <1>2. TypeNamed(x) \in Elements(prog.types) /\ TypeNamed(x).name = x
    BY <1>1 DEF TypeNamed
  <1>3. Elements(prog.types) \subseteq TypeDef
    BY DEF Elements, IsProgram
  <1> QED
    BY <1>2, <1>3 DEF RefsOf, TypeDef, TypeRef

LEMMA FnFound ==
  ASSUME IsProgram(prog), NEW f \in Fn
  PROVE  /\ Cases(f) \in Seq(Guarded) /\ Declared(f) \in NumType \cup {None}
         /\ f \in STRING /\ f # None
  <1>1. PICK d \in Elements(prog.fns) : d.name = f
    BY DEF Fn
  <1>2. FnNamed(f) \in Elements(prog.fns) /\ FnNamed(f).name = f
    BY <1>1 DEF FnNamed
  <1>3. Elements(prog.fns) \subseteq FnDef
    BY DEF Elements, IsProgram
  <1> QED
    BY <1>2, <1>3, NoneAssumption DEF Cases, Declared, FnDef

\* With distinct names, it is the only one.
LEMMA TypeUnique ==
  ASSUME Distinct(prog.types), NEW t \in Elements(prog.types)
  PROVE  t.name \in TypeNames /\ TypeNamed(t.name) = t
  <1>1. \A u \in Elements(prog.types) : u.name = t.name => u = t
    BY DEF Distinct, Elements
  <1> QED
    BY <1>1 DEF TypeNames, TypeNamed

\* The program does not change, and what is said of it alone does not either.
LEMMA SameProgram ==
  ASSUME prog' = prog
  PROVE  /\ TypeNames' = TypeNames /\ Fn' = Fn
         /\ \A x : RefsOf(x)' = RefsOf(x)
         /\ \A f : Cases(f)' = Cases(f) /\ Declared(f)' = Declared(f)
         /\ \A ref : Fits(ref)' <=> Fits(ref)
         /\ WellFormed' <=> WellFormed
  BY DEF TypeNames, Fn, RefsOf, TypeNamed, Cases, Declared, FnNamed, Fits, OfKind, WellFormed, Elements, Distinct

LEMMA Elems ==
  ASSUME NEW D, NEW s \in Seq(D)
  PROVE  /\ \A i \in 1..Len(s) : s[i] \in Elements(s) /\ s[i] \in D
         /\ \A e \in Elements(s) : e \in D /\ \E i \in 1..Len(s) : e = s[i]
         /\ Len(s) \in Nat /\ DOMAIN s = 1..Len(s)
  BY DEF Elements

\* What the three operations do to the stack.
LEMMA Pushed ==
  ASSUME stack \in Seq(Frame), NEW x \in STRING, Push(x)
  PROVE  /\ stack' \in Seq(Frame) /\ Len(stack') = Len(stack) + 1
         /\ \A i \in 1..Len(stack) : stack'[i] = stack[i]
         /\ stack'[Len(stack) + 1] = [name |-> x, at |-> 1, acc |-> None]
         /\ Visiting' = Visiting \cup {x}
         /\ Distinct(stack) /\ x \notin Visiting => Distinct(stack)'
  <1>1. [name |-> x, at |-> 1, acc |-> None] \in Frame
    BY DEF Frame
  <1>2. /\ stack' \in Seq(Frame) /\ Len(stack') = Len(stack) + 1
        /\ \A i \in 1..Len(stack) : stack'[i] = stack[i]
        /\ stack'[Len(stack) + 1] = [name |-> x, at |-> 1, acc |-> None]
    BY <1>1 DEF Push
  <1>3. DOMAIN stack' = 1..(Len(stack) + 1) /\ DOMAIN stack = 1..Len(stack) /\ Len(stack) \in Nat
    BY <1>2
  <1>4. Elements(stack') = Elements(stack) \cup {[name |-> x, at |-> 1, acc |-> None]}
    BY <1>2, <1>3 DEF Elements
  <1>5. Elements(stack)' = Elements(stack')
    BY DEF Elements
  <1>6. ASSUME Distinct(stack), x \notin Visiting PROVE Distinct(stack)'
    <2>1. \A i \in 1..Len(stack) : stack[i].name # x
      BY <1>3, <1>6 DEF Visiting, Elements
    <2> QED
      BY <1>2, <1>3, <1>6, <2>1 DEF Distinct
  <1> QED
    BY <1>2, <1>4, <1>5, <1>6 DEF Visiting

LEMMA Popped ==
  ASSUME stack \in Seq(Frame), stack # <<>>, Pop
  PROVE  /\ stack' \in Seq(Frame) /\ Len(stack') = Len(stack) - 1 /\ Len(stack) > 0
         /\ \A i \in 1..(Len(stack) - 1) : stack'[i] = stack[i]
         /\ Visiting \subseteq Visiting' \cup {Top.name} /\ Visiting' \subseteq Visiting
         /\ Distinct(stack) => Distinct(stack)' /\ Top.name \notin Visiting'
  <1>1. Len(stack) \in Nat /\ Len(stack) > 0
    BY EmptySeq
  <1>2. /\ stack' \in Seq(Frame) /\ Len(stack') = Len(stack) - 1
        /\ \A i \in 1..(Len(stack) - 1) : stack'[i] = stack[i]
    <2> DEFINE n == Len(stack) - 1
    <2>1. n \in 0..Len(stack) /\ 1 \in 1..(n + 1) /\ stack' = SubSeq(stack, 1, n)
      BY <1>1 DEF Pop
    <2>2. \A i \in 1..n : 1 + i - 1 = i
      BY <1>1
    <2> HIDE DEF n
    <2>3. /\ stack' \in Seq(Frame) /\ Len(stack') = (IF 1 <= n THEN n - 1 + 1 ELSE 0)
          /\ \A i \in 1..(n - 1 + 1) : stack'[i] = stack[1 + i - 1]
      BY <2>1, SubSeqProperties
    <2>4. n \in Nat /\ n - 1 + 1 = n
      BY <1>1, <2>1
    <2>5. Len(stack') = n /\ \A i \in 1..n : stack'[i] = stack[i]
      BY <2>2, <2>3, <2>4
    <2> QED
      BY <2>3, <2>5 DEF n
  <1>3. DOMAIN stack' = 1..(Len(stack) - 1) /\ DOMAIN stack = 1..Len(stack)
    BY <1>2
  <1>4. Elements(stack') \subseteq Elements(stack) /\ Elements(stack) \subseteq Elements(stack') \cup {Top}
    BY <1>1, <1>2, <1>3 DEF Elements, Top
  <1>5. Elements(stack)' = Elements(stack')
    BY DEF Elements
  <1>6. ASSUME Distinct(stack) PROVE Distinct(stack)' /\ Top.name \notin Visiting'
    <2>1. Distinct(stack)'
      BY <1>1, <1>2, <1>3, <1>6 DEF Distinct
    <2>2. ASSUME NEW i \in 1..(Len(stack) - 1) PROVE stack'[i].name # Top.name
      <3>1. i \in 1..Len(stack) /\ Len(stack) \in 1..Len(stack) /\ i # Len(stack)
        BY <1>1
      <3>2. stack[i].name # stack[Len(stack)].name
        BY <1>3, <1>6, <3>1 DEF Distinct
      <3> QED
        BY <1>2, <3>2 DEF Top
    <2> QED
      BY <1>3, <2>1, <2>2 DEF Visiting, Elements
  <1> QED
    BY <1>1, <1>2, <1>4, <1>5, <1>6 DEF Visiting

LEMMA Advanced ==
  ASSUME stack \in Seq(Frame), stack # <<>>, NEW t \in NumType \cup {None}, Advance(t)
  PROVE  /\ stack' \in Seq(Frame) /\ Len(stack') = Len(stack) /\ Len(stack) > 0
         /\ \A i \in 1..(Len(stack) - 1) : stack'[i] = stack[i]
         /\ stack'[Len(stack)] = [name |-> Top.name, at |-> Top.at + 1, acc |-> t]
         /\ Visiting' = Visiting
         /\ Distinct(stack) => Distinct(stack)'
  <1>1. Len(stack) \in Nat /\ Len(stack) > 0 /\ Top \in Frame
    BY EmptySeq DEF Top
  <1> DEFINE n == Len(stack)
             v == [name |-> Top.name, at |-> Top.at + 1, acc |-> t]
  <1>2. v \in Frame
    BY <1>1 DEF Frame
  <1>3. stack' = [stack EXCEPT ![n] = v]
    BY DEF Advance
  <1>4. /\ stack' \in Seq(Frame) /\ Len(stack') = Len(stack)
        /\ \A i \in 1..(n - 1) : stack'[i] = stack[i]
        /\ stack'[n] = v
    BY <1>1, <1>2, <1>3
  <1>5. DOMAIN stack' = 1..n /\ DOMAIN stack = 1..n
    BY <1>4
  <1>6. \A i \in 1..n : stack'[i].name = stack[i].name
    BY <1>1, <1>4 DEF Top
  <1>7. Visiting' = {stack'[i].name : i \in 1..n} /\ Visiting = {stack[i].name : i \in 1..n}
    BY <1>5 DEF Visiting, Elements
  <1>8. Distinct(stack) => Distinct(stack)'
    BY <1>5, <1>6 DEF Distinct
  <1> QED
    BY <1>1, <1>4, <1>6, <1>7, <1>8

LEMMA TopFrame ==
  ASSUME stack \in Seq(Frame), stack # <<>>
  PROVE  /\ Len(stack) \in Nat /\ Len(stack) > 0 /\ DOMAIN stack = 1..Len(stack)
         /\ Top \in Frame /\ Top = stack[Len(stack)] /\ Top.name \in Visiting
  <1>1. Len(stack) \in Nat /\ Len(stack) > 0 /\ DOMAIN stack = 1..Len(stack)
    BY EmptySeq
  <1> QED
    BY <1>1 DEF Top, Visiting, Elements

-----------------------------------------------------------------------------
(* Types of the variables *)

\* Once names are resolved, functions have names of their own and only call
\* each other.
CallsOK ==
  phase \in {"returns", "methods", "proofs"} =>
    /\ Distinct(prog.fns)
    /\ \A f \in Fn : \A c \in Elements(Cases(f)) : c.call \in Fn \cup {None}

LEMMA UnifyType ==
  ASSUME NEW t \in NumType \cup {None}, NEW u \in NumType \cup {None}
  PROVE  Unify(t, u) \in NumType \cup {None}
  BY JoinType DEF Unify

LEMMA CaseTyped ==
  ASSUME NEW c \in Guarded, NEW t \in NumType \cup {None}
  PROVE  CaseType(c, t) \in NumType \cup {None} /\ (t # None => CaseType(c, t) \in NumType)
  BY BinType DEF CaseType, Guarded

\* The case under way.
LEMMA CaseFound ==
  ASSUME TypeOK, CallsOK, Typing
  PROVE  /\ Top.name \in Fn /\ Case \in Guarded /\ Case.type \in NumType
         /\ Case.call # None => Case.call \in Fn
         /\ Case.call \in Calls(Top.name) \/ Case.call = None
         /\ Case \in Elements(Cases(Top.name))
         /\ Top.at \in 1..Len(Cases(Top.name)) /\ Len(Cases(Top.name)) \in Nat
  <1>1. Top.name \in Fn /\ Top \in Frame
    BY TopFrame DEF TypeOK, Typing, Frame
  <1>2. Cases(Top.name) \in Seq(Guarded)
    BY <1>1, FnFound DEF TypeOK
  <1>3. Top.at \in 1..Len(Cases(Top.name)) /\ Len(Cases(Top.name)) \in Nat
    BY <1>1, <1>2 DEF Typing, HasCase, Frame
  <1>4. Case \in Elements(Cases(Top.name)) /\ Case \in Guarded
    BY <1>2, <1>3, Elems DEF Case
  <1> QED
    BY <1>1, <1>3, <1>4 DEF CallsOK, Typing, Guarded, Calls

LEMMA InitTyped == Init => TypeOK /\ CallsOK
  <1> SUFFICES ASSUME NEW p \in Program, InitWith(p) PROVE TypeOK /\ CallsOK
    BY DEF Init
  <1>1. IsProgram(prog)
    BY ProgramAssumption DEF InitWith
  <1>2. stack \in Seq(Frame) /\ Distinct(stack)
    BY DEF InitWith, Distinct
  <1>3. phase \in Elements(Phases) /\ phase = "declare" /\ verdict = "open" /\ stack = <<>>
    BY DEF InitWith, Phases, Elements
  <1>4. types \subseteq TypeNames /\ loose \in BOOLEAN /\ ret = None
    BY DEF InitWith
  <1>5. result \in [Fn -> NumType \cup {None}]
    BY DEF InitWith
  <1> QED
    BY <1>1, <1>2, <1>3, <1>4, <1>5 DEF TypeOK, CallsOK, Frame

\* A step that leaves the stack alone, but for the phase or the verdict.
LEMMA StackKeptTyped ==
  ASSUME TypeOK, CallsOK, Enter(phase') \/ Reject
  PROVE  /\ IsProgram(prog)' /\ types' \subseteq TypeNames'
         /\ result' \in [Fn' -> NumType \cup {None}] /\ loose' \in BOOLEAN
         /\ stack' \in Seq(Frame) /\ Distinct(stack)' /\ Visiting' = Visiting
         /\ ret' # None => ret'.fn = None \/ (ret'.fn \in Fn' /\ ret'.value \in Values)
  <1>1. UNCHANGED <<prog, stack, types, result, loose, ret>>
    BY DEF Enter, Reject, checkVars
  <1>2. TypeNames' = TypeNames /\ Fn' = Fn
    BY <1>1, SameProgram
  <1>3. Visiting' = Visiting /\ Distinct(stack)'
    BY <1>1 DEF Visiting, Elements, Distinct, TypeOK
  <1> QED
    BY <1>1, <1>2, <1>3 DEF TypeOK, Frame

LEMMA RejectTyped ==
  ASSUME TypeOK, CallsOK, Reject
  PROVE  TypeOK' /\ CallsOK'
  <1>1. UNCHANGED <<prog, phase, stack, types>> /\ verdict' = "rejected"
    BY DEF Reject, checkVars
  <1>2. TypeNames' = TypeNames /\ Fn' = Fn /\ \A f : Cases(f)' = Cases(f)
    BY <1>1, SameProgram
  <1>3. CallsOK'
    BY <1>1, <1>2 DEF CallsOK, Distinct, Elements
  <1> QED
    BY <1>1, <1>2, <1>3, StackKeptTyped DEF TypeOK, Frame, Elements, Phases

LEMMA EnterTyped ==
  ASSUME TypeOK, CallsOK, NEW p \in {"types", "names", "returns", "methods", "proofs"},
         Enter(p), stack = <<>>,
         p \in {"returns", "methods", "proofs"} =>
           /\ Distinct(prog.fns)
           /\ \A f \in Fn : \A c \in Elements(Cases(f)) : c.call \in Fn \cup {None}
  PROVE  TypeOK' /\ CallsOK'
  <1>1. UNCHANGED <<prog, stack, verdict>> /\ phase' = p
    BY DEF Enter, checkVars
  <1>2. TypeNames' = TypeNames /\ Fn' = Fn /\ \A f : Cases(f)' = Cases(f)
    BY <1>1, SameProgram
  <1>3. CallsOK'
    BY <1>1, <1>2 DEF CallsOK, Distinct, Elements
  <1>4. Visiting = {} /\ phase' \in Elements(Phases)
    BY <1>1 DEF Visiting, Elements, Phases
  <1>5. Enter(phase')
    BY <1>1
  <1> QED
    BY <1>1, <1>2, <1>3, <1>4, <1>5, StackKeptTyped DEF TypeOK, Frame, Elements, Phases

\* The reference under way.
LEMMA RefFound ==
  ASSUME TypeOK, phase = "types", stack # <<>>, HasRef
  PROVE  /\ Top.name \in TypeNames /\ Ref \in TypeRef /\ Ref = RefsOf(Top.name)[Top.at]
         /\ Ref \in Elements(RefsOf(Top.name))
         /\ Top.at \in 1..Len(RefsOf(Top.name)) /\ Len(RefsOf(Top.name)) \in Nat
         /\ Fits(Ref) => Ref.base = "rat" \/ Ref.base \in TypeNames
  <1>1. Top.name \in TypeNames /\ Top \in Frame
    BY TopFrame DEF TypeOK, Frame
  <1>2. RefsOf(Top.name) \in Seq(TypeRef)
    BY <1>1, TypeFound DEF TypeOK
  <1>3. Top.at \in 1..Len(RefsOf(Top.name)) /\ Len(RefsOf(Top.name)) \in Nat
    BY <1>1, <1>2 DEF HasRef, Frame, RefsOf
  <1>4. Ref = RefsOf(Top.name)[Top.at]
    BY DEF Ref, RefsOf
  <1>5. Ref \in Elements(RefsOf(Top.name)) /\ Ref \in TypeRef
    BY <1>2, <1>3, <1>4, Elems
  <1>6. \A kinds : OfKind(kinds) \subseteq TypeNames
    BY DEF OfKind, TypeNames
  <1> QED
    BY <1>1, <1>3, <1>4, <1>5, <1>6 DEF Fits

\* A push, a pop or an advance in either phase with a stack.
LEMMA StackTyped ==
  ASSUME TypeOK, CallsOK, UNCHANGED <<prog, phase, verdict, ret>>,
         phase \in {"types", "returns"},
         types' \subseteq TypeNames, result' \in [Fn -> NumType \cup {None}], loose' \in BOOLEAN,
         stack' \in Seq(Frame), Distinct(stack)',
         phase = "types" => Visiting' \subseteq TypeNames \ types',
         phase = "returns" => Visiting' \subseteq Fn
  PROVE  TypeOK' /\ CallsOK'
  <1>1. TypeNames' = TypeNames /\ Fn' = Fn /\ \A f : Cases(f)' = Cases(f)
    BY SameProgram
  <1>2. CallsOK'
    BY <1>1 DEF CallsOK, Distinct, Elements
  <1> QED
    BY <1>1, <1>2 DEF TypeOK, Frame, Phases, Elements

\* A type pushed, taken out or stepped over while the types are resolved.
LEMMA PushTypeTyped ==
  ASSUME TypeOK, CallsOK, phase = "types", NEW x \in TypeNames \ types, x \notin Visiting,
         Push(x), UNCHANGED <<prog, phase, verdict, types, result, loose, ret>>
  PROVE  TypeOK' /\ CallsOK'
  <1>1. stack \in Seq(Frame) /\ Distinct(stack) /\ Visiting \subseteq TypeNames \ types
    BY DEF TypeOK, Frame
  <1>2. x \in STRING
    BY TypeFound DEF TypeOK
  <1>3. stack' \in Seq(Frame) /\ Distinct(stack)' /\ Visiting' = Visiting \cup {x}
    BY <1>1, <1>2, Pushed
  <1>4. Visiting' \subseteq TypeNames \ types'
    BY <1>1, <1>3
  <1>5. /\ types' \subseteq TypeNames /\ result' \in [Fn -> NumType \cup {None}]
        /\ loose' \in BOOLEAN
    BY DEF TypeOK
  <1> QED
    BY <1>3, <1>4, <1>5, StackTyped

LEMMA PopTypeTyped ==
  ASSUME TypeOK, CallsOK, phase = "types", stack # <<>>, Top.name \in TypeNames,
         types' = types \cup {Top.name}, Pop,
         UNCHANGED <<prog, phase, verdict, result, loose, ret>>
  PROVE  TypeOK' /\ CallsOK'
  <1>1. stack \in Seq(Frame) /\ Distinct(stack) /\ Visiting \subseteq TypeNames \ types
    BY DEF TypeOK, Frame
  <1>2. /\ stack' \in Seq(Frame) /\ Distinct(stack)' /\ Visiting' \subseteq Visiting
        /\ Top.name \notin Visiting'
    BY <1>1, Popped
  <1>3. Visiting' \subseteq TypeNames \ types'
    BY <1>1, <1>2
  <1>4. /\ types' \subseteq TypeNames /\ result' \in [Fn -> NumType \cup {None}]
        /\ loose' \in BOOLEAN
    BY DEF TypeOK
  <1> QED
    BY <1>2, <1>3, <1>4, StackTyped

LEMMA AdvanceTyped ==
  ASSUME TypeOK, CallsOK, phase \in {"types", "returns"}, stack # <<>>,
         NEW t \in NumType \cup {None}, Advance(t), loose' \in BOOLEAN,
         UNCHANGED <<prog, phase, verdict, types, result, ret>>
  PROVE  TypeOK' /\ CallsOK'
  <1>1. stack \in Seq(Frame) /\ Distinct(stack)
    BY DEF TypeOK, Frame
  <1>2. stack' \in Seq(Frame) /\ Distinct(stack)' /\ Visiting' = Visiting
    BY <1>1, Advanced
  <1>3. /\ phase = "types" => Visiting' \subseteq TypeNames \ types'
        /\ phase = "returns" => Visiting' \subseteq Fn
    BY <1>2 DEF TypeOK
  <1>4. types' \subseteq TypeNames /\ result' \in [Fn -> NumType \cup {None}]
    BY DEF TypeOK
  <1> QED
    BY <1>2, <1>3, <1>4, StackTyped

LEMMA TypesTyped ==
  ASSUME TypeOK, CallsOK,
         DeclareTypes \/ BeginType \/ ResolveRef \/ FinishType \/ TypesResolved \/ ResolveNames
  PROVE  TypeOK' /\ CallsOK'
  <1>1. stack \in Seq(Frame) /\ Distinct(stack)
    BY DEF TypeOK, Frame
  <1>2. CASE DeclareTypes
    BY <1>2, RejectTyped, EnterTyped DEF DeclareTypes, TypeOK
  <1>3. CASE BeginType
    <2> DEFINE x == First(prog.types, TypeNames \ types)
    <2>1. x \in TypeNames \ types
      <3>1. prog.types \in Seq(TypeDef)
        BY DEF TypeOK, IsProgram
      <3>2. \E i \in DOMAIN prog.types : prog.types[i].name \in TypeNames \ types
        BY <1>3 DEF BeginType, TypeNames, Elements
      <3> QED
        BY <3>1, <3>2, FirstDeclared
    <2> HIDE DEF x
    <2>2. x \notin Visiting
      BY <1>3 DEF BeginType, Visiting, Elements
    <2>3. Push(x) /\ UNCHANGED <<prog, phase, verdict, types, result, loose, ret>> /\ phase = "types"
      BY <1>3 DEF BeginType, checkVars, x
    <2> QED
      BY <2>1, <2>2, <2>3, PushTypeTyped
  <1>4. CASE ResolveRef
    <2>1. phase = "types" /\ stack # <<>> /\ HasRef
      BY <1>4 DEF ResolveRef
    <2>2. CASE Reject
      BY <2>2, RejectTyped
    <2>3. CASE ~Reject
      <3>1. /\ Fits(Ref) /\ Ref.base \notin Visiting
            /\ UNCHANGED <<prog, phase, verdict, types, result, loose, ret>>
            /\ IF Ref.base \in types \cup {"rat"} THEN Advance(None) ELSE Push(Ref.base)
        BY <1>4, <2>3 DEF ResolveRef, checkVars
      <3>2. None \in NumType \cup {None} /\ loose' \in BOOLEAN
        BY <3>1 DEF TypeOK
      <3>3. CASE Advance(None)
        BY <2>1, <3>1, <3>2, <3>3, AdvanceTyped
      <3>4. CASE Push(Ref.base) /\ Ref.base \notin types \cup {"rat"}
        <4>1. Ref.base \in TypeNames \ types
          BY <2>1, <3>1, <3>4, RefFound
        <4> QED
          BY <2>1, <3>1, <3>4, <4>1, PushTypeTyped
      <3> QED
        BY <3>1, <3>3, <3>4
    <2> QED
      BY <2>2, <2>3
  <1>5. CASE FinishType
    <2>1. /\ phase = "types" /\ stack # <<>> /\ types' = types \cup {Top.name} /\ Pop
          /\ UNCHANGED <<prog, phase, verdict, result, loose, ret>>
      BY <1>5 DEF FinishType
    <2>2. Top.name \in TypeNames
      BY <1>1, <2>1, TopFrame DEF TypeOK
    <2> QED
      BY <2>1, <2>2, PopTypeTyped
  <1>6. CASE TypesResolved
    BY <1>6, EnterTyped DEF TypesResolved
  <1>7. CASE ResolveNames
    BY <1>7, RejectTyped, EnterTyped DEF ResolveNames, TypeOK
  <1> QED
    BY <1>2, <1>3, <1>4, <1>5, <1>6, <1>7

\* A visit begins.
LEMMA VisitTyped ==
  ASSUME TypeOK, CallsOK, phase = "returns", NEW f \in Fn, f \notin Visiting, Visit(f)
  PROVE  TypeOK' /\ CallsOK'
  <1>1. stack \in Seq(Frame) /\ Distinct(stack)
    BY DEF TypeOK, Frame
  <1>2. f \in STRING /\ Declared(f) \in NumType \cup {None}
    BY FnFound DEF TypeOK
  <1>3. Push(f) /\ UNCHANGED <<prog, phase, verdict, types, loose, ret>>
    BY DEF Visit
  <1>4. result' \in [Fn -> NumType \cup {None}]
    BY <1>2 DEF Visit, TypeOK
  <1>5. stack' \in Seq(Frame) /\ Distinct(stack)' /\ Visiting' = Visiting \cup {f}
    BY <1>1, <1>2, <1>3, Pushed
  <1>6. Visiting \subseteq Fn /\ types' \subseteq TypeNames /\ loose' \in BOOLEAN
    BY <1>3 DEF TypeOK
  <1> QED
    BY <1>3, <1>4, <1>5, <1>6, StackTyped

LEMMA ReturnsTyped ==
  ASSUME TypeOK, CallsOK,
         BeginFn \/ TypeValue \/ TypeCall \/ VisitCallee \/ Defer \/ FinishFn \/ ReturnsInferred
  PROVE  TypeOK' /\ CallsOK'
  <1>1. /\ stack \in Seq(Frame) /\ Distinct(stack) /\ phase = "returns"
        /\ result \in [Fn -> NumType \cup {None}]
    BY DEF TypeOK, Frame, BeginFn, TypeValue, TypeCall, VisitCallee, Defer, FinishFn,
           ReturnsInferred, Typing, FnTyped
  <1>2. CASE BeginFn
    <2> DEFINE f == First(prog.fns, {g \in Fn : result[g] = None})
    <2>1. f \in Fn
      <3>1. prog.fns \in Seq(FnDef)
        BY DEF TypeOK, IsProgram
      <3>2. \E i \in DOMAIN prog.fns : prog.fns[i].name \in {g \in Fn : result[g] = None}
        BY <1>2 DEF BeginFn, Fn, Elements
      <3> QED
        BY <3>1, <3>2, FirstDeclared
    <2>2. Visit(f) /\ stack = <<>>
      BY <1>2 DEF BeginFn
    <2> HIDE DEF f
    <2>3. f \notin Visiting
      BY <2>2 DEF Visiting, Elements
    <2> QED
      BY <1>1, <2>1, <2>2, <2>3, VisitTyped
  <1>3. ASSUME NEW t \in NumType \cup {None}, Advance(t), Typing, loose' \in BOOLEAN,
               UNCHANGED <<prog, phase, verdict, types, result, ret>>
        PROVE  TypeOK' /\ CallsOK'
    <2>1. stack # <<>>
      BY <1>3 DEF Typing
    <2> QED
      BY <1>1, <1>3, <2>1, AdvanceTyped
  <1>4. ASSUME Typing PROVE Top.acc \in NumType \cup {None}
    BY <1>1, <1>4, TopFrame DEF Frame, Typing
  <1>5. CASE TypeValue
    <2>1. Typing /\ Unify(Top.acc, Case.type) \in NumType \cup {None}
      BY <1>4, <1>5, CaseFound, UnifyType DEF TypeValue
    <2> QED
      BY <1>3, <1>5, <2>1 DEF TypeValue, checkVars, TypeOK
  <1>6. CASE TypeCall
    <2>1. Typing /\ Case.call \in Fn /\ Case \in Guarded
      BY <1>6, CaseFound DEF TypeCall
    <2>2. CaseType(Case, result[Case.call]) \in NumType \cup {None}
      BY <1>1, <2>1, CaseTyped
    <2>3. Unify(Top.acc, CaseType(Case, result[Case.call])) \in NumType \cup {None}
      BY <1>4, <2>1, <2>2, UnifyType
    <2> QED
      BY <1>3, <1>6, <2>1, <2>3 DEF TypeCall, checkVars, TypeOK
  <1>7. CASE VisitCallee
    BY <1>1, <1>7, CaseFound, VisitTyped DEF VisitCallee
  <1>8. CASE Defer
    <2>1. Typing /\ Case \in Guarded
      BY <1>8, CaseFound DEF Defer
    <2>2. CaseType(Case, None) \in NumType \cup {None}
      BY <2>1, CaseTyped
    <2>3. Unify(Top.acc, CaseType(Case, None)) \in NumType \cup {None}
      BY <1>4, <2>1, <2>2, UnifyType
    <2>4. loose' \in BOOLEAN
      BY <1>8 DEF Defer, TypeOK, Lax
    <2> QED
      BY <1>3, <1>8, <2>1, <2>3, <2>4 DEF Defer
  <1>9. CASE FinishFn
    <2>1. CASE Reject
      BY <2>1, RejectTyped
    <2>2. CASE ~Reject
      <3>1. Top.name \in Fn /\ Top.acc \in NumType \cup {None}
        BY <1>1, <1>9, TopFrame DEF FinishFn, FnTyped, TypeOK, Frame
      <3>2. Declared(Top.name) \in NumType \cup {None}
        BY <3>1, FnFound DEF TypeOK
      <3>3. /\ Pop /\ stack # <<>> /\ UNCHANGED <<prog, phase, verdict, types, loose, ret>>
            /\ \E t \in NumType \cup {None} : result' = [result EXCEPT ![Top.name] = t]
        BY <1>9, <2>2, <3>1, <3>2 DEF FinishFn, FnTyped
      <3>4. result' \in [Fn -> NumType \cup {None}]
        BY <1>1, <3>1, <3>3
      <3>5. stack' \in Seq(Frame) /\ Distinct(stack)' /\ Visiting' \subseteq Visiting
        BY <1>1, <3>3, Popped
      <3>6. types' \subseteq TypeNames /\ loose' \in BOOLEAN /\ Visiting' \subseteq Fn
        BY <1>1, <3>3, <3>5 DEF TypeOK
      <3> QED
        BY <1>1, <3>3, <3>4, <3>5, <3>6, StackTyped
    <2> QED
      BY <2>1, <2>2
  <1>10. CASE ReturnsInferred
    BY <1>10, RejectTyped, EnterTyped DEF ReturnsInferred, CallsOK
  <1> QED
    BY <1>2, <1>5, <1>6, <1>7, <1>8, <1>9, <1>10

LEMMA RunTyped ==
  ASSUME TypeOK, CallsOK, CheckMethods \/ Prove \/ Evaluate \/ Return \/ Run
  PROVE  TypeOK' /\ CallsOK'
  <1>1. CASE CheckMethods
    <2>1. stack = <<>> /\ phase = "methods"
      BY <1>1 DEF CheckMethods, TypeOK
    <2> QED
      BY <1>1, <2>1, RejectTyped, EnterTyped DEF CheckMethods, CallsOK
  <1>2. CASE Prove \/ Evaluate \/ Return \/ Run
    <2>1. UNCHANGED <<prog, phase, stack, types, result, loose>>
      BY <1>2 DEF Prove, Evaluate, Return, Run, checkVars
    <2>2. TypeNames' = TypeNames /\ Fn' = Fn /\ \A f : Cases(f)' = Cases(f)
      BY <2>1, SameProgram
    <2>3. CallsOK' /\ Visiting' = Visiting
      BY <2>1, <2>2 DEF CallsOK, Distinct, Elements, Visiting
    <2>4. verdict' \in {"open", "built", "rejected"}
      BY <1>2 DEF Prove, Evaluate, Return, Run, TypeOK
    <2>5. ret' # None => ret'.fn = None \/ (ret'.fn \in Fn /\ ret'.value \in Values)
      BY <1>2 DEF Prove, Evaluate, Return, Run, TypeOK
    <2>6. IsProgram(prog)' /\ Distinct(stack)'
      BY <2>1 DEF TypeOK, Distinct
    <2> QED
      BY <2>1, <2>2, <2>3, <2>4, <2>5, <2>6 DEF TypeOK, Phases, Elements
  <1> QED
    BY <1>1, <1>2

LEMMA StepTyped ==
  ASSUME TypeOK, CallsOK, [Next]_vars
  PROVE  TypeOK' /\ CallsOK'
  <1>1. CASE UNCHANGED vars
    <2>1. UNCHANGED <<prog, phase, verdict, stack, types, result, loose, ret>>
      BY <1>1 DEF vars, checkVars
    <2>2. TypeNames' = TypeNames /\ Fn' = Fn /\ \A f : Cases(f)' = Cases(f)
      BY <2>1, SameProgram
    <2>3. CallsOK' /\ Visiting' = Visiting
      BY <2>1, <2>2 DEF CallsOK, Distinct, Elements, Visiting
    <2>4. IsProgram(prog)' /\ Distinct(stack)'
      BY <2>1 DEF TypeOK, Distinct
    <2> QED
      BY <2>1, <2>2, <2>3, <2>4 DEF TypeOK, Phases, Elements
  <1>2. CASE Next
    BY <1>2, TypesTyped, ReturnsTyped, RunTyped DEF Next, Build
  <1> QED
    BY <1>1, <1>2

\* Every variable holds a value of its kind, nothing is visited twice at once, and
\* a type is in the registry only after its visit (resolving and inProgress).
THEOREM TypeCorrect == Spec => []TypeOK
  <1>1. Init => TypeOK /\ CallsOK
    BY InitTyped
  <1>2. TypeOK /\ CallsOK /\ [Next]_vars => TypeOK' /\ CallsOK'
    BY StepTyped
  <1> QED
    BY <1>1, <1>2, PTL DEF Spec

-----------------------------------------------------------------------------
(* The type registry *)

Resolved(ref) == Fits(ref) /\ ref.base \in types \cup {"rat"}

\* The registry is closed, and holds no circle.
RegistryOK ==
  /\ \A x \in types : \A ref \in Elements(RefsOf(x)) : Resolved(ref)
  /\ \A S \in SUBSET types :
       S # {} => \E x \in S : \A ref \in Elements(RefsOf(x)) : ref.base \notin S

\* In a visit, the references before the one under way are in the registry, and
\* that one is to the type visited next.
VisitOK(i) ==
  LET refs == RefsOf(stack[i].name)
  IN  /\ \A j \in 1..(stack[i].at - 1) : j \in 1..Len(refs) => Resolved(refs[j])
      /\ i < Len(stack) => /\ stack[i].at \in 1..Len(refs)
                           /\ refs[stack[i].at].base = stack[i + 1].name

TypesInv ==
  /\ phase # "declare" => Distinct(prog.types) /\ "rat" \notin TypeNames
  /\ RegistryOK
  /\ phase = "types" => \A i \in 1..Len(stack) : VisitOK(i)
  /\ phase \notin {"declare", "types"} => TypeNames \subseteq types
  /\ verdict = "rejected" /\ phase \in {"declare", "types"} => ~WellFormed

LEMMA InitTypes == Init => TypesInv
  <1> SUFFICES ASSUME NEW p \in Program, InitWith(p) PROVE TypesInv
    BY DEF Init
  <1>1. types = {} /\ phase = "declare" /\ verdict = "open"
    BY DEF InitWith
  <1> QED
    BY <1>1 DEF TypesInv, RegistryOK

\* A reference to a type under way closes a circle.
LEMMA CircleFound ==
  ASSUME TypeOK, TypesInv, phase = "types", stack # <<>>, HasRef, Ref.base \in Visiting
  PROVE  ~WellFormed
  <1>1. stack \in Seq(Frame)
    BY DEF TypeOK, Frame
  <1>2. /\ Len(stack) \in Nat /\ DOMAIN stack = 1..Len(stack) /\ Len(stack) > 0
        /\ Top = stack[Len(stack)]
    BY <1>1, TopFrame
  <1>3. PICK k \in 1..Len(stack) : stack[k].name = Ref.base
    BY <1>2 DEF Visiting, Elements
  <1> DEFINE S == {stack[i].name : i \in k..Len(stack)}
  <1>4. S # {} /\ S \subseteq TypeNames
    <2>1. \A i \in 1..Len(stack) : stack[i].name \in TypeNames
      BY <1>2 DEF TypeOK, Visiting, Elements
    <2> QED
      BY <1>2, <2>1
  <1>5. ASSUME NEW x \in S PROVE \E ref \in Elements(RefsOf(x)) : ref.base \in S
    <2>1. PICK i \in k..Len(stack) : x = stack[i].name
      OBVIOUS
    <2>2. CASE i = Len(stack)
      <3>1. Ref \in Elements(RefsOf(x))
        BY <1>2, <2>1, <2>2, RefFound
      <3>2. Ref.base \in S
        BY <1>2, <1>3
      <3> QED
        BY <3>1, <3>2
    <2>3. CASE i # Len(stack)
      <3>1. i \in 1..Len(stack) /\ i < Len(stack) /\ i + 1 \in k..Len(stack)
        <4>1. \A n \in Nat : \A a \in 1..n : \A b \in a..n :
                b # n => b \in 1..n /\ b < n /\ b + 1 \in a..n
          OBVIOUS
        <4>2. Len(stack) \in Nat /\ k \in 1..Len(stack) /\ i \in k..Len(stack)
          BY <1>2
        <4> QED
          BY <2>3, <4>1, <4>2
      <3>2. VisitOK(i)
        BY <3>1 DEF TypesInv
      <3>3. stack[i].at \in 1..Len(RefsOf(x)) /\ RefsOf(x)[stack[i].at].base = stack[i + 1].name
        BY <2>1, <3>1, <3>2 DEF VisitOK
      <3>4. x \in TypeNames
        BY <1>4
      <3>5. RefsOf(x)[stack[i].at] \in Elements(RefsOf(x))
        BY <3>3, <3>4, TypeFound, Elems DEF TypeOK
      <3> QED
        BY <3>1, <3>3, <3>5
    <2> QED
      BY <2>2, <2>3
  <1> HIDE DEF S
  <1> QED
    BY <1>4, <1>5 DEF WellFormed, RefsOf

\* A reference that does not fit is one of a declared type.
LEMMA MisfitFound ==
  ASSUME TypeOK, phase = "types", stack # <<>>, HasRef, ~Fits(Ref)
  PROVE  ~WellFormed
  <1>1. Top.name \in TypeNames /\ Ref \in Elements(RefsOf(Top.name))
    BY RefFound
  <1>2. TypeNamed(Top.name) \in Elements(prog.types)
    BY <1>1, TypeFound DEF TypeOK
  <1> QED
    BY <1>1, <1>2 DEF WellFormed, RefsOf

\* What depends on the program and the registry alone.
LEMMA SameRegistry ==
  ASSUME prog' = prog, types' = types, RegistryOK
  PROVE  RegistryOK' /\ \A ref : Resolved(ref)' <=> Resolved(ref)
  <1>1. /\ \A x : RefsOf(x)' = RefsOf(x)
        /\ \A ref : Fits(ref)' <=> Fits(ref)
    BY SameProgram
  <1>2. \A ref : Resolved(ref)' <=> Resolved(ref)
    BY <1>1 DEF Resolved
  <1>3. \A x : Elements(RefsOf(x))' = Elements(RefsOf(x))
    BY <1>1 DEF Elements
  <1> QED
    BY <1>2, <1>3 DEF RegistryOK

\* Steps of the other phases, and refusals.
LEMMA OthersKeepTypes ==
  ASSUME TypesInv, UNCHANGED <<prog, types>>,
         \/ phase' \notin {"declare", "types"} /\ phase \notin {"declare", "types"}
         \/ /\ UNCHANGED <<phase, stack>>
            /\ verdict' = "rejected" /\ phase \in {"declare", "types"} => ~WellFormed
  PROVE  TypesInv'
  <1>1. RegistryOK' /\ \A ref : Resolved(ref)' <=> Resolved(ref)
    BY SameRegistry DEF TypesInv
  <1>2. /\ TypeNames' = TypeNames /\ (WellFormed' <=> WellFormed)
        /\ Distinct(prog.types)' <=> Distinct(prog.types)
        /\ \A x : RefsOf(x)' = RefsOf(x)
    BY SameProgram DEF Distinct
  <1>3. ASSUME phase' = "types", NEW i \in 1..Len(stack') PROVE VisitOK(i)'
    <2>1. phase = "types" /\ stack' = stack
      BY <1>3
    <2>2. VisitOK(i)
      BY <1>3, <2>1 DEF TypesInv
    <2> QED
      BY <1>1, <1>2, <2>1, <2>2 DEF VisitOK
  <1> QED
    BY <1>1, <1>2, <1>3 DEF TypesInv

\* A type whose references are all in the registry may enter it.
LEMMA RegistryGrows ==
  ASSUME TypeOK, RegistryOK, prog' = prog, "rat" \notin TypeNames,
         NEW n \in TypeNames, n \notin types, types' = types \cup {n},
         \A ref \in Elements(RefsOf(n)) : Resolved(ref)
  PROVE  RegistryOK' /\ \A ref : Resolved(ref) => Resolved(ref)'
  <1>1. /\ \A x : RefsOf(x)' = RefsOf(x)
        /\ \A ref : Fits(ref)' <=> Fits(ref)
    BY SameProgram
  <1>2. \A ref : Resolved(ref) => Resolved(ref)'
    BY <1>1 DEF Resolved
  <1>3. \A x : Elements(RefsOf(x))' = Elements(RefsOf(x))
    BY <1>1 DEF Elements
  <1>4. \A x \in types' : \A ref \in Elements(RefsOf(x)) : Resolved(ref) /\ ref.base # n
    BY DEF RegistryOK, Resolved
  <1>5. ASSUME NEW S \in SUBSET types', S # {}
        PROVE  \E x \in S : \A ref \in Elements(RefsOf(x)) : ref.base \notin S
    <2>1. CASE S = {n}
      BY <1>4, <2>1
    <2>2. CASE S # {n}
      <3>1. S \ {n} \in SUBSET types /\ S \ {n} # {}
        BY <1>5, <2>2
      <3>2. PICK x \in S \ {n} : \A ref \in Elements(RefsOf(x)) : ref.base \notin S \ {n}
        BY <3>1 DEF RegistryOK
      <3> QED
        BY <1>4, <3>2
    <2> QED
      BY <2>1, <2>2
  <1>6. \A x \in types' : \A ref \in Elements(RefsOf(x))' : Resolved(ref)'
    BY <1>2, <1>3, <1>4
  <1>7. \A S \in SUBSET types' :
          S # {} => \E x \in S : \A ref \in Elements(RefsOf(x))' : ref.base \notin S
    BY <1>3, <1>5
  <1> QED
    BY <1>2, <1>6, <1>7 DEF RegistryOK

LEMMA StepTypes ==
  ASSUME TypeOK, TypesInv, [Next]_vars
  PROVE  TypesInv'
  <1>1. stack \in Seq(Frame) /\ Distinct(stack)
    BY DEF TypeOK, Frame
  <1>2. CASE DeclareTypes
    <2>1. CASE Reject
      <3>1. phase = "declare" /\ (Distinct(prog.types) /\ "rat" \notin TypeNames => Enter("types"))
        BY <1>2 DEF DeclareTypes
      <3>2. phase' = "declare" /\ UNCHANGED <<prog, types, phase, stack>>
        BY <2>1, <3>1 DEF Reject, checkVars
      <3>3. ~WellFormed
        BY <3>1, <3>2 DEF WellFormed, Enter
      <3> QED
        BY <3>2, <3>3, OthersKeepTypes
    <2>2. CASE Enter("types") /\ Distinct(prog.types) /\ "rat" \notin TypeNames
      <3>1. UNCHANGED <<prog, types, stack, verdict>> /\ phase' = "types" /\ phase = "declare"
        BY <1>2, <2>2 DEF DeclareTypes, Enter, checkVars
      <3>2. RegistryOK' /\ TypeNames' = TypeNames /\ (Distinct(prog.types)' <=> Distinct(prog.types))
        BY <3>1, SameRegistry, SameProgram DEF TypesInv, Distinct
      <3>3. Len(stack') = 0 /\ verdict = "open"
        BY <1>2, <3>1 DEF TypeOK, DeclareTypes
      <3> QED
        BY <2>2, <3>1, <3>2, <3>3 DEF TypesInv
    <2> QED
      BY <1>2, <2>1, <2>2 DEF DeclareTypes
  <1>3. ASSUME phase = "types", UNCHANGED <<prog, phase, verdict, types>>,
               \A i \in 1..Len(stack') : VisitOK(i)'
        PROVE  TypesInv'
    <2>1. /\ TypeNames' = TypeNames /\ (WellFormed' <=> WellFormed)
          /\ Distinct(prog.types)' <=> Distinct(prog.types)
      BY <1>3, SameProgram DEF Distinct
    <2> QED
      BY <1>3, <2>1, SameRegistry DEF TypesInv
  <1>4. CASE BeginType
    <2> DEFINE x == First(prog.types, TypeNames \ types)
    <2>1. x \in TypeNames
      <3>1. prog.types \in Seq(TypeDef)
        BY DEF TypeOK, IsProgram
      <3>2. \E i \in DOMAIN prog.types : prog.types[i].name \in TypeNames \ types
        BY <1>4 DEF BeginType, TypeNames, Elements
      <3> QED
        BY <3>1, <3>2, FirstDeclared
    <2>2. Push(x) /\ phase = "types" /\ Len(stack) = 0 /\ UNCHANGED <<prog, phase, verdict, types>>
      BY <1>4 DEF BeginType, checkVars
    <2> HIDE DEF x
    <2>3. x \in STRING
      BY <2>1, TypeFound DEF TypeOK
    <2>4. Len(stack') = 1 /\ stack'[1].at = 1
      <3>1. /\ Len(stack') = Len(stack) + 1
            /\ stack'[Len(stack) + 1] = [name |-> x, at |-> 1, acc |-> None]
        BY <1>1, <2>2, <2>3, Pushed
      <3>2. Len(stack) + 1 = 1
        BY <2>2
      <3> QED
        BY <3>1, <3>2
    <2>5. \A i \in 1..Len(stack') : VisitOK(i)'
      BY <2>4 DEF VisitOK
    <2> QED
      BY <1>3, <2>2, <2>5
  <1>5. CASE ResolveRef
    <2>1. phase = "types" /\ stack # <<>> /\ HasRef /\ verdict = "open"
      BY <1>5 DEF ResolveRef
    <2>2. CASE Reject
      <3>1. UNCHANGED <<prog, types, phase, stack>> /\ verdict' = "rejected"
        BY <2>2 DEF Reject, checkVars
      <3>2. ~Fits(Ref) \/ Ref.base \in Visiting
        BY <1>5, <2>1, <3>1 DEF ResolveRef
      <3> QED
        BY <2>1, <3>1, <3>2, MisfitFound, CircleFound, OthersKeepTypes
    <2>3. CASE ~Reject
      <3>1. /\ Fits(Ref) /\ UNCHANGED <<prog, phase, verdict, types>>
            /\ IF Ref.base \in types \cup {"rat"} THEN Advance(None) ELSE Push(Ref.base)
        BY <1>5, <2>3 DEF ResolveRef, checkVars
      <3>2. /\ Ref = RefsOf(Top.name)[Top.at] /\ Top.at \in 1..Len(RefsOf(Top.name))
            /\ Ref.base \in STRING
        BY <2>1, RefFound DEF TypeRef
      <3>3. /\ \A x : RefsOf(x)' = RefsOf(x)
            /\ \A ref : Resolved(ref)' <=> Resolved(ref)
        BY <3>1, SameProgram, SameRegistry DEF TypesInv
      <3>4. Len(stack) \in Nat /\ Len(stack) > 0 /\ Top = stack[Len(stack)] /\ Top \in Frame
        BY <1>1, <2>1, TopFrame
      <3>5. \A i \in 1..Len(stack) : VisitOK(i)
        BY <2>1 DEF TypesInv
      <3>6. CASE Advance(None) /\ Ref.base \in types \cup {"rat"}
        <4>1. /\ Len(stack') = Len(stack)
              /\ \A i \in 1..(Len(stack) - 1) : stack'[i] = stack[i]
              /\ stack'[Len(stack)] = [name |-> Top.name, at |-> Top.at + 1, acc |-> None]
          BY <1>1, <2>1, <3>6, Advanced
        <4>2. Resolved(Ref)
          BY <3>1, <3>6 DEF Resolved
        <4>3. ASSUME NEW i \in 1..Len(stack') PROVE VisitOK(i)'
          <5>1. CASE i = Len(stack)
            <6>1. ASSUME NEW j \in 1..Top.at, j \in 1..Len(RefsOf(Top.name))
                  PROVE  Resolved(RefsOf(Top.name)[j])
              <7>1. CASE j = Top.at
                BY <3>2, <4>2, <7>1
              <7>2. CASE j # Top.at
                <8>1. j \in 1..(Top.at - 1)
                  BY <3>4, <7>2 DEF Frame
                <8>2. VisitOK(Len(stack))
                  BY <3>4, <3>5
                <8> QED
                  BY <3>4, <6>1, <8>1, <8>2 DEF VisitOK
              <7> QED
                BY <7>1, <7>2
            <6>2. stack'[i].name = Top.name /\ stack'[i].at - 1 = Top.at /\ ~(i < Len(stack'))
              <7>1. Top.at \in Nat
                BY <3>4 DEF Frame
              <7>2. stack'[i].name = Top.name /\ stack'[i].at = Top.at + 1
                BY <4>1, <5>1
              <7> QED
                BY <3>4, <4>1, <5>1, <7>1, <7>2
            <6> QED
              BY <3>3, <6>1, <6>2 DEF VisitOK
          <5>2. CASE i # Len(stack)
            <6>1. i \in 1..(Len(stack) - 1) /\ i \in 1..Len(stack)
              BY <3>4, <4>1, <5>2
            <6>2. stack'[i] = stack[i] /\ stack'[i + 1].name = stack[i + 1].name
              BY <3>4, <4>1, <6>1
            <6> QED
              BY <3>3, <3>5, <4>1, <6>1, <6>2 DEF VisitOK
          <5> QED
            BY <5>1, <5>2
        <4> QED
          BY <1>3, <2>1, <3>1, <4>3
      <3>7. CASE Push(Ref.base)
        <4>1. /\ Len(stack') = Len(stack) + 1
              /\ \A i \in 1..Len(stack) : stack'[i] = stack[i]
              /\ stack'[Len(stack) + 1] = [name |-> Ref.base, at |-> 1, acc |-> None]
          BY <1>1, <3>2, <3>7, Pushed
        <4>2. ASSUME NEW i \in 1..Len(stack') PROVE VisitOK(i)'
          <5>1. CASE i = Len(stack) + 1
            <6>1. stack'[i].at = 1 /\ ~(i < Len(stack'))
              BY <3>4, <4>1, <5>1
            <6> QED
              BY <6>1 DEF VisitOK
          <5>2. CASE i = Len(stack)
            <6>1. stack'[i] = Top /\ stack'[i + 1].name = Ref.base
              BY <3>4, <4>1, <5>2
            <6>2. VisitOK(i)
              BY <3>4, <3>5, <5>2
            <6> QED
              BY <3>2, <3>3, <3>4, <5>2, <6>1, <6>2 DEF VisitOK
          <5>3. CASE i \in 1..(Len(stack) - 1)
            <6>1. stack'[i] = stack[i] /\ stack'[i + 1] = stack[i + 1] /\ i < Len(stack)
              BY <3>4, <4>1, <5>3
            <6>2. VisitOK(i)
              BY <3>4, <3>5, <5>3
            <6> QED
              BY <3>3, <6>1, <6>2 DEF VisitOK
          <5> QED
            BY <3>4, <4>1, <5>1, <5>2, <5>3
        <4> QED
          BY <1>3, <2>1, <3>1, <4>2
      <3> QED
        BY <3>1, <3>6, <3>7
    <2> QED
      BY <2>2, <2>3
  <1>6. CASE FinishType
    <2>1. /\ phase = "types" /\ stack # <<>> /\ ~HasRef /\ types' = types \cup {Top.name} /\ Pop
          /\ UNCHANGED <<prog, phase, verdict>>
      BY <1>6 DEF FinishType
    <2>2. Top.name \in TypeNames \ types /\ Top \in Frame /\ Len(stack) \in Nat /\ Len(stack) > 0
      BY <1>1, <2>1, TopFrame DEF TypeOK
    <2>3. \A i \in 1..Len(stack) : VisitOK(i)
      BY <2>1 DEF TypesInv
    <2>4. \A ref \in Elements(RefsOf(Top.name)) : Resolved(ref)
      <3>1. RefsOf(Top.name) \in Seq(TypeRef)
        BY <2>2, TypeFound DEF TypeOK
      <3>2. Top.at > Len(RefsOf(Top.name)) /\ Len(RefsOf(Top.name)) \in Nat /\ Top.at \in Nat
        BY <2>1, <2>2, <3>1 DEF HasRef, RefsOf, Frame
      <3>3. VisitOK(Len(stack))
        BY <2>2, <2>3
      <3>4. \A j \in 1..Len(RefsOf(Top.name)) : Resolved(RefsOf(Top.name)[j])
        BY <3>2, <3>3 DEF VisitOK, Top
      <3> QED
        BY <3>1, <3>4, Elems
    <2>5. "rat" \notin TypeNames
      BY <2>1 DEF TypesInv
    <2>6. RegistryOK' /\ \A ref : Resolved(ref) => Resolved(ref)'
      BY <2>1, <2>2, <2>4, <2>5, RegistryGrows DEF TypesInv
    <2>7. /\ TypeNames' = TypeNames /\ (WellFormed' <=> WellFormed)
          /\ Distinct(prog.types)' <=> Distinct(prog.types)
          /\ \A x : RefsOf(x)' = RefsOf(x)
      BY <2>1, SameProgram DEF Distinct
    <2>8. ASSUME NEW i \in 1..Len(stack') PROVE VisitOK(i)'
      <3>1. /\ Len(stack') = Len(stack) - 1
            /\ \A k \in 1..(Len(stack) - 1) : stack'[k] = stack[k]
        BY <1>1, <2>1, Popped
      <3>2. stack'[i] = stack[i] /\ i \in 1..Len(stack) /\ i < Len(stack)
        BY <2>2, <3>1
      <3>3. i < Len(stack') => stack'[i + 1] = stack[i + 1]
        BY <2>2, <3>1
      <3> QED
        BY <2>3, <2>6, <2>7, <3>2, <3>3 DEF VisitOK
    <2> QED
      BY <2>1, <2>6, <2>7, <2>8 DEF TypesInv
  <1>7. CASE TypesResolved
    <2>1. /\ phase = "types" /\ phase' = "names" /\ TypeNames \subseteq types
          /\ UNCHANGED <<prog, types, verdict>>
      BY <1>7 DEF TypesResolved, Enter, checkVars
    <2>2. TypeNames' = TypeNames /\ (Distinct(prog.types)' <=> Distinct(prog.types))
      BY <2>1, SameProgram DEF Distinct
    <2> QED
      BY <2>1, <2>2, SameRegistry DEF TypesInv
  <1>8. CASE \/ ResolveNames \/ BeginFn \/ TypeValue \/ TypeCall \/ VisitCallee \/ Defer
             \/ FinishFn \/ ReturnsInferred \/ CheckMethods
    <2>1. phase \notin {"declare", "types"}
      BY <1>8 DEF ResolveNames, BeginFn, TypeValue, TypeCall, VisitCallee, Defer, FinishFn,
                  ReturnsInferred, CheckMethods, Typing, FnTyped
    <2>2. phase' \notin {"declare", "types"} /\ UNCHANGED <<prog, types>>
      BY <1>8, <2>1 DEF ResolveNames, BeginFn, TypeValue, TypeCall, VisitCallee, Defer, FinishFn,
                  ReturnsInferred, CheckMethods, Visit, Enter, Reject, checkVars
    <2> QED
      BY <2>1, <2>2, OthersKeepTypes
  <1>9. CASE Prove \/ Evaluate \/ Return \/ Run \/ UNCHANGED vars
    <2>1. /\ UNCHANGED <<prog, types, phase, stack>>
          /\ phase = "proofs" \/ verdict' = verdict
      BY <1>9 DEF Prove, Evaluate, Return, Run, vars, checkVars
    <2> QED
      BY <2>1, OthersKeepTypes DEF TypesInv
  <1> QED
    BY <1>2, <1>4, <1>5, <1>6, <1>7, <1>8, <1>9 DEF Next, Build

LEMMA PastPhase ==
  ASSUME phase \in Elements(Phases)
  PROVE  /\ Past("types") => phase \notin {"declare", "types"}
         /\ Past("returns") => phase \in {"methods", "proofs"}
  <1>1. DOMAIN Phases = 1..6
    BY DEF Phases
  <1> QED
    BY <1>1 DEF Past, Phases

\* The registry takes exactly the programs whose types are well formed, however
\* many they are and in whatever order they refer to each other: no circle gets
\* by, and none is seen where there is none (resolveTypes).
THEOREM TypesRight == Spec => []TypesResolveRight
  <1>1. Init => TypeOK /\ CallsOK /\ TypesInv
    BY InitTyped, InitTypes
  <1>2. TypeOK /\ CallsOK /\ TypesInv /\ [Next]_vars => TypeOK' /\ CallsOK' /\ TypesInv'
    BY StepTyped, StepTypes
  <1>3. ASSUME TypeOK, TypesInv PROVE TypesResolveRight
    <2>1. ASSUME Past("types") PROVE WellFormed
      <3>1. /\ Distinct(prog.types) /\ "rat" \notin TypeNames /\ TypeNames = types /\ RegistryOK
        BY <1>3, <2>1, PastPhase DEF TypesInv, TypeOK
      <3>2. \A t \in Elements(prog.types) : \A ref \in Elements(t.refs) : Fits(ref)
        <4> TAKE t \in Elements(prog.types)
        <4>1. t.name \in types /\ RefsOf(t.name) = t.refs
          BY <3>1, TypeUnique DEF RefsOf
        <4> QED
          BY <3>1, <4>1 DEF RegistryOK, Resolved
      <3> QED
        BY <3>1, <3>2 DEF WellFormed, RegistryOK, RefsOf
    <2> QED
      BY <1>3, <2>1 DEF TypesResolveRight, TypesInv
  <1> QED
    BY <1>1, <1>2, <1>3, PTL DEF Spec

-----------------------------------------------------------------------------
(* Functions that call each other *)

LEMMA ReachRefl ==
  ASSUME NEW f \in Fn
  PROVE  f \in Reach(f)
  BY DEF Reach

LEMMA ReachStep ==
  ASSUME NEW f, NEW g \in Reach(f), NEW h \in Calls(g), h \in Fn
  PROVE  h \in Reach(f)
  BY DEF Reach

LEMMA ReachTrans ==
  ASSUME NEW f, NEW g \in Reach(f)
  PROVE  Reach(g) \subseteq Reach(f)
  BY DEF Reach

LEMMA SameReach ==
  ASSUME prog' = prog
  PROVE  /\ \A f : Reach(f)' = Reach(f) /\ Calls(f)' = Calls(f)
         /\ \A f : Inlines(f)' <=> Inlines(f)
  BY DEF Reach, Calls, Inlines, Cases, FnNamed, Fn, Elements

\* The result is a value, or a call of a function with a return type.
Anchor(c) == c.call = None \/ (c.call \in Fn /\ result[c.call] # None)

\* The call was typed while its callee was visited, which has led to f.
Deferred(f, c) ==
  /\ c.call \in Fn /\ f \in Reach(c.call)
  /\ loose \/ (c.call = f /\ c.op = "id")

\* Type t takes result c of f, or the call in c was deferred.
Covered(f, c, t) ==
  \/ c.call = None /\ t # None /\ Sub(c.type, t)
  \/ c.call # None /\ result[c.call] # None /\ t # None /\ Sub(CaseType(c, result[c.call]), t)
  \/ Deferred(f, c)

\* Functions with return types do not only call each other.
AnchoredOK ==
  \A S \in SUBSET {f \in Fn : result[f] # None} :
    S # {} => \E f \in S : \/ Declared(f) # None
                           \/ \E c \in Elements(Cases(f)) : c.call \notin S /\ Anchor(c)

\* In a visit, the type so far takes the results so far, and one of them is
\* anchored if there is a type; the visit leads to those after it on the stack.
FnVisitOK(i) ==
  LET f == stack[i].name
      cases == Cases(f)
  IN  /\ result[f] = Declared(f)
      /\ stack[i].acc # None =>
           \E j \in 1..(stack[i].at - 1) : j \in 1..Len(cases) /\ Anchor(cases[j])
      /\ \A j \in 1..(stack[i].at - 1) :
           j \in 1..Len(cases) => Covered(f, cases[j], stack[i].acc)
      /\ \A j \in i..Len(stack) : stack[j].name \in Reach(f)

\* Once its visit is over, the return type of a function takes all its results.
MemoOK ==
  \A f \in Fn :
    result[f] # None =>
      f \in Visiting \/ \A c \in Elements(Cases(f)) : Covered(f, c, result[f])

ReturnsInv ==
  /\ phase \in {"declare", "types", "names"} => \A f \in Fn : result[f] = None
  /\ AnchoredOK
  /\ phase = "returns" => \A i \in 1..Len(stack) : FnVisitOK(i)
  /\ MemoOK
  /\ phase \in {"methods", "proofs"} => \A f \in Fn : result[f] # None

LEMMA InitReturns == Init => ReturnsInv
  <1> SUFFICES ASSUME NEW p \in Program, InitWith(p) PROVE ReturnsInv
    BY DEF Init
  <1>1. phase = "declare" /\ \A f \in Fn : result[f] = None
    BY DEF InitWith
  <1> QED
    BY <1>1 DEF ReturnsInv, AnchoredOK, MemoOK

\* A type that takes a result is replaced by one above it.
LEMMA CoverWidens ==
  ASSUME TypeOK, NEW f, NEW c \in Guarded, c.call \in Fn \cup {None},
         NEW t \in NumType \cup {None}, NEW u \in NumType \cup {None},
         t # None => u # None /\ Sub(t, u), Covered(f, c, t)
  PROVE  Covered(f, c, u)
  <1>1. CASE c.call = None /\ t # None /\ Sub(c.type, t)
    <2>1. c.type \in NumType /\ t \in NumType /\ u \in NumType
      BY <1>1 DEF Guarded
    <2> QED
      BY <1>1, <2>1, SubOrder DEF Covered
  <1>2. CASE c.call # None /\ result[c.call] # None /\ t # None /\ Sub(CaseType(c, result[c.call]), t)
    <2>1. CaseType(c, result[c.call]) \in NumType /\ t \in NumType /\ u \in NumType
      BY <1>2, CaseTyped DEF TypeOK
    <2> QED
      BY <1>2, <2>1, SubOrder DEF Covered
  <1> QED
    BY <1>1, <1>2 DEF Covered

\* What is in the memo stays there.
Grows ==
  /\ prog' = prog
  /\ \A g \in Fn : result[g] # None => result'[g] = result[g]
  /\ loose => loose'

LEMMA CoverStays ==
  ASSUME Grows, NEW f, NEW c, c.call \in Fn \cup {None}, NEW t, Covered(f, c, t)
  PROVE  Covered(f, c, t)'
  <1>1. Deferred(f, c) => Deferred(f, c)'
    BY SameReach, SameProgram DEF Deferred, Grows
  <1> QED
    BY <1>1 DEF Covered, Grows

LEMMA AnchorStays ==
  ASSUME Grows, NEW c, Anchor(c)
  PROVE  Anchor(c)'
  BY SameProgram DEF Anchor, Grows

\* The cases of a function are well formed once names are resolved.
LEMMA CaseAt ==
  ASSUME TypeOK, CallsOK, phase \in {"returns", "methods", "proofs"}, NEW f \in Fn
  PROVE  /\ \A c \in Elements(Cases(f)) : c \in Guarded /\ c.call \in Fn \cup {None}
         /\ \A j \in 1..Len(Cases(f)) : Cases(f)[j] \in Elements(Cases(f))
         /\ \A c \in Elements(Cases(f)) : \E j \in 1..Len(Cases(f)) : c = Cases(f)[j]
         /\ Len(Cases(f)) \in Nat
  <1>1. Cases(f) \in Seq(Guarded)
    BY FnFound DEF TypeOK
  <1> QED
    BY <1>1, Elems DEF CallsOK

\* A visit that goes on below others keeps what is said of it.
LEMMA VisitStays ==
  ASSUME TypeOK, CallsOK, phase = "returns", Grows, NEW i \in 1..Len(stack), FnVisitOK(i),
         stack'[i] = stack[i], result'[stack[i].name] = result[stack[i].name],
         \A j \in i..Len(stack') : stack'[j].name \in Reach(stack[i].name)
  PROVE  FnVisitOK(i)'
  <1>1. PICK f : f = stack[i].name
    OBVIOUS
  <1>2. f \in Fn
    BY <1>1 DEF TypeOK, Visiting, Elements
  <1>3. /\ Cases(f)' = Cases(f) /\ Declared(f)' = Declared(f) /\ Reach(f)' = Reach(f)
    BY SameProgram, SameReach DEF Grows
  <1>4. \A j \in 1..Len(Cases(f)) : Cases(f)[j].call \in Fn \cup {None}
    BY <1>2, CaseAt
  <1>5. \A c, t : c.call \in Fn \cup {None} /\ Covered(f, c, t) => Covered(f, c, t)'
    BY CoverStays
  <1>6. \A c : Anchor(c) => Anchor(c)'
    BY AnchorStays
  <1>7. PICK v : v = stack[i] /\ v = stack'[i]
    OBVIOUS
  <1>8. v.name = f
    BY <1>1, <1>7
  <1>9. /\ result'[f] = Declared(f)
        /\ v.acc # None => \E j \in 1..(v.at - 1) : j \in 1..Len(Cases(f)) /\ Anchor(Cases(f)[j])
        /\ \A j \in 1..(v.at - 1) : j \in 1..Len(Cases(f)) => Covered(f, Cases(f)[j], v.acc)
    BY <1>1, <1>7 DEF FnVisitOK
  <1>10. PICK cases : cases = Cases(f) /\ cases = Cases(f)'
    BY <1>3
  <1>11. /\ v.acc # None => \E j \in 1..(v.at - 1) : j \in 1..Len(cases) /\ Anchor(cases[j])'
         /\ \A j \in 1..(v.at - 1) : j \in 1..Len(cases) => Covered(f, cases[j], v.acc)'
    BY <1>4, <1>5, <1>6, <1>9, <1>10
  <1>12. stack[i]' = v
    BY <1>7
  <1> QED
    BY <1>1, <1>3, <1>8, <1>9, <1>10, <1>11, <1>12 DEF FnVisitOK

LEMMA CoversStay ==
  ASSUME TypeOK, CallsOK, phase \in {"returns", "methods", "proofs"}, Grows,
         NEW f \in Fn, NEW t, \A c \in Elements(Cases(f)) : Covered(f, c, t)
  PROVE  \A c \in Elements(Cases(f))' : Covered(f, c, t)'
  <1>1. Elements(Cases(f))' = Elements(Cases(f))
    BY SameProgram DEF Grows, Elements
  <1>2. \A c \in Elements(Cases(f)) : c.call \in Fn \cup {None}
    BY CaseAt
  <1>3. \A c : c.call \in Fn \cup {None} /\ Covered(f, c, t) => Covered(f, c, t)'
    BY CoverStays
  <1> QED
    BY <1>1, <1>2, <1>3

\* A function gets a return type when it has an anchor.
LEMMA AnchoredStays ==
  ASSUME TypeOK, AnchoredOK, Grows, NEW n \in Fn, \A g \in Fn \ {n} : result'[g] = result[g],
         \/ result'[n] = None \/ result[n] # None \/ Declared(n) # None
         \/ \E c \in Elements(Cases(n)) : Anchor(c)
  PROVE  AnchoredOK'
  <1>1. /\ Fn' = Fn /\ \A f : Declared(f)' = Declared(f)
        /\ \A f : Elements(Cases(f))' = Elements(Cases(f))
    BY SameProgram DEF Grows, Elements
  <1>2. \A c : Anchor(c) => Anchor(c)'
    BY AnchorStays
  <1>3. n # None
    BY FnFound DEF TypeOK
  <1>4. ASSUME NEW S \in SUBSET {f \in Fn : result'[f] # None}, S # {}
        PROVE  \E f \in S : \/ Declared(f) # None
                            \/ \E c \in Elements(Cases(f)) : c.call \notin S /\ Anchor(c)
    <2>1. CASE n \notin S \/ result[n] # None
      <3>1. S \in SUBSET {f \in Fn : result[f] # None}
        BY <2>1
      <3> QED
        BY <1>4, <3>1 DEF AnchoredOK
    <2>2. CASE n \in S /\ result[n] = None /\ Declared(n) # None
      BY <2>2
    <2>3. CASE n \in S /\ result[n] = None /\ Declared(n) = None
      <3>1. PICK c \in Elements(Cases(n)) : Anchor(c)
        BY <1>4, <2>3
      <3>2. \A d : Anchor(d) => d.call # n
        BY <1>3, <2>3 DEF Anchor
      <3>3. CASE S = {n}
        BY <3>1, <3>2, <3>3
      <3>4. CASE S # {n}
        <4>1. S \ {n} \in SUBSET {f \in Fn : result[f] # None} /\ S \ {n} # {}
          BY <1>4, <3>4
        <4>2. PICK f \in S \ {n} :
                \/ Declared(f) # None
                \/ \E d \in Elements(Cases(f)) : d.call \notin S \ {n} /\ Anchor(d)
          BY <4>1 DEF AnchoredOK
        <4> QED
          BY <3>2, <4>2
      <3> QED
        BY <3>3, <3>4
    <2> QED
      BY <2>1, <2>2, <2>3
  <1> QED
    BY <1>1, <1>2, <1>4 DEF AnchoredOK

\* Steps of the other phases, and refusals.
LEMMA OthersKeepReturns ==
  ASSUME TypeOK, CallsOK, ReturnsInv, UNCHANGED <<prog, result, loose>>,
         \/ UNCHANGED <<phase, stack>>
         \/ /\ phase \in {"declare", "types", "names"}
            /\ phase' \in {"declare", "types", "names", "returns"}
            /\ phase' = "returns" => stack' = <<>>
         \/ phase = "returns" /\ phase' = "methods" /\ stack = <<>> /\ \A f \in Fn : result[f] # None
         \/ phase = "methods" /\ phase' = "proofs"
  PROVE  ReturnsInv'
  <1>1. Grows
    BY DEF Grows
  <1>2. /\ Fn' = Fn /\ \A f : Cases(f)' = Cases(f) /\ Declared(f)' = Declared(f)
        /\ \A f : Reach(f)' = Reach(f)
    BY SameProgram, SameReach
  <1>3. AnchoredOK'
    <2>1. \A f : Elements(Cases(f))' = Elements(Cases(f))
      BY <1>2 DEF Elements
    <2>2. \A c : Anchor(c)' <=> Anchor(c)
      BY <1>2 DEF Anchor
    <2> QED
      BY <1>2, <2>1, <2>2 DEF AnchoredOK, ReturnsInv
  <1>4. MemoOK'
    <2> SUFFICES ASSUME NEW f \in Fn, result[f] # None, f \notin Visiting'
                 PROVE  \A c \in Elements(Cases(f))' : Covered(f, c, result[f])'
      BY <1>2 DEF MemoOK
    <2>1. phase \in {"returns", "methods", "proofs"}
      BY DEF ReturnsInv, TypeOK, Phases, Elements
    <2>2. f \notin Visiting
      BY <2>1 DEF Visiting, Elements, TypeOK
    <2>3. PICK t : t = result[f] /\ t = result[f]'
      OBVIOUS
    <2>4. \A c \in Elements(Cases(f)) : Covered(f, c, t)
      BY <2>2, <2>3 DEF ReturnsInv, MemoOK
    <2> QED
      BY <1>1, <2>1, <2>3, <2>4, CoversStay
  <1>5. ASSUME phase' = "returns", NEW i \in 1..Len(stack') PROVE FnVisitOK(i)'
    <2>1. CASE stack' = <<>>
      BY <1>5, <2>1
    <2>2. CASE UNCHANGED <<phase, stack>>
      <3>1. FnVisitOK(i) /\ phase = "returns" /\ i \in 1..Len(stack)
        BY <1>5, <2>2 DEF ReturnsInv
      <3>2. \A j \in i..Len(stack') : stack'[j].name \in Reach(stack[i].name)
        BY <2>2, <3>1 DEF FnVisitOK
      <3> QED
        BY <1>1, <2>2, <3>1, <3>2, VisitStays
    <2> QED
      BY <1>5, <2>1, <2>2
  <1> QED
    BY <1>2, <1>3, <1>4, <1>5 DEF ReturnsInv

\* A visit begins, of a function that is called by the innermost one, if any.
LEMMA VisitReturns ==
  ASSUME TypeOK, CallsOK, ReturnsInv, phase = "returns",
         NEW f \in Fn, f \notin Visiting, result[f] = None, Visit(f),
         \A i \in 1..Len(stack) : f \in Reach(stack[i].name)
  PROVE  ReturnsInv'
  <1>1. stack \in Seq(Frame) /\ result \in [Fn -> NumType \cup {None}]
    BY DEF TypeOK, Frame
  <1>2. /\ Push(f) /\ UNCHANGED <<prog, phase, loose>>
        /\ result' = [result EXCEPT ![f] = Declared(f)]
    BY DEF Visit
  <1>3. f \in STRING
    BY FnFound DEF TypeOK
  <1>4. /\ Len(stack') = Len(stack) + 1
        /\ \A i \in 1..Len(stack) : stack'[i] = stack[i]
        /\ stack'[Len(stack) + 1] = [name |-> f, at |-> 1, acc |-> None]
        /\ Visiting' = Visiting \cup {f}
    BY <1>1, <1>2, <1>3, Pushed
  <1>5. /\ \A g \in Fn \ {f} : result'[g] = result[g]
        /\ result'[f] = Declared(f)
    BY <1>1, <1>2
  <1>6. Grows
    BY <1>2, <1>5 DEF Grows
  <1>7. Fn' = Fn /\ \A g : Declared(g)' = Declared(g) /\ Reach(g)' = Reach(g)
    BY <1>2, SameProgram, SameReach
  <1>8. AnchoredOK'
    BY <1>5, <1>6, AnchoredStays DEF ReturnsInv
  <1>9. MemoOK'
    <2> SUFFICES ASSUME NEW g \in Fn, result'[g] # None, g \notin Visiting'
                 PROVE  \A c \in Elements(Cases(g))' : Covered(g, c, result[g])'
      BY <1>7 DEF MemoOK
    <2>1. g # f /\ g \notin Visiting /\ result'[g] = result[g]
      BY <1>4, <1>5
    <2>2. PICK t : t = result[g] /\ t = result[g]'
      BY <2>1
    <2>3. \A c \in Elements(Cases(g)) : Covered(g, c, t)
      BY <2>1, <2>2 DEF ReturnsInv, MemoOK
    <2> QED
      BY <1>6, <2>2, <2>3, CoversStay
  <1>10. ASSUME NEW i \in 1..Len(stack') PROVE FnVisitOK(i)'
    <2>1. Len(stack) \in Nat
      BY <1>1
    <2>2. CASE i = Len(stack) + 1
      <3>1. stack'[i] = [name |-> f, at |-> 1, acc |-> None] /\ Len(stack') = i
        BY <1>4, <2>2
      <3>2. \A j \in i..Len(stack') : stack'[j].name = f
        BY <2>1, <2>2, <3>1
      <3>3. f \in Reach(f)
        BY ReachRefl
      <3>4. stack'[i].name = f /\ stack'[i].at = 1 /\ stack'[i].acc = None
        BY <3>1
      <3> QED
        BY <1>5, <1>7, <3>2, <3>3, <3>4 DEF FnVisitOK
    <2>3. CASE i \in 1..Len(stack)
      <3>1. FnVisitOK(i) /\ stack'[i] = stack[i]
        BY <1>4, <2>3 DEF ReturnsInv
      <3>2. stack[i].name \in Visiting /\ stack[i].name \in Fn
        BY <1>1, <2>3 DEF Visiting, Elements, TypeOK
      <3>3. result'[stack[i].name] = result[stack[i].name]
        BY <1>5, <3>2
      <3>4. \A j \in i..Len(stack') : stack'[j].name \in Reach(stack[i].name)
        <4> TAKE j \in i..Len(stack')
        <4>1. CASE j = Len(stack) + 1
          BY <1>4, <2>3, <4>1
        <4>2. CASE j # Len(stack) + 1
          <5>1. j \in i..Len(stack) /\ j \in 1..Len(stack)
            BY <1>4, <2>1, <2>3, <4>2
          <5> QED
            BY <1>4, <3>1, <5>1 DEF FnVisitOK
        <4> QED
          BY <4>1, <4>2
      <3> QED
        BY <1>6, <2>3, <3>1, <3>3, <3>4, VisitStays
    <2> QED
      BY <1>4, <2>1, <2>2, <2>3
  <1> QED
    BY <1>2, <1>8, <1>9, <1>10 DEF ReturnsInv

\* A result is typed.
LEMMA AdvanceReturns ==
  ASSUME TypeOK, CallsOK, ReturnsInv, Typing, NEW t \in NumType \cup {None}, Advance(t),
         UNCHANGED <<prog, phase, result>>, loose => loose',
         Top.acc # None => t # None /\ Sub(Top.acc, t),
         t # None => Top.acc # None \/ Anchor(Case),
         \A f, c : f = Top.name /\ c = Case => Covered(f, c, t)'
  PROVE  ReturnsInv'
  <1>1. /\ stack \in Seq(Frame) /\ result \in [Fn -> NumType \cup {None}]
        /\ phase = "returns" /\ stack # <<>>
    BY DEF TypeOK, Frame, Typing
  <1>2. /\ Len(stack') = Len(stack)
        /\ \A i \in 1..(Len(stack) - 1) : stack'[i] = stack[i]
        /\ stack'[Len(stack)] = [name |-> Top.name, at |-> Top.at + 1, acc |-> t]
        /\ Visiting' = Visiting
    BY <1>1, Advanced
  <1>3. Grows
    BY DEF Grows
  <1>4. /\ Fn' = Fn
        /\ \A g : Declared(g)' = Declared(g) /\ Reach(g)' = Reach(g) /\ Cases(g)' = Cases(g)
    BY SameProgram, SameReach
  <1>5. /\ Len(stack) \in Nat /\ Len(stack) > 0
        /\ Top \in Frame /\ Top = stack[Len(stack)] /\ Top.at \in Nat
    BY <1>1, TopFrame DEF Frame
  <1>6. AnchoredOK'
    <2>1. \A f : Elements(Cases(f))' = Elements(Cases(f))
      BY <1>4 DEF Elements
    <2>2. \A c : Anchor(c)' <=> Anchor(c)
      BY <1>4 DEF Anchor
    <2> QED
      BY <1>4, <2>1, <2>2 DEF AnchoredOK, ReturnsInv
  <1>7. MemoOK'
    <2> SUFFICES ASSUME NEW g \in Fn, result'[g] # None, g \notin Visiting'
                 PROVE  \A c \in Elements(Cases(g))' : Covered(g, c, result[g])'
      BY <1>4 DEF MemoOK
    <2>1. PICK u : u = result[g] /\ u = result[g]'
      OBVIOUS
    <2>2. \A c \in Elements(Cases(g)) : Covered(g, c, u)
      BY <1>2, <2>1 DEF ReturnsInv, MemoOK
    <2> QED
      BY <1>1, <1>3, <2>1, <2>2, CoversStay
  <1>8. \A i \in 1..Len(stack) : stack'[i].name = stack[i].name
    BY <1>2, <1>5
  <1>9. ASSUME NEW i \in 1..Len(stack') PROVE FnVisitOK(i)'
    <2>1. FnVisitOK(i)
      BY <1>1, <1>2 DEF ReturnsInv
    <2>2. \A j \in i..Len(stack') : stack'[j].name \in Reach(stack[i].name)
      BY <1>2, <1>5, <1>8, <2>1 DEF FnVisitOK
    <2>3. CASE i # Len(stack)
      <3>1. stack'[i] = stack[i] /\ i \in 1..Len(stack)
        BY <1>2, <1>5, <2>3
      <3> QED
        BY <1>1, <1>3, <2>1, <2>2, <3>1, VisitStays
    <2>4. CASE i = Len(stack)
      <3>1. PICK f, c, a, n : f = Top.name /\ c = Case /\ a = Top.acc /\ n = Top.at
        OBVIOUS
      <3>2. PICK cases : cases = Cases(f) /\ cases = Cases(f)'
        BY <1>4
      <3>3. /\ f \in Fn /\ c = cases[n] /\ n \in 1..Len(cases) /\ Len(cases) \in Nat
        BY <3>1, <3>2, CaseFound DEF Case
      <3>4. \A j \in 1..Len(cases) : cases[j] \in Guarded /\ cases[j].call \in Fn \cup {None}
        BY <1>1, <3>2, <3>3, CaseAt
      <3>5. /\ result[f] = Declared(f)
            /\ a # None => \E j \in 1..(n - 1) : j \in 1..Len(cases) /\ Anchor(cases[j])
            /\ \A j \in 1..(n - 1) : j \in 1..Len(cases) => Covered(f, cases[j], a)
        BY <1>5, <2>1, <2>4, <3>1, <3>2 DEF FnVisitOK
      <3>6. \A d : Anchor(d) => Anchor(d)'
        BY <1>3, AnchorStays
      <3>7. t # None => \E j \in 1..n : j \in 1..Len(cases) /\ Anchor(cases[j])'
        BY <3>1, <3>3, <3>5, <3>6
      <3>8. ASSUME NEW j \in 1..n PROVE Covered(f, cases[j], t)'
        <4>1. CASE j = n
          BY <3>1, <3>3, <4>1
        <4>2. CASE j # n
          <5>1. j \in 1..(n - 1) /\ j \in 1..Len(cases)
            BY <3>3, <4>2
          <5>2. PICK d : d = cases[j]
            OBVIOUS
          <5>3. Covered(f, d, a) /\ d \in Guarded /\ d.call \in Fn \cup {None}
            BY <3>4, <3>5, <5>1, <5>2
          <5>4. a \in NumType \cup {None} /\ (a # None => t # None /\ Sub(a, t))
            BY <1>5, <3>1 DEF Frame
          <5>5. Covered(f, d, t)
            BY <5>3, <5>4, CoverWidens
          <5> QED
            BY <1>3, <5>2, <5>3, <5>5, CoverStays
        <4> QED
          BY <4>1, <4>2
      <3>9. /\ stack'[i].name = f /\ stack'[i].at - 1 = n /\ stack'[i].acc = t
        <4>1. n \in Nat
          BY <3>1, <1>5
        <4>2. stack'[i].name = f /\ stack'[i].at = n + 1 /\ stack'[i].acc = t
          BY <1>2, <2>4, <3>1
        <4> QED
          BY <4>1, <4>2
      <3>10. \A j \in i..Len(stack') : stack'[j].name \in Reach(f)
        BY <1>5, <2>2, <2>4, <3>1
      <3> QED
        BY <1>4, <3>2, <3>5, <3>7, <3>8, <3>9, <3>10 DEF FnVisitOK
    <2> QED
      BY <2>3, <2>4
  <1> QED
    BY <1>1, <1>6, <1>7, <1>9 DEF ReturnsInv

\* A visit ends: the type so far, or the declared one above it, takes all results.
LEMMA FinishReturns ==
  ASSUME TypeOK, CallsOK, ReturnsInv, FinishFn, ~Reject
  PROVE  ReturnsInv'
  <1>1. /\ stack \in Seq(Frame) /\ result \in [Fn -> NumType \cup {None}]
        /\ phase = "returns" /\ stack # <<>> /\ Distinct(stack)
    BY DEF TypeOK, Frame, FinishFn, FnTyped
  <1>2. /\ Len(stack) \in Nat /\ Len(stack) > 0
        /\ Top \in Frame /\ Top = stack[Len(stack)] /\ Top.at \in Nat /\ Top.name \in Fn
    BY <1>1, TopFrame DEF Frame, TypeOK
  <1>3. PICK f, a, n : f = Top.name /\ a = Top.acc /\ n = Top.at
    OBVIOUS
  <1>4. PICK d : d = Declared(f)
    OBVIOUS
  <1>5. f \in Fn /\ a \in NumType \cup {None} /\ n \in Nat /\ d \in NumType \cup {None}
    BY <1>2, <1>3, <1>4, FnFound DEF Frame, TypeOK
  <1>6. /\ a # None /\ (d # None => Sub(a, d)) /\ ~HasCase
        /\ result' = [result EXCEPT ![f] = IF d = None THEN a ELSE d]
        /\ Pop /\ UNCHANGED <<prog, phase, loose>>
    BY <1>3, <1>4 DEF FinishFn, FnTyped
  <1>7. /\ Len(stack') = Len(stack) - 1
        /\ \A i \in 1..(Len(stack) - 1) : stack'[i] = stack[i]
        /\ Visiting \subseteq Visiting' \cup {f} /\ f \notin Visiting'
    BY <1>1, <1>3, <1>6, Popped
  <1>8. /\ \A g \in Fn \ {f} : result'[g] = result[g]
        /\ result'[f] = IF d = None THEN a ELSE d
    BY <1>1, <1>5, <1>6
  <1>9. \A i \in 1..Len(stack) : FnVisitOK(i)
    BY <1>1 DEF ReturnsInv
  <1>10. FnVisitOK(Len(stack))
    BY <1>2, <1>9
  <1>11. PICK cases : cases = Cases(f)
    OBVIOUS
  <1>12. /\ \A j \in 1..Len(cases) : cases[j] \in Elements(cases)
         /\ \A c \in Elements(cases) :
              c \in Guarded /\ c.call \in Fn \cup {None} /\ \E j \in 1..Len(cases) : c = cases[j]
         /\ Len(cases) \in Nat /\ Len(cases) < n
    <2>1. Len(cases) \in Nat
      BY <1>1, <1>5, <1>11, CaseAt
    <2>2. Len(cases) < n
      BY <1>3, <1>5, <1>6, <1>11, <2>1 DEF HasCase
    <2> QED
      BY <1>1, <1>5, <1>11, <2>1, <2>2, CaseAt
  <1>13. /\ result[f] = d
         /\ \E j \in 1..(n - 1) : j \in 1..Len(cases) /\ Anchor(cases[j])
         /\ \A j \in 1..(n - 1) : j \in 1..Len(cases) => Covered(f, cases[j], a)
    BY <1>2, <1>3, <1>4, <1>6, <1>10, <1>11 DEF FnVisitOK
  <1>14. Grows
    BY <1>6, <1>8, <1>13 DEF Grows
  <1>15. Fn' = Fn /\ \A g : Declared(g)' = Declared(g) /\ Reach(g)' = Reach(g)
    BY <1>6, SameProgram, SameReach
  <1>16. AnchoredOK'
    <2>1. \E c \in Elements(Cases(f)) : Anchor(c)
      BY <1>11, <1>12, <1>13
    <2> QED
      BY <1>5, <1>8, <1>14, <2>1, AnchoredStays DEF ReturnsInv
  <1>17. MemoOK'
    <2> SUFFICES ASSUME NEW g \in Fn, result'[g] # None, g \notin Visiting'
                 PROVE  \A c \in Elements(Cases(g))' : Covered(g, c, result[g])'
      BY <1>15 DEF MemoOK
    <2>1. PICK t : t = result[g]'
      OBVIOUS
    <2>2. \A c \in Elements(Cases(g)) : Covered(g, c, t)
      <3>1. CASE g = f
        <4> TAKE c \in Elements(Cases(g))
        <4>1. PICK j \in 1..Len(cases) : c = cases[j]
          BY <1>11, <1>12, <3>1
        <4>2. c \in Guarded /\ c.call \in Fn \cup {None}
          BY <1>11, <1>12, <3>1
        <4>3. j \in 1..(n - 1)
          BY <1>5, <1>12
        <4>4. Covered(f, c, a)
          BY <1>13, <4>1, <4>3
        <4>5. t \in NumType \cup {None} /\ t # None /\ Sub(a, t)
          BY <1>5, <1>6, <1>8, <2>1, <3>1, SubOrder
        <4> QED
          BY <1>5, <3>1, <4>2, <4>4, <4>5, CoverWidens
      <3>2. CASE g # f
        <4>1. t = result[g] /\ g \notin Visiting /\ t # None
          BY <1>7, <1>8, <2>1, <3>2
        <4> QED
          BY <4>1 DEF ReturnsInv, MemoOK
      <3> QED
        BY <3>1, <3>2
    <2> QED
      BY <1>1, <1>14, <2>1, <2>2, CoversStay
  <1>18. ASSUME NEW i \in 1..Len(stack') PROVE FnVisitOK(i)'
    <2>1. i \in 1..Len(stack) /\ i < Len(stack) /\ stack'[i] = stack[i]
      BY <1>2, <1>7
    <2>2. FnVisitOK(i)
      BY <1>9, <2>1
    <2>3. stack[i].name # f /\ stack[i].name \in Fn
      BY <1>1, <1>2, <1>3, <2>1 DEF Distinct, TypeOK, Visiting, Elements
    <2>4. result'[stack[i].name] = result[stack[i].name]
      BY <1>8, <2>3
    <2>5. \A j \in i..Len(stack') : stack'[j].name \in Reach(stack[i].name)
      <3> TAKE j \in i..Len(stack')
      <3>1. j \in i..Len(stack) /\ stack'[j] = stack[j]
        BY <1>2, <1>7, <2>1
      <3> QED
        BY <2>2, <3>1 DEF FnVisitOK
    <2> QED
      BY <1>1, <1>14, <2>1, <2>2, <2>4, <2>5, VisitStays
  <1> QED
    BY <1>1, <1>6, <1>16, <1>17, <1>18 DEF ReturnsInv

\* The type so far, with one more result.
LEMMA UnifyCovers ==
  ASSUME NEW t \in NumType \cup {None}, NEW u \in NumType \cup {None}
  PROVE  /\ t # None => Unify(t, u) # None /\ Sub(t, Unify(t, u))
         /\ u # None => Unify(t, u) # None /\ Sub(u, Unify(t, u))
         /\ Unify(t, u) # None => t # None \/ u # None
  <1>1. CASE t = None \/ u = None
    BY <1>1, SubOrder DEF Unify
  <1>2. CASE t # None /\ u # None
    <2>1. t \in NumType /\ u \in NumType /\ Unify(t, u) = Join(t, u)
      BY <1>2 DEF Unify
    <2>2. Join(t, u) \in NumType /\ Sub(t, Join(t, u)) /\ Sub(u, Join(t, u))
      BY <2>1, JoinType, JoinLeastUpperBound
    <2> QED
      BY <1>2, <2>1, <2>2, NoneAssumption
  <1> QED
    BY <1>1, <1>2

LEMMA StepReturns ==
  ASSUME TypeOK, CallsOK, ReturnsInv, [Next]_vars
  PROVE  ReturnsInv'
  <1>1. CASE \/ DeclareTypes \/ BeginType \/ ResolveRef \/ FinishType \/ TypesResolved
             \/ ResolveNames
    <2>1. /\ UNCHANGED <<prog, result, loose>> /\ phase \in {"declare", "types", "names"}
          /\ phase' \in {"declare", "types", "names", "returns"}
          /\ phase' = "returns" => phase = "names" /\ stack' = stack
      BY <1>1 DEF DeclareTypes, BeginType, ResolveRef, FinishType, TypesResolved, ResolveNames,
                  Enter, Reject, checkVars
    <2>2. phase' = "returns" => stack' = <<>>
      BY <2>1 DEF TypeOK
    <2> QED
      BY <2>1, <2>2, OthersKeepReturns
  <1>2. CASE BeginFn
    <2> DEFINE f == First(prog.fns, {g \in Fn : result[g] = None})
    <2>1. f \in Fn /\ result[f] = None
      <3>1. prog.fns \in Seq(FnDef)
        BY DEF TypeOK, IsProgram
      <3>2. \E i \in DOMAIN prog.fns : prog.fns[i].name \in {g \in Fn : result[g] = None}
        BY <1>2 DEF BeginFn, Fn, Elements
      <3>3. f \in {g \in Fn : result[g] = None}
        BY <3>1, <3>2, FirstDeclared
      <3> QED
        BY <3>3
    <2>2. Visit(f) /\ stack = <<>> /\ phase = "returns"
      BY <1>2 DEF BeginFn
    <2> HIDE DEF f
    <2>3. f \notin Visiting /\ Len(stack) = 0
      BY <2>2 DEF Visiting, Elements
    <2> QED
      BY <2>1, <2>2, <2>3, VisitReturns
  <1>3. ASSUME Typing
        PROVE  /\ phase = "returns" /\ stack # <<>> /\ Top.acc \in NumType \cup {None}
               /\ Top.name \in Fn /\ Case \in Guarded /\ Case.type \in NumType
               /\ Case.call # None => Case.call \in Fn /\ Case.call \in Calls(Top.name)
               /\ Len(stack) \in Nat /\ Len(stack) > 0 /\ Top = stack[Len(stack)]
    BY <1>3, TopFrame, CaseFound DEF Frame, Typing, TypeOK
  <1>4. CASE TypeValue
    <2>1. Typing /\ Case.call = None
      BY <1>4 DEF TypeValue
    <2>2. PICK c, t : c = Case /\ t = Unify(Top.acc, Case.type)
      OBVIOUS
    <2>3. /\ t \in NumType \cup {None} /\ t # None /\ Sub(c.type, t)
          /\ Top.acc # None => t # None /\ Sub(Top.acc, t)
      <3>1. Case.type # None
        BY <1>3, <2>1, NoneAssumption
      <3> QED
        BY <1>3, <2>1, <2>2, <3>1, UnifyType, UnifyCovers
    <2>4. Advance(t) /\ UNCHANGED <<prog, phase, result, loose>>
      BY <1>4, <2>2 DEF TypeValue, checkVars
    <2>5. \A f : Covered(f, c, t)'
      BY <2>1, <2>2, <2>3 DEF Covered
    <2>6. Anchor(Case)
      BY <2>1 DEF Anchor
    <2> QED
      BY <2>1, <2>2, <2>3, <2>4, <2>5, <2>6, AdvanceReturns
  <1>5. CASE TypeCall
    <2>1. Typing /\ Case.call # None /\ result[Case.call] # None /\ Case.call \in Fn
      BY <1>3, <1>5 DEF TypeCall
    <2>2. PICK c, u : c = Case /\ u = CaseType(Case, result[Case.call])
      OBVIOUS
    <2>3. u \in NumType /\ u # None
      <3>1. result[Case.call] \in NumType \cup {None}
        BY <2>1 DEF TypeOK
      <3> QED
        BY <1>3, <2>1, <2>2, <3>1, CaseTyped, NoneAssumption
    <2>4. PICK t : t = Unify(Top.acc, u)
      OBVIOUS
    <2>5. /\ t \in NumType \cup {None} /\ t # None /\ Sub(u, t)
          /\ Top.acc # None => t # None /\ Sub(Top.acc, t)
      BY <1>3, <2>1, <2>3, <2>4, UnifyType, UnifyCovers
    <2>6. Advance(t) /\ UNCHANGED <<prog, phase, result, loose>>
      BY <1>5, <2>2, <2>4 DEF TypeCall, checkVars
    <2>7. \A f : Covered(f, c, t)'
      BY <2>1, <2>2, <2>5, <2>6 DEF Covered
    <2>8. Anchor(Case)
      BY <2>1 DEF Anchor
    <2> QED
      BY <2>1, <2>2, <2>5, <2>6, <2>7, <2>8, AdvanceReturns
  <1>6. CASE VisitCallee
    <2>1. /\ Typing /\ Case.call # None /\ result[Case.call] = None /\ Case.call \notin Visiting
          /\ Visit(Case.call)
      BY <1>6 DEF VisitCallee
    <2>2. PICK g : g = Case.call
      OBVIOUS
    <2>3. g \in Fn /\ g \in Calls(Top.name)
      BY <1>3, <2>1, <2>2
    <2>4. ASSUME NEW i \in 1..Len(stack) PROVE g \in Reach(stack[i].name)
      <3>1. FnVisitOK(i)
        BY <1>3, <2>1 DEF ReturnsInv
      <3>2. Top.name \in Reach(stack[i].name)
        BY <1>3, <2>1, <3>1 DEF FnVisitOK
      <3> QED
        BY <2>3, <3>2, ReachStep
    <2>5. g \notin Visiting /\ result[g] = None /\ Visit(g)
      BY <2>1, <2>2
    <2> QED
      BY <1>3, <2>1, <2>3, <2>4, <2>5, VisitReturns
  <1>7. CASE Defer
    <2>1. /\ Typing /\ Case.call # None /\ result[Case.call] = None /\ Case.call \in Visiting
      BY <1>7 DEF Defer
    <2>2. PICK c, t : c = Case /\ t = Top.acc
      OBVIOUS
    <2>3. Unify(t, CaseType(Case, None)) = t
      BY DEF Unify, CaseType
    <2>4. Advance(t) /\ UNCHANGED <<prog, phase, result>> /\ loose' = (loose \/ Lax)
      BY <1>7, <2>2, <2>3 DEF Defer
    <2>5. ASSUME NEW f, f = Top.name PROVE Covered(f, c, t)'
      <3>1. stack \in Seq(Frame) /\ DOMAIN stack = 1..Len(stack)
        BY DEF TypeOK, Frame
      <3>2. PICK i \in 1..Len(stack) : stack[i].name = Case.call
        BY <2>1, <3>1 DEF Visiting, Elements
      <3>3. FnVisitOK(i)
        BY <1>3, <2>1 DEF ReturnsInv
      <3>4. f \in Reach(c.call)
        BY <1>3, <2>1, <2>2, <2>5, <3>2, <3>3 DEF FnVisitOK
      <3>5. c.call \in Fn
        BY <1>3, <2>1, <2>2
      <3>6. loose' \/ (c.call = f /\ c.op = "id")
        BY <2>2, <2>4, <2>5 DEF Lax
      <3>7. Fn' = Fn /\ \A g : Reach(g)' = Reach(g)
        BY <2>4, SameProgram, SameReach
      <3>8. Deferred(f, c)'
        BY <3>4, <3>5, <3>6, <3>7 DEF Deferred
      <3> QED
        BY <3>8 DEF Covered
    <2>6. t \in NumType \cup {None} /\ (t # None => Sub(t, t))
      BY <1>3, <2>1, <2>2, SubOrder
    <2>7. loose => loose'
      BY <2>4
    <2> QED
      BY <2>1, <2>2, <2>4, <2>5, <2>6, <2>7, AdvanceReturns
  <1>8. CASE FinishFn
    <2>1. CASE Reject
      BY <2>1, OthersKeepReturns DEF Reject, checkVars
    <2> QED
      BY <1>8, <2>1, FinishReturns
  <1>9. CASE ReturnsInferred \/ CheckMethods
    BY <1>9, OthersKeepReturns DEF ReturnsInferred, CheckMethods, Enter, Reject, checkVars
  <1>10. CASE Prove \/ Evaluate \/ Return \/ Run \/ UNCHANGED vars
    BY <1>10, OthersKeepReturns DEF Prove, Evaluate, Return, Run, vars, checkVars
  <1> QED
    BY <1>1, <1>2, <1>4, <1>5, <1>6, <1>7, <1>8, <1>9, <1>10 DEF Next, Build

\* Functions without declared types that only ever call each other, however many
\* and however deep in visits they were met, never all get return types: the
\* builder refuses them (inferReturn).
THEOREM ReturnsHaveAnchors == Spec => []ReturnsAnchored
  <1>1. Init => TypeOK /\ CallsOK /\ ReturnsInv
    BY InitTyped, InitReturns
  <1>2. TypeOK /\ CallsOK /\ ReturnsInv /\ [Next]_vars => TypeOK' /\ CallsOK' /\ ReturnsInv'
    BY StepTyped, StepReturns
  <1>3. ASSUME TypeOK, ReturnsInv PROVE ReturnsAnchored
    <2> SUFFICES ASSUME Past("returns"), NEW S \in SUBSET Fn, S # {}
                 PROVE  \E f \in S : \/ Declared(f) # None
                                     \/ \E c \in Elements(Cases(f)) : c.call \notin S
      BY DEF ReturnsAnchored
    <2>1. \A f \in Fn : result[f] # None
      BY <1>3, PastPhase DEF ReturnsInv, TypeOK
    <2> QED
      BY <1>3, <2>1 DEF ReturnsInv, AnchoredOK
  <1> QED
    BY <1>1, <1>2, <1>3, PTL DEF Spec

-----------------------------------------------------------------------------
(* What functions return *)

\* No product has an operand of unknown sign besides a call.  MulSign takes two
\* unknown signs for equal ones, so a product of two such numbers has a type that
\* does not allow all its values.
ProductsKnown ==
  \A p \in Program : \A d \in Elements(p.fns) : \A c \in Elements(d.cases) :
    c.op = "*" => c.type.sign # "Any"

\* The return type of a function takes what it has returned, if no call was typed
\* loosely or the function leads into no circle; updates are of the second kind.
RetInv ==
  /\ prog \in Program
  /\ phase = "proofs" => /\ prog.updates \subseteq Fn
                         /\ \A f \in prog.updates : Sub(result[f], prog.slot)
  /\ verdict = "built" => phase = "proofs" /\ \A f \in prog.updates : Inlines(f)
  /\ ret # None => verdict = "built"
  /\ ret # None /\ ret.fn \in Fn /\ (~loose \/ Inlines(ret.fn)) =>
       Allows(result[ret.fn], ret.value)

LEMMA InitRet == Init => RetInv
  BY DEF Init, InitWith, RetInv

\* A function that leads into no circle calls only such functions, and none of
\* its calls was deferred.
LEMMA InlinesCallee ==
  ASSUME NEW f \in Fn, Inlines(f), NEW g \in Calls(f), g \in Fn
  PROVE  Inlines(g) /\ f \notin Reach(g)
  <1>1. f \in Reach(f)
    BY ReachRefl
  <1>2. Reach(g) \subseteq Reach(f)
    BY <1>1, ReachStep, ReachTrans
  <1> QED
    BY <1>1, <1>2 DEF Inlines

\* One result of a function, from what its call has returned.
LEMMA ReturnAllowed ==
  ASSUME ProductsKnown, TypeOK, CallsOK, ReturnsInv, RetInv, verdict = "built",
         NEW f \in Fn, NEW c \in Elements(Cases(f)), ~loose \/ Inlines(f),
         NEW v \in Int, NEW w \in Int, NEW r \in Int,
         IF c.call = None THEN Allows(c.type, r)
         ELSE /\ ~loose \/ Inlines(c.call) => Allows(result[c.call], v)
              /\ IF c.op = "id" THEN r = v ELSE Allows(c.type, w) /\ IsResult(c.op, v, w, r)
  PROVE  Allows(result[f], r)
  <1>1. phase = "proofs" /\ \A g \in Fn : result[g] # None /\ result[g] \in NumType
    BY DEF RetInv, ReturnsInv, TypeOK
  <1>2. c \in Guarded /\ c.call \in Fn \cup {None} /\ c.type \in NumType
    BY <1>1, CaseAt DEF Guarded
  <1>3. Covered(f, c, result[f])
    <2>1. Visiting = {}
      BY <1>1 DEF TypeOK, Visiting, Elements
    <2> QED
      BY <1>1, <2>1 DEF ReturnsInv, MemoOK
  <1>4. CASE c.call = None
    <2>1. Sub(c.type, result[f]) /\ Allows(c.type, r)
      BY <1>3, <1>4, FnFound DEF Covered, Deferred, TypeOK
    <2> QED
      BY <1>1, <1>2, <2>1, SubAllows
  <1>5. CASE c.call # None
    <2>1. c.call \in Fn /\ c.call \in Calls(f)
      BY <1>2, <1>5 DEF Calls
    <2>2. Allows(result[c.call], v)
      BY <1>5, <2>1, InlinesCallee
    <2>3. CASE Deferred(f, c)
      <3>1. ~Inlines(f)
        BY <2>1, <2>3, InlinesCallee DEF Deferred
      <3>2. c.call = f /\ c.op = "id"
        BY <2>3, <3>1 DEF Deferred
      <3> QED
        BY <1>5, <2>2, <3>2
    <2>4. CASE Sub(CaseType(c, result[c.call]), result[f])
      <3>1. CASE c.op = "id"
        <4>1. r = v /\ CaseType(c, result[c.call]) = result[c.call]
          BY <1>5, <3>1 DEF CaseType
        <4> QED
          BY <1>1, <2>1, <2>2, <2>4, <4>1, SubAllows
      <3>2. CASE c.op # "id"
        <4>1. PICK op, a, b : op = c.op /\ a = result[c.call] /\ b = c.type
          OBVIOUS
        <4>2. op \in Operator /\ a \in NumType /\ b \in NumType
          BY <1>1, <1>2, <2>1, <3>2, <4>1 DEF Guarded
        <4>3. op = "*" => b.sign # "Any"
          <5>1. PICK d \in Elements(prog.fns) : d.name = f
            BY DEF Fn
          <5>2. FnNamed(f) \in Elements(prog.fns)
            BY <5>1 DEF FnNamed
          <5> QED
            BY <4>1, <5>2 DEF ProductsKnown, RetInv, Cases
        <4>4. Allows(a, v) /\ Allows(b, w) /\ IsResult(op, v, w, r)
          BY <1>5, <2>2, <3>2, <4>1
        <4>5. Allows(NumBin(op, a, b), r) /\ NumBin(op, a, b) \in NumType
          BY <4>2, <4>3, <4>4, ResultAllowed, BinType
        <4>6. CaseType(c, result[c.call]) = NumBin(op, a, b)
          BY <1>1, <2>1, <3>2, <4>1 DEF CaseType
        <4> QED
          BY <1>1, <2>4, <4>5, <4>6, SubAllows
      <3> QED
        BY <3>1, <3>2
    <2> QED
      BY <1>3, <1>5, <2>3, <2>4 DEF Covered
  <1> QED
    BY <1>4, <1>5

LEMMA StepRet ==
  ASSUME ProductsKnown, TypeOK, CallsOK, ReturnsInv, RetInv, [Next]_vars
  PROVE  RetInv'
  <1>1. CASE CheckMethods
    <2>1. /\ UNCHANGED <<prog, result, loose, ret>> /\ phase = "methods" /\ verdict = "open"
          /\ phase' = "proofs" =>
               prog.updates \subseteq Fn /\ \A f \in prog.updates : Sub(result[f], prog.slot)
          /\ verdict' # "built"
      BY <1>1 DEF CheckMethods, Enter, Reject, checkVars
    <2>2. Fn' = Fn
      BY <2>1, SameProgram
    <2> QED
      BY <2>1, <2>2 DEF RetInv
  <1>2. CASE Prove
    <2>1. /\ UNCHANGED <<prog, phase, result, loose, ret>> /\ phase = "proofs" /\ verdict = "open"
          /\ verdict' = "built" => \A f \in prog.updates : Inlines(f)
      BY <1>2 DEF Prove, checkVars
    <2>2. Fn' = Fn /\ \A f : Inlines(f)' <=> Inlines(f)
      BY <2>1, SameProgram, SameReach
    <2> QED
      BY <2>1, <2>2 DEF RetInv
  <1>3. CASE Evaluate \/ Return \/ Run
    <2>1. UNCHANGED <<prog, phase, verdict, result, loose>> /\ verdict = "built"
      BY <1>3 DEF Evaluate, Return, Run, checkVars
    <2>2. Fn' = Fn /\ \A f : Inlines(f)' <=> Inlines(f)
      BY <2>1, SameProgram, SameReach
    <2>3. ASSUME ret' # None, ret'.fn \in Fn, ~loose \/ Inlines(ret'.fn)
          PROVE  Allows(result[ret'.fn], ret'.value)
      <3>1. CASE Evaluate
        <4>1. PICK f \in Fn : \E c \in Elements(Cases(f)), v \in Values :
                c.call = None /\ Allows(c.type, v) /\ ret' = [fn |-> f, value |-> v]
          BY <3>1 DEF Evaluate
        <4>2. PICK c \in Elements(Cases(f)), v \in Values :
                c.call = None /\ Allows(c.type, v) /\ ret' = [fn |-> f, value |-> v]
          BY <4>1
        <4>3. v \in Int /\ (~loose \/ Inlines(f))
          BY <2>3, <4>2, ValuesAssumption
        <4>4. Allows(result[f], v)
          BY <2>1, <4>2, <4>3, ReturnAllowed
        <4> QED
          BY <4>2, <4>4
      <3>2. CASE Return
        <4>1. PICK f \in Fn : \E c \in Elements(Cases(f)), w, r \in Values :
                /\ c.call = ret.fn
                /\ IF c.op = "id" THEN r = ret.value
                   ELSE Allows(c.type, w) /\ IsResult(c.op, ret.value, w, r)
                /\ ret' = [fn |-> f, value |-> r]
          BY <3>2 DEF Return
        <4>2. PICK c \in Elements(Cases(f)), w \in Values, r \in Values :
                /\ c.call = ret.fn
                /\ IF c.op = "id" THEN r = ret.value
                   ELSE Allows(c.type, w) /\ IsResult(c.op, ret.value, w, r)
                /\ ret' = [fn |-> f, value |-> r]
          BY <4>1
        <4>3. PICK v : v = ret.value
          OBVIOUS
        <4>4. ret # None /\ ret.fn \in Fn /\ ret.fn # None
          BY <3>2, FnFound DEF Return, TypeOK
        <4>5. v \in Int /\ w \in Int /\ r \in Int /\ (~loose \/ Inlines(f))
          BY <2>3, <4>2, <4>3, <4>4, ValuesAssumption DEF TypeOK
        <4>6. /\ c.call # None /\ (~loose \/ Inlines(c.call) => Allows(result[c.call], v))
              /\ IF c.op = "id" THEN r = v ELSE Allows(c.type, w) /\ IsResult(c.op, v, w, r)
          BY <4>2, <4>3, <4>4 DEF RetInv
        <4>7. Allows(result[f], r)
          BY <2>1, <4>5, <4>6, ReturnAllowed
        <4> QED
          BY <4>2, <4>7
      <3>3. CASE Run
        BY <2>3, <3>3, FnFound DEF Run, TypeOK
      <3> QED
        BY <1>3, <3>1, <3>2, <3>3
    <2> QED
      BY <2>1, <2>2, <2>3 DEF RetInv
  <1>4. CASE UNCHANGED vars
    <2>1. UNCHANGED <<prog, phase, verdict, result, loose, ret>>
      BY <1>4 DEF vars, checkVars
    <2>2. Fn' = Fn /\ \A f : Inlines(f)' <=> Inlines(f)
      BY <2>1, SameProgram, SameReach
    <2> QED
      BY <2>1, <2>2 DEF RetInv
  <1>5. CASE \/ DeclareTypes \/ BeginType \/ ResolveRef \/ FinishType \/ TypesResolved
             \/ ResolveNames \/ BeginFn \/ TypeValue \/ TypeCall \/ VisitCallee \/ Defer
             \/ FinishFn \/ ReturnsInferred
    <2>1. /\ UNCHANGED <<prog, ret>> /\ verdict = "open" /\ verdict' # "built"
          /\ phase' # "proofs"
      BY <1>5 DEF DeclareTypes, BeginType, ResolveRef, FinishType, TypesResolved, ResolveNames,
           BeginFn, TypeValue, TypeCall, VisitCallee, Defer, FinishFn, ReturnsInferred,
           Typing, FnTyped, Visit, Enter, Reject, checkVars
    <2> QED
      BY <2>1 DEF RetInv
  <1> QED
    BY <1>1, <1>2, <1>3, <1>4, <1>5 DEF Next, Build

Inv == TypeOK /\ CallsOK /\ ReturnsInv /\ RetInv

LEMMA InvInductive ==
  ASSUME ProductsKnown
  PROVE  (Init => Inv) /\ (Inv /\ [Next]_vars => Inv')
  BY InitTyped, InitReturns, InitRet, StepTyped, StepReturns, StepRet DEF Inv

\* A function returns what its return type allows, through calls of any depth and
\* over all rationals with a common denominator, unless a call of the program was
\* typed loosely, as an operand or in a circle of several functions, while its
\* callee was visited (inferReturn).  The rule for products is taken where it is
\* sound: an operand besides the call has a known sign.
THEOREM ReturnsAreSound ==
  ASSUME ProductsKnown
  PROVE  Spec => []ReturnsSound
  <1>1. (Init => Inv) /\ (Inv /\ [Next]_vars => Inv')
    BY InvInductive
  <1>2. Inv => ReturnsSound
    BY DEF Inv, RetInv, ReturnsSound
  <1> QED
    BY <1>1, <1>2, PTL DEF Spec

\* An update stores only what its slot takes, loose calls elsewhere or not: its
\* return type was checked against the slot, and that the prover refuses recursion
\* keeps the updates clear of the calls that were deferred (checkCombinatorFn,
\* refFn).
THEOREM UpdatesKeepSlot ==
  ASSUME ProductsKnown
  PROVE  Spec => []UpdatesFitSlot
  <1>1. (Init => Inv) /\ (Inv /\ [Next]_vars => Inv')
    BY InvInductive
  <1>2. ASSUME Inv PROVE UpdatesFitSlot
    <2> SUFFICES ASSUME verdict = "built", ret # None, ret.fn \in prog.updates
                 PROVE  Allows(prog.slot, ret.value)
      BY DEF UpdatesFitSlot
    <2>1. /\ ret.fn \in Fn /\ Sub(result[ret.fn], prog.slot) /\ phase = "proofs"
          /\ Allows(result[ret.fn], ret.value)
      BY <1>2 DEF Inv, RetInv
    <2>2. ret.value \in Int /\ prog.slot \in NumType /\ result[ret.fn] \in NumType
      BY <1>2, <2>1, FnFound, ValuesAssumption DEF Inv, TypeOK, ReturnsInv, IsProgram
    <2> QED
      BY <2>1, <2>2, SubAllows
  <1> QED
    BY <1>1, <1>2, PTL DEF Spec

-----------------------------------------------------------------------------
(* The builder comes to an end *)

\* The passes that are left, what has not been visited yet in this one, the
\* visits under way, and the references or cases left in the innermost.
Rank(ph) == CHOOSE k \in 1..6 : Phases[7 - k] = ph
Passes == IF verdict = "open" THEN Rank(phase) ELSE 0
Unvisited == IF phase = "types" THEN TypeNames \ (types \cup Visiting)
             ELSE {f \in Fn : result[f] = None} \ Visiting
Items == IF phase = "types" THEN Len(RefsOf(Top.name)) ELSE Len(Cases(Top.name))
Rest == IF stack # <<>> /\ Top.at <= Items THEN Items + 1 - Top.at ELSE 0

Left == <<<<Passes, Cardinality(Unvisited)>>, <<Len(stack), Rest>>>>

\* In this order.
Fewer == OpToRel(<, Nat)
FewerTwo == LexPairOrdering(Fewer, Fewer, Nat, Nat)
Lefts == (Nat \X Nat) \X (Nat \X Nat)
Nearer == LexPairOrdering(FewerTwo, FewerTwo, Nat \X Nat, Nat \X Nat)

LEMMA NearerIsLex ==
  ASSUME NEW a \in Nat, NEW b \in Nat, NEW c \in Nat, NEW d \in Nat,
         NEW p \in Nat, NEW q \in Nat, NEW r \in Nat, NEW s \in Nat,
         \/ p < a
         \/ p = a /\ q < b
         \/ p = a /\ q = b /\ r < c
         \/ p = a /\ q = b /\ r = c /\ s < d
  PROVE  <<<<<<p, q>>, <<r, s>>>>, <<<<a, b>>, <<c, d>>>>>> \in Nearer
  <1>1. ASSUME NEW i \in Nat, NEW j \in Nat, i < j PROVE <<i, j>> \in Fewer
    BY <1>1 DEF Fewer, OpToRel
  <1>2. ASSUME NEW i \in Nat, NEW j \in Nat, NEW k \in Nat, NEW l \in Nat,
               i < k \/ (i = k /\ j < l)
        PROVE  <<<<i, j>>, <<k, l>>>> \in FewerTwo
    BY <1>1, <1>2 DEF FewerTwo, LexPairOrdering
  <1>3. ASSUME NEW x \in Nat \X Nat, NEW y \in Nat \X Nat, NEW v \in Nat \X Nat,
               NEW w \in Nat \X Nat, <<x, v>> \in FewerTwo \/ (x = v /\ <<y, w>> \in FewerTwo)
        PROVE  <<<<x, y>>, <<v, w>>>> \in Nearer
    BY <1>3 DEF Nearer, LexPairOrdering
  <1>4. <<p, q>> \in Nat \X Nat /\ <<r, s>> \in Nat \X Nat
        /\ <<a, b>> \in Nat \X Nat /\ <<c, d>> \in Nat \X Nat
    OBVIOUS
  <1>5. CASE p < a \/ (p = a /\ q < b)
    <2>1. <<<<p, q>>, <<a, b>>>> \in FewerTwo
      BY <1>2, <1>5
    <2> QED
      BY <1>3, <1>4, <2>1
  <1>6. CASE p = a /\ q = b /\ (r < c \/ (r = c /\ s < d))
    <2>1. <<<<r, s>>, <<c, d>>>> \in FewerTwo /\ <<p, q>> = <<a, b>>
      BY <1>2, <1>6
    <2> QED
      BY <1>3, <1>4, <2>1
  <1> QED
    BY <1>5, <1>6

\* The order in which the builder's steps go down, the passes before the types and
\* functions not yet visited (resolving, inProgress), those before the depth of the
\* recursion and the depth before what is left of the visit on top, has no infinite
\* descent: nothing comes nearer to its end for ever.
THEOREM NearerEnds == IsWellFoundedOn(Nearer, Lefts)
  <1>1. IsWellFoundedOn(Fewer, Nat)
    BY NatLessThanWellFounded DEF Fewer
  <1>2. IsWellFoundedOn(FewerTwo, Nat \X Nat)
    BY <1>1, WFLexPairOrdering DEF FewerTwo
  <1> QED
    BY <1>2, WFLexPairOrdering DEF Nearer, Lefts

LEMMA NamesFinite ==
  ASSUME IsProgram(prog)
  PROVE  IsFiniteSet(TypeNames) /\ IsFiniteSet(Fn)
  <1>1. \A D : \A s \in Seq(D) : IsFiniteSet(DOMAIN s)
    <2> SUFFICES ASSUME NEW D, NEW s \in Seq(D) PROVE IsFiniteSet(DOMAIN s)
      OBVIOUS
    <2>1. Len(s) \in Nat /\ DOMAIN s = 1..Len(s)
      OBVIOUS
    <2> QED
      BY <2>1, FS_Interval
  <1>2. ASSUME NEW D, NEW s \in Seq(D) PROVE IsFiniteSet({s[i].name : i \in DOMAIN s})
    <2> DEFINE f == [i \in DOMAIN s |-> s[i].name]
               T == {s[i].name : i \in DOMAIN s}
    <2>1. f \in Surjection(DOMAIN s, T)
      BY DEF Surjection
    <2>2. IsFiniteSet(DOMAIN s)
      BY <1>1
    <2> HIDE DEF f, T
    <2>3. IsFiniteSet(T)
      BY <2>1, <2>2, FS_Surjection
    <2> QED
      BY <2>3 DEF T
  <1>3. /\ TypeNames = {prog.types[i].name : i \in DOMAIN prog.types}
        /\ Fn = {prog.fns[i].name : i \in DOMAIN prog.fns}
    BY DEF TypeNames, Fn, Elements
  <1> QED
    BY <1>2, <1>3 DEF IsProgram

LEMMA Ranks ==
  /\ Rank("declare") = 6 /\ Rank("types") = 5 /\ Rank("names") = 4
  /\ Rank("returns") = 3 /\ Rank("methods") = 2 /\ Rank("proofs") = 1
  <1>1. \A ph : Rank(ph) = CHOOSE k \in 1..6 : Phases[7 - k] = ph
    BY DEF Rank
  <1>2. /\ Phases[7 - 6] = "declare" /\ Phases[7 - 5] = "types" /\ Phases[7 - 4] = "names"
        /\ Phases[7 - 3] = "returns" /\ Phases[7 - 2] = "methods" /\ Phases[7 - 1] = "proofs"
    BY DEF Phases
  <1>3. \A k \in 1..6 : k \in {1, 2, 3, 4, 5, 6}
    OBVIOUS
  <1>4. ASSUME NEW k \in 1..6, NEW ph, Phases[7 - k] = ph,
               \A j \in {1, 2, 3, 4, 5, 6} : Phases[7 - j] = ph => j = k
        PROVE  Rank(ph) = k
    BY <1>1, <1>3, <1>4
  <1> QED
    BY <1>2, <1>4

\* What is left is counted.
LEMMA LeftCounts ==
  ASSUME TypeOK
  PROVE  /\ Passes \in Nat /\ Cardinality(Unvisited) \in Nat /\ IsFiniteSet(Unvisited)
         /\ Len(stack) \in Nat /\ Rest \in Nat
         /\ stack # <<>> => Items \in Nat /\ Top.at \in Nat
  <1>1. Passes \in Nat
    BY Ranks DEF TypeOK, Passes, Elements, Phases
  <1>2. IsFiniteSet(Unvisited)
    <2>1. IsFiniteSet(TypeNames) /\ IsFiniteSet(Fn)
      BY NamesFinite DEF TypeOK
    <2>2. Unvisited \in SUBSET TypeNames \/ Unvisited \in SUBSET Fn
      BY DEF Unvisited
    <2> QED
      BY <2>1, <2>2, FS_Subset
  <1>3. Cardinality(Unvisited) \in Nat
    BY <1>2, FS_CardinalityType
  <1>4. stack \in Seq(Frame) /\ Len(stack) \in Nat
    BY DEF TypeOK, Frame
  <1>5. ASSUME stack # <<>> PROVE Items \in Nat /\ Top.at \in Nat
    <2>1. Top \in Frame /\ Top.name \in Visiting
      BY <1>4, <1>5, TopFrame
    <2>2. CASE phase = "types"
      <3>1. RefsOf(Top.name) \in Seq(TypeRef)
        BY <2>1, <2>2, TypeFound DEF TypeOK
      <3> QED
        BY <2>1, <2>2, <3>1 DEF Items, Frame
    <2>3. CASE phase # "types"
      <3>1. phase = "returns"
        BY <1>5, <2>3 DEF TypeOK
      <3>2. Cases(Top.name) \in Seq(Guarded)
        BY <2>1, <3>1, FnFound DEF TypeOK
      <3> QED
        BY <2>1, <2>3, <3>2 DEF Items, Frame
    <2> QED
      BY <2>2, <2>3
  <1>6. Rest \in Nat
    BY <1>5 DEF Rest
  <1> QED
    BY <1>1, <1>2, <1>3, <1>4, <1>5, <1>6

Counted == /\ Passes \in Nat /\ Cardinality(Unvisited) \in Nat
           /\ Len(stack) \in Nat /\ Rest \in Nat

LEMMA StaysCounted == TypeOK' => Counted'
  <1>1. TypeOK => Counted
    BY LeftCounts DEF Counted
  <1> QED
    BY <1>1, PTL

LEMMA LeftNearer ==
  ASSUME TypeOK, TypeOK',
         \/ Passes' < Passes
         \/ Passes' = Passes /\ Cardinality(Unvisited)' < Cardinality(Unvisited)
         \/ /\ Passes' = Passes /\ Cardinality(Unvisited)' = Cardinality(Unvisited)
            /\ Len(stack') < Len(stack)
         \/ /\ Passes' = Passes /\ Cardinality(Unvisited)' = Cardinality(Unvisited)
            /\ Len(stack') = Len(stack) /\ Rest' < Rest
  PROVE  <<Left', Left>> \in Nearer
  <1>1. PICK a \in Nat, b \in Nat, c \in Nat, d \in Nat :
          a = Passes /\ b = Cardinality(Unvisited) /\ c = Len(stack) /\ d = Rest
    BY LeftCounts
  <1>2. /\ Passes' \in Nat /\ Cardinality(Unvisited)' \in Nat /\ Len(stack') \in Nat
        /\ Rest' \in Nat
    BY StaysCounted DEF Counted
  <1>3. PICK p \in Nat, q \in Nat, r \in Nat, s \in Nat :
          /\ p = Passes' /\ q = Cardinality(Unvisited)' /\ r = Len(stack') /\ s = Rest'
    BY <1>2
  <1>4. <<<<<<p, q>>, <<r, s>>>>, <<<<a, b>>, <<c, d>>>>>> \in Nearer
    <2>1. \/ p < a
          \/ p = a /\ q < b
          \/ p = a /\ q = b /\ r < c
          \/ p = a /\ q = b /\ r = c /\ s < d
      BY <1>1, <1>3
    <2> QED
      BY <2>1, NearerIsLex
  <1>5. Left = <<<<a, b>>, <<c, d>>>> /\ Left' = <<<<p, q>>, <<r, s>>>>
    BY <1>1, <1>3 DEF Left
  <1> QED
    BY <1>4, <1>5

\* The four ways in which a step comes nearer.
LEMMA PassOver ==
  ASSUME TypeOK, TypeOK', verdict = "open",
         \/ Reject
         \/ verdict' # "open"
         \/ verdict' = verdict /\ Rank(phase') < Rank(phase)
  PROVE  <<Left', Left>> \in Nearer
  <1>1. Passes' < Passes
    <2>1. phase \in {"declare", "types", "names", "returns", "methods", "proofs"}
      BY DEF TypeOK, Elements, Phases
    <2>2. Rank(phase) > 0
      BY <2>1, Ranks
    <2> QED
      BY <2>2 DEF Passes, Reject
  <1> QED
    BY <1>1, LeftNearer

LEMMA VisitBegun ==
  ASSUME TypeOK, TypeOK', UNCHANGED <<phase, verdict>>,
         NEW x \in Unvisited, Unvisited' = Unvisited \ {x}
  PROVE  <<Left', Left>> \in Nearer
  <1>1. Passes' = Passes
    BY DEF Passes
  <1>2. Cardinality(Unvisited \ {x}) < Cardinality(Unvisited)
    <2>1. IsFiniteSet(Unvisited) /\ Cardinality(Unvisited) \in Nat
      BY LeftCounts
    <2>2. Cardinality(Unvisited \ {x}) = Cardinality(Unvisited) - 1
      BY <2>1, FS_RemoveElement
    <2> QED
      BY <2>1, <2>2
  <1>3. Cardinality(Unvisited)' = Cardinality(Unvisited \ {x})
    OBVIOUS
  <1> QED
    BY <1>1, <1>2, <1>3, LeftNearer

LEMMA VisitOver ==
  ASSUME TypeOK, TypeOK', UNCHANGED <<phase, verdict>>, stack # <<>>, Pop,
         Unvisited' = Unvisited
  PROVE  <<Left', Left>> \in Nearer
  <1>1. Passes' = Passes /\ Cardinality(Unvisited)' = Cardinality(Unvisited)
    BY DEF Passes
  <1>2. Len(stack) \in Nat /\ Len(stack') = Len(stack) - 1
    BY Popped DEF TypeOK, Frame
  <1>3. Len(stack') < Len(stack)
    BY <1>2
  <1> QED
    BY <1>1, <1>3, LeftNearer

LEMMA ItemOver ==
  ASSUME TypeOK, TypeOK', UNCHANGED <<phase, verdict, prog, types, result>>,
         stack # <<>>, Top.at <= Items, NEW t \in NumType \cup {None}, Advance(t)
  PROVE  <<Left', Left>> \in Nearer
  <1>1. stack \in Seq(Frame)
    BY DEF TypeOK, Frame
  <1>2. /\ Len(stack') = Len(stack) /\ Len(stack) > 0 /\ Visiting' = Visiting
        /\ stack'[Len(stack)] = [name |-> Top.name, at |-> Top.at + 1, acc |-> t]
    BY <1>1, Advanced
  <1>3. Top' = [name |-> Top.name, at |-> Top.at + 1, acc |-> t] /\ stack' # <<>>
    BY <1>2 DEF Top
  <1>4. Top'.name = Top.name /\ Top'.at = Top.at + 1
    BY <1>3
  <1>5. TypeNames' = TypeNames /\ Fn' = Fn
        /\ (\A x : RefsOf(x)' = RefsOf(x)) /\ (\A f : Cases(f)' = Cases(f))
    BY SameProgram
  <1>6. Passes' = Passes /\ Unvisited' = Unvisited
    BY <1>2, <1>5 DEF Passes, Unvisited
  <1>7. Items' = Items
    <2>1. CASE phase = "types"
      <3>1. RefsOf(Top.name)' = RefsOf(Top'.name)
        BY DEF RefsOf, TypeNamed
      <3> QED
        BY <1>4, <2>1, <3>1 DEF Items, RefsOf, TypeNamed
    <2>2. CASE phase # "types"
      BY <1>4, <2>2 DEF Items, Cases, FnNamed
    <2> QED
      BY <2>1, <2>2
  <1>8. Items \in Nat /\ Top.at \in Nat
    BY LeftCounts
  <1>9. Rest = Items + 1 - Top.at
    BY DEF Rest
  <1>10. Rest' = IF Top.at + 1 <= Items THEN Items + 1 - (Top.at + 1) ELSE 0
    BY <1>3, <1>4, <1>7 DEF Rest
  <1>11. Rest' < Rest
    BY <1>8, <1>9, <1>10
  <1> QED
    BY <1>2, <1>6, <1>11, LeftNearer

LEMMA BuildNearer ==
  ASSUME TypeOK, CallsOK, TypeOK', Build
  PROVE  <<Left', Left>> \in Nearer
  <1>1. stack \in Seq(Frame) /\ (phase = "types" => Visiting \subseteq TypeNames \ types)
    BY DEF TypeOK, Frame
  <1>2. CASE DeclareTypes \/ TypesResolved \/ ResolveNames \/ ReturnsInferred \/ CheckMethods
             \/ Prove
    <2>1. /\ verdict = "open"
          /\ Reject \/ verdict' # "open" \/ (verdict' = verdict /\ Rank(phase') < Rank(phase))
      BY <1>2, Ranks DEF DeclareTypes, TypesResolved, ResolveNames, ReturnsInferred,
           CheckMethods, Prove, Enter
    <2> QED
      BY <2>1, PassOver
  <1>3. ASSUME NEW x \in Unvisited, phase = "types", Push(x),
               UNCHANGED <<prog, phase, verdict, types>>
        PROVE  <<Left', Left>> \in Nearer
    <2>1. x \in STRING
      BY <1>3, TypeFound DEF Unvisited, TypeOK
    <2>2. Visiting' = Visiting \cup {x} /\ TypeNames' = TypeNames
      BY <1>1, <1>3, <2>1, Pushed, SameProgram
    <2>3. Unvisited' = Unvisited \ {x}
      BY <1>3, <2>2 DEF Unvisited
    <2> QED
      BY <1>3, <2>3, VisitBegun
  <1>4. CASE BeginType
    <2> DEFINE x == First(prog.types, TypeNames \ types)
    <2>1. prog.types \in Seq(TypeDef)
      BY DEF TypeOK, IsProgram
    <2>2. \E i \in DOMAIN prog.types : prog.types[i].name \in TypeNames \ types
      BY <1>4 DEF BeginType, TypeNames, Elements
    <2>3. x \in TypeNames \ types
      BY <2>1, <2>2, FirstDeclared
    <2>4. Push(x) /\ UNCHANGED <<prog, phase, verdict, types>> /\ phase = "types" /\ stack = <<>>
      BY <1>4 DEF BeginType, checkVars
    <2> HIDE DEF x
    <2>5. x \in Unvisited
      BY <2>3, <2>4 DEF Unvisited, Visiting, Elements
    <2> QED
      BY <1>3, <2>4, <2>5
  <1>5. CASE ResolveRef
    <2>1. phase = "types" /\ stack # <<>> /\ HasRef /\ verdict = "open"
      BY <1>5 DEF ResolveRef
    <2>2. CASE Reject
      BY <2>1, <2>2, PassOver
    <2>3. CASE ~Reject
      <3>1. /\ Fits(Ref) /\ Ref.base \notin Visiting
            /\ UNCHANGED <<prog, phase, verdict, types, result>>
            /\ IF Ref.base \in types \cup {"rat"} THEN Advance(None) ELSE Push(Ref.base)
        BY <1>5, <2>3 DEF ResolveRef, checkVars
      <3>2. CASE Advance(None)
        <4>1. Top.at <= Items
          BY <2>1 DEF HasRef, Items, RefsOf
        <4> QED
          BY <2>1, <3>1, <3>2, <4>1, ItemOver
      <3>3. CASE Push(Ref.base) /\ Ref.base \notin types \cup {"rat"}
        <4>1. Ref.base \in Unvisited
          BY <2>1, <3>1, <3>3, RefFound DEF Unvisited
        <4> QED
          BY <1>3, <2>1, <3>1, <3>3, <4>1
      <3> QED
        BY <3>1, <3>2, <3>3
    <2> QED
      BY <2>2, <2>3
  <1>6. CASE FinishType
    <2>1. /\ phase = "types" /\ stack # <<>> /\ types' = types \cup {Top.name} /\ Pop
          /\ UNCHANGED <<prog, phase, verdict>>
      BY <1>6 DEF FinishType
    <2>2. Visiting \subseteq Visiting' \cup {Top.name} /\ Visiting' \subseteq Visiting
      BY <1>1, <2>1, Popped
    <2>3. TypeNames' = TypeNames /\ Top.name \in Visiting
      BY <1>1, <2>1, SameProgram, TopFrame
    <2>4. Unvisited' = Unvisited
      BY <2>1, <2>2, <2>3 DEF Unvisited
    <2> QED
      BY <2>1, <2>4, VisitOver
  <1>7. ASSUME NEW f \in Fn, result[f] = None, f \notin Visiting, phase = "returns", Visit(f)
        PROVE  <<Left', Left>> \in Nearer
    <2>1. /\ Push(f) /\ result' = [result EXCEPT ![f] = Declared(f)]
          /\ UNCHANGED <<prog, phase, verdict, types>>
      BY <1>7 DEF Visit
    <2>2. f \in STRING /\ f \in Unvisited
      BY <1>7, FnFound DEF TypeOK, Unvisited
    <2>3. Visiting' = Visiting \cup {f} /\ Fn' = Fn
      BY <1>1, <2>1, <2>2, Pushed, SameProgram
    <2>4. \A g \in Fn : g # f => result'[g] = result[g]
      BY <2>1 DEF TypeOK
    <2>5. Unvisited' = Unvisited \ {f}
      BY <1>7, <2>1, <2>3, <2>4 DEF Unvisited
    <2> QED
      BY <2>1, <2>2, <2>5, VisitBegun
  <1>8. CASE BeginFn
    <2> DEFINE N == {g \in Fn : result[g] = None}
               f == First(prog.fns, N)
    <2>1. prog.fns \in Seq(FnDef)
      BY DEF TypeOK, IsProgram
    <2>2. \E i \in DOMAIN prog.fns : prog.fns[i].name \in N
      BY <1>8 DEF BeginFn, Fn, Elements
    <2>3. f \in N
      <3> HIDE DEF N
      <3> QED
        BY <2>1, <2>2, FirstDeclared
    <2>4. Visit(f) /\ stack = <<>> /\ phase = "returns"
      BY <1>8 DEF BeginFn
    <2> HIDE DEF f
    <2>5. f \notin Visiting
      BY <2>4 DEF Visiting, Elements
    <2> QED
      BY <1>7, <2>3, <2>4, <2>5
  <1>9. CASE VisitCallee
    BY <1>7, <1>9, CaseFound DEF VisitCallee, Typing
  <1>10. ASSUME Typing, NEW t \in NumType \cup {None}, Advance(t),
                UNCHANGED <<phase, verdict, prog, types, result>>
         PROVE  <<Left', Left>> \in Nearer
    <2>1. stack # <<>> /\ Top.at <= Items
      BY <1>10 DEF Typing, HasCase, Items
    <2> QED
      BY <1>10, <2>1, ItemOver
  <1>11. ASSUME Typing PROVE Top.acc \in NumType \cup {None} /\ Case \in Guarded
                             /\ Case.type \in NumType
    BY <1>1, <1>11, TopFrame, CaseFound DEF Frame, Typing
  <1>12. CASE TypeValue
    <2>1. Typing /\ Unify(Top.acc, Case.type) \in NumType \cup {None}
      BY <1>11, <1>12, UnifyType DEF TypeValue
    <2> QED
      BY <1>10, <1>12, <2>1 DEF TypeValue, checkVars
  <1>13. CASE TypeCall
    <2>1. Typing /\ Case.call \in Fn
      BY <1>13, CaseFound DEF TypeCall
    <2>2. CaseType(Case, result[Case.call]) \in NumType \cup {None}
      BY <1>11, <2>1, CaseTyped DEF TypeOK
    <2>3. Unify(Top.acc, CaseType(Case, result[Case.call])) \in NumType \cup {None}
      BY <1>11, <2>1, <2>2, UnifyType
    <2> QED
      BY <1>10, <1>13, <2>1, <2>3 DEF TypeCall, checkVars
  <1>14. CASE Defer
    <2>1. Typing
      BY <1>14 DEF Defer
    <2>2. CaseType(Case, None) \in NumType \cup {None}
      BY <1>11, <2>1, CaseTyped
    <2>3. Unify(Top.acc, CaseType(Case, None)) \in NumType \cup {None}
      BY <1>11, <2>1, <2>2, UnifyType
    <2> QED
      BY <1>10, <1>14, <2>1, <2>3 DEF Defer
  <1>15. CASE FinishFn
    <2>1. phase = "returns" /\ stack # <<>> /\ verdict = "open"
      BY <1>15 DEF FinishFn, FnTyped
    <2>2. CASE Reject
      BY <2>1, <2>2, PassOver
    <2>3. CASE ~Reject
      <3>1. Top.name \in Fn /\ Top.name \in Visiting
        BY <1>1, <2>1, TopFrame DEF TypeOK
      <3>2. /\ Pop /\ UNCHANGED <<prog, phase, verdict, types>>
            /\ \E t : t # None /\ result' = [result EXCEPT ![Top.name] = t]
        BY <1>15, <2>3 DEF FinishFn
      <3>3. Visiting \subseteq Visiting' \cup {Top.name} /\ Visiting' \subseteq Visiting
        BY <1>1, <2>1, <3>2, Popped
      <3>4. result'[Top.name] # None /\ \A g \in Fn : g # Top.name => result'[g] = result[g]
        BY <3>1, <3>2 DEF TypeOK
      <3>5. Fn' = Fn
        BY <3>2, SameProgram
      <3>6. Unvisited' = Unvisited
        BY <2>1, <3>1, <3>2, <3>3, <3>4, <3>5 DEF Unvisited
      <3> QED
        BY <2>1, <3>2, <3>6, VisitOver
    <2> QED
      BY <2>2, <2>3
  <1> QED
    BY <1>2, <1>4, <1>5, <1>6, <1>8, <1>9, <1>12, <1>13, <1>14, <1>15 DEF Build

\* Every step of the builder comes nearer to its end in an order that has no
\* infinite descent (NearerEnds), so it does not go round for ever on any program,
\* of whatever size and with whatever circles of types and functions (resolving,
\* inProgress).
THEOREM BuildDescends == Spec => [][Build => <<Left', Left>> \in Nearer]_vars
  <1>1. Init => TypeOK /\ CallsOK
    BY InitTyped
  <1>2. TypeOK /\ CallsOK /\ [Next]_vars => TypeOK' /\ CallsOK'
    BY StepTyped
  <1>3. TypeOK /\ CallsOK /\ TypeOK' /\ [Next]_vars => [Build => <<Left', Left>> \in Nearer]_vars
    BY BuildNearer
  <1> QED
    BY <1>1, <1>2, <1>3, PTL DEF Spec
=============================================================================
