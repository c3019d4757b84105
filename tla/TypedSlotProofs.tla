-------------------------- MODULE TypedSlotProofs ---------------------------
(***************************************************************************)
(* Proofs about NumTypes and TypedSlot, for all rationals with a common    *)
(* denominator: the numeric types are a lattice that the values respect,   *)
(* the result rules are sound, and so a slot never leaves its type, as     *)
(* long as no product has two operands of unknown sign.                    *)
(***************************************************************************)
EXTENDS TypedSlot, TLAPS

-----------------------------------------------------------------------------
(* The lattice of numeric types *)

LEMMA TypeFields ==
  ASSUME NEW t \in NumType
  PROVE  /\ t.domain \in Domain /\ t.sign \in Sign
         /\ t = [domain |-> t.domain, sign |-> t.sign]
  BY DEF NumType

LEMMA JoinType ==
  ASSUME NEW a \in NumType, NEW b \in NumType
  PROVE  Join(a, b) \in NumType
  BY DEF Join, JoinDomain, JoinSign, NumType, Domain, Sign

LEMMA BinType ==
  ASSUME NEW op \in Operator, NEW a \in NumType, NEW b \in NumType
  PROVE  NumBin(op, a, b) \in NumType
  BY DEF NumBin, BinSign, AddSign, NegateSign, MulSign, MaxSign, MinSign,
         JoinDomain, NumType, Domain, Sign, Operator

\* Sub is a partial order.
LEMMA SubOrder ==
  ASSUME NEW a \in NumType, NEW b \in NumType, NEW c \in NumType
  PROVE  /\ Sub(a, a)
         /\ Sub(a, b) /\ Sub(b, c) => Sub(a, c)
         /\ Sub(a, b) /\ Sub(b, a) => a = b
  <1>1. /\ SubSign(a.sign, b.sign) /\ SubSign(b.sign, c.sign) => SubSign(a.sign, c.sign)
        /\ SubSign(a.sign, b.sign) /\ SubSign(b.sign, a.sign) => a.sign = b.sign
    BY TypeFields DEF SubSign, Sign
  <1>2. /\ SubDomain(a.domain, b.domain) /\ SubDomain(b.domain, c.domain)
             => SubDomain(a.domain, c.domain)
        /\ SubDomain(a.domain, b.domain) /\ SubDomain(b.domain, a.domain)
             => a.domain = b.domain
    BY TypeFields DEF SubDomain, Domain
  <1> QED
    BY <1>1, <1>2, TypeFields DEF Sub, SubSign, SubDomain

\* Join is the least upper bound.
LEMMA JoinLeastUpperBound ==
  ASSUME NEW a \in NumType, NEW b \in NumType, NEW c \in NumType
  PROVE  /\ Sub(a, Join(a, b)) /\ Sub(b, Join(a, b))
         /\ Sub(a, c) /\ Sub(b, c) => Sub(Join(a, b), c)
  BY TypeFields DEF Sub, SubDomain, SubSign, Join, JoinDomain, JoinSign, Domain, Sign

\* A value of a type is a value of every type above it.
LEMMA SubAllows ==
  ASSUME NEW a \in NumType, NEW b \in NumType, Sub(a, b), NEW v \in Int, Allows(a, v)
  PROVE  Allows(b, v)
  BY TypeFields DEF Sub, SubDomain, SubSign, Allows, Domain, Sign

LEMMA LiteralAllows ==
  ASSUME NEW v \in Int
  PROVE  LiteralType(v) \in NumType /\ Allows(LiteralType(v), v)
  <1>1. IsInt(0)
    BY UnitAssumption DEF IsInt
  <1> QED
    BY <1>1 DEF LiteralType, Allows, NumType, Domain, Sign

-----------------------------------------------------------------------------
(* The result rules are sound *)

LEMMA IntegerMultiple ==
  ASSUME NEW v \in Int
  PROVE  IsInt(v) <=> \E i \in Int : v = i * Unit
  <1>1. Unit \in Int /\ Unit > 0
    BY UnitAssumption
  <1>2. v = Unit * (v \div Unit) + (v % Unit) /\ v \div Unit \in Int
    BY <1>1
  <1>3. ASSUME NEW i \in Int, v = i * Unit PROVE v % Unit = 0
    <2> DEFINE d == i - (v \div Unit)
    <2>1. d \in Int /\ v % Unit = Unit * d /\ v % Unit \in Int
      BY <1>1, <1>2, <1>3
    <2>2. 0 <= v % Unit /\ v % Unit < Unit
      BY <1>1
    <2>3. d = 0
      <3>1. d >= 1 => Unit * d >= Unit
        BY <1>1, <2>1
      <3>2. d <= -1 => Unit * d <= -Unit
        BY <1>1, <2>1
      <3> QED
        BY <1>1, <2>1, <2>2, <3>1, <3>2
    <2> QED
      BY <1>1, <2>1, <2>3
  <1>4. ASSUME v % Unit = 0 PROVE v = (v \div Unit) * Unit
    BY <1>1, <1>2, <1>4
  <1> QED
    BY <1>2, <1>3, <1>4 DEF IsInt

LEMMA ResultInteger ==
  ASSUME NEW op \in Operator, NEW x \in Int, NEW y \in Int, NEW r \in Int,
         IsResult(op, x, y, r), IsInt(x), IsInt(y)
  PROVE  IsInt(r)
  <1>1. PICK i \in Int, j \in Int : x = i * Unit /\ y = j * Unit
    BY IntegerMultiple
  <1>2. Unit \in Int /\ Unit # 0
    BY UnitAssumption
  <1>3. CASE op \in {"+", "-"}
    <2>1. ASSUME NEW k \in Int, NEW m \in Int, NEW u \in Int
          PROVE  k * u + m * u = (k + m) * u /\ k * u - m * u = (k - m) * u
      OBVIOUS
    <2>2. r = x + y \/ r = x - y
      BY <1>3 DEF IsResult
    <2>3. r = (i + j) * Unit \/ r = (i - j) * Unit
      BY <1>1, <1>2, <2>1, <2>2
    <2> QED
      BY <1>1, <2>3, IntegerMultiple
  <1>4. CASE op = "*"
    <2>1. ASSUME NEW k \in Int, NEW m \in Int, NEW u \in Int
          PROVE  (k * u) * (m * u) = (k * m * u) * u
      OBVIOUS
    <2>2. r * Unit = (i * j * Unit) * Unit
      BY <1>1, <1>2, <1>4, <2>1 DEF IsResult
    <2>3. r = i * j * Unit
      BY <1>1, <1>2, <2>2
    <2>4. i * j \in Int
      BY <1>1
    <2> QED
      BY <2>3, <2>4, IntegerMultiple
  <1>5. CASE op \in {"max", "min"}
    BY <1>5 DEF IsResult
  <1> QED
    BY <1>3, <1>4, <1>5 DEF Operator

\* The sign of a product, for the signs of its factors.
LEMMA ProductSign ==
  ASSUME NEW x \in Int, NEW y \in Int, NEW r \in Int, r * Unit = x * y
  PROVE  /\ (x >= 0 /\ y >= 0) \/ (x <= 0 /\ y <= 0) => r >= 0
         /\ (x >= 0 /\ y <= 0) \/ (x <= 0 /\ y >= 0) => r <= 0
         /\ x = 0 \/ y = 0 => r = 0
  BY UnitAssumption, Z3

LEMMA ResultAllowed ==
  ASSUME NEW op \in Operator, NEW a \in NumType, NEW b \in NumType,
         NEW x \in Int, NEW y \in Int, NEW r \in Int,
         Allows(a, x), Allows(b, y), IsResult(op, x, y, r),
         ~(op = "*" /\ a.sign = "Any" /\ b.sign = "Any")
  PROVE  Allows(NumBin(op, a, b), r)
  <1>1. JoinDomain(a.domain, b.domain) = "Int" => IsInt(r)
    BY TypeFields, ResultInteger DEF JoinDomain, Allows, Domain
  <1> DEFINE s == BinSign(op, a.sign, b.sign)
  <1>2. /\ s = "NonNeg" => r >= 0
        /\ s = "NonPos" => r <= 0
        /\ s = "Zero" => r = 0
    <2>1. CASE op = "*"
      BY <2>1, TypeFields, ProductSign DEF BinSign, MulSign, Allows, IsResult, Sign
    <2>2. CASE op = "+"
      BY <2>2, TypeFields DEF BinSign, AddSign, Allows, IsResult, Sign
    <2>3. CASE op = "-"
      BY <2>3, TypeFields DEF BinSign, AddSign, NegateSign, Allows, IsResult, Sign
    <2>4. CASE op = "max"
      BY <2>4, TypeFields DEF BinSign, MaxSign, Allows, IsResult, Sign
    <2>5. CASE op = "min"
      BY <2>5, TypeFields DEF BinSign, MinSign, Allows, IsResult, Sign
    <2> QED
      BY <2>1, <2>2, <2>3, <2>4, <2>5 DEF Operator
  <1> QED
    BY <1>1, <1>2 DEF Allows, NumBin

-----------------------------------------------------------------------------
(* Terms and slots *)

\* Three rounds reach the fixpoint: folding in one more slot fits the type.
LEMMA ReduceFixpoint ==
  ASSUME NEW op \in Operator, NEW t \in NumType, elem \in NumType
  PROVE  LET r == ReduceType(op, t)
         IN  r \in NumType /\ Sub(t, r) /\ Sub(NumBin(op, r, elem), r)
  <1> DEFINE w1 == Widen(op, t)
             w2 == Widen(op, w1)
             r == Widen(op, w2)
  <1>1. w1 \in NumType /\ Sub(t, w1)
    BY BinType, JoinType, JoinLeastUpperBound DEF Widen
  <1>2. w2 \in NumType /\ Sub(w1, w2)
    <2> HIDE DEF w1
    <2> QED
      BY <1>1, BinType, JoinType, JoinLeastUpperBound DEF Widen
  <1>3. r \in NumType /\ Sub(w2, r)
    <2> HIDE DEF w1, w2
    <2> QED
      BY <1>2, BinType, JoinType, JoinLeastUpperBound DEF Widen
  <1>4. Sub(t, r)
    <2> HIDE DEF w1, w2, r
    <2>1. Sub(t, w2)
      BY <1>1, <1>2, SubOrder
    <2> QED
      BY <1>2, <1>3, <2>1, SubOrder
  <1>5. Sub(NumBin(op, r, elem), r)
    <2>1. SubDomain(JoinDomain(r.domain, elem.domain), r.domain)
      <3>1. r.domain = JoinDomain(w2.domain, JoinDomain(w2.domain, elem.domain))
        BY DEF Widen, Join, NumBin
      <3> HIDE DEF w1, w2, r
      <3> QED
        BY <1>2, <3>1, TypeFields DEF SubDomain, JoinDomain, Domain
    <2>2. SubSign(BinSign(op, r.sign, elem.sign), r.sign)
      <3> DEFINE ws(s) == JoinSign(s, BinSign(op, s, elem.sign))
      <3>1. r.sign = ws(ws(ws(t.sign)))
        BY DEF Widen, Join, NumBin
      <3>2. \A s \in Sign : /\ BinSign(op, s, elem.sign) \in Sign /\ ws(s) \in Sign
                            /\ SubSign(s, ws(s))
                            /\ SubSign(BinSign(op, s, elem.sign), ws(s))
        <4>1. \A s \in Sign : BinSign(op, s, elem.sign) \in Sign
          BY TypeFields DEF BinSign, AddSign, NegateSign, MulSign, MaxSign, MinSign,
             Sign, Operator
        <4> QED
          BY <4>1 DEF JoinSign, SubSign, Sign
      <3>3. /\ t.sign \in Sign /\ ws(t.sign) \in Sign /\ ws(ws(t.sign)) \in Sign
            /\ r.sign \in Sign /\ SubSign(t.sign, ws(t.sign))
            /\ SubSign(ws(t.sign), ws(ws(t.sign))) /\ SubSign(ws(ws(t.sign)), r.sign)
        <4> HIDE DEF r, ws
        <4> QED
          BY <3>1, <3>2, TypeFields
      \* A chain of signs grows at most twice, so one of three rounds was idle.
      <3>4. \A x, y, z, w \in Sign :
              SubSign(x, y) /\ SubSign(y, z) /\ SubSign(z, w) => x = y \/ y = z \/ z = w
        BY DEF SubSign, Sign
      <3>5. ws(r.sign) = r.sign
        <4> HIDE DEF r, ws
        <4>1. t.sign = ws(t.sign) \/ ws(t.sign) = ws(ws(t.sign)) \/ ws(ws(t.sign)) = r.sign
          BY <3>3, <3>4
        <4> QED
          BY <3>1, <4>1
      <3> HIDE DEF r, ws
      <3> QED
        BY <3>2, <3>3, <3>5
    <2> HIDE DEF w1, w2, r
    <2> QED
      BY <2>1, <2>2 DEF Sub, NumBin
  <1> QED
    BY <1>3, <1>4, <1>5 DEF ReduceType

\* A term's type allows its value, and while it folds, the type allows the
\* result of folding one more slot in.
FoldOK ==
  phase \in Operator =>
    /\ Sub(NumBin(phase, type, elem), type)
    /\ phase = "*" => elem.sign # "Any"

IInv == TypeOK /\ TermsSound /\ PeersAcceptSlot /\ FoldOK

LEMMA OperandSound ==
  ASSUME TypeOK, PeersAcceptSlot, NEW u, NEW v \in Values, Operand(u, v)
  PROVE  u \in NumType /\ Allows(u, v)
  BY LiteralAllows, ValuesAssumption DEF Operand, TypeOK, PeersAcceptSlot, Spellable

LEMMA Step ==
  ASSUME ~LooseProducts, IInv, [Next]_vars
  PROVE  IInv'
  <1> USE ValuesAssumption DEF IInv, TypeOK, TermsSound, PeersAcceptSlot
  <1>0. /\ {"idle", "term"} \cap Operator = {} /\ elem \in NumType
        /\ slot \in Int /\ value \in Int
        /\ LiteralType(0) \in NumType /\ Allows(LiteralType(0), 0)
    BY LiteralAllows DEF Operator, Spellable
  <1>1. CASE UNCHANGED vars
    BY <1>1 DEF vars, FoldOK
  <1>2. ASSUME NEW u \in NumType, NEW v \in Values, Begin(u, v) PROVE IInv'
    BY <1>0, <1>2, OperandSound DEF Begin, FoldOK
  <1>3. ASSUME NEW u \in NumType, NEW v \in Values, Guard(u, v) PROVE IInv'
    <2>1. Allows(u, v) /\ v \in Int /\ Join(type, u) \in NumType
      BY <1>3, OperandSound, JoinType DEF Guard
    <2>2. Allows(Join(type, u), value) /\ Allows(Join(type, u), v)
      BY <1>0, <2>1, JoinLeastUpperBound, SubAllows
    <2> QED
      BY <1>0, <1>3, <2>1, <2>2 DEF Guard, FoldOK
  <1>4. ASSUME NEW u \in NumType, NEW v \in Values, NEW op \in Operator, Apply(op, u, v)
        PROVE  IInv'
    <2>1. /\ Allows(u, v) /\ v \in Int
          /\ ~(op = "*" /\ type.sign = "Any" /\ u.sign = "Any")
      BY <1>4, OperandSound DEF Apply, Typable
    <2>2. PICK r \in Values :
            /\ value' = r
            /\ \/ type' = NumBin(op, type, u) /\ IsResult(op, value, v, r)
               \/ type' = NumBin(op, u, type) /\ IsResult(op, v, value, r)
      BY <1>4 DEF Apply
    <2>3. Allows(type', value') /\ type' \in NumType
      BY <1>0, <2>1, <2>2, ResultAllowed, BinType
    <2> QED
      BY <1>0, <1>4, <2>2, <2>3 DEF Apply, FoldOK
  <1>5. ASSUME NEW u \in NumType, Pass(u) PROVE IInv'
    BY <1>0, <1>5, SubAllows DEF Pass, FoldOK
  <1>6. ASSUME NEW op \in Operator, BeginReduce(op) PROVE IInv'
    <2> DEFINE r == ReduceType(op, type)
    <2>1. r \in NumType /\ Sub(type, r) /\ Sub(NumBin(op, r, elem), r)
      BY <1>0, ReduceFixpoint
    <2>2. Allows(r, value)
      BY <1>0, <2>1, SubAllows
    <2>3. type' = r /\ phase' = op /\ UNCHANGED <<elem, slot, value>>
          /\ (op = "*" => elem.sign # "Any")
      BY <1>6 DEF BeginReduce
    <2> HIDE DEF r
    <2> QED
      BY <2>1, <2>2, <2>3 DEF FoldOK
  <1>7. ASSUME NEW v \in Values, ReduceSlot(v) PROVE IInv'
    <2>1. PICK r \in Values : IsResult(phase, value, v, r) /\ value' = r
      BY <1>7 DEF ReduceSlot
    <2>2. phase \in Operator /\ Allows(elem, v) /\ UNCHANGED <<elem, slot, phase, type>>
      BY <1>7 DEF ReduceSlot
    <2>3. NumBin(phase, type, elem) \in NumType /\ Allows(NumBin(phase, type, elem), r)
      BY <1>0, <2>1, <2>2, ResultAllowed, BinType DEF FoldOK
    <2>4. Allows(type, r)
      BY <2>1, <2>2, <2>3, SubAllows DEF FoldOK
    <2> QED
      BY <2>1, <2>2, <2>4 DEF FoldOK
  <1>8. CASE EndReduce
    BY <1>0, <1>8 DEF EndReduce, FoldOK
  <1>9. CASE Store
    <2>1. Allows(elem, value)
      BY <1>0, <1>9, SubAllows DEF Store
    <2> QED
      BY <1>0, <1>9, <2>1 DEF Store, FoldOK
  <1> QED
    BY <1>1, <1>2, <1>3, <1>4, <1>5, <1>6, <1>7, <1>8, <1>9 DEF Next

LEMMA InductiveInvariant ==
  ASSUME ~LooseProducts
  PROVE  Spec => []IInv
  <1>1. Init => IInv
    <2>1. ASSUME Init PROVE Allows(elem, 0) /\ IsInt(0)
      BY <2>1, UnitAssumption DEF Init, Spellable, Allows, IsInt
    <2> QED
      BY <2>1, LiteralAllows, ValuesAssumption
         DEF Init, IInv, TypeOK, TermsSound, PeersAcceptSlot, FoldOK, Operator
  <1>2. IInv /\ [Next]_vars => IInv'
    BY Step
  <1> QED
    BY <1>1, <1>2, PTL DEF Spec

\* Every variable holds a value of its kind, products of unknown sign or not.
THEOREM TypeCorrect == Spec => []TypeOK
  <1>1. Init => TypeOK
    BY LiteralAllows, ValuesAssumption DEF Init, TypeOK, Operator
  <1>2. ASSUME TypeOK, [Next]_vars PROVE TypeOK'
    <2> USE ValuesAssumption DEF TypeOK
    <2>1. elem \in NumType /\ LiteralType(0) \in NumType
      BY <1>2, LiteralAllows DEF Spellable
    <2>2. ASSUME NEW u \in NumType, NEW v \in Values, Begin(u, v) PROVE TypeOK'
      BY <1>2, <2>2 DEF Begin
    <2>3. ASSUME NEW u \in NumType, NEW v \in Values, Guard(u, v) PROVE TypeOK'
      BY <1>2, <2>3, JoinType DEF Guard
    <2>4. ASSUME NEW op \in Operator, NEW u \in NumType, NEW v \in Values, Apply(op, u, v)
          PROVE  TypeOK'
      BY <1>2, <2>4, BinType DEF Apply
    <2>5. ASSUME NEW u \in NumType, Pass(u) PROVE TypeOK'
      BY <1>2, <2>5 DEF Pass
    <2>6. ASSUME NEW op \in Operator, BeginReduce(op) PROVE TypeOK'
      <3>1. ReduceType(op, type) \in NumType
        BY <1>2, <2>1, JoinType, BinType DEF ReduceType, Widen
      <3> QED
        BY <1>2, <2>6, <3>1 DEF BeginReduce
    <2>7. CASE EndReduce \/ Store \/ \E v \in Values : ReduceSlot(v)
      BY <1>2, <2>1, <2>7 DEF EndReduce, Store, ReduceSlot
    <2>8. CASE UNCHANGED vars
      BY <1>2, <2>8 DEF vars
    <2> QED
      BY <1>2, <2>2, <2>3, <2>4, <2>5, <2>6, <2>7, <2>8 DEF Next
  <1> QED
    BY <1>1, <1>2, PTL DEF Spec

\* The type of a term allows its value, for terms of any length over any
\* rationals, as long as they multiply no two operands of unknown sign.
THEOREM TermsAreSound ==
  ASSUME ~LooseProducts
  PROVE  Spec => []TermsSound
  BY InductiveInvariant, PTL DEF IInv

\* Under the same condition no update ever leaves a slot that a peer rejects.
THEOREM SlotsAreAccepted ==
  ASSUME ~LooseProducts
  PROVE  Spec => []PeersAcceptSlot
  BY InductiveInvariant, PTL DEF IInv
=============================================================================
