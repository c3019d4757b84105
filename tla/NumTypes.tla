------------------------------ MODULE NumTypes ------------------------------
(***************************************************************************)
(* The numeric types of the DSL (numtype/numtype.go) and the rules that    *)
(* give the result of an operator its type (builder/checker.go), with the  *)
(* arithmetic they are about (crdt/vector.go).                             *)
(*                                                                         *)
(* A rational number is the integer k that stands for k / Unit: any finite *)
(* set of rationals is a set of integers for some Unit.                    *)
(***************************************************************************)
EXTENDS Integers

CONSTANT Unit   \* the common denominator of the rationals in use

ASSUME UnitAssumption == Unit \in Nat \ {0}

Domain == {"Rat", "Int"}
Sign == {"Any", "NonNeg", "NonPos", "Zero"}
NumType == [domain : Domain, sign : Sign]

\* The six types a program can spell; the sign Zero is internal.
Spellable == {t \in NumType : t.sign # "Zero"}

IsInt(v) == v % Unit = 0

Allows(t, v) ==
  /\ t.domain = "Int" => IsInt(v)
  /\ t.sign = "NonNeg" => v >= 0
  /\ t.sign = "NonPos" => v <= 0
  /\ t.sign = "Zero" => v = 0

\* The type of the literal v.
LiteralType(v) ==
  IF v = 0 THEN [domain |-> "Int", sign |-> "Zero"]
  ELSE [domain |-> IF IsInt(v) THEN "Int" ELSE "Rat",
        sign |-> IF v < 0 THEN "NonPos" ELSE "NonNeg"]

-----------------------------------------------------------------------------
(* Subtypes and least upper bounds *)

SubDomain(a, b) == a = b \/ (a = "Int" /\ b = "Rat")

\* Mutant of SubSign: the bounded signs are taken for subtypes of each other.
SubSignBounded(a, b) ==
  a = b \/ b = "Any" \/ (b \in {"NonNeg", "NonPos"} /\ a # "Any")

SubSign(a, b) ==
  a = b \/ b = "Any" \/ (b \in {"NonNeg", "NonPos"} /\ a = "Zero")

Sub(a, b) == SubDomain(a.domain, b.domain) /\ SubSign(a.sign, b.sign)

JoinDomain(a, b) == IF "Rat" \in {a, b} THEN "Rat" ELSE "Int"

\* Mutant of JoinSign: the sign of the first branch wins.
JoinSignFirst(a, b) == IF a = "Zero" THEN b ELSE a

JoinSign(a, b) ==
  IF a = b \/ b = "Zero" THEN a ELSE IF a = "Zero" THEN b ELSE "Any"

Join(a, b) == [domain |-> JoinDomain(a.domain, b.domain),
               sign |-> JoinSign(a.sign, b.sign)]

-----------------------------------------------------------------------------
(* The result types of the arithmetic operators *)

Operator == {"+", "-", "*", "max", "min"}

NegateSign(s) ==
  CASE s = "NonNeg" -> "NonPos" [] s = "NonPos" -> "NonNeg" [] OTHER -> s

AddSign(a, b) ==
  IF a = "Zero" THEN b
  ELSE IF b = "Zero" THEN a
  ELSE IF a = b THEN a ELSE "Any"

MulSign(a, b) ==
  IF "Zero" \in {a, b} THEN "Zero"
  ELSE IF a = b THEN "NonNeg"
  ELSE IF "Any" \in {a, b} THEN "Any" ELSE "NonPos"

MaxSign(a, b) ==
  IF a = "Zero" /\ b = "Zero" THEN "Zero"
  ELSE IF {a, b} \cap {"NonNeg", "Zero"} # {} THEN "NonNeg"
  ELSE IF a = "NonPos" /\ b = "NonPos" THEN "NonPos" ELSE "Any"

MinSign(a, b) ==
  IF a = "Zero" /\ b = "Zero" THEN "Zero"
  ELSE IF {a, b} \cap {"NonPos", "Zero"} # {} THEN "NonPos"
  ELSE IF a = "NonNeg" /\ b = "NonNeg" THEN "NonNeg" ELSE "Any"

\* Mutant of BinSign: the right operand of a difference keeps its sign.
BinSignUnnegated(op, a, b) ==
  CASE op = "+" -> AddSign(a, b)
    [] op = "-" -> AddSign(a, b)
    [] op = "*" -> MulSign(a, b)
    [] op = "max" -> MaxSign(a, b)
    [] op = "min" -> MinSign(a, b)

BinSign(op, a, b) ==
  CASE op = "+" -> AddSign(a, b)
    [] op = "-" -> AddSign(a, NegateSign(b))
    [] op = "*" -> MulSign(a, b)
    [] op = "max" -> MaxSign(a, b)
    [] op = "min" -> MinSign(a, b)

NumBin(op, a, b) == [domain |-> JoinDomain(a.domain, b.domain),
                     sign |-> BinSign(op, a.sign, b.sign)]

\* r is the value of the operator; a product k * m stands for the rational
\* (k / Unit) * (m / Unit).
IsResult(op, x, y, r) ==
  CASE op = "+" -> r = x + y
    [] op = "-" -> r = x - y
    [] op = "*" -> r * Unit = x * y
    [] op = "max" -> r = IF x >= y THEN x ELSE y
    [] op = "min" -> r = IF x <= y THEN x ELSE y
=============================================================================
