---------------------------- MODULE GatewayProofs ---------------------------
(***************************************************************************)
(* Proofs about the gateways and the documents behind them: first what     *)
(* canonicalDecimal does to the digits of a key, for decimals of any       *)
(* length, then the invariant of the requests, the messages and the        *)
(* documents, and the theorems.                                            *)
(***************************************************************************)
EXTENDS Gateway, SequenceTheorems, FiniteSetTheorems, TLAPS

(***************************************************************************)
(* Induction over the naturals.  A set of naturals has a least element,    *)
(* the library says, because < is well founded; so a set that has 0, and   *)
(* n + 1 with n, has them all.                                             *)
(***************************************************************************)

LEMMA LeastElement ==
  ASSUME NEW T, T \subseteq Nat, T # {}
  PROVE  \E x \in T : \A y \in T : x <= y
  <1>1. IsWellFoundedOn(OpToRel(<, Nat), Nat)
    BY NatLessThanWellFounded
  <1>2. PICK x \in T : \A y \in T : <<y, x>> \notin OpToRel(<, Nat)
    BY <1>1, WFMin
  <1>3. \A y \in T : ~(y < x)
    <2> TAKE y \in T
    <2>1. <<y, x>> \notin OpToRel(<, Nat)
      BY <1>2
    <2> QED
      BY <2>1 DEF OpToRel
  <1> QED
    BY <1>3

LEMMA Induct ==
  ASSUME NEW S, 0 \in S, \A n \in Nat : n \in S => n + 1 \in S
  PROVE  \A n \in Nat : n \in S
  <1> SUFFICES ASSUME Nat \ S # {} PROVE FALSE
    OBVIOUS
  <1>1. PICK x \in Nat \ S : \A y \in Nat \ S : x <= y
    BY LeastElement
  <1> QED
    BY <1>1

-----------------------------------------------------------------------------
(* The value of a sequence of digits *)

Digit == 0..9

\* v holds the values of the beginnings of s.
IsValues(s, v) ==
  /\ v \in [0..Len(s) -> Nat]
  /\ v[0] = 0
  /\ \A i \in 1..Len(s) : v[i] = 10 * v[i - 1] + s[i]

LEMMA DigitsAreNumbers == Seq(Digit) \subseteq Seq(Nat)
  BY SeqMonotonic DEF Digit

\* The recursive function in Value exists.
LEMMA ValueExists ==
  ASSUME NEW s \in Seq(Nat)
  PROVE  \E v : v = [i \in 0..Len(s) |-> IF i = 0 THEN 0 ELSE 10 * v[i - 1] + s[i]]
  <1> DEFINE Upto(n, v) == v = [i \in 0..n |-> IF i = 0 THEN 0 ELSE 10 * v[i - 1] + s[i]]
             S == {n \in Nat : \E v : Upto(n, v)}
  <1>1. 0 \in S
    <2>1. Upto(0, [i \in 0..0 |-> 0])
      OBVIOUS
    <2> QED
      BY <2>1
  <1>2. ASSUME NEW n \in Nat, n \in S PROVE n + 1 \in S
    <2>1. PICK v : Upto(n, v)
      BY <1>2
    <2> DEFINE w == [i \in 0..(n + 1) |-> IF i <= n THEN v[i] ELSE 10 * v[n] + s[n + 1]]
    <2>2. \A i \in 0..(n + 1) : w[i] = IF i = 0 THEN 0 ELSE 10 * w[i - 1] + s[i]
      <3> TAKE i \in 0..(n + 1)
      <3>1. CASE i = 0
        BY <2>1, <3>1
      <3>2. CASE i \in 1..n
        BY <2>1, <3>2
      <3>3. CASE i = n + 1
        BY <3>3
      <3> QED
        BY <3>1, <3>2, <3>3
    <2>3. w = [i \in 0..(n + 1) |-> w[i]]
      OBVIOUS
    <2> HIDE DEF w
    <2>4. Upto(n + 1, w)
      BY <2>2, <2>3
    <2> QED
      BY <2>4
  <1> HIDE DEF S
  <1>3. \A n \in Nat : n \in S
    BY <1>1, <1>2, Induct
  <1>4. Len(s) \in S
    BY <1>3
  <1> QED
    BY <1>4 DEF S

LEMMA ValueSteps ==
  ASSUME NEW s \in Seq(Nat)
  PROVE  \E v : IsValues(s, v) /\ Value(s) = v[Len(s)]
  <1> DEFINE v == CHOOSE v : v = [i \in 0..Len(s) |-> IF i = 0 THEN 0 ELSE 10 * v[i - 1] + s[i]]
  <1>1. v = [i \in 0..Len(s) |-> IF i = 0 THEN 0 ELSE 10 * v[i - 1] + s[i]]
    BY ValueExists
  <1>2. Value(s) = v[Len(s)]
    BY DEF Value
  <1> HIDE DEF v
  <1>3. v = [i \in 0..Len(s) |-> v[i]]
    BY <1>1
  <1>4. Len(s) \in Nat /\ v[0] = 0
    BY <1>1
  <1>5. \A i \in 1..Len(s) : v[i] = 10 * v[i - 1] + s[i]
    <2>1. \A i \in 1..Len(s) : i \in 0..Len(s) /\ i # 0
      BY <1>4
    <2>2. \A i \in 0..Len(s) : v[i] = IF i = 0 THEN 0 ELSE 10 * v[i - 1] + s[i]
      BY <1>1
    <2> QED
      BY <2>1, <2>2
  <1> DEFINE S == {n \in Nat : n <= Len(s) => v[n] \in Nat}
  <1>6. 0 \in S
    BY <1>4
  <1>7. ASSUME NEW n \in Nat, n \in S PROVE n + 1 \in S
    <2> SUFFICES ASSUME n + 1 <= Len(s) PROVE v[n + 1] \in Nat
      OBVIOUS
    <2>1. n + 1 \in 1..Len(s) /\ (n + 1) - 1 = n
      BY <1>4
    <2>2. v[n + 1] = 10 * v[n] + s[n + 1]
      BY <1>5, <2>1
    <2>3. v[n] \in Nat /\ s[n + 1] \in Nat
      BY <1>7, <2>1, ElementOfSeq
    <2> QED
      BY <2>2, <2>3
  <1> HIDE DEF S
  <1>8. \A n \in Nat : n \in S
    BY <1>6, <1>7, Induct
  <1>9. \A n \in 0..Len(s) : v[n] \in Nat
    BY <1>8 DEF S
  <1>10. IsValues(s, v)
    BY <1>3, <1>4, <1>5, <1>9 DEF IsValues
  <1> QED
    BY <1>2, <1>10

LEMMA ValueStep ==
  ASSUME NEW s \in Seq(Digit), NEW v, IsValues(s, v), NEW i \in 1..Len(s)
  PROVE  /\ v[i] = 10 * v[i - 1] + s[i]
         /\ v[i - 1] \in Nat /\ s[i] \in Digit
  <1>1. Len(s) \in Nat /\ i - 1 \in 0..Len(s)
    OBVIOUS
  <1>2. s[i] \in Digit
    BY ElementOfSeq
  <1> QED
    BY <1>1, <1>2 DEF IsValues

\* Zeros in front of a number do not count.
LEMMA LeadingZeros ==
  ASSUME NEW s \in Seq(Nat), NEW t \in Seq(Nat), NEW m \in Nat,
         Len(s) = m + Len(t), \A i \in 1..m : s[i] = 0,
         \A i \in 1..Len(t) : s[m + i] = t[i]
  PROVE  Value(s) = Value(t)
  <1>1. PICK v : IsValues(s, v) /\ Value(s) = v[Len(s)]
    BY ValueSteps
  <1>2. PICK w : IsValues(t, w) /\ Value(t) = w[Len(t)]
    BY ValueSteps
  <1> DEFINE S == {j \in Nat : j <= m => v[j] = 0}
             R == {j \in Nat : j <= Len(t) => v[m + j] = w[j]}
  <1>3. Len(s) \in Nat /\ Len(t) \in Nat
    OBVIOUS
  <1>4. ASSUME NEW j \in Nat, j \in S PROVE j + 1 \in S
    <2> SUFFICES ASSUME j + 1 <= m PROVE v[j + 1] = 0
      OBVIOUS
    <2>1. j + 1 \in 1..Len(s) /\ (j + 1) - 1 = j
      BY <1>3
    <2>2. v[j + 1] = 10 * v[j] + s[j + 1]
      BY <1>1, <2>1 DEF IsValues
    <2> QED
      BY <1>4, <2>2
  <1>5. 0 \in S
    BY <1>1 DEF IsValues
  <1>6. m \in S
    <2> HIDE DEF S
    <2>1. \A j \in Nat : j \in S
      BY <1>4, <1>5, Induct
    <2> QED
      BY <2>1
  <1>7. 0 \in R
    BY <1>2, <1>6 DEF IsValues
  <1>8. ASSUME NEW j \in Nat, j \in R PROVE j + 1 \in R
    <2> SUFFICES ASSUME j + 1 <= Len(t) PROVE v[m + (j + 1)] = w[j + 1]
      OBVIOUS
    <2>1. /\ m + (j + 1) \in 1..Len(s) /\ (m + (j + 1)) - 1 = m + j
          /\ j + 1 \in 1..Len(t) /\ (j + 1) - 1 = j
      BY <1>3
    <2>2. v[m + (j + 1)] = 10 * v[m + j] + s[m + (j + 1)]
      BY <1>1, <2>1 DEF IsValues
    <2>3. w[j + 1] = 10 * w[j] + t[j + 1]
      BY <1>2, <2>1 DEF IsValues
    <2>4. v[m + j] = w[j]
      BY <1>3, <1>8, <2>1
    <2>5. s[m + (j + 1)] = t[j + 1]
      BY <2>1
    <2> QED
      BY <2>2, <2>3, <2>4, <2>5
  <1>9. Len(t) \in R
    <2> HIDE DEF R
    <2>1. \A j \in Nat : j \in R
      BY <1>7, <1>8, Induct
    <2> QED
      BY <1>3, <2>1
  <1> QED
    BY <1>1, <1>2, <1>3, <1>9

\* Sequences of digits of the same length that spell the same number are equal.
LEMMA SameValue ==
  ASSUME NEW s \in Seq(Digit), NEW t \in Seq(Digit), Len(s) = Len(t), Value(s) = Value(t)
  PROVE  s = t
  <1>1. PICK v : IsValues(s, v) /\ Value(s) = v[Len(s)]
    BY ValueSteps, DigitsAreNumbers
  <1>2. PICK w : IsValues(t, w) /\ Value(t) = w[Len(t)]
    BY ValueSteps, DigitsAreNumbers
  <1> DEFINE n == Len(s)
             S == {j \in Nat : j <= n => v[n - j] = w[n - j]}
  <1>3. n \in Nat /\ v[n] = w[n]
    <2>1. v[n] = w[n]
      BY <1>1, <1>2, Zenon
    <2> QED
      BY <2>1
  <1> HIDE DEF n
  <1>4. ASSUME NEW i \in 1..n PROVE /\ v[i] = 10 * v[i - 1] + s[i] /\ v[i - 1] \in Nat
                                    /\ w[i] = 10 * w[i - 1] + t[i] /\ w[i - 1] \in Nat
                                    /\ s[i] \in Digit /\ t[i] \in Digit
    <2>1. i \in 1..Len(s) /\ i \in 1..Len(t)
      BY DEF n
    <2> QED
      BY <1>1, <1>2, <2>1, ValueStep
  <1>5. ASSUME NEW i \in 1..n, v[i] = w[i] PROVE v[i - 1] = w[i - 1] /\ s[i] = t[i]
    <2>1. \A a, b \in Nat : \A d, e \in 0..9 :
            10 * a + d = 10 * b + e => a = b /\ d = e
      OBVIOUS
    <2>2. /\ v[i - 1] \in Nat /\ w[i - 1] \in Nat /\ s[i] \in 0..9 /\ t[i] \in 0..9
          /\ 10 * v[i - 1] + s[i] = 10 * w[i - 1] + t[i]
      BY <1>4, <1>5 DEF Digit
    <2>3. PICK a \in Nat, b \in Nat : a = v[i - 1] /\ b = w[i - 1]
      BY <2>2
    <2>4. PICK d \in 0..9, e \in 0..9 : d = s[i] /\ e = t[i]
      BY <2>2
    <2>5. 10 * a + d = 10 * b + e
      BY <2>2, <2>3, <2>4, Zenon
    <2>6. a = b /\ d = e
      BY <2>1, <2>5
    <2> QED
      BY <2>3, <2>4, <2>6
  <1>6. 0 \in S
    <2>1. n - 0 = n
      BY <1>3
    <2> QED
      BY <1>3, <2>1
  <1>7. ASSUME NEW j \in Nat, j \in S PROVE j + 1 \in S
    <2> SUFFICES ASSUME j + 1 <= n PROVE v[n - (j + 1)] = w[n - (j + 1)]
      OBVIOUS
    <2>1. n - j \in 1..n /\ n - (j + 1) = (n - j) - 1
      BY <1>3
    <2>2. v[n - j] = w[n - j]
      BY <1>3, <1>7, <2>1
    <2> QED
      BY <1>5, <2>1, <2>2
  <1>8. \A j \in Nat : j \in S
    <2> HIDE DEF S
    <2> QED
      BY <1>6, <1>7, Induct
  <1>9. \A i \in 1..n : s[i] = t[i]
    <2> TAKE i \in 1..n
    <2>1. n - i \in Nat /\ n - i <= n /\ n - (n - i) = i
      BY <1>3
    <2>2. n - i \in S
      BY <1>8, <2>1
    <2>3. v[i] = w[i]
      BY <2>1, <2>2
    <2> QED
      BY <1>5, <2>3
  <1> QED
    BY <1>9, SeqEqual DEF n

\* Only zeros spell zero.
LEMMA ZeroValue ==
  ASSUME NEW s \in Seq(Digit)
  PROVE  Value(s) = 0 <=> \A i \in 1..Len(s) : s[i] = 0
  <1> DEFINE z == [i \in 1..Len(s) |-> 0]
  <1>1. z \in Seq(Digit) /\ Len(z) = Len(s) /\ \A i \in 1..Len(s) : z[i] = 0
    BY DEF Digit
  <1>2. Value(<<>>) = 0
    <2>1. <<>> \in Seq(Nat) /\ Len(<<>>) = 0
      OBVIOUS
    <2>2. \E v : IsValues(<<>>, v) /\ Value(<<>>) = v[Len(<<>>)]
      BY <2>1, ValueSteps
    <2> QED
      BY <2>1, <2>2 DEF IsValues
  <1> HIDE DEF z
  <1>3. Value(z) = Value(<<>>)
    <2>1. /\ z \in Seq(Nat) /\ <<>> \in Seq(Nat) /\ Len(s) \in Nat
          /\ Len(z) = Len(s) + Len(<<>>) /\ 1..Len(<<>>) = {}
      BY <1>1, DigitsAreNumbers
    <2>2. \A i \in 1..Len(<<>>) : z[Len(s) + i] = <<>>[i]
      BY <2>1
    <2> QED
      BY <1>1, <2>1, <2>2, LeadingZeros
  <1>4. ASSUME \A i \in 1..Len(s) : s[i] = 0 PROVE s = z
    BY <1>1, <1>4, SeqEqual
  <1> QED
    BY <1>1, <1>2, <1>3, <1>4, SameValue

-----------------------------------------------------------------------------
(* Canonical decimals *)

LEMMA TrimLeftTakesZeros ==
  ASSUME NEW s \in Seq(Digit)
  PROVE  LET t == TrimLeft(s)
         IN \E m \in 0..Len(s) :
              /\ t \in Seq(Digit) /\ Len(t) = Len(s) - m
              /\ \A i \in 1..m : s[i] = 0
              /\ \A i \in 1..Len(t) : t[i] = s[m + i]
              /\ Len(t) > 0 => t[1] # 0
  <1> DEFINE t == TrimLeft(s)
             nonzero == {i \in DOMAIN s : s[i] # 0}
  <1>1. Len(s) \in Nat /\ DOMAIN s = 1..Len(s) /\ \A i \in 1..Len(s) : s[i] \in Digit
    BY ElementOfSeq
  <1>2. CASE nonzero = {}
    <2>1. t = <<>>
      BY <1>2 DEF TrimLeft
    <2>2. t \in Seq(Digit) /\ Len(t) = 0 /\ Len(s) \in 0..Len(s) /\ Len(s) - Len(s) = 0
      BY <1>1, <2>1
    <2>3. \A i \in 1..Len(s) : s[i] = 0
      BY <1>1, <1>2
    <2> HIDE DEF t
    <2>4. /\ Len(t) > 0 => t[1] # 0
          /\ \A i \in 1..Len(t) : t[i] = s[Len(s) + i]
      BY <2>2
    <2>5. \E m \in 0..Len(s) :
            /\ t \in Seq(Digit) /\ Len(t) = Len(s) - m
            /\ \A i \in 1..m : s[i] = 0
            /\ \A i \in 1..Len(t) : t[i] = s[m + i]
            /\ Len(t) > 0 => t[1] # 0
      BY <2>2, <2>3, <2>4
    <2> QED
      BY <2>5 DEF t
  <1>3. CASE nonzero # {}
    <2> DEFINE x == Min(nonzero)
    <2>1. \E y \in nonzero : \A z \in nonzero : y <= z
      <3>1. nonzero \subseteq Nat
        BY <1>1
      <3> HIDE DEF nonzero
      <3> QED
        BY <1>3, <3>1, LeastElement
    <2>2. x \in nonzero /\ \A z \in nonzero : x <= z
      BY <2>1 DEF Min
    <2>3. t = SubSeq(s, x, Len(s))
      BY <1>3 DEF TrimLeft
    <2> HIDE DEF x, t
    <2>4. x \in 1..Len(s) /\ s[x] # 0 /\ \A i \in 1..(x - 1) : s[i] = 0
      BY <1>1, <2>2
    <2>5. /\ t \in Seq(Digit) /\ Len(t) = Len(s) - x + 1
          /\ \A i \in 1..(Len(s) - x + 1) : t[i] = s[x + i - 1]
      BY <1>1, <2>3, <2>4, SubSeqProperties
    <2>6. x - 1 \in 0..Len(s) /\ Len(t) = Len(s) - (x - 1)
      BY <1>1, <2>4, <2>5
    <2>7. \A i \in 1..Len(t) : t[i] = s[(x - 1) + i]
      <3> TAKE i \in 1..Len(t)
      <3>1. x + i - 1 = (x - 1) + i /\ i \in 1..(Len(s) - x + 1)
        BY <1>1, <2>4, <2>5
      <3> QED
        BY <2>5, <3>1
    <2>8. t[1] # 0
      <3>1. 1 \in 1..Len(t) /\ (x - 1) + 1 = x
        BY <1>1, <2>4, <2>5
      <3> QED
        BY <2>4, <2>7, <3>1
    <2>9. \E m \in 0..Len(s) :
            /\ t \in Seq(Digit) /\ Len(t) = Len(s) - m
            /\ \A i \in 1..m : s[i] = 0
            /\ \A i \in 1..Len(t) : t[i] = s[m + i]
            /\ Len(t) > 0 => t[1] # 0
      BY <2>4, <2>5, <2>6, <2>7, <2>8
    <2> QED
      BY <2>9 DEF t
  <1> QED
    BY <1>2, <1>3

LEMMA ReverseReverses ==
  ASSUME NEW s \in Seq(Digit)
  PROVE  /\ Reverse(s) \in Seq(Digit) /\ Len(Reverse(s)) = Len(s)
         /\ \A i \in 1..Len(s) : Reverse(s)[i] = s[(Len(s) - i) + 1]
  <1>1. \A i \in 1..Len(s) : (Len(s) - i) + 1 \in 1..Len(s)
    OBVIOUS
  <1> QED
    BY <1>1, ElementOfSeq DEF Reverse

LEMMA TrimRightTakesZeros ==
  ASSUME NEW s \in Seq(Digit)
  PROVE  LET t == TrimRight(s)
         IN /\ t \in Seq(Digit) /\ Len(t) <= Len(s)
            /\ \A i \in 1..Len(t) : t[i] = s[i]
            /\ \A i \in (Len(t) + 1)..Len(s) : s[i] = 0
            /\ Len(t) > 0 => t[Len(t)] # 0
  <1> DEFINE r == Reverse(s)
             q == TrimLeft(r)
             t == Reverse(q)
  <1>1. /\ r \in Seq(Digit) /\ Len(r) = Len(s) /\ Len(s) \in Nat
        /\ \A i \in 1..Len(s) : r[i] = s[(Len(s) - i) + 1]
    BY ReverseReverses
  <1> HIDE DEF r
  <1>2. PICK m \in 0..Len(s) :
          /\ q \in Seq(Digit) /\ Len(q) = Len(s) - m
          /\ \A i \in 1..m : r[i] = 0
          /\ \A i \in 1..Len(q) : q[i] = r[m + i]
          /\ Len(q) > 0 => q[1] # 0
    BY <1>1, TrimLeftTakesZeros
  <1> HIDE DEF q
  <1>3. /\ t \in Seq(Digit) /\ Len(t) = Len(s) - m
        /\ \A i \in 1..Len(t) : t[i] = q[(Len(t) - i) + 1]
    BY <1>2, ReverseReverses
  <1>4. TrimRight(s) = t
    BY DEF TrimRight, t, q, r
  <1> HIDE DEF t
  <1>5. \A i \in 1..Len(t) : t[i] = s[i]
    <2> TAKE i \in 1..Len(t)
    <2> DEFINE j == (Len(t) - i) + 1
    <2>1. /\ j \in 1..Len(q) /\ m + j \in 1..Len(s)
          /\ (Len(s) - (m + j)) + 1 = i
      BY <1>1, <1>2, <1>3
    <2>2. t[i] = q[j]
      BY <1>3
    <2> HIDE DEF j
    <2>3. q[j] = r[m + j]
      BY <1>2, <2>1
    <2>4. r[m + j] = s[(Len(s) - (m + j)) + 1]
      BY <1>1, <2>1
    <2> QED
      BY <2>1, <2>2, <2>3, <2>4
  <1>6. \A i \in (Len(t) + 1)..Len(s) : s[i] = 0
    <2> TAKE i \in (Len(t) + 1)..Len(s)
    <2> DEFINE j == (Len(s) - i) + 1
    <2>1. j \in 1..m /\ j \in 1..Len(s) /\ (Len(s) - j) + 1 = i
      BY <1>1, <1>2, <1>3
    <2> HIDE DEF j
    <2>2. r[j] = 0
      BY <1>2, <2>1
    <2>3. r[j] = s[(Len(s) - j) + 1]
      BY <1>1, <2>1
    <2> QED
      BY <2>1, <2>2, <2>3
  <1>7. ASSUME Len(t) > 0 PROVE t[Len(t)] # 0
    <2>1. /\ Len(t) \in 1..Len(t) /\ (Len(t) - Len(t)) + 1 = 1
          /\ Len(q) > 0
      BY <1>1, <1>2, <1>3, <1>7
    <2>2. t[Len(t)] = q[1]
      BY <1>3, <2>1
    <2> QED
      BY <1>2, <2>1, <2>2
  <1>8. Len(t) <= Len(s)
    BY <1>1, <1>3
  <1> QED
    BY <1>3, <1>4, <1>5, <1>6, <1>7, <1>8

\* The keys with no more places than Digits, and those that canonicalDecimal
\* leaves as they are.
Key == {k \in Spelling : Len(k.frac) <= Digits}

IsCanonical(k) ==
  /\ Len(k.whole) > 0 /\ (Len(k.whole) > 1 => k.whole[1] # 0)
  /\ Len(k.frac) > 0 => k.frac[Len(k.frac)] # 0
  /\ k.neg => k.whole # <<0>> \/ k.frac # <<>>

LEMMA KeyParts ==
  ASSUME NEW k \in Key
  PROVE  /\ k.whole \in Seq(Digit) /\ k.frac \in Seq(Digit)
         /\ k.neg \in BOOLEAN /\ k.word \in BOOLEAN
         /\ k = [neg |-> k.neg, whole |-> k.whole, frac |-> k.frac, word |-> k.word]
         /\ Len(k.frac) <= Digits /\ Digits \in Nat
         /\ Len(k.whole) \in Nat /\ Len(k.frac) \in Nat
  BY DigitsAssumption DEF Key, Spelling, Digit

\* The place i behind the point.
Place(k, i) == IF i <= Len(k.frac) THEN k.frac[i] ELSE 0

LEMMA Places ==
  ASSUME NEW k \in Key
  PROVE  /\ AllDigits(k) \in Seq(Digit) /\ Len(AllDigits(k)) = Len(k.whole) + Digits
         /\ \A i \in 1..Len(k.whole) : AllDigits(k)[i] = k.whole[i]
         /\ \A i \in 1..Digits : AllDigits(k)[Len(k.whole) + i] = Place(k, i)
  <1> DEFINE w == k.whole
             f == k.frac
             z == Padding(Digits - Len(f))
             p == f \o z
  <1>1. /\ w \in Seq(Digit) /\ f \in Seq(Digit) /\ Len(w) \in Nat /\ Len(f) \in Nat
        /\ Digits \in Nat /\ Len(f) <= Digits
    BY KeyParts
  <1> HIDE DEF w, f
  <1>2. Digits - Len(f) \in Nat
    BY <1>1
  <1>3. z \in Seq(Digit) /\ Len(z) = Digits - Len(f) /\ \A i \in 1..Len(z) : z[i] = 0
    BY <1>2 DEF Padding, Digit
  <1> HIDE DEF z
  <1>4. /\ p \in Seq(Digit) /\ Len(p) = Digits
        /\ \A i \in 1..Digits : p[i] = IF i <= Len(f) THEN f[i] ELSE z[i - Len(f)]
    BY <1>1, <1>3, ConcatProperties
  <1>5. \A i \in 1..Digits : p[i] = IF i <= Len(f) THEN f[i] ELSE 0
    BY <1>1, <1>3, <1>4
  <1> HIDE DEF p
  <1>6. /\ w \o p \in Seq(Digit) /\ Len(w \o p) = Len(w) + Digits
        /\ \A i \in 1..(Len(w) + Digits) :
             (w \o p)[i] = IF i <= Len(w) THEN w[i] ELSE p[i - Len(w)]
    BY <1>1, <1>4, ConcatProperties
  <1>7. \A i \in 1..Digits : (w \o p)[Len(w) + i] = p[i]
    <2> TAKE i \in 1..Digits
    <2>1. /\ Len(w) + i \in 1..(Len(w) + Digits) /\ ~(Len(w) + i <= Len(w))
          /\ (Len(w) + i) - Len(w) = i
      BY <1>1
    <2> QED
      BY <1>6, <2>1
  <1>8. \A i \in 1..Len(w) : (w \o p)[i] = w[i]
    BY <1>1, <1>6
  <1>9. AllDigits(k) = w \o p
    BY DEF AllDigits, w, p, f, z
  <1> QED
    BY <1>5, <1>6, <1>7, <1>8, <1>9 DEF Place, w, f

LEMMA NumberKind ==
  ASSUME NEW k \in Key
  PROVE  Value(AllDigits(k)) \in Nat
  <1>1. AllDigits(k) \in Seq(Nat)
    BY Places, DigitsAreNumbers
  <1>2. PICK v : IsValues(AllDigits(k), v) /\ Value(AllDigits(k)) = v[Len(AllDigits(k))]
    BY <1>1, ValueSteps
  <1>3. Len(AllDigits(k)) \in 0..Len(AllDigits(k))
    BY <1>1
  <1> QED
    BY <1>2, <1>3 DEF IsValues

LEMMA Negation == \A x \in Nat : -x = 0 - x
  OBVIOUS

\* What the parts of a canonical decimal have to do with those of the key.
LEMMA CanonicalParts ==
  ASSUME NEW k \in Key
  PROVE  LET c == CanonicalDecimal(k)
         IN /\ c \in Key /\ c.word = k.word
            /\ c.whole = IF TrimLeft(k.whole) = <<>> THEN <<0>> ELSE TrimLeft(k.whole)
            /\ c.frac = TrimRight(k.frac)
            /\ c.neg = (k.neg /\ (c.whole # <<0>> \/ c.frac # <<>>))
  <1> DEFINE w == IF TrimLeft(k.whole) = <<>> THEN <<0>> ELSE TrimLeft(k.whole)
             f == TrimRight(k.frac)
             c == CanonicalDecimal(k)
             g == k.neg /\ (w # <<0>> \/ f # <<>>)
  <1>1. /\ k.whole \in Seq(Digit) /\ k.frac \in Seq(Digit)
        /\ k = [neg |-> k.neg, whole |-> k.whole, frac |-> k.frac, word |-> k.word]
        /\ Len(k.frac) <= Digits /\ Digits \in Nat /\ k.word \in BOOLEAN
        /\ Len(k.frac) \in Nat
    BY KeyParts
  <1>2. w \in Seq(Digit)
    <2>1. TrimLeft(k.whole) \in Seq(Digit)
      BY <1>1, TrimLeftTakesZeros
    <2>2. <<0>> \in Seq(Digit)
      BY DEF Digit
    <2> QED
      BY <2>1, <2>2
  <1>3. f \in Seq(Digit) /\ Len(f) <= Len(k.frac)
    BY <1>1, TrimRightTakesZeros
  <1>4. c = [k EXCEPT !.whole = w, !.frac = f, !.neg = g]
    BY DEF CanonicalDecimal
  <1> HIDE DEF w, f, c
  <1>5. g \in BOOLEAN
    OBVIOUS
  <1>6. c = [neg |-> g, whole |-> w, frac |-> f, word |-> k.word]
    <2> HIDE DEF g
    <2> QED
      BY <1>1, <1>4
  <1>7. c.whole = w /\ c.frac = f /\ c.word = k.word /\ c.neg = g
    <2> HIDE DEF g
    <2> QED
      BY <1>6
  <1>8. c \in Key
    <2>1. Len(f) <= Digits
      BY <1>1, <1>3
    <2>2. c \in Spelling
      <3> HIDE DEF g
      <3> QED
        BY <1>1, <1>2, <1>3, <1>5, <1>6 DEF Spelling, Digit
    <2> QED
      BY <1>7, <2>1, <2>2 DEF Key
  <1> QED
    BY <1>7, <1>8 DEF w, f, c

\* The result is canonical and stands for the same number.
LEMMA CanonicalForm ==
  ASSUME NEW k \in Key
  PROVE  LET c == CanonicalDecimal(k)
         IN /\ c \in Key /\ c.word = k.word /\ IsCanonical(c)
            /\ Number(c) = Number(k)
  <1> DEFINE c == CanonicalDecimal(k)
             tl == TrimLeft(k.whole)
             a == AllDigits(k)
             b == AllDigits(c)
  <1>1. /\ c \in Key /\ c.word = k.word
        /\ c.whole = IF tl = <<>> THEN <<0>> ELSE tl
        /\ c.frac = TrimRight(k.frac)
        /\ c.neg = (k.neg /\ (c.whole # <<0>> \/ c.frac # <<>>))
    BY CanonicalParts
  <1> HIDE DEF c
  <1>2. /\ k.whole \in Seq(Digit) /\ k.frac \in Seq(Digit) /\ Digits \in Nat
        /\ Len(k.whole) \in Nat /\ Len(k.frac) \in Nat /\ Len(k.frac) <= Digits
    BY KeyParts
  <1>3. PICK m \in 0..Len(k.whole) :
          /\ tl \in Seq(Digit) /\ Len(tl) = Len(k.whole) - m
          /\ \A i \in 1..m : k.whole[i] = 0
          /\ \A i \in 1..Len(tl) : tl[i] = k.whole[m + i]
          /\ Len(tl) > 0 => tl[1] # 0
    BY <1>2, TrimLeftTakesZeros
  <1>4. /\ c.frac \in Seq(Digit) /\ Len(c.frac) <= Len(k.frac) /\ Len(c.frac) \in Nat
        /\ \A i \in 1..Len(c.frac) : c.frac[i] = k.frac[i]
        /\ \A i \in (Len(c.frac) + 1)..Len(k.frac) : k.frac[i] = 0
        /\ Len(c.frac) > 0 => c.frac[Len(c.frac)] # 0
    <2> DEFINE t == TrimRight(k.frac)
    <2>1. /\ t \in Seq(Digit) /\ Len(t) <= Len(k.frac)
          /\ \A i \in 1..Len(t) : t[i] = k.frac[i]
          /\ \A i \in (Len(t) + 1)..Len(k.frac) : k.frac[i] = 0
          /\ Len(t) > 0 => t[Len(t)] # 0
      BY <1>2, TrimRightTakesZeros
    <2>2. c.frac = t
      BY <1>1
    <2> HIDE DEF t
    <2>3. Len(t) \in Nat
      BY <2>1
    <2> QED
      BY <2>1, <2>2, <2>3
  <1> HIDE DEF tl
  <1>5. \A i \in 1..Digits : Place(c, i) = Place(k, i)
    BY <1>2, <1>4 DEF Place
  <1>6. /\ a \in Seq(Digit) /\ Len(a) = Len(k.whole) + Digits
        /\ \A i \in 1..Len(k.whole) : a[i] = k.whole[i]
        /\ \A i \in 1..Digits : a[Len(k.whole) + i] = Place(k, i)
    BY Places
  <1>7. /\ b \in Seq(Digit) /\ Len(b) = Len(c.whole) + Digits
        /\ \A i \in 1..Len(c.whole) : b[i] = c.whole[i]
        /\ \A i \in 1..Digits : b[Len(c.whole) + i] = Place(k, i)
    BY <1>1, <1>5, Places
  <1> HIDE DEF a, b
  <1>8. a \in Seq(Nat) /\ b \in Seq(Nat)
    BY <1>6, <1>7, DigitsAreNumbers
  <1>9. Value(a) = Value(b)
    <2>1. CASE tl = <<>>
      <3> DEFINE p == [i \in 1..Digits |-> b[1 + i]]
      <3>1. c.whole = <<0>> /\ Len(c.whole) = 1 /\ c.whole[1] = 0
        BY <1>1, <2>1
      <3>2. m = Len(k.whole)
        BY <1>2, <1>3, <2>1
      <3>3. \A i \in 1..Digits : b[1 + i] = Place(k, i) /\ b[1 + i] \in Digit
        <4> TAKE i \in 1..Digits
        <4>1. 1 + i \in 1..Len(b)
          BY <1>2, <1>7, <3>1
        <4> QED
          BY <1>7, <3>1, <4>1, ElementOfSeq
      <3>4. p \in Seq(Digit) /\ Len(p) = Digits
        <4>1. p \in [1..Digits -> Digit]
          BY <3>3
        <4> HIDE DEF p
        <4> QED
          BY <1>2, <4>1
      <3>5. \A i \in 1..Digits : p[i] = b[1 + i] /\ p[i] = Place(k, i)
        BY <3>3
      <3> HIDE DEF p
      <3>6. p \in Seq(Nat)
        BY <3>4, DigitsAreNumbers
      <3>7. Value(b) = Value(p)
        <4>1. Len(b) = 1 + Len(p) /\ \A i \in 1..1 : b[i] = 0
          BY <1>7, <3>1, <3>4
        <4> QED
          BY <1>8, <3>4, <3>5, <3>6, <4>1, LeadingZeros
      <3>8. Value(a) = Value(p)
        <4>1. Len(a) = m + Len(p) /\ \A i \in 1..m : a[i] = 0
          BY <1>2, <1>3, <1>6, <3>2, <3>4
        <4>2. \A i \in 1..Len(p) : a[m + i] = p[i]
          BY <1>6, <3>2, <3>4, <3>5
        <4>3. m \in Nat
          BY <1>2
        <4> QED
          BY <1>8, <3>6, <4>1, <4>2, <4>3, LeadingZeros
      <3> QED
        BY <3>7, <3>8
    <2>2. CASE tl # <<>>
      <3>1. c.whole = tl /\ Len(tl) \in Nat
        BY <1>1, <1>3, <2>2
      <3>2. m \in Nat /\ Len(b) = Len(tl) + Digits /\ Len(k.whole) = m + Len(tl)
        <4>1. Len(b) = Len(tl) + Digits
          BY <1>7, <3>1
        <4>2. m \in Nat /\ Len(k.whole) = m + Len(tl)
          BY <1>2, <1>3, <3>1
        <4> QED
          BY <4>1, <4>2
      <3>4. Len(a) = m + Len(b) /\ \A i \in 1..m : a[i] = 0
        <4>1. Len(a) = m + Len(b)
          BY <1>2, <1>6, <3>1, <3>2
        <4>2. \A i \in 1..m : a[i] = 0
          <5> TAKE i \in 1..m
          <5>1. i \in 1..Len(k.whole)
            BY <1>2, <3>1, <3>2
          <5> QED
            BY <1>3, <1>6, <5>1
        <4> QED
          BY <4>1, <4>2
      <3>3. \A i \in 1..Len(b) : a[m + i] = b[i]
        <4> TAKE i \in 1..Len(b)
        <4>1. CASE i \in 1..Len(tl)
          <5>1. m + i \in 1..Len(k.whole)
            BY <1>2, <1>3, <4>1
          <5> QED
            BY <1>3, <1>6, <1>7, <3>1, <4>1, <5>1
        <4>2. CASE i \notin 1..Len(tl)
          <5> DEFINE j == i - Len(tl)
          <5>1. /\ j \in 1..Digits /\ i = Len(tl) + j
                /\ m + i = Len(k.whole) + j
            BY <1>2, <3>1, <3>2, <4>2
          <5> HIDE DEF j
          <5>2. a[m + i] = Place(k, j)
            BY <1>6, <5>1
          <5>3. b[i] = Place(k, j)
            BY <1>7, <3>1, <5>1
          <5> QED
            BY <5>2, <5>3
        <4> QED
          BY <4>1, <4>2
      <3> QED
        BY <1>8, <3>2, <3>3, <3>4, LeadingZeros
    <2> QED
      BY <2>1, <2>2
  <1>10. IsCanonical(c)
    <2>1. Len(c.whole) > 0 /\ (Len(c.whole) > 1 => c.whole[1] # 0)
      <3>1. CASE tl = <<>>
        BY <1>1, <3>1
      <3>2. CASE tl # <<>>
        BY <1>1, <1>3, <3>2
      <3> QED
        BY <3>1, <3>2
    <2> QED
      BY <1>1, <1>4, <2>1 DEF IsCanonical
  <1>11. Number(c) = Number(k)
    <2>1. Value(a) \in Nat
      BY NumberKind DEF a
    <2>2. CASE c.neg = k.neg
      BY <1>9, <2>2 DEF Number, a, b
    <2>3. CASE c.neg # k.neg
      <3>1. c.whole = <<0>> /\ c.frac = <<>> /\ ~c.neg /\ k.neg
        BY <1>1, <2>3, KeyParts
      <3>2. \A i \in 1..Len(b) : b[i] = 0
        <4> TAKE i \in 1..Len(b)
        <4>1. Len(b) = 1 + Digits
          BY <1>7, <3>1
        <4>2. CASE i = 1
          BY <1>7, <3>1, <4>2
        <4>3. CASE i # 1
          <5>1. i - 1 \in 1..Digits /\ 1 + (i - 1) = i /\ Len(c.whole) = 1 /\ Len(c.frac) = 0
            BY <1>2, <3>1, <4>1, <4>3
          <5>2. b[i] = Place(c, i - 1)
            BY <1>5, <1>7, <5>1
          <5> QED
            BY <5>1, <5>2 DEF Place
        <4> QED
          BY <4>2, <4>3
      <3>3. Value(b) = 0
        BY <1>7, <3>2, ZeroValue
      <3>4. Value(AllDigits(c)) = 0 /\ Value(AllDigits(k)) = 0
        BY <1>9, <3>3 DEF a, b
      <3>5. Number(c) = Value(AllDigits(c)) /\ Number(k) = -Value(AllDigits(k))
        BY <3>1 DEF Number
      <3>6. Number(k) = 0 - Value(AllDigits(k))
        BY <3>5, Negation, NumberKind
      <3>7. Number(k) = 0
        BY <3>4, <3>6
      <3> QED
        BY <3>4, <3>5, <3>7
    <2> QED
      BY <2>2, <2>3
  <1> QED
    BY <1>1, <1>10, <1>11 DEF c

LEMMA WholeNotLonger ==
  ASSUME NEW k \in Key, NEW l \in Key, IsCanonical(k), IsCanonical(l),
         Value(AllDigits(k)) = Value(AllDigits(l))
  PROVE  Len(k.whole) <= Len(l.whole)
  <1> SUFFICES ASSUME Len(k.whole) > Len(l.whole) PROVE FALSE
    BY KeyParts
  <1> DEFINE a == AllDigits(k)
             b == AllDigits(l)
             d == Len(k.whole) - Len(l.whole)
             z == [i \in 1..(d + Len(b)) |-> IF i <= d THEN 0 ELSE b[i - d]]
  <1>1. /\ Len(k.whole) \in Nat /\ Len(l.whole) \in Nat /\ Digits \in Nat /\ d \in Nat
        /\ d > 0 /\ Len(l.whole) > 0
    <2>1. Len(k.whole) \in Nat /\ Len(l.whole) \in Nat /\ Digits \in Nat
      BY KeyParts
    <2>2. Len(l.whole) > 0
      BY DEF IsCanonical
    <2>3. PICK x \in Nat, y \in Nat : x = Len(k.whole) /\ y = Len(l.whole)
      BY <2>1
    <2>4. x > y
      BY <2>3
    <2>5. x - y \in Nat /\ x - y > 0
      BY <2>4
    <2> QED
      BY <2>1, <2>2, <2>3, <2>5
  <1>2. /\ a \in Seq(Digit) /\ Len(a) = Len(k.whole) + Digits
        /\ \A i \in 1..Len(k.whole) : a[i] = k.whole[i]
    BY Places
  <1>3. b \in Seq(Digit) /\ Len(b) = Len(l.whole) + Digits
    BY Places
  <1>4. Value(a) = Value(b)
    OBVIOUS
  <1>5. Len(k.whole) = d + Len(l.whole)
    BY <1>1
  <1> HIDE DEF a, b, d
  <1>6. d + Len(b) \in Nat /\ Len(a) = d + Len(b)
    BY <1>1, <1>2, <1>3, <1>5
  <1>7. z \in [1..(d + Len(b)) -> Digit]
    <2>1. ASSUME NEW i \in 1..(d + Len(b)), ~(i <= d) PROVE b[i - d] \in Digit
      <3>1. i - d \in 1..Len(b)
        BY <1>1, <1>6, <2>1
      <3> QED
        BY <1>3, <3>1, ElementOfSeq
    <2>2. 0 \in Digit
      BY DEF Digit
    <2> QED
      BY <2>1, <2>2
  <1>8. /\ \A i \in 1..d : z[i] = 0
        /\ \A i \in 1..Len(b) : z[d + i] = b[i]
    <2>1. ASSUME NEW i \in 1..d PROVE z[i] = 0
      <3>1. i \in 1..(d + Len(b))
        BY <1>1, <1>3, <1>6
      <3> QED
        BY <1>1, <3>1
    <2>2. ASSUME NEW i \in 1..Len(b) PROVE z[d + i] = b[i]
      <3>1. d + i \in 1..(d + Len(b)) /\ ~(d + i <= d) /\ (d + i) - d = i
        BY <1>1, <1>3
      <3> QED
        BY <3>1
    <2> HIDE DEF z
    <2> QED
      BY <2>1, <2>2
  <1> HIDE DEF z
  <1>9. z \in Seq(Digit) /\ Len(z) = d + Len(b)
    BY <1>6, <1>7
  <1>10. Value(z) = Value(b)
    BY <1>1, <1>3, <1>8, <1>9, LeadingZeros, DigitsAreNumbers
  <1>11. a = z
    BY <1>2, <1>4, <1>6, <1>9, <1>10, SameValue
  <1>12. k.whole[1] = 0
    <2>1. 1 \in 1..d /\ 1 \in 1..Len(k.whole)
      BY <1>1, <1>5
    <2> QED
      BY <1>2, <1>8, <1>11, <2>1
  <1>13. Len(k.whole) > 1
    BY <1>1, <1>5
  <1> QED
    BY <1>12, <1>13 DEF IsCanonical

LEMMA FracNotLonger ==
  ASSUME NEW k \in Key, NEW l \in Key, IsCanonical(k),
         \A i \in 1..Digits : Place(k, i) = Place(l, i)
  PROVE  Len(k.frac) <= Len(l.frac)
  <1> SUFFICES ASSUME Len(k.frac) > Len(l.frac) PROVE FALSE
    BY KeyParts
  <1> DEFINE n == Len(k.frac)
  <1>1. n \in Nat /\ Len(l.frac) \in Nat /\ n > 0 /\ n \in 1..Digits
    BY KeyParts
  <1>2. Place(k, n) = k.frac[n] /\ Place(l, n) = 0
    BY <1>1 DEF Place
  <1>3. k.frac[n] # 0
    BY <1>1 DEF IsCanonical
  <1> QED
    BY <1>1, <1>2, <1>3

\* A canonical zero has no sign.
LEMMA ZeroUnsigned ==
  ASSUME NEW k \in Key, IsCanonical(k), Value(AllDigits(k)) = 0
  PROVE  ~k.neg
  <1> DEFINE a == AllDigits(k)
  <1>1. /\ a \in Seq(Digit) /\ Len(a) = Len(k.whole) + Digits
        /\ \A i \in 1..Len(k.whole) : a[i] = k.whole[i]
        /\ \A i \in 1..Digits : a[Len(k.whole) + i] = Place(k, i)
    BY Places
  <1>2. \A i \in 1..Len(a) : a[i] = 0
    BY <1>1, ZeroValue
  <1> HIDE DEF a
  <1>3. /\ Len(k.whole) \in Nat /\ Len(k.frac) \in Nat /\ Digits \in Nat
        /\ Len(k.frac) <= Digits /\ k.whole \in Seq(Digit) /\ k.frac \in Seq(Digit)
    BY KeyParts
  <1>4. k.whole = <<0>>
    <2>1. 1 \in 1..Len(k.whole) /\ 1 \in 1..Len(a)
      BY <1>1, <1>3 DEF IsCanonical
    <2>2. k.whole[1] = 0
      BY <1>1, <1>2, <2>1
    <2>3. Len(k.whole) = 1
      <3>1. ~(Len(k.whole) > 1)
        BY <2>2 DEF IsCanonical
      <3>2. \A x \in Nat : 1 \in 1..x /\ ~(x > 1) => x = 1
        OBVIOUS
      <3> QED
        BY <1>3, <2>1, <3>1, <3>2
    <2>4. <<0>> \in Seq(Digit) /\ Len(<<0>>) = 1 /\ <<0>>[1] = 0
      BY DEF Digit
    <2> QED
      BY <1>3, <2>2, <2>3, <2>4, SeqEqual
  <1>5. k.frac = <<>>
    <2> SUFFICES ASSUME Len(k.frac) > 0 PROVE FALSE
      BY <1>3, EmptySeq
    <2> DEFINE n == Len(k.frac)
    <2>1. n \in 1..Digits /\ Len(k.whole) + n \in 1..Len(a)
      <3>1. \A x, y, d \in Nat : 0 < x /\ x <= d => x \in 1..d /\ y + x \in 1..(y + d)
        OBVIOUS
      <3>2. n \in 1..Digits /\ Len(k.whole) + n \in 1..(Len(k.whole) + Digits)
        BY <1>3, <3>1
      <3> QED
        BY <1>1, <3>2
    <2>2. a[Len(k.whole) + n] = 0
      BY <1>2, <2>1
    <2>3. Place(k, n) = 0
      BY <1>1, <2>1, <2>2
    <2>4. Place(k, n) = k.frac[n]
      BY <1>3 DEF Place
    <2> QED
      BY <2>3, <2>4 DEF IsCanonical
  <1> QED
    BY <1>4, <1>5 DEF IsCanonical

\* Canonical decimals that stand for the same number are equal.
LEMMA CanonicalUnique ==
  ASSUME NEW k \in Key, NEW l \in Key, IsCanonical(k), IsCanonical(l),
         k.word = l.word, Number(k) = Number(l)
  PROVE  k = l
  <1> DEFINE a == AllDigits(k)
             b == AllDigits(l)
  <1>1. Value(a) \in Nat /\ Value(b) \in Nat
    BY NumberKind
  <1>2. /\ Number(k) = IF k.neg THEN 0 - Value(a) ELSE Value(a)
        /\ Number(l) = IF l.neg THEN 0 - Value(b) ELSE Value(b)
    BY <1>1, Negation DEF Number
  <1>3. Value(a) = Value(b) /\ (k.neg # l.neg => Value(a) = 0)
    <2>1. PICK v \in Nat, w \in Nat : v = Value(a) /\ w = Value(b)
      BY <1>1
    <2>2. (IF k.neg THEN 0 - v ELSE v) = (IF l.neg THEN 0 - w ELSE w)
      BY <1>2, <2>1
    <2>3. k.neg \in BOOLEAN /\ l.neg \in BOOLEAN
      BY KeyParts
    <2>4. v = w /\ (k.neg # l.neg => v = 0)
      BY <2>2, <2>3
    <2> QED
      BY <2>1, <2>4
  <1>4. k.neg = l.neg
    <2>1. CASE k.neg # l.neg
      <3>1. ~k.neg /\ ~l.neg
        BY <1>3, <2>1, ZeroUnsigned
      <3> QED
        BY <3>1, KeyParts
    <2> QED
      BY <2>1
  <1>5. /\ Len(k.whole) \in Nat /\ Len(l.whole) \in Nat /\ Digits \in Nat
        /\ Len(k.frac) \in Nat /\ Len(l.frac) \in Nat
        /\ Len(k.frac) <= Digits /\ k.whole \in Seq(Digit) /\ k.frac \in Seq(Digit)
        /\ l.whole \in Seq(Digit) /\ l.frac \in Seq(Digit)
    BY KeyParts
  <1>6. Len(k.whole) = Len(l.whole)
    BY <1>3, <1>5, WholeNotLonger
  <1>7. a = b
    BY <1>3, <1>6, Places, SameValue
  <1>8. k.whole = l.whole
    <2>1. \A i \in 1..Len(k.whole) : k.whole[i] = l.whole[i]
      BY <1>6, <1>7, Places
    <2> QED
      BY <1>5, <1>6, <2>1, SeqEqual
  <1>9. \A i \in 1..Digits : Place(k, i) = Place(l, i)
    BY <1>6, <1>7, Places
  <1>10. Len(k.frac) = Len(l.frac)
    BY <1>5, <1>9, FracNotLonger
  <1>11. k.frac = l.frac
    <2>1. ASSUME NEW i \in 1..Len(k.frac) PROVE k.frac[i] = l.frac[i]
      <3>1. i \in 1..Digits /\ i <= Len(k.frac) /\ i <= Len(l.frac)
        BY <1>5, <1>10
      <3> QED
        BY <1>9, <3>1 DEF Place
    <2> QED
      BY <1>5, <1>10, <2>1, SeqEqual
  <1> QED
    BY <1>4, <1>8, <1>11, KeyParts

LEMMA CanonicalStays ==
  ASSUME NEW k \in Key, IsCanonical(k)
  PROVE  CanonicalDecimal(k) = k
  BY CanonicalForm, CanonicalUnique

-----------------------------------------------------------------------------
(* Documents and their keys *)

LEMMA NoKeyIsKey == NoKey \in Key
  BY DigitsAssumption DEF NoKey, Key, Spelling

\* A key that is taken leads to a document whose own key is taken, leads to the
\* same document, and is equal to the one the client wrote.
LEMMA ResolveAccepted ==
  ASSUME NEW p, NEW k \in Key, Accepts(p, k)
  PROVE  /\ Resolve(p, k) \in Key /\ Accepts(p, Resolve(p, k))
         /\ Resolve(p, Resolve(p, k)) = Resolve(p, k)
         /\ SameKey(p, Resolve(p, k), k)
  <1>1. CASE p \in DOMAIN Numeric
    <2> DEFINE c == CanonicalDecimal(k)
    <2>1. c \in Key /\ c.word = k.word /\ IsCanonical(c) /\ Number(c) = Number(k)
      BY CanonicalForm
    <2> HIDE DEF c
    <2>2. CanonicalDecimal(c) = c
      BY <2>1, CanonicalStays
    <2>3. ~k.word /\ Type!Allows(Numeric[p], Number(k))
      BY <1>1 DEF Accepts, Numeric
    <2>4. c # NoKey
      <3>1. Len(c.whole) > 0
        BY <2>1 DEF IsCanonical
      <3>2. NoKey.whole = <<>>
        BY DEF NoKey
      <3> QED
        BY <3>1, <3>2
    <2>5. Accepts(p, c)
      BY <1>1, <2>1, <2>3, <2>4 DEF Accepts
    <2>6. Resolve(p, k) = c /\ Resolve(p, c) = c
      BY <1>1, <2>2 DEF Resolve, c
    <2> QED
      BY <1>1, <2>1, <2>5, <2>6 DEF SameKey
  <1>2. CASE p \notin DOMAIN Numeric
    BY <1>2 DEF Resolve, SameKey
  <1> QED
    BY <1>1, <1>2

\* Two documents of a node have different keys.
LEMMA ResolveUnique ==
  ASSUME NEW p, NEW k \in Key, NEW l \in Key, Accepts(p, k), Accepts(p, l),
         Resolve(p, k) = k, Resolve(p, l) = l, SameKey(p, k, l)
  PROVE  k = l
  <1>1. CASE p \in DOMAIN Numeric
    <2>1. CanonicalDecimal(k) = k /\ CanonicalDecimal(l) = l
      BY <1>1 DEF Resolve
    <2>2. IsCanonical(k) /\ IsCanonical(l)
      BY <2>1, CanonicalForm
    <2>3. ~k.word /\ ~l.word /\ Number(k) = Number(l)
      BY <1>1 DEF Accepts, SameKey, Numeric
    <2>4. k.word = l.word
      BY <2>3, KeyParts
    <2> QED
      BY <2>2, <2>3, <2>4, CanonicalUnique
  <1>2. CASE p \notin DOMAIN Numeric
    BY <1>2 DEF SameKey
  <1> QED
    BY <1>1, <1>2

LEMMA NoneAcceptsNothing == \A k : ~Accepts(None, k)
  BY DEF Accepts, Numeric, None

-----------------------------------------------------------------------------
(* The invariant *)

\* The documents of a node.
IsStore(d) == DOMAIN d \subseteq Key /\ \A k \in DOMAIN d : d[k] \subseteq Update

Message ==
  [type : {"push", "pull"}, req : Update \cup Query, to : Node, prog : Program,
   key : Key, snap : SUBSET Update]

Kinds ==
  /\ plan \in [Node -> Program \cup {None}]
  /\ page \in [Node -> Program \cup {None}]
  /\ DOMAIN docs = Node /\ \A n \in Node : IsStore(docs[n])
  /\ plans \subseteq Program \X Node
  /\ net \subseteq Message
  /\ DOMAIN input = Request /\ \A r \in Request : input[r] \in Inputs[r] \cup {NoInput}
  /\ pc \in [Request -> {"idle", "page", "pull", "pulled", "push", "answered"}]
  /\ acks \in [Request -> SUBSET Node]
  /\ status \in [Request -> {0, 200, 400, 503}]

\* How far request r has come: it has an input from when it is accepted, and a
\* refused one never has.
Stage(r) ==
  /\ pc[r] = "idle" => input[r] = NoInput /\ acks[r] = {}
  /\ pc[r] # "answered" => status[r] = 0
  /\ pc[r] \in {"page", "pull", "pulled", "push"} => input[r] # NoInput
  /\ pc[r] = "page" => r \in Deploy
  /\ pc[r] \in {"pull", "pulled"} => r \in Query
  /\ pc[r] = "push" => r \in Update \cup Query
  /\ status[r] = 400 => input[r] = NoInput
  /\ status[r] \in {200, 503} => input[r] # NoInput

Stages == \A r \in Request : Stage(r)

\* The program p comes from a deployment.
Deployed(p) == \E d \in Deploy : input[d] # NoInput /\ p = input[d].program

\* Where the programs come from, and a node that took a deployment has one.
Programs ==
  /\ \A n \in Node :
       /\ plan[n] # None => Deployed(plan[n])
       /\ page[n] # None => Deployed(page[n]) /\ plan[n] # None
  /\ \A m \in plans : Deployed(m[1])
  /\ \A d \in Deploy : input[d] # NoInput => plan[input[d].at] # None

\* An accepted request leads to a document of its node.
Routes ==
  \A r \in Update \cup Query :
    input[r] # NoInput => Accepts(plan[input[r].at], input[r].key)

\* The documents of node n are where its program leads, and hold accepted
\* updates.
Stored(n) ==
  \A k \in DOMAIN docs[n] :
    /\ Accepts(plan[n], k) /\ Resolve(plan[n], k) = k
    /\ docs[n][k] # {} \/ k = NoKey
    /\ \A u \in docs[n][k] : input[u] # NoInput

\* A message carries the document of its request, with accepted updates, and a
\* push of an update that update.
Addressed(m) ==
  /\ input[m.req] # NoInput
  /\ m.prog = plan[input[m.req].at] /\ m.key = Document(input[m.req])
  /\ m.to \in Peers(input[m.req].at)
  /\ m.type = "pull" => m.req \in Query
  /\ m.type = "push" /\ m.req \in Update => m.req \in m.snap
  /\ \A u \in m.snap : input[u] # NoInput

\* An accepted update is in its document at its node and at all peers counted.
Applied(u) ==
  LET k == Document(input[u])
  IN input[u] # NoInput =>
       /\ u \in Content(docs[input[u].at], k)
       /\ acks[u] \subseteq Peers(input[u].at)
       /\ \A n \in acks[u] : u \in Content(docs[n], k)
       /\ status[u] = 200 => Reached(Cardinality(Holders(u, k)) - 1, input[u].header)

\* Under one program an update is only where its own key leads.
KeptApart ==
  OneProgram =>
    /\ \A n \in Node : \A k \in DOMAIN docs[n] : \A u \in docs[n][k] :
         k = Resolve(plan[n], input[u].key)
    /\ \A m \in net : \A u \in m.snap : m.key = Resolve(m.prog, input[u].key)

IInv ==
  /\ Kinds /\ Stages /\ Programs /\ Routes
  /\ \A n \in Node : Stored(n)
  /\ \A m \in net : Addressed(m)
  /\ \A u \in Update : Applied(u)
  /\ KeptApart

-----------------------------------------------------------------------------
(* The operators of the model *)

LEMMA CallInput ==
  ASSUME NEW r \in Update \cup Query, NEW i \in Inputs[r]
  PROVE  /\ i \in [at : Node, key : Spelling, header : Header, bad : BOOLEAN]
         /\ i.at \in Node /\ i.key \in Key /\ i # NoInput
  <1>1. i \in [at : Node, key : Spelling, header : Header, bad : BOOLEAN]
    BY GatewayAssumption
  <1>2. Len(i.key.frac) <= Digits
    BY DigitsAssumption
  <1>3. DOMAIN i = {"at", "key", "header", "bad"} /\ DOMAIN NoInput = {"at"}
    BY <1>1 DEF NoInput
  <1>4. i.at \in Node /\ i.key \in Spelling /\ i # NoInput
    BY <1>1, <1>3
  <1>5. i.key \in Key
    BY <1>2, <1>4 DEF Key
  <1> QED
    BY <1>1, <1>4, <1>5

LEMMA DeployInput ==
  ASSUME NEW r \in Deploy, NEW i \in Inputs[r]
  PROVE  i.at \in Node /\ i.program \in Program /\ i # NoInput
  <1>1. i \in [at : Node, program : Program]
    BY GatewayAssumption
  <1>2. DOMAIN i = {"at", "program"} /\ DOMAIN NoInput = {"at"}
    BY <1>1 DEF NoInput
  <1> QED
    BY <1>1, <1>2

LEMMA Requests ==
  /\ Request = Deploy \cup Update \cup Query
  /\ \A r \in Update \cup Query : r \notin Deploy
  /\ \A r \in Update : r \notin Query
  BY GatewayAssumption DEF Request

LEMMA MergeFacts ==
  ASSUME NEW d, IsStore(d), NEW k \in Key, NEW s \in SUBSET Update
  PROVE  LET e == Merge(d, k, s)
         IN /\ IsStore(e)
            /\ \A l \in DOMAIN d : l \in DOMAIN e /\ d[l] \subseteq e[l]
            /\ \A l \in DOMAIN e : \A u \in e[l] :
                 (l \in DOMAIN d /\ u \in d[l]) \/ (l = k /\ u \in s)
            /\ \A l \in DOMAIN e : l \in DOMAIN d \/ (l = k /\ e[l] # {})
            /\ s \subseteq Content(e, k)
            /\ s # {} => k \in DOMAIN e
  BY DEF Merge, Content, IsStore

LEMMA MergeAllFacts ==
  ASSUME NEW p, NEW d, NEW e, IsStore(d), IsStore(e)
  PROVE  LET g == MergeAll(p, d, e)
             From(l, j) == j \in DOMAIN e /\ Accepts(p, j) /\ Resolve(p, j) = l
         IN /\ IsStore(g)
            /\ \A l \in DOMAIN d : l \in DOMAIN g /\ d[l] \subseteq g[l]
            /\ \A l \in DOMAIN g : \A u \in g[l] :
                 (l \in DOMAIN d /\ u \in d[l]) \/ (\E j : From(l, j) /\ u \in e[j])
            /\ \A l \in DOMAIN g : l \in DOMAIN d \/ ((\E j : From(l, j)) /\ g[l] # {})
  <1> DEFINE From(l, j) == j \in DOMAIN e /\ Accepts(p, j) /\ Resolve(p, j) = l
             into(l) == UNION {e[j] : j \in {m \in DOMAIN e : Accepts(p, m) /\ Resolve(p, m) = l}}
             keys == {Resolve(p, m) : m \in {l \in DOMAIN e : Accepts(p, l) /\ e[l] # {}}}
             g == MergeAll(p, d, e)
  <1>1. /\ DOMAIN g = DOMAIN d \cup keys
        /\ \A l \in DOMAIN g : g[l] = Content(d, l) \cup into(l)
    BY DEF MergeAll
  <1>2. \A l, u : u \in into(l) <=> \E j : From(l, j) /\ u \in e[j]
    OBVIOUS
  <1>3. ASSUME NEW l \in keys PROVE l \in Key /\ (\E j : From(l, j)) /\ into(l) # {}
    <2>1. PICK j \in DOMAIN e : Accepts(p, j) /\ e[j] # {} /\ l = Resolve(p, j)
      BY <1>3
    <2>2. j \in Key
      BY DEF IsStore
    <2>3. PICK u : u \in e[j]
      BY <2>1
    <2>4. u \in into(l)
      BY <1>2, <2>1, <2>3
    <2>5. l \in Key
      BY <2>1, <2>2, ResolveAccepted
    <2> QED
      BY <2>1, <2>4, <2>5
  <1>4. \A l : into(l) \subseteq Update /\ Content(d, l) \subseteq Update
    BY <1>2 DEF IsStore, Content
  <1> HIDE DEF g, keys, into
  <1>5. IsStore(g)
    BY <1>1, <1>3, <1>4 DEF IsStore
  <1>6. \A l \in DOMAIN d : l \in DOMAIN g /\ d[l] \subseteq g[l]
    BY <1>1 DEF Content
  <1>7. \A l \in DOMAIN g : \A u \in g[l] :
          (l \in DOMAIN d /\ u \in d[l]) \/ (\E j : From(l, j) /\ u \in e[j])
    BY <1>1, <1>2 DEF Content
  <1>8. \A l \in DOMAIN g : l \in DOMAIN d \/ ((\E j : From(l, j)) /\ g[l] # {})
    BY <1>1, <1>3
  <1> QED
    BY <1>5, <1>6, <1>7, <1>8 DEF g

LEMMA ReachedGrows ==
  ASSUME NEW x \in Int, NEW y \in Int, x <= y, NEW h, Reached(x, h)
  PROVE  Reached(y, h)
  <1>1. Cardinality(Node) \in Nat
    BY NodeAssumption, FS_CardinalityType
  <1> QED
    BY <1>1 DEF Reached

-----------------------------------------------------------------------------
(* What a step does to inputs, programs, documents and messages *)

LEMMA InitializeFacts ==
  ASSUME Kinds, NEW n \in Node, NEW p \in Program, Initialize(n, p)
  PROVE  /\ plan' \in [Node -> Program \cup {None}] /\ plan'[n] # None
         /\ \A q \in Node : plan'[q] = plan[q] \/ (q = n /\ plan[q] = None /\ plan'[q] = p)
         /\ DOMAIN docs' = Node
         /\ \A q \in Node : \/ docs'[q] = docs[q] /\ plan'[q] = plan[q]
                            \/ /\ plan[q] = None /\ plan'[q] # None
                               /\ docs'[q] = [k \in IF plan'[q] = "single" THEN {NoKey} ELSE {} |-> {}]
  <1>1. None \notin Program
    BY DEF None, Program
  <1>2. CASE plan[n] # None
    BY <1>2 DEF Initialize, Kinds
  <1>3. CASE plan[n] = None
    BY <1>1, <1>3 DEF Initialize, Kinds
  <1> QED
    BY <1>2, <1>3

\* The input of a request is set once; a step sets one at most, of an idle one.
LEMMA InputStep ==
  ASSUME IInv, [Next]_vars
  PROVE  \/ input' = input
         \/ \E r \in Request : \E i \in Inputs[r] :
              /\ pc[r] = "idle" /\ input[r] = NoInput /\ i # NoInput
              /\ input' = [input EXCEPT ![r] = i]
  <1> USE Requests
  <1>1. ASSUME NEW r \in Deploy, NEW i \in Inputs[r], BeginDeploy(r, i),
               input' = [input EXCEPT ![r] = i]
        PROVE  pc[r] = "idle" /\ input[r] = NoInput /\ i # NoInput
    BY <1>1, DeployInput DEF BeginDeploy, IInv, Stages, Stage
  <1>2. ASSUME NEW r \in Update \cup Query, NEW i \in Inputs[r], Accept(r, i)
        PROVE  /\ pc[r] = "idle" /\ input[r] = NoInput /\ i # NoInput
               /\ input' = [input EXCEPT ![r] = i]
    BY <1>2, CallInput DEF Accept, IInv, Stages, Stage
  <1>3. CASE \E r \in Deploy : \E i \in Inputs[r] : BeginDeploy(r, i)
    <2>1. PICK r \in Deploy : \E i \in Inputs[r] : BeginDeploy(r, i)
      BY <1>3
    <2>2. PICK i \in Inputs[r] : BeginDeploy(r, i)
      BY <2>1
    <2>3. CASE i.program = "empty"
      BY <2>2, <2>3 DEF BeginDeploy
    <2>4. CASE i.program # "empty"
      BY <1>1, <2>2, <2>4 DEF BeginDeploy
    <2> QED
      BY <2>3, <2>4
  <1>4. CASE \E r \in Update : \E i \in Inputs[r] : BeginUpdate(r, i)
    <2>1. PICK r \in Update : \E i \in Inputs[r] : BeginUpdate(r, i)
      BY <1>4
    <2>2. PICK i \in Inputs[r] : BeginUpdate(r, i)
      BY <2>1
    <2>3. Refuse(r, i) \/ Accept(r, i)
      BY <2>2 DEF BeginUpdate
    <2> QED
      BY <1>2, <2>3 DEF Refuse
  <1>5. CASE \E r \in Query : \E i \in Inputs[r] : BeginQuery(r, i)
    <2>1. PICK r \in Query : \E i \in Inputs[r] : BeginQuery(r, i)
      BY <1>5
    <2>2. PICK i \in Inputs[r] : BeginQuery(r, i)
      BY <2>1
    <2>3. Refuse(r, i) \/ Accept(r, i)
      BY <2>2 DEF BeginQuery
    <2> QED
      BY <1>2, <2>3 DEF Refuse
  <1>6. CASE \/ \E r \in Deploy : EndDeploy(r)
             \/ \E r \in Query : WriteBack(r)
             \/ \E r \in Update \cup Query : Deadline(r)
             \/ \E m \in plans : HandleDeploy(m)
             \/ \E m \in net : HandleSyncPush(m) \/ HandleSyncPull(m)
             \/ \E n, p \in Node : Gossip(n, p)
             \/ UNCHANGED vars
    BY <1>6 DEF EndDeploy, WriteBack, Deadline, HandleDeploy, HandleSyncPush,
                HandleSyncPull, Gossip, vars, request
  <1> QED
    BY <1>3, <1>4, <1>5, <1>6 DEF Next

\* A node's program is set once.
LEMMA PlanStep ==
  ASSUME IInv, [Next]_vars
  PROVE  /\ plan' \in [Node -> Program \cup {None}]
         /\ \A n \in Node : plan[n] # None => plan'[n] = plan[n]
         /\ OneProgram' => OneProgram
  <1> USE DEF Kinds, IInv
  <1>1. ASSUME NEW n \in Node, NEW p \in Program, Initialize(n, p)
        PROVE  /\ plan' \in [Node -> Program \cup {None}]
               /\ \A q \in Node : plan[q] # None => plan'[q] = plan[q]
    BY <1>1, InitializeFacts
  <1>2. ASSUME UNCHANGED plan
        PROVE  /\ plan' \in [Node -> Program \cup {None}]
               /\ \A q \in Node : plan[q] # None => plan'[q] = plan[q]
    BY <1>2
  <1>3. /\ plan' \in [Node -> Program \cup {None}]
        /\ \A n \in Node : plan[n] # None => plan'[n] = plan[n]
    <2>1. ASSUME NEW r \in Deploy, NEW i \in Inputs[r], BeginDeploy(r, i)
          PROVE  UNCHANGED plan \/ (i.at \in Node /\ i.program \in Program /\ Initialize(i.at, i.program))
      BY <2>1, DeployInput DEF BeginDeploy
    <2>2. ASSUME NEW m \in plans, HandleDeploy(m)
          PROVE  m[1] \in Program /\ m[2] \in Node /\ Initialize(m[2], m[1])
      BY <2>2 DEF HandleDeploy
    <2>3. CASE \/ \E r \in Deploy : EndDeploy(r)
               \/ \E r \in Update : \E i \in Inputs[r] : BeginUpdate(r, i)
               \/ \E r \in Query : WriteBack(r) \/ \E i \in Inputs[r] : BeginQuery(r, i)
               \/ \E r \in Update \cup Query : Deadline(r)
               \/ \E m \in net : HandleSyncPush(m) \/ HandleSyncPull(m)
               \/ \E n, p \in Node : Gossip(n, p)
               \/ UNCHANGED vars
      BY <1>2, <2>3 DEF EndDeploy, BeginUpdate, WriteBack, BeginQuery, Deadline,
                        HandleSyncPush, HandleSyncPull, Gossip, vars, node
    <2> QED
      BY <1>1, <1>2, <2>1, <2>2, <2>3 DEF Next
  <1>4. OneProgram' => OneProgram
    BY <1>3 DEF OneProgram
  <1> QED
    BY <1>3, <1>4

\* An input stays, and so does the document it leads to.
LEMMA InputStays ==
  ASSUME IInv, [Next]_vars
  PROVE  /\ DOMAIN input' = Request
         /\ \A r \in Request : input'[r] \in Inputs[r] \cup {NoInput}
         /\ \A r \in Request : input[r] # NoInput => input'[r] = input[r]
  <1>1. DOMAIN input = Request /\ \A r \in Request : input[r] \in Inputs[r] \cup {NoInput}
    BY DEF IInv, Kinds
  <1> QED
    BY <1>1, InputStep

LEMMA RoutesStay ==
  ASSUME IInv, [Next]_vars, NEW r \in Update \cup Query, input[r] # NoInput
  PROVE  /\ input'[r] = input[r] /\ input[r].at \in Node /\ input[r].key \in Key
         /\ plan[input[r].at] # None /\ plan'[input[r].at] = plan[input[r].at]
         /\ Document(input[r])' = Document(input[r])
         /\ Accepts(plan[input[r].at], Document(input[r]))
         /\ Resolve(plan[input[r].at], Document(input[r])) = Document(input[r])
         /\ Document(input[r]) \in Key
  <1>1. input'[r] = input[r] /\ input[r] \in Inputs[r]
    BY InputStays, Requests DEF IInv, Kinds
  <1>2. input[r].at \in Node /\ input[r].key \in Key
    BY <1>1, CallInput
  <1>3. Accepts(plan[input[r].at], input[r].key)
    BY DEF IInv, Routes
  <1>4. plan[input[r].at] # None
    BY <1>3, NoneAcceptsNothing
  <1>5. plan'[input[r].at] = plan[input[r].at]
    BY <1>2, <1>4, PlanStep
  <1>6. Document(input[r])' = Document(input[r])
    BY <1>1, <1>5 DEF Document
  <1> QED
    BY <1>1, <1>2, <1>3, <1>4, <1>5, <1>6, ResolveAccepted DEF Document

-----------------------------------------------------------------------------
(* What a step does to the documents of a node *)

\* The node takes its program.
Starts(n) ==
  /\ plan[n] = None /\ plan'[n] # None
  /\ docs'[n] = [k \in IF plan'[n] = "single" THEN {NoKey} ELSE {} |-> {}]

\* Updates s go into document k, where its program and their keys lead.
Absorbs(n, k, s) ==
  /\ plan' = plan /\ docs'[n] = Merge(docs[n], k, s)
  /\ Accepts(plan[n], k) /\ Resolve(plan[n], k) = k
  /\ \A u \in s : input'[u] # NoInput
  /\ OneProgram => \A u \in s : k = Resolve(plan[n], input'[u].key)

\* All documents of q come in.
Hears(n, q) ==
  /\ plan' = plan /\ input' = input /\ plan[n] # None /\ plan[q] # None
  /\ docs'[n] = MergeAll(plan[n], docs[n], docs[q])

DocsMove ==
  /\ DOMAIN docs' = Node
  /\ \A n \in Node :
       \/ docs'[n] = docs[n] /\ plan'[n] = plan[n]
       \/ Starts(n)
       \/ \E k \in Key : \E s \in SUBSET Update : Absorbs(n, k, s)
       \/ \E q \in Node : Hears(n, q)

LEMMA UpdateAbsorbs ==
  ASSUME IInv, NEW r \in Update, NEW i \in Inputs[r], BeginUpdate(r, i), Valid(i),
         pc[r] = "idle"
  PROVE  /\ i.at \in Node /\ Document(i) \in Key /\ Absorbs(i.at, Document(i), {r})
         /\ docs' = [docs EXCEPT ![i.at] = Merge(docs[i.at], Document(i), {r})]
         /\ input' = [input EXCEPT ![r] = i] /\ plan' = plan
         /\ Document(i)' = Document(i)
         /\ Proceed("push", r, i, Merge(docs[i.at], Document(i), {r})[Document(i)])
  <1>1. i.at \in Node /\ i.key \in Key /\ i # NoInput
    BY CallInput
  <1>2. /\ docs' = [docs EXCEPT ![i.at] = Merge(docs[i.at], Document(i), {r})]
        /\ input' = [input EXCEPT ![r] = i] /\ plan' = plan
        /\ Proceed("push", r, i, Merge(docs[i.at], Document(i), {r})[Document(i)])
    BY DEF BeginUpdate, Refuse, Accept
  <1>3. Accepts(plan[i.at], i.key)
    BY DEF Valid
  <1>4. /\ Document(i) \in Key /\ Accepts(plan[i.at], Document(i))
        /\ Resolve(plan[i.at], Document(i)) = Document(i)
    BY <1>1, <1>3, ResolveAccepted DEF Document
  <1>5. input'[r] = i
    BY <1>2, Requests DEF IInv, Kinds
  <1>6. docs'[i.at] = Merge(docs[i.at], Document(i), {r})
    BY <1>1, <1>2 DEF IInv, Kinds
  <1>7. Document(i) = Resolve(plan[i.at], input'[r].key)
    BY <1>5 DEF Document
  <1>8. Absorbs(i.at, Document(i), {r})
    BY <1>1, <1>2, <1>4, <1>5, <1>6, <1>7 DEF Absorbs
  <1>9. Document(i)' = Document(i)
    BY <1>2 DEF Document
  <1> QED
    BY <1>1, <1>2, <1>4, <1>8, <1>9

\* A peer takes the document of a push, and a coordinator what a pull brings.
LEMMA PushAbsorbs ==
  ASSUME IInv, NEW m \in net, HandleSyncPush(m), Welcome(m)
  PROVE  /\ m \in Message /\ Absorbs(m.to, m.key, m.snap)
         /\ docs' = [docs EXCEPT ![m.to] = Merge(docs[m.to], m.key, m.snap)]
  <1>1. m \in Message /\ Addressed(m)
    BY DEF IInv, Kinds
  <1>2. m.to \in Node /\ m.key \in Key /\ m.snap \in SUBSET Update
    BY <1>1 DEF Message
  <1>3. /\ docs' = [docs EXCEPT ![m.to] = Merge(docs[m.to], m.key, m.snap)]
        /\ plan' = plan /\ input' = input
    BY DEF HandleSyncPush
  <1>4. docs'[m.to] = Merge(docs[m.to], m.key, m.snap)
    BY <1>2, <1>3 DEF IInv, Kinds
  <1>5. /\ plan[m.to] = m.prog /\ Accepts(plan[m.to], m.key)
        /\ Resolve(plan[m.to], m.key) = m.key
    BY DEF Welcome
  <1>6. OneProgram => \A u \in m.snap : m.key = Resolve(plan[m.to], input[u].key)
    BY <1>5 DEF IInv, KeptApart
  <1> QED
    BY <1>1, <1>3, <1>4, <1>5, <1>6 DEF Absorbs, Addressed

LEMMA PullAbsorbs ==
  ASSUME IInv, [Next]_vars, NEW m \in net, HandleSyncPull(m), ~UNCHANGED docs
  PROVE  LET n == input[m.req].at
             s == Content(docs[m.to], m.key)
         IN /\ n \in Node /\ m \in Message /\ s \in SUBSET Update
            /\ Absorbs(n, m.key, s)
            /\ docs' = [docs EXCEPT ![n] = Merge(docs[n], m.key, s)]
  <1> DEFINE n == input[m.req].at
             s == Content(docs[m.to], m.key)
  <1>1. m \in Message /\ Addressed(m)
    BY DEF IInv, Kinds
  <1>2. m.to \in Node /\ m.key \in Key /\ m.req \in Update \cup Query
    BY <1>1 DEF Message
  <1>3. /\ docs' = [docs EXCEPT ![n] = Merge(docs[n], m.key, s)]
        /\ plan' = plan /\ input' = input /\ Welcome(m)
    BY DEF HandleSyncPull
  <1>4. input[m.req] # NoInput /\ m.prog = plan[n] /\ m.key = Document(input[m.req])
    BY <1>1 DEF Addressed
  <1>5. n \in Node /\ Accepts(plan[n], m.key) /\ Resolve(plan[n], m.key) = m.key
    BY <1>2, <1>4, RoutesStay
  <1>6. docs'[n] = Merge(docs[n], m.key, s)
    BY <1>3, <1>5 DEF IInv, Kinds
  <1>7. plan[m.to] = plan[n]
    BY <1>3, <1>4 DEF Welcome
  <1>8. IsStore(docs[m.to]) /\ Stored(m.to)
    BY <1>2 DEF IInv, Kinds
  <1>9. s \in SUBSET Update /\ \A u \in s : input[u] # NoInput
    BY <1>8 DEF Content, IsStore, Stored
  <1>10. ASSUME OneProgram, NEW u \in s PROVE m.key = Resolve(plan[n], input[u].key)
    <2>1. m.key \in DOMAIN docs[m.to] /\ u \in docs[m.to][m.key]
      BY <1>10 DEF Content
    <2> QED
      BY <1>2, <1>7, <1>10, <2>1 DEF IInv, KeptApart
  <1> HIDE DEF s, n
  <1>11. Absorbs(n, m.key, s)
    BY <1>3, <1>5, <1>6, <1>9, <1>10 DEF Absorbs
  <1> QED
    BY <1>1, <1>3, <1>5, <1>9, <1>11 DEF s, n

LEMMA DocsStep ==
  ASSUME IInv, [Next]_vars
  PROVE  DocsMove
  <1>0. DOMAIN docs = Node
    BY DEF IInv, Kinds
  <1>1. ASSUME UNCHANGED <<docs, plan>> PROVE DocsMove
    BY <1>0, <1>1 DEF DocsMove
  <1>2. ASSUME NEW n \in Node, NEW p \in Program, Initialize(n, p) PROVE DocsMove
    <2>1. Kinds
      BY DEF IInv
    <2> QED
      BY <1>2, <2>1, InitializeFacts DEF DocsMove, Starts
  <1>3. ASSUME NEW n \in Node, NEW k \in Key, NEW s \in SUBSET Update, Absorbs(n, k, s),
               docs' = [docs EXCEPT ![n] = Merge(docs[n], k, s)]
        PROVE  DocsMove
    <2>1. DOMAIN docs' = Node /\ \A q \in Node : q # n => docs'[q] = docs[q]
      BY <1>0, <1>3
    <2>2. plan' = plan
      BY <1>3 DEF Absorbs
    <2> QED
      BY <1>3, <2>1, <2>2 DEF DocsMove
  <1>4. ASSUME NEW r \in Deploy, NEW i \in Inputs[r], BeginDeploy(r, i) PROVE DocsMove
    BY <1>1, <1>2, <1>4, DeployInput DEF BeginDeploy
  <1>5. ASSUME NEW r \in Update, NEW i \in Inputs[r], BeginUpdate(r, i) PROVE DocsMove
    <2>1. CASE Valid(i) /\ pc[r] = "idle"
      <3>1. {r} \in SUBSET Update
        OBVIOUS
      <3>2. /\ i.at \in Node /\ Document(i) \in Key /\ Absorbs(i.at, Document(i), {r})
            /\ docs' = [docs EXCEPT ![i.at] = Merge(docs[i.at], Document(i), {r})]
        BY <1>5, <2>1, UpdateAbsorbs
      <3> QED
        BY <1>3, <3>1, <3>2
    <2>2. CASE ~(Valid(i) /\ pc[r] = "idle")
      BY <1>1, <1>5, <2>2 DEF BeginUpdate, Accept
    <2> QED
      BY <2>1, <2>2
  <1>6. ASSUME NEW m \in plans, HandleDeploy(m) PROVE DocsMove
    <2>1. m[1] \in Program /\ m[2] \in Node
      BY DEF IInv, Kinds
    <2> QED
      BY <1>2, <1>6, <2>1 DEF HandleDeploy
  <1>7. ASSUME NEW m \in net, HandleSyncPush(m) PROVE DocsMove
    <2>1. CASE Welcome(m)
      BY <1>3, <1>7, <2>1, PushAbsorbs DEF Message
    <2>2. CASE ~Welcome(m)
      BY <1>1, <1>7, <2>2 DEF HandleSyncPush
    <2> QED
      BY <2>1, <2>2
  <1>8. ASSUME NEW m \in net, HandleSyncPull(m) PROVE DocsMove
    <2>1. plan' = plan
      BY <1>8 DEF HandleSyncPull
    <2>2. CASE ~UNCHANGED docs
      BY <1>3, <1>8, <2>2, PullAbsorbs DEF Message
    <2> QED
      BY <1>1, <2>1, <2>2
  <1>9. ASSUME NEW q \in Node, NEW n \in Node, Gossip(q, n) PROVE DocsMove
    <2>1. /\ DOMAIN docs' = Node /\ \A x \in Node : x # n => docs'[x] = docs[x]
          /\ docs'[n] = MergeAll(plan[n], docs[n], docs[q])
          /\ plan' = plan /\ input' = input /\ plan[q] # None /\ plan[n] # None
      BY <1>0, <1>9 DEF Gossip, request
    <2> QED
      BY <2>1 DEF DocsMove, Hears
  <1>10. CASE \/ \E r \in Deploy : EndDeploy(r)
              \/ \E r \in Query : WriteBack(r) \/ \E i \in Inputs[r] : BeginQuery(r, i)
              \/ \E r \in Update \cup Query : Deadline(r)
              \/ UNCHANGED vars
    BY <1>1, <1>10 DEF EndDeploy, WriteBack, BeginQuery, Deadline, vars, node
  <1> QED
    BY <1>4, <1>5, <1>6, <1>7, <1>8, <1>9, <1>10 DEF Next

\* Documents only grow, and stay where their program and their updates' keys
\* lead.
LEMMA DocsGrow ==
  ASSUME IInv, [Next]_vars, NEW n \in Node
  PROVE  /\ IsStore(docs'[n])
         /\ \A k \in DOMAIN docs[n] : k \in DOMAIN docs'[n] /\ docs[n][k] \subseteq docs'[n][k]
  <1>1. IsStore(docs[n])
    BY DEF IInv, Kinds
  <1>2. CASE docs'[n] = docs[n]
    BY <1>1, <1>2
  <1>3. CASE Starts(n)
    <2>1. DOMAIN docs[n] = {}
      BY <1>3, NoneAcceptsNothing DEF IInv, Stored, Starts
    <2>2. IsStore(docs'[n])
      BY <1>3, NoKeyIsKey DEF Starts, IsStore
    <2> QED
      BY <2>1, <2>2
  <1>4. ASSUME NEW k \in Key, NEW s \in SUBSET Update, Absorbs(n, k, s)
        PROVE  /\ IsStore(docs'[n])
               /\ \A l \in DOMAIN docs[n] : l \in DOMAIN docs'[n] /\ docs[n][l] \subseteq docs'[n][l]
    <2>1. docs'[n] = Merge(docs[n], k, s)
      BY <1>4 DEF Absorbs
    <2> QED
      BY <1>1, <2>1, MergeFacts
  <1>5. ASSUME NEW q \in Node, Hears(n, q)
        PROVE  /\ IsStore(docs'[n])
               /\ \A l \in DOMAIN docs[n] : l \in DOMAIN docs'[n] /\ docs[n][l] \subseteq docs'[n][l]
    <2>1. docs'[n] = MergeAll(plan[n], docs[n], docs[q])
      BY <1>5 DEF Hears
    <2>2. IsStore(docs[q])
      BY DEF IInv, Kinds
    <2> QED
      BY <1>1, <2>1, <2>2, MergeAllFacts
  <1> QED
    BY <1>2, <1>3, <1>4, <1>5, DocsStep DEF DocsMove

LEMMA ContentGrows ==
  ASSUME IInv, [Next]_vars, NEW n \in Node, NEW k
  PROVE  Content(docs[n], k) \subseteq Content(docs'[n], k)
  BY DocsGrow DEF Content

LEMMA StoredStep ==
  ASSUME IInv, [Next]_vars, NEW n \in Node
  PROVE  Stored(n)'
  <1>1. IsStore(docs[n]) /\ Stored(n)
    BY DEF IInv, Kinds
  <1>2. \A u \in Update : input[u] # NoInput => input'[u] # NoInput
    BY InputStays, Requests
  <1>3. ASSUME NEW k \in DOMAIN docs[n], plan'[n] = plan[n]
        PROVE  /\ Accepts(plan'[n], k) /\ Resolve(plan'[n], k) = k
               /\ docs'[n][k] # {} \/ k = NoKey
               /\ \A u \in docs[n][k] : input'[u] # NoInput
    <2>1. docs[n][k] \subseteq docs'[n][k] /\ docs[n][k] \subseteq Update
      BY <1>1, DocsGrow DEF IsStore
    <2> QED
      BY <1>1, <1>2, <1>3, <2>1 DEF Stored
  <1>4. CASE docs'[n] = docs[n] /\ plan'[n] = plan[n]
    BY <1>3, <1>4 DEF Stored
  <1>5. CASE Starts(n)
    <2>1. ASSUME NEW k \in DOMAIN docs'[n]
          PROVE  k = NoKey /\ docs'[n][k] = {} /\ Accepts(plan'[n], k) /\ Resolve(plan'[n], k) = k
      <3>1. k = NoKey /\ docs'[n][k] = {} /\ plan'[n] = "single"
        BY <1>5, <2>1 DEF Starts
      <3> QED
        BY <3>1 DEF Accepts, Resolve, Numeric
    <2> QED
      BY <2>1 DEF Stored
  <1>6. ASSUME NEW k \in Key, NEW s \in SUBSET Update, Absorbs(n, k, s) PROVE Stored(n)'
    <2>1. docs'[n] = Merge(docs[n], k, s) /\ plan' = plan
      BY <1>6 DEF Absorbs
    <2>2. /\ \A l \in DOMAIN docs'[n] : \A u \in docs'[n][l] :
               (l \in DOMAIN docs[n] /\ u \in docs[n][l]) \/ (l = k /\ u \in s)
          /\ \A l \in DOMAIN docs'[n] : l \in DOMAIN docs[n] \/ (l = k /\ docs'[n][l] # {})
      BY <1>1, <2>1, MergeFacts
    <2>3. \A l \in DOMAIN docs'[n] : \A u \in docs'[n][l] : input'[u] # NoInput
      BY <1>3, <1>6, <2>1, <2>2 DEF Absorbs
    <2>4. \A l \in DOMAIN docs'[n] : /\ Accepts(plan'[n], l) /\ Resolve(plan'[n], l) = l
                                     /\ docs'[n][l] # {} \/ l = NoKey
      BY <1>3, <1>6, <2>1, <2>2 DEF Absorbs
    <2> QED
      BY <2>3, <2>4 DEF Stored
  <1>7. ASSUME NEW q \in Node, Hears(n, q) PROVE Stored(n)'
    <2> DEFINE From(l, j) == j \in DOMAIN docs[q] /\ Accepts(plan[n], j) /\ Resolve(plan[n], j) = l
    <2>1. /\ docs'[n] = MergeAll(plan[n], docs[n], docs[q]) /\ plan' = plan /\ input' = input
          /\ IsStore(docs[q]) /\ Stored(q)
      BY <1>7 DEF Hears, IInv, Kinds
    <2>2. /\ \A l \in DOMAIN docs'[n] : \A u \in docs'[n][l] :
               (l \in DOMAIN docs[n] /\ u \in docs[n][l]) \/ (\E j : From(l, j) /\ u \in docs[q][j])
          /\ \A l \in DOMAIN docs'[n] :
               l \in DOMAIN docs[n] \/ ((\E j : From(l, j)) /\ docs'[n][l] # {})
      BY <1>1, <2>1, MergeAllFacts
    <2>3. \A l \in DOMAIN docs'[n] : \A u \in docs'[n][l] : input'[u] # NoInput
      BY <1>3, <2>1, <2>2 DEF Stored
    <2>4. ASSUME NEW l, NEW j, From(l, j) PROVE Accepts(plan[n], l) /\ Resolve(plan[n], l) = l
      <3>1. j \in Key
        BY <2>1, <2>4 DEF IsStore
      <3> QED
        BY <2>4, <3>1, ResolveAccepted
    <2>5. \A l \in DOMAIN docs'[n] : /\ Accepts(plan'[n], l) /\ Resolve(plan'[n], l) = l
                                     /\ docs'[n][l] # {} \/ l = NoKey
      BY <1>3, <2>1, <2>2, <2>4
    <2> QED
      BY <2>3, <2>5 DEF Stored
  <1> QED
    BY <1>4, <1>5, <1>6, <1>7, DocsStep DEF DocsMove

-----------------------------------------------------------------------------
(* What a step does to the messages *)

\* Message m is new, and in order.
Sent(m) ==
  LET i == input'[m.req]
  IN /\ m \in Message /\ plan' = plan /\ i # NoInput
     /\ m.prog = plan[i.at] /\ m.key = Document(i) /\ m.to \in Peers(i.at)
     /\ m.type = "pull" => m.req \in Query
     /\ m.type = "push" /\ m.req \in Update => m.req \in m.snap
     /\ \A u \in m.snap : input'[u] # NoInput
     /\ OneProgram => \A u \in m.snap : m.key = Resolve(m.prog, input'[u].key)

LEMMA BroadcastSends ==
  ASSUME IInv, plan' = plan,
         NEW t \in {"push", "pull"}, NEW r \in Update \cup Query, NEW i \in Inputs[r],
         input'[r] = i, Accepts(plan[i.at], i.key), t = "pull" => r \in Query,
         NEW snap \in SUBSET Update, t = "push" /\ r \in Update => r \in snap,
         \A u \in snap : input'[u] # NoInput,
         OneProgram => \A u \in snap : Document(i) = Resolve(plan[i.at], input'[u].key),
         NEW m \in Broadcast(t, r, i, snap)
  PROVE  Sent(m)
  <1>1. i.at \in Node /\ i.key \in Key /\ i # NoInput
    BY CallInput
  <1>2. plan[i.at] \in Program
    BY <1>1, NoneAcceptsNothing DEF IInv, Kinds
  <1>3. Document(i) \in Key
    BY <1>1, ResolveAccepted DEF Document
  <1>4. PICK n \in Peers(i.at) :
          m = [type |-> t, req |-> r, to |-> n, prog |-> plan[i.at], key |-> Document(i),
               snap |-> snap]
    BY DEF Broadcast
  <1>5. /\ m.type = t /\ m.req = r /\ m.to = n /\ m.prog = plan[i.at]
        /\ m.key = Document(i) /\ m.snap = snap
    BY <1>4
  <1>6. m \in Message
    BY <1>2, <1>3, <1>4 DEF Message, Peers
  <1> QED
    BY <1>1, <1>5, <1>6 DEF Sent

LEMMA ProceedSends ==
  ASSUME NEW t, NEW r, NEW i, NEW snap, Proceed(t, r, i, snap), NEW m \in net'
  PROVE  m \in net \/ m \in Broadcast(t, r, i, snap)
  BY DEF Proceed

LEMMA NetStep ==
  ASSUME IInv, [Next]_vars, NEW m \in net'
  PROVE  m \in net \/ Sent(m)
  <1>1. ASSUME NEW r \in Update, NEW i \in Inputs[r], BeginUpdate(r, i), Valid(i), pc[r] = "idle"
        PROVE  m \in net \/ Sent(m)
    <2> DEFINE k == Document(i)
               d == Merge(docs[i.at], k, {r})
    <2>1. /\ i.at \in Node /\ k \in Key /\ Absorbs(i.at, k, {r})
          /\ input' = [input EXCEPT ![r] = i] /\ plan' = plan
          /\ Proceed("push", r, i, d[k])
      BY <1>1, UpdateAbsorbs
    <2>2. IsStore(docs[i.at]) /\ Stored(i.at) /\ DOMAIN input = Request
      BY <2>1 DEF IInv, Kinds
    <2>3. input'[r] = i /\ \A u \in Update : u # r => input'[u] = input[u]
      BY <2>1, <2>2, Requests
    <2>4. {r} \in SUBSET Update
      OBVIOUS
    <2> HIDE DEF k
    <2>5. /\ IsStore(d) /\ k \in DOMAIN d /\ {r} \subseteq Content(d, k)
          /\ \A l \in DOMAIN d : \A u \in d[l] :
               (l \in DOMAIN docs[i.at] /\ u \in docs[i.at][l]) \/ (l = k /\ u \in {r})
      BY <2>1, <2>2, <2>4, MergeFacts
    <2> HIDE DEF d
    <2>6. d[k] \in SUBSET Update /\ r \in d[k]
      BY <2>5 DEF IsStore, Content
    <2>7. \A u \in d[k] : u = r \/ (k \in DOMAIN docs[i.at] /\ u \in docs[i.at][k])
      BY <2>5
    <2>8. \A u \in d[k] : input'[u] # NoInput
      BY <1>1, <2>2, <2>3, <2>6, <2>7, CallInput DEF Stored
    <2>9. k = Resolve(plan[i.at], i.key)
      BY DEF k, Document
    <2>10. OneProgram => \A u \in d[k] : k = Resolve(plan[i.at], input'[u].key)
      <3> SUFFICES ASSUME OneProgram, NEW u \in d[k]
                   PROVE  k = Resolve(plan[i.at], input'[u].key)
        OBVIOUS
      <3>1. CASE u = r
        BY <2>3, <2>9, <3>1
      <3>2. CASE u # r
        BY <2>1, <2>3, <2>6, <2>7, <3>2 DEF IInv, KeptApart
      <3> QED
        BY <3>1, <3>2
    <2>11. Accepts(plan[i.at], i.key)
      BY <1>1 DEF Valid
    <2>12. m \in net \/ m \in Broadcast("push", r, i, d[k])
      BY <2>1, ProceedSends
    <2>13. CASE m \in Broadcast("push", r, i, d[k])
      BY <2>1, <2>3, <2>6, <2>8, <2>10, <2>11, <2>13, BroadcastSends DEF k
    <2> QED
      BY <2>12, <2>13
  <1>2. ASSUME NEW r \in Query, NEW i \in Inputs[r], BeginQuery(r, i), ~Refuse(r, i)
        PROVE  m \in net \/ Sent(m)
    <2>1. Accept(r, i) /\ Proceed("pull", r, i, {}) /\ plan' = plan
      BY <1>2 DEF BeginQuery, node
    <2>2. input'[r] = i /\ Accepts(plan[i.at], i.key)
      BY <2>1, Requests DEF Accept, Valid, IInv, Kinds
    <2>3. m \in net \/ m \in Broadcast("pull", r, i, {})
      BY <2>1, ProceedSends
    <2>4. CASE m \in Broadcast("pull", r, i, {})
      <3>1. {} \in SUBSET Update /\ r \in Update \cup Query /\ "pull" \in {"push", "pull"}
        OBVIOUS
      <3> QED
        BY <1>2, <2>1, <2>2, <2>4, <3>1, BroadcastSends
    <2> QED
      BY <2>3, <2>4
  <1>3. ASSUME NEW r \in Query, WriteBack(r) PROVE m \in net \/ Sent(m)
    <2> DEFINE i == input[r]
               k == Document(i)
               snap == Content(docs[i.at], k)
    <2>1. /\ Proceed("push", r, i, snap) /\ plan' = plan /\ input' = input
          /\ pc[r] = "pulled"
      BY <1>3 DEF WriteBack, node
    <2>2. i # NoInput /\ i \in Inputs[r] /\ r \in Update \cup Query
      BY <2>1, Requests DEF IInv, Stages, Stage, Kinds
    <2>3. Accepts(plan[i.at], i.key) /\ i.at \in Node
      BY <2>2, CallInput DEF IInv, Routes
    <2>4. IsStore(docs[i.at]) /\ Stored(i.at)
      BY <2>3 DEF IInv, Kinds
    <2>5. snap \in SUBSET Update /\ \A u \in snap : input[u] # NoInput
      BY <2>4 DEF Content, IsStore, Stored
    <2>6. OneProgram => \A u \in snap : k = Resolve(plan[i.at], input[u].key)
      <3> HIDE DEF k
      <3> QED
        BY <2>3 DEF Content, IInv, KeptApart
    <2>7. m \in net \/ m \in Broadcast("push", r, i, snap)
      BY <2>1, ProceedSends
    <2>8. r \notin Update
      BY Requests
    <2> HIDE DEF snap
    <2>9. CASE m \in Broadcast("push", r, i, snap)
      <3>1. input'[r] = i
        BY <2>1
      <3> HIDE DEF i
      <3> QED
        BY <2>1, <2>2, <2>3, <2>5, <2>6, <2>8, <2>9, <3>1, BroadcastSends
    <2> QED
      BY <2>7, <2>9
  <1>4. ASSUME net' \subseteq net PROVE m \in net
    BY <1>4
  <1>5. ASSUME NEW r \in Update, NEW i \in Inputs[r], BeginUpdate(r, i) PROVE m \in net \/ Sent(m)
    BY <1>1, <1>4, <1>5 DEF BeginUpdate, Accept
  <1>6. ASSUME NEW r \in Query, NEW i \in Inputs[r], BeginQuery(r, i) PROVE m \in net \/ Sent(m)
    <2>1. CASE Refuse(r, i)
      <3>1. ~Valid(i)
        BY <2>1 DEF Refuse
      <3>2. net' = net
        BY <1>6, <3>1 DEF BeginQuery, Accept
      <3> QED
        BY <3>2
    <2> QED
      BY <1>2, <1>6, <2>1
  <1>7. CASE \/ \E r \in Deploy : EndDeploy(r) \/ \E i \in Inputs[r] : BeginDeploy(r, i)
             \/ \E r \in Update \cup Query : Deadline(r)
             \/ \E x \in plans : HandleDeploy(x)
             \/ \E x \in net : HandleSyncPush(x) \/ HandleSyncPull(x)
             \/ \E n, p \in Node : Gossip(n, p)
             \/ UNCHANGED vars
    <2>1. net' \subseteq net
      BY <1>7 DEF EndDeploy, BeginDeploy, Deadline, HandleDeploy, HandleSyncPush,
                  HandleSyncPull, Gossip, vars
    <2> QED
      BY <1>4, <2>1
  <1> QED
    BY <1>3, <1>5, <1>6, <1>7 DEF Next

-----------------------------------------------------------------------------
(* The parts of the invariant *)

LEMMA AnswerFacts ==
  ASSUME Kinds, NEW r \in Request, NEW s \in {200, 400, 503}, Answer(r, s)
  PROVE  /\ pc' \in [Request -> {"idle", "page", "pull", "pulled", "push", "answered"}]
         /\ acks' \in [Request -> SUBSET Node]
         /\ status' \in [Request -> {0, 200, 400, 503}]
         /\ pc'[r] = "answered" /\ acks'[r] = {} /\ status'[r] = s
         /\ \A q \in Request \ {r} : pc'[q] = pc[q] /\ acks'[q] = acks[q] /\ status'[q] = status[q]
  BY DEF Answer, Kinds

\* Request r goes on: only its own part of the state changes.
Moves(r) ==
  /\ pc' \in [Request -> {"idle", "page", "pull", "pulled", "push", "answered"}]
  /\ acks' \in [Request -> SUBSET Node]
  /\ status' \in [Request -> {0, 200, 400, 503}]
  /\ \A q \in Request \ {r} : pc'[q] = pc[q] /\ acks'[q] = acks[q] /\ status'[q] = status[q]

LEMMA ProceedFacts ==
  ASSUME Kinds, NEW r \in Request, NEW t \in {"push", "pull"}, NEW i, NEW snap,
         Proceed(t, r, i, snap)
  PROVE  /\ Moves(r)
         /\ \/ /\ pc'[r] = "answered" /\ acks'[r] = {} /\ status'[r] = 200
               /\ Reached(0, i.header)
            \/ pc'[r] = t /\ acks'[r] = acks[r] /\ status'[r] = status[r]
  <1>1. CASE Reached(0, i.header)
    BY <1>1, AnswerFacts DEF Proceed, Moves
  <1>2. CASE ~Reached(0, i.header)
    BY <1>2 DEF Proceed, Moves, Kinds
  <1> QED
    BY <1>1, <1>2

LEMMA CountFacts ==
  ASSUME Kinds, NEW m \in Message, Count(m)
  PROVE  LET r == m.req
             counted == acks[r] \cup {m.to}
         IN /\ Moves(r) /\ pc[r] = m.type
            /\ \/ pc'[r] = pc[r] /\ acks'[r] = counted /\ status'[r] = status[r]
               \/ /\ m.type = "push" /\ pc'[r] = "answered" /\ acks'[r] = {} /\ status'[r] = 200
                  /\ Reached(Cardinality(counted), input[r].header)
               \/ m.type = "pull" /\ pc'[r] = "pulled" /\ acks'[r] = {} /\ status'[r] = status[r]
  <1> DEFINE r == m.req
             counted == acks[r] \cup {m.to}
  <1>1. r \in Request /\ m.to \in Node /\ m.type \in {"push", "pull"} /\ pc[r] = m.type
    BY Requests DEF Message, Count
  <1>2. CASE ~Reached(Cardinality(counted), input[r].header)
    <2>1. acks' = [acks EXCEPT ![r] = counted] /\ UNCHANGED <<pc, status>>
      BY <1>2 DEF Count
    <2>2. counted \in SUBSET Node
      BY <1>1 DEF Kinds
    <2> HIDE DEF counted
    <2>3. Moves(r) /\ pc'[r] = pc[r] /\ acks'[r] = counted /\ status'[r] = status[r]
      BY <1>1, <2>1, <2>2 DEF Moves, Kinds
    <2> QED
      BY <1>1, <2>3 DEF counted
  <1>3. CASE Reached(Cardinality(counted), input[r].header) /\ m.type = "push"
    <2>1. Answer(r, 200)
      BY <1>3 DEF Count
    <2> QED
      BY <1>1, <1>3, <2>1, AnswerFacts DEF Moves
  <1>4. CASE Reached(Cardinality(counted), input[r].header) /\ m.type # "push"
    <2>1. /\ pc' = [pc EXCEPT ![r] = "pulled"] /\ acks' = [acks EXCEPT ![r] = {}]
          /\ UNCHANGED status
      BY <1>4 DEF Count
    <2>2. Moves(r) /\ pc'[r] = "pulled" /\ acks'[r] = {} /\ status'[r] = status[r]
      BY <1>1, <2>1 DEF Moves, Kinds
    <2> QED
      BY <1>1, <1>4, <2>2
  <1> QED
    BY <1>2, <1>3, <1>4

Controls ==
  /\ pc \in [Request -> {"idle", "page", "pull", "pulled", "push", "answered"}]
  /\ acks \in [Request -> SUBSET Node]
  /\ status \in [Request -> {0, 200, 400, 503}]
  /\ Stages

LEMMA ControlStep ==
  ASSUME IInv, [Next]_vars
  PROVE  Controls'
  <1> USE Requests
  <1>0. Kinds /\ Stages /\ DOMAIN input = Request
    BY DEF IInv, Kinds
  <1>1. ASSUME UNCHANGED request PROVE Controls'
    BY <1>0, <1>1 DEF request, Controls, Kinds, Stages, Stage
  <1>2. ASSUME NEW r \in Request, Moves(r), \A q \in Request \ {r} : input'[q] = input[q], Stage(r)'
        PROVE  Controls'
    <2>1. ASSUME NEW q \in Request, q # r PROVE Stage(q)'
      BY <1>0, <1>2, <2>1 DEF Moves, Stages, Stage
    <2> QED
      BY <1>2, <2>1 DEF Moves, Controls, Stages
  <1>3. ASSUME NEW r \in Request, NEW s \in {400, 503, 200}, Answer(r, s), UNCHANGED input,
               s = 400 <=> input[r] = NoInput
        PROVE  Controls'
    <2>1. Moves(r) /\ pc'[r] = "answered" /\ acks'[r] = {} /\ status'[r] = s
      BY <1>0, <1>3, AnswerFacts DEF Moves
    <2>2. Stage(r)'
      BY <1>3, <2>1 DEF Stage
    <2> QED
      BY <1>2, <1>3, <2>1, <2>2
  <1>4. ASSUME NEW r \in Update \cup Query, NEW i \in Inputs[r], Refuse(r, i) PROVE Controls'
    <2>1. Answer(r, 400) /\ UNCHANGED input /\ input[r] = NoInput
      BY <1>0, <1>4 DEF Refuse, Stages, Stage
    <2> QED
      BY <1>3, <2>1
  <1>5. ASSUME NEW r \in Update \cup Query, NEW t \in {"push", "pull"}, t = "pull" => r \in Query,
               NEW i, NEW snap, Proceed(t, r, i, snap), input'[r] # NoInput, status[r] = 0,
               \A q \in Request \ {r} : input'[q] = input[q]
        PROVE  Controls'
    <2>1. Moves(r)
      BY <1>0, <1>5, ProceedFacts
    <2>2. Stage(r)'
      BY <1>0, <1>5, ProceedFacts DEF Stage
    <2> QED
      BY <1>2, <1>5, <2>1, <2>2
  <1>6. ASSUME NEW r \in Update \cup Query, NEW i \in Inputs[r], Accept(r, i)
        PROVE  /\ input'[r] # NoInput /\ status[r] = 0
               /\ \A q \in Request \ {r} : input'[q] = input[q]
    BY <1>0, <1>6, CallInput DEF Accept, Stages, Stage
  <1>7. ASSUME NEW r \in Deploy, NEW i \in Inputs[r], BeginDeploy(r, i) PROVE Controls'
    <2>1. input[r] = NoInput /\ status[r] = 0 /\ i # NoInput
      BY <1>0, <1>7, DeployInput DEF BeginDeploy, Stages, Stage
    <2>2. CASE i.program = "empty"
      BY <1>3, <1>7, <2>1, <2>2 DEF BeginDeploy
    <2>3. CASE i.program # "empty"
      <3>1. /\ input' = [input EXCEPT ![r] = i] /\ pc' = [pc EXCEPT ![r] = "page"]
            /\ UNCHANGED <<acks, status>>
        BY <1>7, <2>3 DEF BeginDeploy
      <3>2. Moves(r) /\ pc'[r] = "page"
        BY <1>0, <3>1 DEF Moves, Kinds
      <3>3. Stage(r)'
        BY <1>0, <2>1, <3>1, <3>2 DEF Stage
      <3> QED
        BY <1>0, <1>2, <3>1, <3>2, <3>3
    <2> QED
      BY <2>2, <2>3
  <1>8. ASSUME NEW r \in Deploy, EndDeploy(r) PROVE Controls'
    <2>1. Answer(r, 200) /\ UNCHANGED input /\ input[r] # NoInput
      BY <1>0, <1>8 DEF EndDeploy, Stages, Stage
    <2> QED
      BY <1>3, <2>1
  <1>9. ASSUME NEW r \in Update, NEW i \in Inputs[r], BeginUpdate(r, i) PROVE Controls'
    <2>1. CASE Refuse(r, i)
      BY <1>4, <2>1
    <2>2. ASSUME Accept(r, i), NEW snap, Proceed("push", r, i, snap) PROVE Controls'
      BY <1>5, <1>6, <2>2
    <2> QED
      BY <1>9, <2>1, <2>2 DEF BeginUpdate
  <1>10. ASSUME NEW r \in Query, NEW i \in Inputs[r], BeginQuery(r, i) PROVE Controls'
    <2>1. CASE Refuse(r, i)
      BY <1>4, <2>1
    <2>2. CASE Accept(r, i) /\ Proceed("pull", r, i, {})
      BY <1>5, <1>6, <2>2
    <2> QED
      BY <1>10, <2>1, <2>2 DEF BeginQuery
  <1>11. ASSUME NEW r \in Query, WriteBack(r) PROVE Controls'
    <2>1. input' = input /\ input[r] # NoInput /\ status[r] = 0
      BY <1>0, <1>11 DEF WriteBack, Stages, Stage
    <2>2. ASSUME NEW i, NEW snap, Proceed("push", r, i, snap) PROVE Controls'
      BY <1>5, <2>1, <2>2
    <2> QED
      BY <1>11, <2>2 DEF WriteBack
  <1>12. ASSUME NEW r \in Update \cup Query, Deadline(r) PROVE Controls'
    <2>1. Answer(r, 503) /\ UNCHANGED input /\ input[r] # NoInput
      BY <1>0, <1>12 DEF Deadline, Stages, Stage
    <2> QED
      BY <1>3, <2>1
  <1>13. ASSUME NEW m \in net, HandleSyncPush(m) \/ HandleSyncPull(m) PROVE Controls'
    <2>1. input' = input /\ (Count(m) \/ UNCHANGED <<pc, acks, status>>)
      BY <1>13 DEF HandleSyncPush, HandleSyncPull
    <2>2. m \in Message /\ m.req \in Update \cup Query
      BY <1>0 DEF Kinds, Message
    <2>3. CASE Count(m)
      <3>1. Moves(m.req)
        BY <1>0, <2>2, <2>3, CountFacts
      <3>2. pc[m.req] = m.type /\ m.type \in {"push", "pull"} /\ Stage(m.req)
        BY <1>0, <2>2, <2>3 DEF Count, Message, Stages
      <3>3. input[m.req] # NoInput /\ status[m.req] = 0 /\ (m.type = "pull" => m.req \in Query)
        BY <3>2 DEF Stage
      <3>4. \/ pc'[m.req] = pc[m.req] /\ status'[m.req] = status[m.req]
            \/ m.type = "push" /\ pc'[m.req] = "answered" /\ status'[m.req] = 200
            \/ m.type = "pull" /\ pc'[m.req] = "pulled" /\ status'[m.req] = status[m.req]
        BY <1>0, <2>2, <2>3, CountFacts
      <3>5. input'[m.req] # NoInput
        BY <2>1, <3>3
      <3>6. ASSUME m.type = "push" PROVE Stage(m.req)'
        BY <2>2, <3>2, <3>3, <3>4, <3>5, <3>6 DEF Stage
      <3>7. ASSUME m.type = "pull" PROVE Stage(m.req)'
        BY <2>2, <3>2, <3>3, <3>4, <3>5, <3>7 DEF Stage
      <3>8. Stage(m.req)'
        BY <3>2, <3>6, <3>7
      <3> QED
        BY <1>2, <2>1, <2>2, <3>1, <3>8
    <2>4. CASE UNCHANGED <<pc, acks, status>>
      BY <1>1, <2>1, <2>4 DEF request
    <2> QED
      BY <2>1, <2>3, <2>4
  <1>14. CASE \/ \E m \in plans : HandleDeploy(m)
              \/ \E n, p \in Node : Gossip(n, p)
              \/ UNCHANGED vars
    BY <1>1, <1>14 DEF HandleDeploy, Gossip, vars
  <1> QED
    BY <1>7, <1>8, <1>9, <1>10, <1>11, <1>12, <1>13, <1>14 DEF Next

\* A page shows the program of a deployment at its node.
LEMMA PageStep ==
  ASSUME IInv, [Next]_vars
  PROVE  /\ page' \in [Node -> Program \cup {None}]
         /\ \A n \in Node : page'[n] # page[n] =>
              \E d \in Deploy : /\ input[d] # NoInput /\ n = input[d].at
                                /\ page'[n] = input[d].program
  <1>1. page \in [Node -> Program \cup {None}]
    BY DEF IInv, Kinds
  <1>2. ASSUME NEW r \in Deploy, EndDeploy(r)
        PROVE  /\ page' = [page EXCEPT ![input[r].at] = input[r].program]
               /\ input[r] # NoInput /\ input[r].at \in Node /\ input[r].program \in Program
    <2>1. input[r] # NoInput /\ page' = [page EXCEPT ![input[r].at] = input[r].program]
      BY <1>2, Requests DEF EndDeploy, IInv, Stages, Stage
    <2>2. input[r] \in Inputs[r]
      BY <2>1, Requests DEF IInv, Kinds
    <2> QED
      BY <2>1, <2>2, DeployInput
  <1>3. CASE \E r \in Deploy : EndDeploy(r)
    BY <1>1, <1>2, <1>3
  <1>4. CASE ~\E r \in Deploy : EndDeploy(r)
    <2>1. page' = page
      BY <1>4 DEF Next, BeginDeploy, BeginUpdate, BeginQuery, WriteBack, Deadline, HandleDeploy,
                  HandleSyncPush, HandleSyncPull, Gossip, vars, node
    <2> QED
      BY <1>1, <2>1
  <1> QED
    BY <1>3, <1>4

\* Program p comes from a deployment that was taken by the end of the step.
DeployedNext(p) == \E d \in Deploy : input'[d] # NoInput /\ p = input'[d].program

\* Programs come from deployments, and each reaches its own node at once.
LEMMA DeployStep ==
  ASSUME IInv, [Next]_vars
  PROVE  /\ \A n \in Node : plan'[n] # plan[n] => DeployedNext(plan'[n])
         /\ plans' \subseteq Program \X Node
         /\ \A m \in plans' : m \in plans \/ DeployedNext(m[1])
         /\ \A d \in Deploy : input'[d] # input[d] => plan'[input'[d].at] # None
  <1> DEFINE Goal ==
        /\ \A n \in Node : plan'[n] # plan[n] => DeployedNext(plan'[n])
        /\ plans' \subseteq Program \X Node
        /\ \A m \in plans' : m \in plans \/ DeployedNext(m[1])
        /\ \A d \in Deploy : input'[d] # input[d] => plan'[input'[d].at] # None
  <1>0. Kinds /\ Programs /\ DOMAIN input = Request /\ plans \subseteq Program \X Node
    BY DEF IInv, Kinds
  <1>1. ASSUME NEW r \in Deploy, NEW i \in Inputs[r], BeginDeploy(r, i) PROVE Goal
    <2>1. CASE i.program = "empty"
      BY <1>0, <1>1, <2>1 DEF BeginDeploy
    <2>2. CASE i.program # "empty"
      <3>1. /\ input' = [input EXCEPT ![r] = i] /\ Initialize(i.at, i.program)
            /\ plans' = plans \cup {<<i.program, n>> : n \in Peers(i.at)}
        BY <1>1, <2>2 DEF BeginDeploy
      <3>2. i.at \in Node /\ i.program \in Program /\ i # NoInput
        BY DeployInput
      <3>3. input'[r] = i /\ \A q \in Request \ {r} : input'[q] = input[q]
        BY <1>0, <3>1, Requests
      <3>4. DeployedNext(i.program)
        BY <3>2, <3>3 DEF DeployedNext
      <3>5. /\ plan'[i.at] # None
            /\ \A q \in Node : plan'[q] = plan[q] \/ plan'[q] = i.program
        BY <1>0, <3>1, <3>2, InitializeFacts
      <3>6. \A n \in Node : plan'[n] # plan[n] => DeployedNext(plan'[n])
        BY <3>4, <3>5
      <3>7. /\ plans' \subseteq Program \X Node
            /\ \A m \in plans' : m \in plans \/ m[1] = i.program
        BY <1>0, <3>1, <3>2 DEF Peers
      <3>8. \A m \in plans' : m \in plans \/ DeployedNext(m[1])
        BY <3>4, <3>7
      <3>9. \A d \in Deploy : input'[d] # input[d] => plan'[input'[d].at] # None
        BY <3>3, <3>5, Requests
      <3> QED
        BY <3>6, <3>7, <3>8, <3>9
    <2> QED
      BY <2>1, <2>2
  <1>2. ASSUME UNCHANGED <<plan, plans>>, \A d \in Deploy : input'[d] = input[d] PROVE Goal
    BY <1>0, <1>2
  <1>3. ASSUME NEW r \in Update \cup Query, NEW i, input' = input \/ input' = [input EXCEPT ![r] = i]
        PROVE  \A d \in Deploy : input'[d] = input[d]
    BY <1>0, <1>3, Requests
  <1>4. ASSUME NEW x \in plans, HandleDeploy(x) PROVE Goal
    <2>1. /\ x[1] \in Program /\ x[2] \in Node /\ Initialize(x[2], x[1]) /\ input' = input
          /\ plans' = plans \ {x} /\ Deployed(x[1])
      BY <1>0, <1>4 DEF HandleDeploy, request, Programs
    <2>2. DeployedNext(x[1])
      BY <2>1 DEF Deployed, DeployedNext
    <2>3. \A q \in Node : plan'[q] = plan[q] \/ plan'[q] = x[1]
      BY <1>0, <2>1, InitializeFacts
    <2> QED
      BY <1>0, <2>1, <2>2, <2>3
  <1> HIDE DEF Goal
  <1>5. ASSUME NEW r \in Update, NEW i \in Inputs[r], BeginUpdate(r, i) PROVE Goal
    <2>1. UNCHANGED <<plan, plans>> /\ (input' = input \/ input' = [input EXCEPT ![r] = i])
      BY <1>5 DEF BeginUpdate, Refuse, Accept
    <2> QED
      BY <1>2, <1>3, <2>1
  <1>6. ASSUME NEW r \in Query, NEW i \in Inputs[r], BeginQuery(r, i) PROVE Goal
    <2>1. UNCHANGED <<plan, plans>> /\ (input' = input \/ input' = [input EXCEPT ![r] = i])
      BY <1>6 DEF BeginQuery, Refuse, Accept, node
    <2> QED
      BY <1>2, <1>3, <2>1
  <1>7. CASE \/ \E r \in Deploy : EndDeploy(r)
             \/ \E r \in Query : WriteBack(r)
             \/ \E r \in Update \cup Query : Deadline(r)
             \/ \E m \in net : HandleSyncPush(m) \/ HandleSyncPull(m)
             \/ \E n, p \in Node : Gossip(n, p)
             \/ UNCHANGED vars
    <2>1. UNCHANGED <<plan, plans, input>>
      BY <1>7 DEF EndDeploy, WriteBack, Deadline, HandleSyncPush, HandleSyncPull, Gossip, vars,
                  node, request
    <2>2. Goal
      BY <1>2, <2>1
    <2> QED
      BY <2>2 DEF Goal
  <1>8. Goal
    BY <1>1, <1>4, <1>5, <1>6, <1>7 DEF Next, Goal
  <1> QED
    BY <1>8 DEF Goal

LEMMA KindsStep ==
  ASSUME IInv, [Next]_vars
  PROVE  Kinds'
  <1>1. net' \subseteq Message
    BY NetStep DEF Sent, IInv, Kinds
  <1>2. DOMAIN docs' = Node /\ \A n \in Node : IsStore(docs'[n])
    BY DocsStep, DocsGrow DEF DocsMove
  <1> QED
    BY <1>1, <1>2, PlanStep, PageStep, DeployStep, InputStays, ControlStep DEF Kinds, Controls

LEMMA ProgramsStep ==
  ASSUME IInv, [Next]_vars
  PROVE  Programs'
  <1>0. Programs /\ Kinds
    BY DEF IInv
  <1>1. ASSUME NEW p, Deployed(p) PROVE DeployedNext(p)
    BY <1>1, InputStays, Requests DEF Deployed, DeployedNext
  <1>2. ASSUME NEW n \in Node, plan'[n] # None PROVE DeployedNext(plan'[n])
    BY <1>0, <1>1, <1>2, DeployStep DEF Programs
  <1>3. ASSUME NEW n \in Node, plan[n] # None PROVE plan'[n] # None
    BY <1>3, PlanStep
  <1>4. ASSUME NEW n \in Node, page'[n] # None PROVE DeployedNext(page'[n]) /\ plan'[n] # None
    <2>1. Deployed(page'[n]) /\ plan[n] # None
      BY <1>0, <1>4, PageStep DEF Programs, Deployed
    <2> QED
      BY <1>1, <1>3, <2>1
  <1>5. ASSUME NEW m \in plans' PROVE DeployedNext(m[1])
    BY <1>0, <1>1, <1>5, DeployStep DEF Programs
  <1>6. ASSUME NEW d \in Deploy, input'[d] # NoInput PROVE plan'[input'[d].at] # None
    <2>1. CASE input'[d] = input[d]
      <3>1. input[d] \in Inputs[d]
        BY <1>0, <1>6, <2>1, Requests DEF Kinds
      <3> QED
        BY <1>0, <1>3, <1>6, <2>1, <3>1, DeployInput DEF Programs
    <2> QED
      BY <2>1, DeployStep
  <1> QED
    BY <1>2, <1>4, <1>5, <1>6 DEF Programs, Deployed, DeployedNext

LEMMA RoutesStep ==
  ASSUME IInv, [Next]_vars
  PROVE  Routes'
  <1>1. ASSUME NEW r \in Update \cup Query, input[r] # NoInput
        PROVE  Accepts(plan'[input'[r].at], input'[r].key)
    BY <1>1, RoutesStay DEF IInv, Routes
  <1>2. ASSUME NEW r \in Update \cup Query, NEW i \in Inputs[r], Accept(r, i), plan' = plan
        PROVE  \A q \in Update \cup Query : input[q] = NoInput /\ input'[q] # NoInput =>
                 Accepts(plan'[input'[q].at], input'[q].key)
    <2>1. input' = [input EXCEPT ![r] = i] /\ Accepts(plan[i.at], i.key) /\ DOMAIN input = Request
      BY <1>2 DEF Accept, Valid, IInv, Kinds
    <2> QED
      BY <1>2, <2>1, Requests
  <1>3. ASSUME \A q \in Update \cup Query : input'[q] = input[q] PROVE Routes'
    BY <1>1, <1>3 DEF Routes
  <1>4. ASSUME NEW r \in Update, NEW i \in Inputs[r], BeginUpdate(r, i) PROVE Routes'
    <2>1. CASE Refuse(r, i)
      BY <1>3, <2>1 DEF Refuse
    <2>2. CASE Accept(r, i)
      BY <1>1, <1>2, <1>4, <2>2 DEF Routes, BeginUpdate
    <2> QED
      BY <1>4, <2>1, <2>2 DEF BeginUpdate
  <1>5. ASSUME NEW r \in Query, NEW i \in Inputs[r], BeginQuery(r, i) PROVE Routes'
    <2>1. CASE Refuse(r, i)
      BY <1>3, <2>1 DEF Refuse
    <2>2. CASE Accept(r, i)
      BY <1>1, <1>2, <1>5, <2>2 DEF Routes, BeginQuery, node
    <2> QED
      BY <1>5, <2>1, <2>2 DEF BeginQuery
  <1>6. ASSUME NEW r \in Deploy, NEW i \in Inputs[r], BeginDeploy(r, i) PROVE Routes'
    <2>1. input' = input \/ input' = [input EXCEPT ![r] = i]
      BY <1>6 DEF BeginDeploy
    <2>2. \A q \in Update \cup Query : input'[q] = input[q]
      BY <2>1, Requests DEF IInv, Kinds
    <2> QED
      BY <1>3, <2>2
  <1>7. CASE \/ \E r \in Deploy : EndDeploy(r)
             \/ \E r \in Query : WriteBack(r)
             \/ \E r \in Update \cup Query : Deadline(r)
             \/ \E m \in plans : HandleDeploy(m)
             \/ \E m \in net : HandleSyncPush(m) \/ HandleSyncPull(m)
             \/ \E n, p \in Node : Gossip(n, p)
             \/ UNCHANGED vars
    <2>1. UNCHANGED input
      BY <1>7 DEF EndDeploy, WriteBack, Deadline, HandleDeploy, HandleSyncPush, HandleSyncPull,
                  Gossip, vars, request
    <2> QED
      BY <1>3, <2>1
  <1> QED
    BY <1>4, <1>5, <1>6, <1>7 DEF Next

LEMMA AddressedStep ==
  ASSUME IInv, [Next]_vars, NEW m \in net'
  PROVE  Addressed(m)'
  <1>1. CASE m \in net
    <2> DEFINE r == m.req
    <2>1. Addressed(m) /\ m \in Message
      BY <1>1 DEF IInv, Kinds
    <2>2. r \in Update \cup Query /\ m.snap \subseteq Update
      BY <2>1 DEF Message
    <2>3. input[r] # NoInput
      BY <2>1 DEF Addressed
    <2>4. /\ input'[r] = input[r] /\ plan'[input[r].at] = plan[input[r].at]
          /\ Document(input[r])' = Document(input[r])
      BY <2>2, <2>3, RoutesStay
    <2>5. \A u \in m.snap : input'[u] # NoInput
      BY <2>1, <2>2, InputStays, Requests DEF Addressed
    <2>6. Resolve(plan'[input'[r].at], input'[r].key) = Document(input[r])
      BY <2>4 DEF Document
    <2> QED
      BY <2>1, <2>3, <2>4, <2>5, <2>6 DEF Addressed, Document, Peers
  <1>2. CASE Sent(m)
    <2> DEFINE i == input'[m.req]
    <2>1. plan' = plan
      BY <1>2 DEF Sent
    <2>2. Resolve(plan'[i.at], i.key) = Document(i)
      BY <2>1 DEF Document
    <2> QED
      BY <1>2, <2>1, <2>2 DEF Sent, Addressed, Document, Peers
  <1> QED
    BY <1>1, <1>2, NetStep

LEMMA KeptApartStep ==
  ASSUME IInv, [Next]_vars
  PROVE  KeptApart'
  <1> SUFFICES ASSUME OneProgram'
               PROVE  /\ \A n \in Node : \A k \in DOMAIN docs'[n] : \A u \in docs'[n][k] :
                           k = Resolve(plan'[n], input'[u].key)
                      /\ \A m \in net' : \A u \in m.snap : m.key = Resolve(m.prog, input'[u].key)
    BY DEF KeptApart
  <1>1. OneProgram /\ KeptApart
    BY PlanStep DEF IInv
  <1>2. \A u \in Update : input[u] # NoInput => input'[u] = input[u]
    BY InputStays, Requests
  <1>3. ASSUME NEW n \in Node, NEW k \in DOMAIN docs[n], NEW u \in docs[n][k]
        PROVE  k = Resolve(plan[n], input'[u].key) /\ plan'[n] = plan[n]
    <2>1. Accepts(plan[n], k) /\ input[u] # NoInput /\ u \in Update
      BY DEF IInv, Stored, Kinds, IsStore
    <2>2. plan[n] # None
      BY <2>1, NoneAcceptsNothing
    <2>3. k = Resolve(plan[n], input[u].key)
      BY <1>1 DEF KeptApart
    <2> QED
      BY <1>2, <2>1, <2>2, <2>3, PlanStep
  <1>4. ASSUME NEW n \in Node, NEW k \in DOMAIN docs'[n], NEW u \in docs'[n][k]
        PROVE  k = Resolve(plan'[n], input'[u].key)
    <2>1. CASE docs'[n] = docs[n]
      BY <1>3, <1>4, <2>1
    <2>2. CASE Starts(n)
      <3>1. docs'[n][k] = {}
        BY <2>2 DEF Starts
      <3> QED
        BY <3>1
    <2>3. ASSUME NEW l \in Key, NEW s \in SUBSET Update, Absorbs(n, l, s)
          PROVE  k = Resolve(plan'[n], input'[u].key)
      <3>1. docs'[n] = Merge(docs[n], l, s) /\ IsStore(docs[n]) /\ plan' = plan
        BY <2>3 DEF Absorbs, IInv, Kinds
      <3>2. (k \in DOMAIN docs[n] /\ u \in docs[n][k]) \/ (k = l /\ u \in s)
        BY <1>4, <3>1, MergeFacts
      <3> QED
        BY <1>1, <1>3, <2>3, <3>1, <3>2 DEF Absorbs
    <2>4. ASSUME NEW q \in Node, Hears(n, q) PROVE k = Resolve(plan'[n], input'[u].key)
      <3> DEFINE From(l, j) == j \in DOMAIN docs[q] /\ Accepts(plan[n], j) /\ Resolve(plan[n], j) = l
      <3>1. /\ docs'[n] = MergeAll(plan[n], docs[n], docs[q]) /\ IsStore(docs[n])
            /\ IsStore(docs[q]) /\ plan' = plan /\ plan[n] # None /\ plan[q] # None
        BY <2>4 DEF Hears, IInv, Kinds
      <3>2. (k \in DOMAIN docs[n] /\ u \in docs[n][k]) \/ (\E j : From(k, j) /\ u \in docs[q][j])
        BY <1>4, <3>1, MergeAllFacts
      <3>3. plan[q] = plan[n]
        BY <1>1, <3>1 DEF OneProgram
      <3>4. ASSUME NEW j, From(k, j), u \in docs[q][j] PROVE k = Resolve(plan'[n], input'[u].key)
        <4>1. Resolve(plan[q], j) = j
          BY <3>4 DEF IInv, Stored
        <4>2. k = j
          BY <3>3, <3>4, <4>1
        <4>3. j = Resolve(plan[q], input'[u].key)
          BY <1>3, <3>4
        <4> QED
          BY <3>1, <3>3, <4>2, <4>3
      <3> QED
        BY <1>3, <3>1, <3>2, <3>4
    <2> QED
      BY <2>1, <2>2, <2>3, <2>4, DocsStep DEF DocsMove
  <1>5. ASSUME NEW m \in net', NEW u \in m.snap PROVE m.key = Resolve(m.prog, input'[u].key)
    <2>1. CASE m \in net
      <3>1. u \in Update /\ input[u] # NoInput
        BY <2>1 DEF IInv, Kinds, Message, Addressed
      <3> QED
        BY <1>1, <1>2, <2>1, <3>1 DEF KeptApart
    <2>2. CASE Sent(m)
      BY <1>1, <2>2 DEF Sent
    <2> QED
      BY <2>1, <2>2, NetStep
  <1> QED
    BY <1>4, <1>5

-----------------------------------------------------------------------------
(* Where an update is when it is answered *)

\* The holders of a document other than its coordinator.
LEMMA HoldersCount ==
  ASSUME NEW H \in SUBSET Node, NEW a \in H, NEW S \in SUBSET (H \ {a})
  PROVE  /\ Cardinality(S) \in Nat /\ Cardinality(H) \in Nat
         /\ Cardinality(S) <= Cardinality(H) - 1
  <1>1. IsFiniteSet(H)
    BY NodeAssumption, FS_Subset
  <1>2. IsFiniteSet(H \ {a}) /\ Cardinality(H \ {a}) = Cardinality(H) - 1
    BY <1>1, FS_RemoveElement
  <1>3. IsFiniteSet(S) /\ Cardinality(S) <= Cardinality(H \ {a})
    BY <1>2, FS_Subset
  <1> QED
    BY <1>1, <1>2, <1>3, FS_CardinalityType

\* The ways update u may go in a step: nothing new is known of it; it is
\* accepted; or an ack of one of its pushes is counted.
Rests(u) ==
  /\ input[u] # NoInput /\ acks'[u] \subseteq acks[u]
  /\ status'[u] = 200 => status[u] = 200

Enters(u) ==
  LET i == input'[u]
  IN /\ acks'[u] = {} /\ u \in Content(docs'[i.at], Resolve(plan'[i.at], i.key))
     /\ status'[u] = 200 => Reached(0, i.header)

IsCounted(u, m) ==
  LET counted == acks[u] \cup {m.to}
  IN /\ input[u] # NoInput /\ m.req = u /\ m.type = "push"
     /\ u \in Content(docs'[m.to], m.key) /\ acks'[u] \subseteq counted
     /\ status'[u] = 200 => status[u] = 200 \/ Reached(Cardinality(counted), input[u].header)

LEMMA AckStep ==
  ASSUME IInv, [Next]_vars, NEW u \in Update, input'[u] # NoInput
  PROVE  Rests(u) \/ Enters(u) \/ \E m \in net : IsCounted(u, m)
  <1> DEFINE Goal == Rests(u) \/ Enters(u) \/ \E m \in net : IsCounted(u, m)
  <1>0. Kinds /\ Stages /\ DOMAIN input = Request
    BY DEF IInv, Kinds
  <1> USE Requests
  <1>1. ASSUME NEW r \in Request, r # u, Moves(r), input'[u] = input[u] PROVE Goal
    BY <1>1 DEF Moves, Rests
  <1>2. ASSUME UNCHANGED <<acks, status>>, input'[u] = input[u] PROVE Goal
    BY <1>2 DEF Rests
  <1>3. ASSUME NEW r \in Request, NEW s \in {200, 400, 503}, Answer(r, s), input' = input,
               r \in Update => s # 200
        PROVE  Goal
    BY <1>0, <1>3, AnswerFacts DEF Rests
  <1> HIDE DEF Goal
  <1>4. ASSUME NEW r \in Update, NEW i \in Inputs[r], BeginUpdate(r, i) PROVE Goal
    <2>1. CASE Refuse(r, i)
      BY <1>3, <2>1 DEF Refuse
    <2>2. CASE Accept(r, i)
      <3>1. Valid(i) /\ pc[r] = "idle" /\ input' = [input EXCEPT ![r] = i] /\ plan' = plan
        BY <1>4, <2>2 DEF Accept, BeginUpdate
      <3>2. /\ i.at \in Node /\ Document(i) \in Key
            /\ docs' = [docs EXCEPT ![i.at] = Merge(docs[i.at], Document(i), {r})]
        BY <1>4, <3>1, UpdateAbsorbs
      <3>3. PICK snap : Proceed("push", r, i, snap)
        BY <1>4, <3>1 DEF BeginUpdate, Refuse
      <3>4. /\ Moves(r)
            /\ \/ acks'[r] = {} /\ Reached(0, i.header)
               \/ acks'[r] = acks[r] /\ status'[r] = status[r]
        BY <1>0, <3>3, ProceedFacts
      <3>5. CASE u # r
        BY <1>0, <1>1, <3>1, <3>4, <3>5
      <3>6. CASE u = r
        <4>1. input'[u] = i
          BY <1>0, <3>1, <3>6
        <4>2. acks[u] = {} /\ status[u] = 0
          BY <1>0, <3>1, <3>6 DEF Stages, Stage
        <4>3. acks'[u] = {} /\ (status'[u] = 200 => Reached(0, i.header))
          BY <3>4, <3>6, <4>2
        <4>4. IsStore(docs[i.at]) /\ {r} \in SUBSET Update
          BY <1>0, <3>2 DEF Kinds
        <4>5. {r} \subseteq Content(Merge(docs[i.at], Document(i), {r}), Document(i))
          BY <3>2, <4>4, MergeFacts
        <4>6. docs'[i.at] = Merge(docs[i.at], Document(i), {r})
          BY <1>0, <3>2 DEF Kinds
        <4>7. u \in Content(docs'[i.at], Document(i))
          BY <3>6, <4>5, <4>6
        <4>8. Document(i) = Resolve(plan'[i.at], i.key)
          BY <3>1 DEF Document
        <4> QED
          BY <4>1, <4>3, <4>7, <4>8 DEF Goal, Enters
      <3> QED
        BY <3>5, <3>6
    <2> QED
      BY <1>4, <2>1, <2>2 DEF BeginUpdate
  <1>5. ASSUME NEW r \in Query, NEW i \in Inputs[r], BeginQuery(r, i) PROVE Goal
    <2>1. CASE Refuse(r, i)
      BY <1>3, <2>1 DEF Refuse
    <2>2. CASE Accept(r, i) /\ Proceed("pull", r, i, {})
      <3>1. input'[u] = input[u] /\ r # u
        BY <1>0, <2>2 DEF Accept
      <3>2. Moves(r)
        BY <1>0, <2>2, ProceedFacts
      <3> QED
        BY <1>1, <3>1, <3>2
    <2> QED
      BY <1>5, <2>1, <2>2 DEF BeginQuery
  <1>6. ASSUME NEW r \in Query, WriteBack(r) PROVE Goal
    <2>1. PICK i, snap : Proceed("push", r, i, snap)
      BY <1>6 DEF WriteBack
    <2>2. Moves(r)
      BY <1>0, <2>1, ProceedFacts
    <2>3. input'[u] = input[u] /\ r # u
      BY <1>6 DEF WriteBack
    <2> QED
      BY <1>1, <2>2, <2>3
  <1>7. ASSUME NEW r \in Deploy, NEW i \in Inputs[r], BeginDeploy(r, i) PROVE Goal
    <2>1. CASE i.program = "empty"
      BY <1>3, <1>7, <2>1 DEF BeginDeploy
    <2>2. CASE i.program # "empty"
      <3>1. UNCHANGED <<acks, status>> /\ input' = [input EXCEPT ![r] = i]
        BY <1>7, <2>2 DEF BeginDeploy
      <3>2. input'[u] = input[u]
        BY <1>0, <3>1
      <3> QED
        BY <1>2, <3>1, <3>2
    <2> QED
      BY <2>1, <2>2
  <1>8. ASSUME NEW r \in Deploy, EndDeploy(r) PROVE Goal
    BY <1>3, <1>8 DEF EndDeploy
  <1>9. ASSUME NEW r \in Update \cup Query, Deadline(r) PROVE Goal
    BY <1>3, <1>9 DEF Deadline
  <1>10. ASSUME NEW m \in net, HandleSyncPush(m) \/ HandleSyncPull(m) PROVE Goal
    <2>1. m \in Message /\ m.req \in Request /\ Addressed(m) /\ input' = input
      BY <1>0, <1>10 DEF IInv, Kinds, Message, HandleSyncPush, HandleSyncPull
    <2>2. CASE UNCHANGED <<pc, acks, status>>
      BY <1>2, <2>1, <2>2
    <2>3. CASE Count(m) /\ m.req # u
      BY <1>0, <1>1, <2>1, <2>3, CountFacts
    <2>4. CASE Count(m) /\ m.req = u
      <3>1. m.type = "push" /\ pc[u] = "push"
        BY <1>0, <2>1, <2>4 DEF Count, Stages, Stage, Message
      <3>2. HandleSyncPush(m) /\ status[u] = 0 /\ input[u] # NoInput
        BY <1>0, <1>10, <2>4, <3>1 DEF HandleSyncPull, Stages, Stage
      <3>3. CASE ~Welcome(m)
        BY <1>2, <2>1, <3>2, <3>3 DEF HandleSyncPush
      <3>4. CASE Welcome(m)
        <4>1. m.to \in Node /\ m.key \in Key /\ m.snap \in SUBSET Update /\ u \in m.snap
          BY <2>1, <2>4, <3>1 DEF Message, Addressed
        <4>2. IsStore(docs[m.to]) /\ DOMAIN docs = Node
          BY <1>0, <4>1 DEF Kinds
        <4>3. docs' = [docs EXCEPT ![m.to] = Merge(@, m.key, m.snap)]
          BY <3>2, <3>4 DEF HandleSyncPush
        <4>4. docs'[m.to] = Merge(docs[m.to], m.key, m.snap)
          BY <4>1, <4>2, <4>3
        <4>5. m.snap \subseteq Content(docs'[m.to], m.key)
          BY <4>1, <4>2, <4>4, MergeFacts
        <4>6. /\ acks'[u] \subseteq acks[u] \cup {m.to}
              /\ status'[u] = 200 =>
                   status[u] = 200 \/ Reached(Cardinality(acks[u] \cup {m.to}), input[u].header)
          BY <1>0, <2>1, <2>4, CountFacts
        <4>7. IsCounted(u, m)
          BY <2>4, <3>1, <3>2, <4>1, <4>5, <4>6 DEF IsCounted
        <4> QED
          BY <4>7 DEF Goal
      <3> QED
        BY <3>3, <3>4
    <2>5. Count(m) \/ UNCHANGED <<pc, acks, status>>
      BY <1>10 DEF HandleSyncPush, HandleSyncPull
    <2> QED
      BY <2>2, <2>3, <2>4, <2>5
  <1>11. CASE \/ \E m \in plans : HandleDeploy(m)
              \/ \E n, p \in Node : Gossip(n, p)
              \/ UNCHANGED vars
    <2>1. UNCHANGED <<acks, status, input>>
      BY <1>11 DEF HandleDeploy, Gossip, vars, request
    <2>2. Goal
      BY <1>2, <2>1
    <2> QED
      BY <2>2 DEF Goal
  <1>12. Goal
    BY <1>4, <1>5, <1>6, <1>7, <1>8, <1>9, <1>10, <1>11 DEF Next, Goal
  <1> QED
    BY <1>12 DEF Goal

LEMMA AppliedStep ==
  ASSUME IInv, [Next]_vars, NEW u \in Update
  PROVE  Applied(u)'
  <1> SUFFICES ASSUME input'[u] # NoInput
               PROVE  Applied(u)'
    BY DEF Applied
  <1> DEFINE i == input'[u]
             k == Resolve(plan'[i.at], i.key)
             H == {n \in Node : u \in Content(docs'[n], k)}
  <1>0. Kinds /\ Kinds' /\ u \in Request
    BY KindsStep, Requests DEF IInv
  <1>1. i.at \in Node
    <2>1. i \in Inputs[u]
      BY InputStays, Requests
    <2> QED
      BY <2>1, CallInput
  <1>2. ASSUME /\ u \in Content(docs'[i.at], k)
               /\ acks'[u] \subseteq Node \ {i.at}
               /\ \A n \in acks'[u] : u \in Content(docs'[n], k)
               /\ status'[u] = 200 => Reached(Cardinality(H) - 1, i.header)
        PROVE  Applied(u)'
    BY <1>2 DEF Applied, Document, Holders, Peers
  <1>3. ASSUME input[u] # NoInput
        PROVE  /\ Applied(u) /\ i = input[u] /\ k = Document(input[u])
               /\ \A n \in Node : u \in Content(docs[n], k) => u \in Content(docs'[n], k)
    <2>1. Applied(u) /\ i = input[u] /\ plan'[i.at] = plan[i.at]
      BY <1>3, RoutesStay DEF IInv
    <2>2. k = Document(input[u])
      BY <2>1 DEF Document
    <2> HIDE DEF k, i
    <2> QED
      BY <2>1, <2>2, ContentGrows
  <1> HIDE DEF i, k
  <1>4. IsFiniteSet(H)
    BY NodeAssumption, FS_Subset
  <1>5. ASSUME input[u] # NoInput, status[u] = 200 PROVE Reached(Cardinality(H) - 1, i.header)
    <2> DEFINE G == {n \in Node : u \in Content(docs[n], k)}
    <2>1. Reached(Cardinality(G) - 1, i.header) /\ G \subseteq H
      BY <1>3, <1>5 DEF Applied, Holders
    <2>2. Cardinality(G) <= Cardinality(H) /\ IsFiniteSet(G)
      BY <1>4, <2>1, FS_Subset
    <2> HIDE DEF G, H
    <2>3. Cardinality(G) \in Nat /\ Cardinality(H) \in Nat
      BY <1>4, <2>2, FS_CardinalityType
    <2>4. \A x, y \in Nat : x <= y => x - 1 \in Int /\ y - 1 \in Int /\ x - 1 <= y - 1
      OBVIOUS
    <2> QED
      BY <2>1, <2>2, <2>3, <2>4, ReachedGrows
  <1>6. ASSUME NEW S \in SUBSET Node, i.at \in H, S \subseteq H \ {i.at},
               Reached(Cardinality(S), i.header)
        PROVE  Reached(Cardinality(H) - 1, i.header)
    <2>1. H \in SUBSET Node /\ S \in SUBSET (H \ {i.at})
      BY <1>6
    <2> HIDE DEF H
    <2>2. /\ Cardinality(S) \in Nat /\ Cardinality(H) \in Nat
          /\ Cardinality(S) <= Cardinality(H) - 1
      BY <1>6, <2>1, HoldersCount
    <2>3. Cardinality(S) \in Int /\ Cardinality(H) - 1 \in Int
      BY <2>2
    <2> QED
      BY <1>6, <2>2, <2>3, ReachedGrows
  <1>7. CASE Rests(u)
    <2>1. /\ Applied(u) /\ i = input[u] /\ k = Document(input[u]) /\ input[u] # NoInput
          /\ \A n \in Node : u \in Content(docs[n], k) => u \in Content(docs'[n], k)
      BY <1>3, <1>7 DEF Rests
    <2>2. /\ u \in Content(docs[i.at], k) /\ acks[u] \subseteq Node \ {i.at}
          /\ \A n \in acks[u] : u \in Content(docs[n], k)
      BY <2>1 DEF Applied, Peers
    <2>3. acks'[u] \subseteq acks[u] /\ (status'[u] = 200 => status[u] = 200)
      BY <1>7 DEF Rests
    <2>4. status'[u] = 200 => Reached(Cardinality(H) - 1, i.header)
      BY <1>5, <2>1, <2>3
    <2> HIDE DEF H
    <2> QED
      BY <1>1, <1>2, <2>1, <2>2, <2>3, <2>4
  <1>8. CASE Enters(u)
    <2>1. /\ acks'[u] = {} /\ u \in Content(docs'[i.at], k)
          /\ status'[u] = 200 => Reached(0, i.header)
      BY <1>8 DEF Enters, i, k
    <2>2. i.at \in H /\ {} \subseteq H \ {i.at} /\ Cardinality({}) = 0
      BY <1>1, <2>1, FS_EmptySet
    <2>3. status'[u] = 200 => Reached(Cardinality(H) - 1, i.header)
      BY <1>6, <2>1, <2>2
    <2> HIDE DEF H
    <2> QED
      BY <1>2, <2>1, <2>3
  <1>9. ASSUME NEW m \in net, IsCounted(u, m) PROVE Applied(u)'
    <2> DEFINE counted == acks[u] \cup {m.to}
    <2>1. /\ Applied(u) /\ i = input[u] /\ k = Document(input[u]) /\ input[u] # NoInput
          /\ \A n \in Node : u \in Content(docs[n], k) => u \in Content(docs'[n], k)
      BY <1>3, <1>9 DEF IsCounted
    <2>2. /\ u \in Content(docs[i.at], k) /\ acks[u] \subseteq Node \ {i.at}
          /\ \A n \in acks[u] : u \in Content(docs[n], k)
      BY <2>1 DEF Applied, Peers
    <2>3. m.key = k /\ m.to \in Node \ {i.at} /\ m.req = u
      BY <1>9, <2>1 DEF IInv, Addressed, IsCounted, Peers
    <2>4. /\ u \in Content(docs'[m.to], k) /\ acks'[u] \subseteq counted
          /\ status'[u] = 200 => status[u] = 200 \/ Reached(Cardinality(counted), i.header)
      BY <1>9, <2>1, <2>3 DEF IsCounted
    <2>5. /\ counted \subseteq Node \ {i.at} /\ u \in Content(docs'[i.at], k)
          /\ \A n \in counted : u \in Content(docs'[n], k)
      BY <1>1, <2>1, <2>2, <2>3, <2>4
    <2> HIDE DEF counted
    <2>6. counted \in SUBSET Node /\ i.at \in H /\ counted \subseteq H \ {i.at}
      BY <1>1, <2>5
    <2>7. status'[u] = 200 => Reached(Cardinality(H) - 1, i.header)
      BY <1>5, <1>6, <2>1, <2>4, <2>6
    <2> HIDE DEF H
    <2> QED
      BY <1>2, <2>4, <2>5, <2>7
  <1> QED
    BY <1>7, <1>8, <1>9, AckStep

-----------------------------------------------------------------------------
(* The theorems *)

LEMMA InvInit == Init => IInv
  <1> SUFFICES ASSUME Init
               PROVE  IInv
    OBVIOUS
  <1> USE DEF Init
  <1>1. Kinds
    <2>1. DOMAIN docs = Node /\ \A n \in Node : DOMAIN docs[n] = {}
      BY EmptySeq
    <2>2. \A n \in Node : IsStore(docs[n])
      BY <2>1 DEF IsStore
    <2>3. DOMAIN input = Request /\ \A r \in Request : input[r] = NoInput
      OBVIOUS
    <2> QED
      BY <2>1, <2>2, <2>3 DEF Kinds
  <1>2. Stages
    BY DEF Stages, Stage
  <1>3. Programs
    BY Requests DEF Programs
  <1>4. Routes
    BY Requests DEF Routes
  <1>5. \A n \in Node : Stored(n)
    BY EmptySeq DEF Stored
  <1>6. \A u \in Update : Applied(u)
    BY Requests DEF Applied
  <1>7. KeptApart
    BY EmptySeq DEF KeptApart
  <1> QED
    BY <1>1, <1>2, <1>3, <1>4, <1>5, <1>6, <1>7 DEF IInv

LEMMA InvNext == IInv /\ [Next]_vars => IInv'
  <1> SUFFICES ASSUME IInv, [Next]_vars
               PROVE  IInv'
    OBVIOUS
  <1>1. Kinds' /\ Stages' /\ Programs' /\ Routes' /\ KeptApart'
    BY KindsStep, ControlStep, ProgramsStep, RoutesStep, KeptApartStep DEF Controls
  <1>2. \A n \in Node : Stored(n)'
    BY StoredStep
  <1>3. \A m \in net' : Addressed(m)'
    BY AddressedStep
  <1>4. \A u \in Update : Applied(u)'
    BY AppliedStep
  <1> QED
    BY <1>1, <1>2, <1>3, <1>4 DEF IInv

LEMMA Invariance == Spec => []IInv
  BY InvInit, InvNext, PTL DEF Spec

\* canonicalDecimal (node.go) decides equality of keys: two decimals of whatever
\* length get the same canonical spelling exactly when they are the same number,
\* and the canonical spelling stands for that number.
THEOREM CanonicalDecides ==
  ASSUME NEW k \in Key, NEW l \in Key, k.word = l.word
  PROVE  /\ Number(CanonicalDecimal(k)) = Number(k)
         /\ CanonicalDecimal(k) = CanonicalDecimal(l) <=> Number(k) = Number(l)
  <1> DEFINE c == CanonicalDecimal(k)
             d == CanonicalDecimal(l)
  <1>1. /\ c \in Key /\ c.word = k.word /\ IsCanonical(c) /\ Number(c) = Number(k)
        /\ d \in Key /\ d.word = l.word /\ IsCanonical(d) /\ Number(d) = Number(l)
    BY CanonicalForm
  <1> HIDE DEF c, d
  <1>2. ASSUME Number(k) = Number(l) PROVE c = d
    BY <1>1, <1>2, CanonicalUnique
  <1>3. ASSUME c = d PROVE Number(k) = Number(l)
    BY <1>1, <1>3
  <1> QED
    BY <1>1, <1>2, <1>3 DEF c, d

\* Every variable holds a value of its kind, and no node stores a document its
\* program does not lead to: apply, mergeCollection and MergeSnapshot allocate a
\* document only where resolveDocument leads, and never an empty one.
THEOREM TypeCorrect == Spec => []TypeOK
  <1>1. IInv => TypeOK
    <2> SUFFICES ASSUME IInv
                 PROVE  TypeOK
      OBVIOUS
    <2>1. \A n \in Node : DocumentsOK(n)
      BY DEF IInv, Kinds, IsStore, Stored, DocumentsOK
    <2> QED
      BY <2>1 DEF IInv, Kinds, TypeOK
  <1> QED
    BY <1>1, Invariance, PTL

\* What writeOpError and handleApply tell a client is true of all the cluster:
\* an update refused with 400 is nowhere, one answered with 503 has been applied at
\* its coordinator, and one answered with 200 is at as many nodes as its sync
\* ratio asks for (apply, pushQuorum, handleSyncPush, collectAcks).
THEOREM StatusTold == Spec => []StatusTellsEffect
  <1>1. IInv => StatusTellsEffect
    <2> SUFFICES ASSUME IInv, NEW u \in Update
                 PROVE  /\ status[u] = 400 =>
                             /\ \A n \in Node : \A k \in DOMAIN docs[n] : u \notin docs[n][k]
                             /\ \A m \in net : u \notin m.snap
                        /\ status[u] \in {200, 503} =>
                             input[u].at \in Holders(u, Document(input[u]))
                        /\ status[u] = 200 =>
                             Reached(Cardinality(Holders(u, Document(input[u]))) - 1,
                                     input[u].header)
      BY DEF StatusTellsEffect
    <2>1. Stage(u) /\ Applied(u)
      BY Requests DEF IInv, Stages
    <2>2. ASSUME status[u] = 400
          PROVE  /\ \A n \in Node : \A k \in DOMAIN docs[n] : u \notin docs[n][k]
                 /\ \A m \in net : u \notin m.snap
      <3>1. input[u] = NoInput
        BY <2>1, <2>2 DEF Stage
      <3> QED
        BY <3>1 DEF IInv, Stored, Addressed
    <2>3. ASSUME status[u] \in {200, 503}
          PROVE  input[u] # NoInput /\ input[u].at \in Node
      <3>1. input[u] # NoInput
        BY <2>1, <2>3 DEF Stage
      <3>2. input[u] \in Inputs[u]
        BY <3>1, Requests DEF IInv, Kinds
      <3> QED
        BY <3>1, <3>2, CallInput
    <2> QED
      BY <2>1, <2>2, <2>3 DEF Applied, Holders
  <1> QED
    BY <1>1, Invariance, PTL

\* A push or a pull carries a canonical key, so handleSyncPush and handleSyncPull
\* of a peer with the same program, which resolve it again and compare, never turn
\* it away.
THEOREM PeersTakeKeys == Spec => []KeysWelcome
  <1>1. IInv => KeysWelcome
    <2> SUFFICES ASSUME IInv, NEW m \in net, plan[m.to] = m.prog
                 PROVE  Welcome(m)
      BY DEF KeysWelcome
    <2> DEFINE r == m.req
    <2>1. /\ r \in Update \cup Query /\ input[r] # NoInput
          /\ m.prog = plan[input[r].at] /\ m.key = Resolve(m.prog, input[r].key)
      BY DEF IInv, Kinds, Message, Addressed, Document
    <2>2. input[r] \in Inputs[r]
      BY <2>1, Requests DEF IInv, Kinds
    <2>3. input[r].key \in Key
      BY <2>1, <2>2, CallInput
    <2>4. Accepts(m.prog, input[r].key)
      BY <2>1 DEF IInv, Routes
    <2> QED
      BY <2>1, <2>3, <2>4, ResolveAccepted DEF Welcome
  <1> QED
    BY <1>1, Invariance, PTL

\* "Equivalent decimals identify one document" (normalizeDocumentKey,
\* canonicalDecimal), and decimals that are not equal, two: in a cluster with one
\* program an update is, on whatever way it came to a node, in the only document
\* of that node whose key is equal to the key its client wrote.
THEOREM EqualKeysMeet == Spec => []OneDocumentPerKey
  <1>1. IInv => OneDocumentPerKey
    <2> SUFFICES ASSUME IInv, OneProgram, NEW n \in Node, NEW k \in DOMAIN docs[n]
                 PROVE  /\ \A u \in docs[n][k] : SameKey(plan[n], k, input[u].key)
                        /\ \A l \in DOMAIN docs[n] : SameKey(plan[n], k, l) => k = l
      BY DEF OneDocumentPerKey
    <2>1. \A l \in DOMAIN docs[n] :
            l \in Key /\ Accepts(plan[n], l) /\ Resolve(plan[n], l) = l
      BY DEF IInv, Kinds, IsStore, Stored
    <2>2. ASSUME NEW u \in docs[n][k] PROVE SameKey(plan[n], k, input[u].key)
      <3>1. u \in Update /\ input[u] # NoInput
        BY DEF IInv, Kinds, IsStore, Stored
      <3>2. input[u] \in Inputs[u]
        BY <3>1, Requests DEF IInv, Kinds
      <3>3. input[u].at \in Node /\ input[u].key \in Key
        BY <3>1, <3>2, CallInput
      <3>4. Accepts(plan[input[u].at], input[u].key)
        BY <3>1 DEF IInv, Routes
      <3>5. plan[input[u].at] # None /\ plan[n] # None
        BY <2>1, <3>4, NoneAcceptsNothing
      <3>6. plan[input[u].at] = plan[n]
        BY <3>3, <3>5 DEF OneProgram
      <3>7. k = Resolve(plan[n], input[u].key)
        BY DEF IInv, KeptApart
      <3> QED
        BY <3>3, <3>4, <3>6, <3>7, ResolveAccepted
    <2>3. ASSUME NEW l \in DOMAIN docs[n], SameKey(plan[n], k, l) PROVE k = l
      BY <2>1, <2>3, ResolveUnique
    <2> QED
      BY <2>2, <2>3
  <1> QED
    BY <1>1, Invariance, PTL

\* handleDeploy makes the page from the program of the request, whether Initialize
\* took it or not; the page is right all the same as long as all the cluster was
\* given one program, and no page comes before its node's program.
THEOREM PagesMatch == Spec => []PageMatchesPlan
  <1>1. IInv => PageMatchesPlan
    <2> SUFFICES ASSUME IInv, NEW n \in Node, page[n] # None
                 PROVE  /\ plan[n] # None
                        /\ (\E p \in Program : \A r \in Deploy :
                              input[r] # NoInput => input[r].program = p) => page[n] = plan[n]
      BY DEF PageMatchesPlan
    <2>1. plan[n] # None /\ Deployed(plan[n]) /\ Deployed(page[n])
      BY DEF IInv, Programs
    <2> QED
      BY <2>1 DEF Deployed
  <1> QED
    BY <1>1, Invariance, PTL

\* No step takes an update out of a document, nor a program from a node:
\* Initialize keeps the first program, and every merge only adds.
THEOREM NothingIsLost ==
  Spec => [][\A n \in Node : /\ plan[n] # None => plan'[n] = plan[n]
                             /\ \A k : Content(docs[n], k) \subseteq Content(docs'[n], k)]_vars
  <1>1. IInv /\ [Next]_vars =>
          [\A n \in Node : /\ plan[n] # None => plan'[n] = plan[n]
                           /\ \A k : Content(docs[n], k) \subseteq Content(docs'[n], k)]_vars
    BY PlanStep, ContentGrows
  <1> QED
    BY <1>1, Invariance, PTL DEF Spec
=============================================================================
