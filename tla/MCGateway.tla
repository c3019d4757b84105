------------------------------ MODULE MCGateway -----------------------------
(***************************************************************************)
(* An instance of Gateway for TLC: two deployments at two nodes, updates   *)
(* that spell the same key differently, and a query.                       *)
(***************************************************************************)
EXTENDS Gateway

CONSTANTS a, b

Decimal(neg, whole, frac) ==
  [neg |-> neg, whole |-> whole, frac |-> frac, word |-> FALSE]
Word == [NoKey EXCEPT !.word = TRUE]
Half == Decimal(FALSE, <<0>>, <<5>>)               \* 0.5
LongHalf == Decimal(FALSE, <<0, 0, 0>>, <<5, 0>>)  \* 000.50
Zero == Decimal(FALSE, <<0>>, <<>>)                \* 0
NegZero == Decimal(TRUE, <<0>>, <<0>>)             \* -0.0

Deployments(n, programs) == [at : {n}, program : programs]
Calls(n, keys, headers) == [at : {n}, key : keys, header : headers, bad : {FALSE}]

\* Calls that are refused.
Refused(n) ==
  [at : {n}, key : {Half}, header : {"NaN"}, bad : {FALSE}]
    \cup [at : {n}, key : {Half}, header : {"half"}, bad : {TRUE}]
    \cup [at : {n}, key : {NoKey, Word}, header : {"half"}, bad : {FALSE}]

Clients == [
  d1 |-> Deployments(a, {"rat", "single", "empty"}),
  d2 |-> Deployments(b, {"rat", "string"}),
  u1 |-> Calls(a, {LongHalf}, {"all"}) \cup Calls(a, {LongHalf, NegZero}, {"absent"})
          \cup Refused(a),
  u2 |-> Calls(b, {Half, Zero}, {"half"}),
  q1 |-> Calls(a, {LongHalf}, {"half"})]
=============================================================================
