-------------------------- MODULE MCHashedDocument --------------------------
(***************************************************************************)
(* HashedDocument with float64 and int64 scaled down to three and five bits, *)
(* and exponents from 10^2 on: the numbers around the limits of each form,  *)
(* and between integers.                                                   *)
(***************************************************************************)
EXTENDS HashedDocument

Limits == {Pow2[Precision], Pow2[IntBits - 1], Pow10[ExponentDigits], Pow2[MaxExponent]}

\* Integers around each limit and one between the last two; below zero those at the
\* limits and next to them.
MCIntegers ==
  LET between == Pow2[MaxExponent - 1]
  IN  UNION {{n - 1, n, n + 1} : n \in Limits \cup {1}} \cup {between}
      \cup UNION {{-n, -n - 1} : n \in Limits \cup {between}}

\* Decimals, in halves: 0.5, 1.0, those near 2^P that round up, down and to
\* themselves, and those beyond int64 and float64.
MCDecimals ==
  LET p == 2 * Pow2[Precision]
  IN  {1, 2, p - 3, p - 2, p - 1, p, p + 1, p + 2, Pow2[IntBits], 2 * Pow2[MaxExponent], 2 - p, -1}

MCStrings ==
  {String(s) : s \in {<<>>, <<"n">>, <<"\\">>, <<"newline">>, <<"separator">>,
                      <<"\\", "n">>, <<"\\", "newline">>, <<"n", "n">>}}

MCNames  == {String(<<>>), String(<<"n">>)}
MCValues == {Integer(n) : n \in MCIntegers} \cup {Decimal(h) : h \in MCDecimals} \cup MCStrings
=============================================================================
