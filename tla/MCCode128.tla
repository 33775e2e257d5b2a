------------------------------ MODULE MCCode128 ------------------------------
(* Data for automatic Code 128 and for GS1-128.                              *)
EXTENDS Code128

SeqsUpTo(S, n) == UNION {[1..k -> S] : k \in 1..n}

\* Control bytes, digits, both cases, the brace and a byte of the upper half, in
\* all orders.
MixedPayloads == SeqsUpTo({1, 49, 97, 123, 225}, 4) \union SeqsUpTo({49, 65, 97, 129}, 4)

\* An identifier in parentheses, digits and escapes, and a check digit after it.
MCGs1Payloads ==
  {<<40, 48, 49, 41>> \o a \o <<42>> \o b :
     a \in SeqsUpTo({49, 53, 40, 123, 97}, 3), b \in {<<>>, <<42>>, <<123, 49>>, <<123, 51, 49>>}}
=============================================================================
