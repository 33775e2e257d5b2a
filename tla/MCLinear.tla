------------------------------- MODULE MCLinear -------------------------------
(* Data for the linear bar codes, GS1 DataBar among them.                     *)
EXTENDS LinearSymbols

\* Numbers of n digits that count up or down in steps.
Counting(n) == {[i \in 1..n |-> 48 + ((a + b * i) % 10)] : a, b \in 0..9}
\* UPC-E numbers and the UPC-A numbers they stand for.
Compacts == {<<48>> \o c \o <<e>> : c \in [1..5 -> {48, 52}], e \in 48..57}
Expanded == {[i \in 1..11 |-> 48 + Expand(0, Digits(Tail(c)))[i]] : c \in Compacts}
OfSystem(system, datas) == {[system |-> system, data |-> data] : data \in datas}

\* GTINs that reach every group of characters: where a group begins, and before.
Gtin(quotient, divisor, rest) == [i \in 1..13 |-> 48 + GtinDigits(quotient, divisor, rest)[i]]
Around(numbers) == numbers \union {n - 1 : n \in numbers \ {0}}
OmnidirectionalPairs ==
  LET outside == Around({0, 161, 961, 2015, 2715, 2841})
      inside == Around({0, 336, 1036, 1516, 1597})
  IN  {CharacterMultiplier * a + b : a \in outside \ {2841}, b \in inside \ {1597}}
Gtins ==
  {Gtin(q, PairMultiplier, (7 * q) % PairMultiplier) : q \in {p \in OmnidirectionalPairs : p <= 2204061}}
    \union {Gtin(q % 2204062, PairMultiplier, q) : q \in OmnidirectionalPairs \ {4537077}}
LimitedPairs == Around({LimitedGroupSums[g] : g \in 1..7})
LimitedGtins ==
  {Gtin(q, LimitedPairMultiplier, (31 * r + q) % LimitedPairMultiplier) :
     q \in {p \in LimitedPairs : p <= 993260}, r \in LimitedPairs}

\* Bytes of each kind in runs of the lengths the modes look ahead, after a
\* company's own identifier; and as many digits as a symbol holds.
RunOf(byte, n) == [i \in 1..n |-> byte]
Own == <<57, 49>>
GeneralData ==
  {Own \o data : data \in BoundedSeq({49, 65, 97}, 4)}
    \union {Own \o a \o <<123, 49>> \o b : a, b \in BoundedSeq({49, 65, 43}, 2)}
    \union {Own \o RunOf(a, 1) \o RunOf(b, m) \o RunOf(c, n) :
               a, c \in {48, 90, 122}, b \in {57, 47, 95}, m \in {3, 4, 5, 6, 10}, n \in {1, 4, 6}}
    \union {RunOf(50, n) : n \in 64..78} \union {RunOf(50, n) \o <<65>> : n \in 60..63}
    \union {Own \o <<c>> : c \in Gs1Characters \ {36}} \union {Own \o <<123, c>> : c \in {40, 41, 49, 50, 123}}
    \union {Own \o <<40>>, Own \o <<123>>, Own \o <<128>>, <<40, 57, 41, 49>>, <<65, 66>>}

Item(first) ==
  LET gtin == <<first, 48, 49, 50, 51, 52, 53, 54, 55, 56, 57, 48, 49>>
  IN  <<40, 48, 49, 41>> \o gtin \o <<48 + CheckDigit(Digits(gtin))>>
Dates == {<<>>} \union {<<49, kind>> \o DigitText(date, 6) :
                          kind \in {49, 50, 51, 53, 55}, date \in {991231, 101, 001300, 200932}}
Weights == {<<51, unit, 48, decimals>> \o DigitText(weight, 6) :
              unit \in {49, 50}, decimals \in 49..52,
              weight \in {0, 9999, 10000, 22767, 22768, 32767, 32768, 99999, 100000}}
Prices == {<<51, 57, kind, decimals>> \o rest :
             kind \in {50, 51}, decimals \in {48, 51, 52},
             rest \in {<<>>, <<55, 57, 53>>, <<55, 57, 53, 56>>, <<55, 57, 65, 56>>}}
ItemData ==
  {Item(57) \o w \o d : w \in Weights, d \in {<<>>, <<49, 53>> \o DigitText(991231, 6)}}
    \union {Item(57) \o <<51, unit, 48, 51>> \o DigitText(12233, 6) \o d : unit \in {49, 50}, d \in Dates}
    \union {Item(57) \o p : p \in Prices} \union {Item(48) \o <<49, 48>> \o g : g \in BoundedSeq({49, 65, 97}, 3)}
    \union {Front(Item(57)), Item(57), Item(48) \o <<123, 49>>, <<48, 49>> \o RunOf(65, 14)}

MCBarcodes ==
  UNION {
    OfSystem("DataBar", Gtins \union {RunOf(48, 12), RunOf(65, 13)}),
    OfSystem("DataBar Limited", LimitedGtins \union {RunOf(50, 13)}),
    OfSystem("DataBar Expanded", GeneralData \union ItemData),
    OfSystem("EAN-13", Counting(12) \union Counting(13)),
    OfSystem("EAN-8", Counting(7) \union Counting(8)),
    OfSystem("UPC-A", Counting(11)),
    OfSystem("UPC-E", Compacts \union Expanded \union {Append(d, 53) : d \in Expanded}
                        \union Counting(6) \union Counting(8) \union Counting(11)),
    OfSystem("Code 39", BoundedSeq({42, 65, 36}, 3)),
    OfSystem("Codabar", BoundedSeq({65, 100, 49}, 3)),
    OfSystem("ITF", Counting(2) \union Counting(3) \union Counting(4)),
    OfSystem("Code 93", [1..1 -> 0..128] \union [1..2 -> {0, 26, 32, 48, 65, 97, 123}]
                          \union {[i \in 1..n |-> 65 + ((a * i) % 9)] : n \in 13..22, a \in 1..2})}

\* The dollar sign has a run of its own.
MCDollars ==
  OfSystem("DataBar Expanded", {Own \o a \o <<36>> \o b : a, b \in BoundedSeq({49, 65, 97}, 1)})
=============================================================================
