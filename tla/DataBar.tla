------------------------------- MODULE DataBar -------------------------------
(* GS1 DataBar (databar.rs) and the four commands that print it (barcode.rs):  *)
(* the compaction of an Expanded symbol's data into bits, the widths of the    *)
(* elements that stand for a value, and the layout of the symbols.             *)
EXTENDS BarcodeDigits

FNC1 == 29

\* The weights of the elements in a checksum are the powers of three.
PowersOfThree(modulus, count) ==
  LET eight[row \in 0..count \div 8] == IF row = 0 THEN 1 ELSE (3^8 * eight[row - 1]) % modulus
  IN  [i \in 1..count |-> (3^((i - 1) % 8) * eight[(i - 1) \div 8]) % modulus]

----------------------------------------------------------------------------
(* Element widths: ISO/IEC 24724 Annex B *)

Binomial(n, r) ==
  IF n < 0 \/ r < 0 \/ r > n THEN 0
  ELSE FoldLeft(LAMBDA value, d : (value * (n - r + d)) \div d, 1, [d \in 1..r |-> d])

\* The ways to go on after an element of this width, LEFT elements being left:
\* all of them, without those that lack a narrow element, and without those in
\* which one is too wide.
Completions(modules, left, width, widest, lacksNarrow) ==
  LET rest == modules - width
      tooWide == (widest + 1)..(rest - left + 1)
  IN  Binomial(rest - 1, left - 1)
        - (IF lacksNarrow /\ rest >= 2 * left THEN Binomial(rest - left - 1, left - 1) ELSE 0)
        - (IF left > 1 THEN left * MapThenSumSet(LAMBDA w : Binomial(rest - w - 1, left - 2), tooWide)
           ELSE IF rest > widest THEN 1 ELSE 0)

\* How many sequences begin with an element narrower than w, for each w.
Before(s, left, widest, noNarrow) ==
  LET before[w \in 1..s.modules + 1] ==
        IF w = 1 THEN 0
        ELSE before[w - 1] + Completions(s.modules, left, w - 1, widest,
                                         noNarrow /\ ~s.narrow /\ w > 2)
  IN  before
TakeElement(s, before) ==
  LET width == CHOOSE w \in 1..s.modules : before[w] <= s.value /\ s.value < before[w + 1]
  IN  [ widths |-> Append(s.widths, width), value |-> s.value - before[width],
        modules |-> s.modules - width, narrow |-> s.narrow \/ width = 1 ]
TakeRest(s) == Append(s.widths, s.modules)

\* noNarrow asks, in spite of its name, for an element of one module.
ElementWidths(count, value, modules, widest, noNarrow) ==
  TakeRest(FoldLeft(LAMBDA s, element : TakeElement(s, Before(s, count - element, widest, noNarrow)),
                    [widths |-> <<>>, value |-> value, modules |-> modules, narrow |-> FALSE],
                    [element \in 1..count - 1 |-> element]))

\* Odd elements and even ones alternate.
Alternating(odd, even) == FlattenSeq([i \in DOMAIN odd |-> <<odd[i], even[i]>>])
InterleavedWidths(oddValue, evenValue, oddModules, evenModules, widest, noNarrowOdd) ==
  Alternating(ElementWidths(4, oddValue, oddModules, widest, noNarrowOdd),
              ElementWidths(4, evenValue, evenModules, 9 - widest, ~noNarrowOdd))

\* The last group that begins at or below the value.
GroupOf(groups, sums, value) == Max({g \in groups : sums[g] <= value})

\* The modules of a symbol become runs of one colour again: its elements, the
\* first of them light, as long as none is empty.
Elements(widths) == SelectSeq(widths, LAMBDA width : width > 0)

WeightedWidths(widths, weights, modulus) ==
  MapThenSumSet(LAMBDA i : widths[i] * weights[i], DOMAIN widths) % modulus

----------------------------------------------------------------------------
(* Omnidirectional and Limited: the thirteen digits of a GTIN *)

\* The number the digits make does not fit 32 bits: it is divided digit by digit.
DivideBy(divisor, digits) ==
  FoldLeft(LAMBDA s, digit : [ quotient |-> 10 * s.quotient + ((10 * s.rest + digit) \div divisor),
                               rest |-> (10 * s.rest + digit) % divisor ],
           [quotient |-> 0, rest |-> 0], digits)

PairMultiplier == 4537077
CharacterMultiplier == 1597
GroupSums == <<0, 161, 961, 2015, 2715, 0, 336, 1036, 1516>>
EvenOrOddDivisors == <<1, 10, 34, 70, 126, 4, 20, 48, 81>>
OddModules == <<12, 10, 8, 6, 4, 5, 7, 9, 11>>
EvenModules == <<4, 6, 8, 10, 12, 10, 8, 6, 4>>
WidestOdd == <<8, 6, 4, 3, 1, 2, 4, 6, 8>>
FinderPatterns ==
  << <<3, 8, 2, 1, 1>>, <<3, 5, 5, 1, 1>>, <<3, 3, 7, 1, 1>>, <<3, 1, 9, 1, 1>>, <<2, 7, 4, 1, 1>>,
     <<2, 5, 6, 1, 1>>, <<2, 3, 8, 1, 1>>, <<1, 5, 7, 1, 1>>, <<1, 3, 9, 1, 1>> >>
ChecksumWeights == PowersOfThree(79, 32)

Groups(outside) == IF outside THEN 1..5 ELSE 6..9
InGroup(g, value, outside) ==
  LET high == value \div EvenOrOddDivisors[g]
      low == value % EvenOrOddDivisors[g]
  IN  InterleavedWidths(IF outside THEN high ELSE low, IF outside THEN low ELSE high,
                        OddModules[g], EvenModules[g], WidestOdd[g], ~outside)
CharacterWidths(character, outside) ==
  LET g == GroupOf(Groups(outside), GroupSums, character)
  IN  InGroup(g, character - GroupSums[g], outside)

\* Two pairs of finders look too much alike and are skipped.
FinderPair(checksum) ==
  LET first == IF checksum >= 8 THEN checksum + 1 ELSE checksum
  IN  IF first >= 72 THEN first + 1 ELSE first

\* Two outside characters and two inside ones.
Characters(pairs) ==
  << CharacterWidths(pairs.quotient \div CharacterMultiplier, TRUE),
     CharacterWidths(pairs.quotient % CharacterMultiplier, FALSE),
     CharacterWidths(pairs.rest \div CharacterMultiplier, TRUE),
     CharacterWidths(pairs.rest % CharacterMultiplier, FALSE) >>
OmnidirectionalSymbol(c, finders) ==
  <<1, 1>> \o c[1] \o FinderPatterns[1 + (finders \div 9)] \o Reverse(c[2])
    \o c[4] \o Reverse(FinderPatterns[1 + (finders % 9)]) \o Reverse(c[3]) \o <<1, 1>>
WithFinders(c) ==
  OmnidirectionalSymbol(c, FinderPair(WeightedWidths(c[1] \o c[2] \o c[3] \o c[4], ChecksumWeights, 79)))
EncodeOmnidirectional(gtin) == WithFinders(Characters(DivideBy(PairMultiplier, gtin)))

LimitedPairMultiplier == 2013571
LimitedGroupSums == <<0, 183064, 820064, 1000776, 1491021, 1979845, 1996939>>
LimitedEvenDivisors == <<28, 728, 6454, 203, 2408, 1, 16632>>
LimitedOddModules == <<17, 13, 9, 15, 11, 19, 7>>
LimitedWidestOdd == <<6, 5, 3, 5, 4, 8, 1>>
LimitedChecksumWeights == PowersOfThree(89, 28)
LimitedChecksumSequence ==
  [i \in 1..44 |-> i - 1] \o
  << 45, 52, 57, 63, 64, 65, 66, 73, 74, 75, 76, 77, 78, 79, 82, 126, 127, 128, 129, 130, 132, 141,
     142, 143, 144, 145, 146, 210, 211, 212, 213, 214, 215, 216, 217, 220, 316, 317, 318, 319, 320,
     322, 323, 326, 337 >>

LimitedPairWidths(pair) ==
  LET g == GroupOf(1..7, LimitedGroupSums, pair)
      within(sums, divisors, odd, widest) ==
        Alternating(ElementWidths(7, (pair - sums) \div divisors, odd, widest, FALSE),
                    ElementWidths(7, (pair - sums) % divisors, 26 - odd, 9 - widest, TRUE))
  IN  within(LimitedGroupSums[g], LimitedEvenDivisors[g], LimitedOddModules[g], LimitedWidestOdd[g])
LimitedFinderWidths(checksum) ==
  LET sequence == LimitedChecksumSequence[checksum + 1]
  IN  Alternating(ElementWidths(6, sequence \div 21, 8, 3, FALSE),
                  ElementWidths(6, sequence % 21, 8, 3, FALSE)) \o <<1, 1>>

\* The five light modules at the end belong to the symbol.
LimitedSymbol(left, right) ==
  <<1, 1>> \o left
    \o LimitedFinderWidths(WeightedWidths(left \o right, LimitedChecksumWeights, 89))
    \o right \o <<1, 1, 5>>
WithLimitedFinder(pairs) == LimitedSymbol(LimitedPairWidths(pairs.quotient), LimitedPairWidths(pairs.rest))
EncodeLimited(gtin) == WithLimitedFinder(DivideBy(LimitedPairMultiplier, gtin))

\* The check digit is shown and not encoded; Limited takes an indicator of 0 or 1.
EncodeDataBarGtin(data, leading, widths) ==
  IF Len(data) # 13 \/ ~AreDigits(data) \/ data[1] \notin leading THEN {}
  ELSE Symbol(Elements(widths),
              <<40, 48, 49, 41>> \o Append(data, 48 + CheckDigit(Digits(data))))
EncodeDataBarOmnidirectional(data) ==
  EncodeDataBarGtin(data, 48..57, EncodeOmnidirectional(Digits(data)))
EncodeDataBarLimited(data) ==
  EncodeDataBarGtin(data, {48, 49}, EncodeLimited(Digits(data)))

----------------------------------------------------------------------------
(* Expanded: one of fourteen methods for what the data begins with *)

Decimal(digits) == FoldLeft(LAMBDA value, digit : 10 * value + digit - 48, 0, digits)

DateParts(date) == [i \in 1..3 |-> Decimal(SubSeq(date, 2 * i - 1, 2 * i))]
IsDate(date) == AreDigits(date) /\ DateParts(date)[2] \in 1..12 /\ DateParts(date)[3] <= 31
DateValue(date) ==
  LET d == DateParts(date) IN 384 * d[1] + 32 * (d[2] - 1) + d[3]

\* A weight of five digits: compact if it fits the short form, else with a date
\* of one of four kinds or with none.  A weight followed by anything else is
\* left to the general field.
Weight(data) == Decimal(SubSeq(data, 21, 26))
WeightMethod(data, compact, fits) ==
  IF ~AreDigits(SubSeq(data, 21, 26)) \/ Weight(data) > 99999 THEN 1
  ELSE IF Len(data) = 26 THEN IF fits THEN compact ELSE compact + 4
  ELSE IF /\ Len(data) = 34 /\ data[27] = 49 /\ data[28] \in {49, 51, 53, 55}
          /\ IsDate(SubSeq(data, 29, 34))
       THEN compact + 3 + (data[28] - 48) ELSE 1

SelectMethod(data) ==
  LET n == Len(data)
      unit == SubSeq(data, 18, 19)
  IN  IF n < 16 \/ SubSeq(data, 1, 2) # <<48, 49>> THEN 2
      ELSE IF n < 20 \/ data[3] # 57 \/ data[17] # 51 THEN 1
      ELSE IF n >= 26 /\ unit = <<49, 48>> THEN
        WeightMethod(data, 3, data[20] = 51 /\ Weight(data) <= 32767)
      ELSE IF n >= 26 /\ unit = <<50, 48>> THEN
        WeightMethod(data, 4, \/ data[20] = 50 /\ Weight(data) <= 9999
                              \/ data[20] = 51 /\ Weight(data) <= 22767)
      ELSE IF data[18] = 57 /\ data[20] \in 48..51 THEN
        IF data[19] = 50 THEN 5
        ELSE IF n >= 23 /\ data[19] = 51 /\ AreDigits(SubSeq(data, 21, 23)) THEN 6 ELSE 1
      ELSE 1

CompressedEnd(method, length) ==
  CASE method = 1 -> 16
    [] method = 2 -> 0
    [] method \in {3, 4} -> 26
    [] method = 5 -> 20
    [] method = 6 -> 23
    [] method >= 7 -> length

MethodBits(method) ==
  CASE method = 1 -> Modules(4, 3)
    [] method = 2 -> Modules(0, 4)
    [] method \in {3, 4} -> Modules(1 + method, 4)
    [] method \in {5, 6} -> Modules(28 + 4 * method, 7)
    [] method >= 7 -> Modules(49 + method, 7)

\* Twelve digits of a GTIN in four groups; the check digit is left to the reader.
GtinBits(data) ==
  FlattenSeq([i \in 1..4 |-> Modules(Decimal(SubSeq(data, 3 * i + 1, 3 * i + 3)), 10)])

\* A separator in the place of the first digit leaves the range of a byte, which
\* a release build lets pass.
FirstDigit(data) == Modules((data[3] - 48) % 256, 4)

CompressedBits(method, data) ==
  CASE method = 1 -> FirstDigit(data) \o GtinBits(data)
    [] method = 2 -> <<>>
    [] method \in {3, 4} ->
         GtinBits(data)
           \o Modules(Decimal(SubSeq(data, 21, 26))
                        + (IF method = 4 /\ data[20] = 51 THEN 10000 ELSE 0), 15)
    [] method = 5 -> GtinBits(data) \o Modules(data[20] - 48, 2)
    [] method = 6 ->
         GtinBits(data) \o Modules(data[20] - 48, 2) \o Modules(Decimal(SubSeq(data, 21, 23)), 10)
    [] method >= 7 ->
         GtinBits(data) \o Modules(Decimal(<<data[20]>> \o SubSeq(data, 22, 26)), 20)
           \o Modules(IF Len(data) = 34 THEN DateValue(SubSeq(data, 29, 34)) ELSE 38400, 16)

\* Only digits and separators, and no separator where a number is read.
Compressible(method, data) ==
  LET end == CompressedEnd(method, Len(data)) IN
  /\ end <= Len(data)
  /\ \A i \in 1..end : data[i] \in 48..57 \union {FNC1}
  /\ method # 2 => AreDigits(SubSeq(data, 4, 15))
  /\ method >= 7 => data[20] # FNC1

----------------------------------------------------------------------------
(* Expanded: the general field, in one of three modes *)

TypeOf(byte) ==
  CASE byte = FNC1 \/ byte \in 48..57 -> "numeric"
    [] byte \in 65..90 \union {42, 44, 45, 46, 47} -> "alphanumeric"
    [] byte \in 97..122 \union {33, 34, 36, 37, 38, 39, 40, 41, 43, 58, 59, 60, 61, 62, 63, 95, 32} -> "iso"
    [] OTHER -> "none"
NumericValue(byte) == IF byte = FNC1 THEN 10 ELSE byte - 48

PlaceIn(table, byte) == CHOOSE i \in DOMAIN table : table[i] = byte
Punctuation == <<42, 44, 45, 46, 47>>
IsoPunctuation ==
  <<36, 33, 34, 37, 38, 39, 40, 41, 42, 43, 44, 45, 46, 47, 58, 59, 60, 61, 62, 63, 95, 32>>

AlphanumericBits(byte) ==
  CASE byte \in 48..57 -> Modules(byte - 43, 5)
    [] byte \in 65..90 -> Modules(byte - 33, 6)
    [] OTHER -> Modules(57 + PlaceIn(Punctuation, byte), 6)
IsoBits(byte) ==
  CASE byte \in 48..57 -> Modules(byte - 43, 5)
    [] byte \in 65..90 -> Modules(byte - 1, 7)
    [] byte \in 97..122 -> Modules(byte - 7, 7)
    [] OTHER -> Modules(230 + PlaceIn(IsoPunctuation, byte), 8)

\* The next bytes, exactly so many, are of these types.
Ahead(data, p, count, types) ==
  /\ p + count - 1 <= Len(data)
  /\ \A i \in p..(p + count - 1) : TypeOf(data[i]) \in types
\* So many at the most are left, and they are digits.
DigitsEnd(data, p, fewest, most) ==
  /\ Len(data) - p + 1 \in fewest..most
  /\ \A i \in p..Len(data) : TypeOf(data[i]) = "numeric"
NoIso(data, p, count) == \A i \in p..(p + count - 1) : i \in DOMAIN data => TypeOf(data[i]) # "iso"

\* A step takes bytes or latches to another mode; a last digit by itself waits
\* for the padding.
Take(count, bits, mode) == [bits |-> bits, taken |-> count, mode |-> mode, lastDigit |-> {}]
Latch(bits, mode) == Take(0, bits, mode)
HoldDigit(byte) == [Take(1, <<>>, "numeric") EXCEPT !.lastDigit = {byte}]

NumericStep(data, p) ==
  CASE Ahead(data, p, 2, {"numeric"}) ->
         Take(2, Modules(11 * NumericValue(data[p]) + NumericValue(data[p + 1]) + 8, 7), "numeric")
    [] DigitsEnd(data, p, 1, 1) -> HoldDigit(data[p])
    [] OTHER -> Latch(Modules(0, 4), "alphanumeric")

LatchesToIso(data, p) == TypeOf(data[p]) = "iso"
DigitsAhead(data, p) == Ahead(data, p, 6, {"numeric"}) \/ DigitsEnd(data, p, 4, 5)
AlphanumericStep(data, p) ==
  CASE data[p] = FNC1 -> Take(1, Modules(15, 5), "numeric")
    [] LatchesToIso(data, p) -> Latch(Modules(4, 5), "iso")
    [] DigitsAhead(data, p) /\ data[p] # FNC1 -> Latch(Modules(0, 3), "numeric")
    [] OTHER -> Take(1, AlphanumericBits(data[p]), "alphanumeric")

IsoStep(data, p) ==
  LET digits == NoIso(data, p, 10) /\ Ahead(data, p, 4, {"numeric"})
      capitals == NoIso(data, p, 10) /\ Ahead(data, p, 5, {"numeric", "alphanumeric"})
  IN  CASE data[p] = FNC1 -> Take(1, Modules(15, 5), "numeric")
        [] data[p] # FNC1 /\ digits -> Latch(Modules(0, 3), "numeric")
        [] data[p] # FNC1 /\ ~digits /\ capitals -> Latch(Modules(4, 5), "alphanumeric")
        [] OTHER -> Take(1, IsoBits(data[p]), "iso")

\* What is written from a place on, and the mode it ends in.
GeneralField(data) ==
  LET from[at \in (1..Len(data) + 1) \X {"numeric", "alphanumeric", "iso"}] ==
        LET p == at[1]
            before(step, rest) ==
              [rest EXCEPT !.bits = step.bits \o @, !.lastDigit = @ \union step.lastDigit]
            goesOn(step) == before(step, from[<<p + step.taken, step.mode>>])
        IN  CASE p > Len(data) -> Take(0, <<>>, at[2])
              [] p <= Len(data) /\ at[2] = "numeric" -> goesOn(NumericStep(data, p))
              [] p <= Len(data) /\ at[2] = "alphanumeric" -> goesOn(AlphanumericStep(data, p))
              [] p <= Len(data) /\ at[2] = "iso" -> goesOn(IsoStep(data, p))
  IN  from[<<1, "numeric">>]

----------------------------------------------------------------------------
(* Expanded: padding and layout *)

MaxData == 77     \* bytes before compaction
MaxBits == 252    \* 21 data characters

CharacterCount(bits) == LET characters == (bits + 11) \div 12 + 1 IN Max({characters, 4})
Remainder(bits) == 12 * (CharacterCount(bits) - 1) - bits

LastDigitShort(byte, remainder) ==
  IF remainder >= 4 THEN Modules(NumericValue(byte) + 1, 4)
  ELSE Modules(11 * NumericValue(byte) + 18, 7)

\* A last digit takes four bits if little else fits, or a pair with a separator.
LastDigitBits(byte, remainder) ==
  IF remainder \in 4..6 THEN Modules(NumericValue(byte) + 1, 4)
  ELSE Modules(11 * NumericValue(byte) + 18, 7)

\* Numeric data ends with a latch; the padding is cut at the last character.
Padding(remainder, mode) ==
  LET latch == IF mode = "numeric" THEN Modules(0, 4) ELSE <<>>
  IN  [i \in 1..remainder |-> IF i <= Len(latch) THEN latch[i]
                              ELSE Modules(4, 5)[1 + ((i - Len(latch) - 1) % 5)]]

\* Where the method leaves two bits for the length of the symbol.
LengthPlace(method) ==
  CASE method = 1 -> {3}
    [] method = 2 -> {4}
    [] method \in {5, 6} -> {7}
    [] OTHER -> {}
LengthBits(characters) == << characters % 2, IF characters > 14 THEN 1 ELSE 0 >>
WithLength(bits, method) ==
  LET length == LengthBits(CharacterCount(Len(bits)))
  IN  [i \in DOMAIN bits |-> IF i \in LengthPlace(method) THEN length[1]
                             ELSE IF i - 1 \in LengthPlace(method) THEN length[2] ELSE bits[i]]

\* The first bit says that no composite symbol is linked.
MethodField(method, data) == <<0>> \o MethodBits(method) \o CompressedBits(method, data)
Rest(method, data) == SubSeq(data, CompressedEnd(method, Len(data)) + 1, Len(data))
WithLastDigit(bits, lastDigit) ==
  FoldSet(LAMBDA byte, b : b \o LastDigitBits(byte, Remainder(Len(b))), bits, lastDigit)
Padded(bits, mode) ==
  IF Len(bits) > MaxBits THEN {} ELSE {bits \o Padding(Remainder(Len(bits)), mode)}
BinaryOf(field, before, method) ==
  {WithLength(bits, method) : bits \in Padded(WithLastDigit(before \o field.bits, field.lastDigit), field.mode)}
BinaryBy(method, data) ==
  IF ~Compressible(method, data) \/ \E i \in DOMAIN Rest(method, data) : TypeOf(Rest(method, data)[i]) = "none"
  THEN {}
  ELSE BinaryOf(GeneralField(Rest(method, data)), MethodField(method, data), method)
ExpandedBinary(data) == IF Len(data) > MaxData THEN {} ELSE BinaryBy(SelectMethod(data), data)

ExpandedGroupSums == <<0, 348, 1388, 2948, 3988>>
ExpandedEvenDivisors == <<4, 20, 52, 104, 204>>
ExpandedOddModules == <<12, 10, 8, 6, 4>>
ExpandedWidestOdd == <<7, 5, 4, 3, 1>>
ExpandedChecksumWeights == PowersOfThree(211, 184)
\* The twelve finders are six and their mirror images.
ExpandedFinders ==
  << <<1, 8, 4, 1, 1>>, <<3, 6, 4, 1, 1>>, <<3, 4, 6, 1, 1>>,
     <<3, 2, 8, 1, 1>>, <<2, 6, 5, 1, 1>>, <<2, 2, 9, 1, 1>> >>
ExpandedFinder(f) ==
  IF f % 2 = 1 THEN ExpandedFinders[(f + 1) \div 2] ELSE Reverse(ExpandedFinders[f \div 2])
ExpandedFinderSequences ==
  << <<1, 2>>, <<1, 4, 3>>, <<1, 6, 3, 8>>, <<1, 10, 3, 8, 5>>, <<1, 10, 3, 8, 7, 12>>,
     <<1, 10, 3, 8, 9, 12, 11>>, <<1, 2, 3, 4, 5, 6, 7, 8>>, <<1, 2, 3, 4, 5, 6, 7, 10, 9>>,
     <<1, 2, 3, 4, 5, 6, 7, 10, 11, 12>>, <<1, 2, 3, 4, 5, 8, 7, 10, 9, 12, 11>> >>
FinderSequence(characters) == ExpandedFinderSequences[(characters - 1) \div 2]

\* The character beside finder f, counted from the check character, has the
\* weights of the row 2 f - 3 or 2 f - 2.
WeightRow(sequence, character) == 2 * sequence[1 + (character \div 2)] - 3 + (character % 2)

ExpandedCharacter(value) ==
  LET g == GroupOf(1..5, ExpandedGroupSums, value)
      rest == value - ExpandedGroupSums[g]
  IN  InterleavedWidths(rest \div ExpandedEvenDivisors[g], rest % ExpandedEvenDivisors[g],
                        ExpandedOddModules[g], 17 - ExpandedOddModules[g], ExpandedWidestOdd[g], TRUE)

\* A check character and the data; every other character is mirrored.
DataCharacters(bits) ==
  [i \in 1..Len(bits) \div 12 |-> ExpandedCharacter(Number(SubSeq(bits, 12 * i - 11, 12 * i)))]
WeightsOf(row) == [element \in 1..8 |-> ExpandedChecksumWeights[8 * row + element]]
DataChecksum(data, sequence) ==
  MapThenSumSet(LAMBDA i : WeightedWidths(data[i], WeightsOf(WeightRow(sequence, i)), 211), DOMAIN data) % 211
WithCheck(data) ==
  <<ExpandedCharacter(211 * (Len(data) - 3) + DataChecksum(data, FinderSequence(Len(data) + 1)))>> \o data
ExpandedSymbol(characters, sequence) ==
  <<1, 1>>
    \o FlattenSeq([b \in DOMAIN sequence |->
         characters[2 * b - 1] \o ExpandedFinder(sequence[b])
           \o (IF 2 * b <= Len(characters) THEN Reverse(characters[2 * b]) ELSE <<>>)])
    \o <<1, 1>>
ExpandedWidths(bits) ==
  ExpandedSymbol(WithCheck(DataCharacters(bits)), FinderSequence(Len(bits) \div 12 + 1))

----------------------------------------------------------------------------
(* Expanded: the command's data *)

Gs1Characters ==
  48..57 \union 65..90 \union 97..122
    \union {32, 33, 34, 37, 38, 39, 36, 42, 43, 44, 45, 46, 47, 58, 59, 60, 61, 62, 63, 95}

\* A brace escapes a separator (1) or a parenthesis that is data; without it a
\* parenthesis is shown only.
IsEscaped(data, i) == i > 1 /\ data[i - 1] = 123
IsSeparator(data, i) == IsEscaped(data, i) /\ data[i] = 49
Parsable(data) ==
  \A i \in DOMAIN data :
    IF data[i] = 123 THEN i < Len(data) /\ data[i + 1] \in {49, 40, 41}
    ELSE data[i] \in Gs1Characters \union {40, 41}
PlacesOf(data, kept) ==
  SelectSeq([i \in DOMAIN data |-> i], LAMBDA i : data[i] # 123 /\ i \in kept)
EncodedData(data) ==
  LET places == PlacesOf(data, {i \in DOMAIN data : IsEscaped(data, i) \/ data[i] \notin {40, 41}})
  IN  [k \in DOMAIN places |-> IF IsSeparator(data, places[k]) THEN FNC1 ELSE data[places[k]]]
ShownData(data) ==
  LET places == PlacesOf(data, {i \in DOMAIN data : ~IsSeparator(data, i)})
  IN  [k \in DOMAIN places |-> data[places[k]]]

EncodeDataBarExpanded(data) ==
  LET plain == EncodedData(data) IN
  IF \/ Len(data) < 2 \/ ~Parsable(data)
     \/ Len(plain) < 2 \/ ~AreDigits(SubSeq(plain, 1, 2))
  THEN {}
  ELSE UNION {Symbol(Elements(ExpandedWidths(bits)), ShownData(data)) : bits \in ExpandedBinary(plain)}

----------------------------------------------------------------------------
(* What a scanner reads: the value of a character is the number of sequences  *)
(* of widths that come before its own, counted one by one                     *)

\* How many sequences of one more element there are with this sum.
OneMore(fewer) ==
  [low \in 1..2, widest \in 1..8 |-> [sum \in 0..19 |->
     MapThenSumSet(LAMBDA w : fewer[low, widest][sum - w], low..(IF sum < widest THEN sum ELSE widest))]]
Sums0 == [low \in 1..2, widest \in 1..8 |-> [sum \in 0..19 |-> IF sum = 0 THEN 1 ELSE 0]]
Sums1 == OneMore(Sums0)
Sums2 == OneMore(Sums1)
Sums3 == OneMore(Sums2)
Sums4 == OneMore(Sums3)
Sums5 == OneMore(Sums4)
Sums6 == OneMore(Sums5)
Sums == <<Sums1, Sums2, Sums3, Sums4, Sums5, Sums6>>

\* Sequences that go on from a prefix; low is 2 where the elements must be wide.
Sequences(sums, widest, sum, needsNarrow) ==
  sums[1, widest][sum] - (IF needsNarrow THEN sums[2, widest][sum] ELSE 0)
Total(widths) == MapThenSumSet(LAMBDA i : widths[i], DOMAIN widths)
Rank(widths, widest, narrow) ==
  MapThenSumSet(LAMBDA i :
      MapThenSumSet(LAMBDA w :
          Sequences(Sums[Len(widths) - i], widest, Total(SubSeq(widths, i, Len(widths))) - w,
                    narrow /\ w # 1 /\ \A k \in 1..i - 1 : widths[k] # 1),
        1..widths[i] - 1),
    1..Len(widths) - 1)

Odd(widths) == [i \in 1..Len(widths) \div 2 |-> widths[2 * i - 1]]
Even(widths) == [i \in 1..Len(widths) \div 2 |-> widths[2 * i]]

\* The group of a character shows in the modules of its odd elements.
ReadWidths(widths, groups, totals, widest, narrowOdd, Value(_, _, _)) ==
  LET g == CHOOSE group \in groups : totals[group] = Total(Odd(widths))
  IN  Value(g, Rank(Odd(widths), widest[g], narrowOdd), Rank(Even(widths), 9 - widest[g], ~narrowOdd))

ReadOutside(widths) ==
  ReadWidths(widths, 1..5, OddModules, WidestOdd, FALSE,
                LAMBDA g, odd, even : GroupSums[g] + odd * EvenOrOddDivisors[g] + even)
ReadInside(widths) ==
  ReadWidths(widths, 6..9, OddModules, WidestOdd, TRUE,
                LAMBDA g, odd, even : GroupSums[g] + even * EvenOrOddDivisors[g] + odd)
ReadLimited(widths) ==
  ReadWidths(widths, 1..7, LimitedOddModules, LimitedWidestOdd, FALSE,
                LAMBDA g, odd, even : LimitedGroupSums[g] + odd * LimitedEvenDivisors[g] + even)
ReadExpanded(widths) ==
  ReadWidths(widths, 1..5, ExpandedOddModules, ExpandedWidestOdd, TRUE,
                LAMBDA g, odd, even : ExpandedGroupSums[g] + odd * ExpandedEvenDivisors[g] + even)

Part(widths, from, count) == SubSeq(widths, from, from + count - 1)
Mirrored(widths, from, count) == Reverse(Part(widths, from, count))

\* The thirteen digits of quotient * divisor + rest.
GtinDigits(quotient, divisor, rest) ==
  LET carry[i \in 0..12] ==
        ((quotient \div 10^(IF i < 8 THEN i ELSE 8)) % 10) * divisor
          + (IF i = 0 THEN rest ELSE carry[i - 1] \div 10)
  IN  [i \in 1..13 |-> carry[13 - i] % 10]

GtinOf(values) ==
  GtinDigits(values[1] * CharacterMultiplier + values[2], PairMultiplier,
             values[3] * CharacterMultiplier + values[4])
ReadOmnidirectional(w) ==
  GtinOf(<<ReadOutside(Part(w, 3, 8)), ReadInside(Mirrored(w, 16, 8)),
           ReadOutside(Mirrored(w, 37, 8)), ReadInside(Part(w, 24, 8))>>)
\* The two finders tell the checksum: all pairs of them but two are used.
OmnidirectionalChecks(w) ==
  LET finders == 9 * (PlaceIn(FinderPatterns, Part(w, 11, 5)) - 1)
                   + PlaceIn(FinderPatterns, Mirrored(w, 32, 5)) - 1
  IN  WeightedWidths(Part(w, 3, 8) \o Mirrored(w, 16, 8) \o Mirrored(w, 37, 8) \o Part(w, 24, 8),
                     ChecksumWeights, 79)
        = Cardinality((0..finders - 1) \ {8, 72}) /\ finders \notin {8, 72}

ReadLimitedGtin(w) ==
  GtinDigits(ReadLimited(Part(w, 3, 14)), LimitedPairMultiplier, ReadLimited(Part(w, 31, 14)))
LimitedChecks(w) ==
  WeightedWidths(Part(w, 3, 14) \o Part(w, 31, 14), LimitedChecksumWeights, 89) + 1
    = PlaceIn(LimitedChecksumSequence,
              21 * Rank(Odd(Part(w, 17, 12)), 3, FALSE) + Rank(Even(Part(w, 17, 12)), 3, FALSE))

\* The characters of an Expanded symbol, the check character first.
ReadCharacters(w) ==
  LET count == CHOOSE n \in 4..22 : Len(w) = 8 * n + 5 * ((n + 1) \div 2) + 4
      first(block) == 21 * block + 3
  IN  [i \in 1..count |->
         ReadExpanded(IF i % 2 = 1 THEN Part(w, first((i - 1) \div 2), 8)
                      ELSE Mirrored(w, first((i - 1) \div 2) + 13, 8))]
DataBits(characters) ==
  FlattenSeq([i \in 1..Len(characters) - 1 |-> Modules(characters[i + 1], 12)])

\* The bytes of a general field that begins at a bit.
ReadField(bits, begin) ==
  LET n == Len(bits)
      digit(value) == IF value = 10 THEN FNC1 ELSE 48 + value
      from[at \in (1..n + 1) \X {"numeric", "alphanumeric", "iso"}] ==
        LET p == at[1]
            other == IF at[2] = "iso" THEN "alphanumeric" ELSE "iso"
            holds(width) == p + width - 1 <= n
            next(width) == Number(SubSeq(bits, p, p + width - 1))
        IN  IF at[2] = "numeric" THEN
              CASE holds(4) /\ next(4) = 0 -> from[<<p + 4, "alphanumeric">>]
                [] holds(7) /\ next(4) # 0 ->
                     <<digit((next(7) - 8) \div 11), digit((next(7) - 8) % 11)>> \o from[<<p + 7, "numeric">>]
                [] holds(4) /\ ~holds(7) /\ next(4) # 0 -> <<digit(next(4) - 1)>>
                [] OTHER -> <<>>
            ELSE
              CASE holds(3) /\ next(3) = 0 -> from[<<p + 3, "numeric">>]
                [] holds(5) /\ next(5) = 4 -> from[<<p + 5, other>>]
                [] holds(5) /\ next(5) = 15 -> <<FNC1>> \o from[<<p + 5, "numeric">>]
                [] holds(5) /\ next(5) \in 5..14 -> <<43 + next(5)>> \o from[<<p + 5, at[2]>>]
                [] at[2] = "alphanumeric" /\ holds(6) /\ next(6) >= 32 ->
                     << IF next(6) < 58 THEN 33 + next(6) ELSE Punctuation[next(6) - 57] >>
                       \o from[<<p + 6, at[2]>>]
                [] at[2] = "iso" /\ holds(7) /\ next(7) \in 64..115 ->
                     << IF next(7) < 90 THEN 1 + next(7) ELSE 7 + next(7) >> \o from[<<p + 7, at[2]>>]
                [] at[2] = "iso" /\ holds(8) /\ next(7) > 115 ->
                     << IsoPunctuation[next(8) - 230] >> \o from[<<p + 8, at[2]>>]
                [] OTHER -> <<>>
  IN  from[<<begin, "numeric">>]

DigitText(value, count) == [i \in 1..count |-> 48 + ((value \div 10^(count - i)) % 10)]
ReadGtin(first, bits, begin) ==
  LET group(i) == Number(Part(bits, begin + 10 * (i - 1), 10))
      gtin == <<first>> \o FlattenSeq([i \in 1..4 |-> DigitText(group(i), 3)])
  IN  <<48, 49>> \o gtin \o <<48 + CheckDigit(Digits(gtin))>>

\* The bytes that the bits of an Expanded symbol stand for.
ReadData(bits) ==
  LET at(begin, count) == Number(Part(bits, begin, count))
      short(unit, decimals, weight) ==
        ReadGtin(57, bits, 6) \o <<51>> \o unit \o <<decimals>> \o DigitText(weight, 6)
      dates == at(49 + 20, 16)
      date == IF dates = 38400 THEN <<>>
              ELSE <<49, 49 + 2 * (at(6, 3) \div 2)>> \o DigitText(dates \div 384, 2)
                     \o DigitText(1 + ((dates % 384) \div 32), 2) \o DigitText(dates % 32, 2)
  IN  CASE bits[2] = 1 -> ReadGtin(48 + at(5, 4), bits, 9) \o ReadField(bits, 49)
        [] at(2, 2) = 0 -> ReadField(bits, 6)
        [] at(2, 4) = 4 -> short(<<49, 48>>, 51, at(46, 15))
        [] at(2, 4) = 5 ->
             IF at(46, 15) < 10000 THEN short(<<50, 48>>, 50, at(46, 15))
             ELSE short(<<50, 48>>, 51, at(46, 15) - 10000)
        [] at(2, 5) = 12 ->
             ReadGtin(57, bits, 9) \o <<51, 57, 50, 48 + at(49, 2)>> \o ReadField(bits, 51)
        [] at(2, 5) = 13 ->
             ReadGtin(57, bits, 9) \o <<51, 57, 51, 48 + at(49, 2)>> \o DigitText(at(51, 10), 3)
               \o ReadField(bits, 61)
        [] at(2, 4) = 7 ->
             ReadGtin(57, bits, 9)
               \o <<51, IF at(6, 3) % 2 = 0 THEN 49 ELSE 50, 48, 48 + (at(49, 20) \div 100000)>>
               \o DigitText(at(49, 20) % 100000, 6) \o date

\* A length is told where the method leaves room for it, and the number of
\* characters by the check character.
LengthIsTold(characters) ==
  LET n == Len(characters)
      bits == DataBits(characters)
      told == CASE bits[2] = 1 -> Part(bits, 3, 2)
                [] Number(Part(bits, 2, 2)) = 0 -> Part(bits, 4, 2)
                [] Number(Part(bits, 2, 4)) = 6 -> Part(bits, 7, 2)
                [] OTHER -> LengthBits(n)
  IN  characters[1] \div 211 = n - 4 /\ told = LengthBits(n)

\* A separator at the end separates nothing.
WithoutEnd(data) ==
  SubSeq(data, 1, Max({0} \union {i \in DOMAIN data : data[i] # FNC1}))
\* A GTIN of digits, the last of which checks the others, if there is one.
GtinHolds(data) ==
  Len(data) >= 16 /\ SubSeq(data, 1, 2) = <<48, 49>> =>
    AreDigits(SubSeq(data, 3, 16)) /\ CheckDigit(Digits(SubSeq(data, 3, 15))) = data[16] - 48
ReadsAs(characters, data) ==
  /\ LengthIsTold(characters)
  /\ GtinHolds(data) => WithoutEnd(ReadData(DataBits(characters))) = WithoutEnd(data)
=============================================================================
