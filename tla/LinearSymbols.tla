---------------------------- MODULE LinearSymbols ----------------------------
(* The bar codes without code sets (barcode.rs): EAN and UPC with their check  *)
(* digits and parities, UPC-E and its zero suppression, Code 93 with its shift *)
(* pairs and two check values, and the framing of Code 39, ITF and Codabar.    *)
EXTENDS DataBar

CONSTANT Barcodes  \* the symbology and the data of each barcode command

VARIABLES
  barcode,  \* the command
  encoded   \* <<>>, then <<{}>> (an error) or <<{symbol}>>

linearVars == <<barcode, encoded>>

Completed(digits, length) ==
  IF Len(digits) = length - 1 THEN Append(digits, CheckDigit(digits)) ELSE digits

----------------------------------------------------------------------------
(* EAN and UPC: seven modules a digit *)

LeftOdd == <<13, 25, 19, 61, 35, 49, 47, 59, 55, 11>>
LeftEven == <<39, 51, 27, 33, 29, 57, 5, 17, 9, 23>>
Right == <<114, 102, 108, 66, 92, 78, 80, 68, 72, 116>>
\* One bit a digit: 1 takes the digit from LeftEven.
Ean13Parity == <<0, 11, 13, 14, 19, 25, 28, 21, 22, 26>>
UpcEParity == <<56, 52, 50, 49, 44, 38, 35, 42, 41, 37>>

Coded(table, digits) == FlattenSeq([i \in DOMAIN digits |-> Modules(table[digits[i] + 1], 7)])
CodedByParity(parity, digits) ==
  FlattenSeq([i \in DOMAIN digits |->
    Modules((IF Modules(parity, 6)[i] = 1 THEN LeftEven ELSE LeftOdd)[digits[i] + 1], 7)])
Guard == <<1, 0, 1>>
Centre == <<0, 1, 0, 1, 0>>

Ean13(digits) ==
  Guard \o CodedByParity(Ean13Parity[digits[1] + 1], SubSeq(digits, 2, 7)) \o Centre
    \o Coded(Right, SubSeq(digits, 8, 13)) \o Guard
Ean8(digits) ==
  Guard \o Coded(LeftOdd, SubSeq(digits, 1, 4)) \o Centre
    \o Coded(Right, SubSeq(digits, 5, 8)) \o Guard

EncodeRetail(length, data, modules, shown) ==
  IF Len(data) \notin {length - 1, length} \/ ~AreDigits(data) THEN {}
  ELSE Symbol(modules, shown)
EncodeEan13(data) ==
  LET digits == Completed(Digits(data), 13) IN EncodeRetail(13, data, Ean13(digits), digits)
EncodeEan8(data) ==
  LET digits == Completed(Digits(data), 8) IN EncodeRetail(8, data, Ean8(digits), digits)
\* UPC-A is EAN-13 after a zero that is not shown.
EncodeUpcA(data) ==
  LET digits == Completed(<<0>> \o Digits(data), 13)
  IN  EncodeRetail(12, data, Ean13(digits), Tail(digits))

\* The eleven digits that six stand for.
Expand(system, c) ==
  <<system>> \o
  CASE c[6] <= 2 -> <<c[1], c[2], c[6], 0, 0, 0, 0, c[3], c[4], c[5]>>
    [] c[6] = 3 -> <<c[1], c[2], c[3], 0, 0, 0, 0, 0, c[4], c[5]>>
    [] c[6] = 4 -> <<c[1], c[2], c[3], c[4], 0, 0, 0, 0, 0, c[5]>>
    [] c[6] >= 5 -> <<c[1], c[2], c[3], c[4], c[5], 0, 0, 0, 0, c[6]>>

\* The six digits that ten shorten to: {} or one sequence.
Compress(d) ==
  LET zeros(from, to) == \A i \in from..to : d[i] = 0
  IN  CASE d[3] <= 2 /\ zeros(4, 7) -> {<<d[1], d[2], d[8], d[9], d[10], d[3]>>}
        [] d[3] >= 3 /\ zeros(4, 8) -> {<<d[1], d[2], d[3], d[9], d[10], 3>>}
        [] d[4] # 0 /\ zeros(5, 9) -> {<<d[1], d[2], d[3], d[4], d[10], 4>>}
        [] d[5] # 0 /\ zeros(6, 9) /\ d[10] >= 5 -> {<<d[1], d[2], d[3], d[4], d[5], d[10]>>}
        [] OTHER -> {}

\* A check digit that comes with the data is taken as it is.
EncodeUpcE(data) ==
  LET d == Digits(data)
      long == Len(data) \in {11, 12}
      compact == CASE Len(data) = 6 -> {d}
                   [] Len(data) \in {7, 8} -> {SubSeq(d, 2, 7)}
                   [] long -> Compress(SubSeq(d, 2, 11))
      system == IF Len(data) = 6 THEN 0 ELSE d[1]
      check(c) == IF Len(data) \in {8, 12} THEN d[Len(d)] ELSE CheckDigit(Expand(system, c))
  IN  IF Len(data) \notin {6, 7, 8, 11, 12} \/ ~AreDigits(data) \/ system # 0 THEN {}
      ELSE UNION {Symbol(Guard \o CodedByParity(UpcEParity[check(c) + 1], c) \o <<0, 1, 0, 1, 0, 1>>,
                         <<system>> \o c \o <<check(c)>>) : c \in compact}

----------------------------------------------------------------------------
(* Code 93: the modules of a value are left out *)

Shifted(shift, byte, first, letter) == <<shift, byte - first + letter - 55>>
DirectValue(byte) ==
  CASE byte \in 48..57 -> {byte - 48}
    [] byte \in 65..90 -> {byte - 55}
    [] byte \in {45, 46, 32, 36, 47, 43, 37} ->
         {35 + CHOOSE i \in 1..7 : <<45, 46, 32, 36, 47, 43, 37>>[i] = byte}
    [] OTHER -> {}

Code93Values(byte) ==
  CASE DirectValue(byte) # {} -> <<CHOOSE v \in DirectValue(byte) : TRUE>>
    [] byte = 0 -> Shifted(44, byte, 0, 85)
    [] byte \in 1..26 -> Shifted(43, byte, 1, 65)
    [] byte \in 27..31 -> Shifted(44, byte, 27, 65)
    [] byte \in {33, 34, 35} -> Shifted(45, byte, 33, 65)
    [] byte \in 38..42 -> Shifted(45, byte, 38, 70)
    [] byte = 44 -> Shifted(45, byte, 44, 76)
    [] byte = 58 -> Shifted(45, byte, 58, 90)
    [] byte \in 59..63 -> Shifted(44, byte, 59, 70)
    [] byte = 64 -> Shifted(44, byte, 64, 86)
    [] byte \in 91..95 -> Shifted(44, byte, 91, 75)
    [] byte = 96 -> Shifted(44, byte, 96, 87)
    [] byte \in 97..122 -> Shifted(46, byte, 97, 65)
    [] byte \in 123..127 -> Shifted(44, byte, 123, 80)

CheckValueOneLate(values, largest) ==
  MapThenSumSet(LAMBDA i : values[i] * (1 + ((Len(values) - i) % (largest + 1))), DOMAIN values) % 47

\* Weights run from 1 to the largest and start again, from the right.
CheckValue(values, largest) ==
  MapThenSumSet(LAMBDA i : values[i] * (1 + ((Len(values) - i) % largest)), DOMAIN values) % 47

StartStop93 == 47
EncodeCode93(data) ==
  IF data = <<>> \/ \E i \in DOMAIN data : data[i] > 127 THEN {}
  ELSE LET values == FlattenSeq([i \in DOMAIN data |-> Code93Values(data[i])])
           c == Append(values, CheckValue(values, 20))
       IN  Symbol(<<StartStop93>> \o Append(c, CheckValue(c, 15)) \o <<StartStop93>>, values)

----------------------------------------------------------------------------
(* Code 39, Codabar and ITF: the elements of a character are left out, those  *)
(* of an ITF digit are narrow (0) or wide (1) *)

Code39Characters == (48..57) \union (65..90) \union {45, 46, 32, 36, 47, 43, 37, 42}
EncodeCode39(data) ==
  IF \/ data = <<>> \/ \E i \in DOMAIN data : data[i] \notin Code39Characters
     \/ \E i \in 2..Len(data) - 1 : data[i] = 42
  THEN {}
  ELSE Symbol((IF Head(data) = 42 THEN <<>> ELSE <<42>>) \o data
                \o (IF Last(data) = 42 THEN <<>> ELSE <<42>>), data)

CodabarGuards == 65..68 \union 97..100
CodabarCharacters == 48..57 \union {45, 36, 58, 47, 46, 43}
EncodeCodabar(data) ==
  IF /\ Len(data) >= 2 /\ {Head(data), Last(data)} \subseteq CodabarGuards
     /\ \A i \in 2..Len(data) - 1 : data[i] \in CodabarCharacters
  THEN Symbol(data, data) ELSE {}

ItfElements == <<6, 17, 9, 24, 5, 20, 12, 3, 18, 10>>
ItfDigit(byte) == Modules(ItfElements[byte - 47], 5)
\* The bars of a pair are its first digit, the spaces between them its second.
ItfPair(bars, spaces) == FlattenSeq([i \in 1..5 |-> <<ItfDigit(bars)[i], ItfDigit(spaces)[i]>>])
EncodeItf(data) ==
  IF Len(data) < 2 \/ Len(data) % 2 # 0 \/ ~AreDigits(data) THEN {}
  ELSE Symbol(<<0, 0, 0, 0>>
                \o FlattenSeq([i \in 1..Len(data) \div 2 |-> ItfPair(data[2 * i - 1], data[2 * i])])
                \o <<1, 0, 0>>, data)

----------------------------------------------------------------------------

LinearSystems == {"EAN-13", "EAN-8", "UPC-A", "UPC-E", "Code 39", "Codabar", "ITF", "Code 93"}
LinearInit == barcode \in Barcodes /\ encoded = <<>>

EncodeLinear ==
  LET data == barcode.data IN
  /\ encoded = <<>>
  /\ encoded' = << CASE barcode.system = "UPC-A" -> EncodeUpcA(data)
                     [] barcode.system = "UPC-E" -> EncodeUpcE(data)
                     [] barcode.system = "EAN-13" -> EncodeEan13(data)
                     [] barcode.system = "EAN-8" -> EncodeEan8(data)
                     [] barcode.system = "Code 39" -> EncodeCode39(data)
                     [] barcode.system = "ITF" -> EncodeItf(data)
                     [] barcode.system = "Codabar" -> EncodeCodabar(data)
                     [] barcode.system = "Code 93" -> EncodeCode93(data)
                     [] barcode.system = "DataBar" -> EncodeDataBarOmnidirectional(data)
                     [] barcode.system = "DataBar Limited" -> EncodeDataBarLimited(data)
                     [] barcode.system = "DataBar Expanded" -> EncodeDataBarExpanded(data) >>
  /\ UNCHANGED barcode

LinearSpec == LinearInit /\ [][EncodeLinear]_linearVars

----------------------------------------------------------------------------
(* What a scanner reads *)

Group(modules, from, i) == Number(SubSeq(modules, from + 7 * (i - 1), from + 7 * i - 1))
\* The digit of a group of modules, and whether its parity is even.
ReadDigit(group, tables) == CHOOSE d \in 0..9 : \E t \in tables : t[d + 1] = group
IsEven(group) == group \in Range(LeftEven)
Lefts(modules, count) ==
  [i \in 1..count |-> ReadDigit(Group(modules, 4, i), {LeftOdd, LeftEven})]
Rights(modules, from, count) == [i \in 1..count |-> ReadDigit(Group(modules, from, i), {Right})]
ReadParity(modules, table) ==
  CHOOSE d \in 0..9 : table[d + 1] =
    Number([i \in 1..6 |-> IF IsEven(Group(modules, 4, i)) THEN 1 ELSE 0])
ReadEan13(modules) ==
  <<ReadParity(modules, Ean13Parity)>> \o Lefts(modules, 6) \o Rights(modules, 51, 6)
ReadEan8(modules) == Lefts(modules, 4) \o Rights(modules, 37, 4)
ReadUpcE(modules) == Expand(0, Lefts(modules, 6)) \o <<ReadParity(modules, UpcEParity)>>

\* The full ASCII table of Code 93, from the shift and the letter's place.
ReadPair(shift, letter) ==
  CASE shift = 43 -> letter
    [] shift = 44 /\ letter <= 20 -> 26 + letter + 27 * ((letter - 1) \div 5)
    [] shift = 44 /\ letter > 20 -> <<0, 64, 96>>[letter - 20]
    [] shift = 45 -> IF letter = 26 THEN 58 ELSE 32 + letter
    [] shift = 46 -> 96 + letter
ReadValue(value) ==
  CHOOSE byte \in 0..127 : DirectValue(byte) = {value}
\* A shift waits for its letter.
Read93(r, value) ==
  CASE r.shift # 0 -> [read |-> Append(r.read, ReadPair(r.shift, value - 9)), shift |-> 0]
    [] r.shift = 0 /\ value > 42 -> [r EXCEPT !.shift = value]
    [] OTHER -> [r EXCEPT !.read = Append(@, ReadValue(value))]
ReadCode93(symbol) ==
  FoldLeft(Read93, [read |-> <<>>, shift |-> 0], SubSeq(symbol, 2, Len(symbol) - 3)).read

\* The weights of a check value, taken off one by one.
Weigh(value, w, largest) ==
  [sum |-> w.sum + w.weight * value, weight |-> IF w.weight = largest THEN 1 ELSE w.weight + 1]
Weighed(values, largest) ==
  FoldRight(LAMBDA value, w : Weigh(value, w, largest), values, [sum |-> 0, weight |-> 1]).sum
Checks93Hold(symbol) ==
  LET n == Len(symbol) IN
  /\ symbol[n - 2] = Weighed(SubSeq(symbol, 2, n - 3), 20) % 47
  /\ symbol[n - 1] = Weighed(SubSeq(symbol, 2, n - 2), 15) % 47

\* The widths of every tenth element on, in pairs of a bar and a space.
ReadItf(elements) ==
  LET digit(i, offset) ==
        48 + ReadDigit(Number([k \in 1..5 |-> elements[4 + 10 * (i - 1) + 2 * k - 1 + offset]]),
                       {ItfElements})
  IN  FlattenSeq([i \in 1..(Len(elements) - 7) \div 10 |-> <<digit(i, 0), digit(i, 1)>>])

ChecksOut(digits) == (WeightedSum(Front(digits)) + Last(digits)) % 10 = 0

\* A scanner reads the given digits and the shown ones, with a check digit that
\* holds unless the data brought its own.
RetailReads(read, data, shown) ==
  /\ IsPrefix(Digits(data), read) /\ (Len(data) < Len(read) => ChecksOut(read))
  /\ shown = read

\* Every barcode that is printed can be scanned, and says what was sent and what
\* is shown next to it: for UPC-E the digits before the zeros were left out.
\* Code 39 data of a lone asterisk, which is printed as its own start and stop,
\* is the exception.
LinearScansBack ==
  encoded # <<>> => \A symbol \in encoded[1] :
    LET data == barcode.data
        modules == symbol.modules
    IN  CASE barcode.system \notin LinearSystems -> TRUE
          [] barcode.system = "EAN-13" -> RetailReads(ReadEan13(modules), data, symbol.hri)
          [] barcode.system = "EAN-8" -> RetailReads(ReadEan8(modules), data, symbol.hri)
          [] barcode.system = "UPC-A" ->
               RetailReads(ReadEan13(modules), <<48>> \o data, <<0>> \o symbol.hri)
          [] barcode.system = "UPC-E" ->
               /\ Len(data) \in {11, 12} => IsPrefix(Digits(data), ReadUpcE(modules))
               /\ Len(data) \in {6, 7, 11} => ChecksOut(ReadUpcE(modules))
               /\ Expand(0, SubSeq(symbol.hri, 2, 7)) \o <<symbol.hri[8]>> = ReadUpcE(modules)
          [] barcode.system = "Code 93" -> ReadCode93(modules) = data /\ Checks93Hold(modules)
          [] barcode.system = "ITF" -> ReadItf(modules) = data
          [] barcode.system = "Code 39" ->
               data # <<42>> =>
                 /\ Len(modules) >= 2 /\ {i \in DOMAIN modules : modules[i] = 42} = {1, Len(modules)}
                 /\ SelectSeq(data, LAMBDA c : c # 42) = SubSeq(modules, 2, Len(modules) - 1)
          [] barcode.system = "Codabar" ->
               {i \in DOMAIN modules : modules[i] \in CodabarGuards} = {1, Len(modules)}

\* Every DataBar that is printed can be scanned, and says what was sent and is
\* shown: the elements of every character, laid out and mirrored, give back its
\* value; the checksum and the length it tells are those of the symbol; and the
\* bits, packed by fourteen methods and three modes, give back the data.  The
\* check digit of a GTIN is the scanner's own.
DataBarScansBack ==
  encoded # <<>> => \A symbol \in encoded[1] :
    LET widths == symbol.modules
        gtin == Digits(SubSeq(symbol.hri, 5, 17))
    IN  CASE barcode.system = "DataBar" ->
               ReadOmnidirectional(widths) = gtin /\ OmnidirectionalChecks(widths)
          [] barcode.system = "DataBar Limited" ->
               ReadLimitedGtin(widths) = gtin /\ LimitedChecks(widths)
          [] barcode.system = "DataBar Expanded" ->
               ReadsAs(ReadCharacters(widths), EncodedData(barcode.data))
          [] OTHER -> TRUE
=============================================================================
