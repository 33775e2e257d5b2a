------------------------------- MODULE Code128 -------------------------------
(* Code 128 with automatically chosen code sets (barcode.rs): a planner works *)
(* backwards over the data for the cheapest code sets, writes the data with   *)
(* explicit markers, and the explicit encoder turns that into symbol values.  *)
EXTENDS Integers, FiniteSetsExt, SequencesExt

CONSTANTS
  Payloads128,  \* the byte strings given to encode_code128_auto
  Gs1Payloads   \* the byte strings given to encode_gs1_128

ASSUME PayloadsAssumption == Payloads128 \union Gs1Payloads \subseteq Seq(0..255)

VARIABLES
  tokens,   \* bytes, Fnc1 and Fnc3
  choices,  \* the planner's rows, for the positions from the last one on
  symbols   \* <<>>, then <<{}>> or the symbol values: <<{values}>>

code128Vars == <<tokens, choices, symbols>>

Fnc1 == 256
Fnc3 == 257

----------------------------------------------------------------------------
(* The planner: the cheapest choice at a position under each code set and     *)
(* FNC4 latch *)

Sets == {"A", "B", "C"}
PlanStates == (Sets \union {"none"}) \X BOOLEAN

Encodes(set, byte) ==
  CASE set = "A" -> byte <= 95
    [] set = "B" -> byte \in 32..127

OneIf(condition) == IF condition THEN 1 ELSE 0
Only(condition, choice) == IF condition THEN <<choice>> ELSE <<>>

\* The row of the positions after this one is in `rows`.
CostFrom(rows, advance, state) ==
  IF advance > Len(rows) THEN 0 ELSE rows[advance][state].cost

Choice128(set, advance, shift, fnc4, upper, cost) ==
  [set |-> set, advance |-> advance, shift |-> shift, fnc4 |-> fnc4,
   upper |-> upper, cost |-> cost]

ControlChoices(rows, token, current, upper) ==
  LET in(set) == Choice128(set, 1, FALSE, 0, upper,
                           1 + OneIf(current # set) + CostFrom(rows, 1, <<set, upper>>))
  IN  <<in("B"), in("A")>> \o Only(token # Fnc3, in("C"))

\* SHIFT keeps the current set, and FNC4 before it may serve one character.
TextChoices(rows, byte, current, upper, set) ==
  LET needsFnc4 == (byte > 127) # upper
      switch == OneIf(current # set)
      mayShift == current \in {"A", "B"} /\ current # set
      kept == CostFrom(rows, 1, <<current, upper>>)
  IN  IF ~Encodes(set, byte % 128) THEN <<>>
      ELSE <<Choice128(set, 1, FALSE, OneIf(needsFnc4), upper,
               1 + OneIf(needsFnc4) + switch + CostFrom(rows, 1, <<set, upper>>))>>
           \o Only(~needsFnc4 /\ mayShift, Choice128(set, 1, TRUE, 0, upper, 2 + kept))
           \o Only(needsFnc4 /\ mayShift, Choice128(set, 1, TRUE, 1, upper, 3 + kept))
           \o Only(needsFnc4, Choice128(set, 1, FALSE, 2, ~upper,
                                3 + switch + CostFrom(rows, 1, <<set, ~upper>>)))

IsDecimal(token) == token \in 48..57
PairChoices(rows, position, current, upper) ==
  Only(/\ position < Len(tokens) /\ IsDecimal(tokens[position])
       /\ IsDecimal(tokens[position + 1]),
       Choice128("C", 2, FALSE, 0, upper,
                 1 + OneIf(current # "C") + CostFrom(rows, 2, <<"C", upper>>)))

FirstOffered(candidates) == candidates[1]
\* The first of the cheapest.
Cheapest(candidates) ==
  LET costs == {candidates[i].cost : i \in DOMAIN candidates}
  IN  candidates[Min({i \in DOMAIN candidates : candidates[i].cost = Min(costs)})]

PlanRow(rows, position) ==
  [state \in PlanStates |->
    LET token == tokens[position]
        current == state[1]
        upper == state[2]
    IN  Cheapest(IF token \in {Fnc1, Fnc3} THEN ControlChoices(rows, token, current, upper)
                 ELSE TextChoices(rows, token, current, upper, "B")
                        \o TextChoices(rows, token, current, upper, "A")
                        \o PairChoices(rows, position, current, upper))]

----------------------------------------------------------------------------
(* Writing the plan with explicit markers *)

Marker(character) == <<123, character>>
SetMarker(set) == Marker(CASE set = "A" -> 65 [] set = "B" -> 66 [] set = "C" -> 67)
Repeated(text, n) == CASE n = 0 -> <<>> [] n = 1 -> text [] n = 2 -> text \o text

WrittenAsIs(token, set) ==
  CASE token = Fnc1 -> Marker(49)
    [] token = Fnc3 -> Marker(51)
    [] OTHER -> <<IF set = "C" THEN token ELSE token % 128>>

\* A brace is doubled; outside set C only the lower half of a byte is written.
Written(token, set) ==
  LET byte == IF set = "C" THEN token ELSE token % 128
  IN  CASE token = Fnc1 -> Marker(49)
        [] token = Fnc3 -> Marker(51)
        [] OTHER -> IF byte = 123 THEN Marker(123) ELSE <<byte>>

\* What a choice writes before the data, and the set it leaves.
Introduction(c, current) ==
  IF c.shift THEN Repeated(Marker(52), c.fnc4) \o Marker(83)
  ELSE (IF current = c.set THEN <<>> ELSE SetMarker(c.set)) \o Repeated(Marker(52), c.fnc4)
Data(data, c, position) ==
  Written(data[position], c.set)
    \o IF c.advance = 2 THEN Written(data[position + 1], c.set) ELSE <<>>
StateAfter(c, current) == <<IF c.shift THEN current ELSE c.set, c.upper>>

\* The place in the plan after this one.
After(rows, at) ==
  LET c == rows[at[1]][at[2]] IN <<at[1] + c.advance, StateAfter(c, at[2][1])>>
PlanPlaces(data) == (1..Len(data) + 1) \X PlanStates
Beginning == <<1, <<"none", FALSE>>>>

Explicit(data, rows) ==
  LET write[at \in PlanPlaces(data)] ==
        IF at[1] > Len(data) THEN <<>>
        ELSE Introduction(rows[at[1]][at[2]], at[2][1]) \o Data(data, rows[at[1]][at[2]], at[1])
               \o write[After(rows, at)]
  IN  write[Beginning]

----------------------------------------------------------------------------
(* The explicit encoder *)

SetValue == [A |-> 101, B |-> 100, C |-> 99]
StartValue == [A |-> 103, B |-> 104, C |-> 105]
SetOfMarker(byte) == <<"A", "B", "C">>[byte - 64]
Other(set) == IF set = "A" THEN "B" ELSE "A"

\* {} or the one value of the character in the set.
CharacterValue(set, byte) ==
  CASE set = "A" /\ byte <= 31 -> {byte + 64}
    [] set = "A" /\ byte \in 32..95 -> {byte - 32}
    [] set = "B" /\ byte \in 32..127 -> {byte - 32}
    [] OTHER -> {}

\* One encoding step: the values it adds ({} is an error), the bytes it takes
\* and the set it leaves.
Taken(values, advance, set) == [values |-> values, advance |-> advance, set |-> set]
Pushed(value, advance, set) == Taken({<<value>>}, advance, set)
Character(set, byte, advance) == Taken({<<v>> : v \in CharacterValue(set, byte)}, advance, set)

EncodeMarker(text, i, set) ==
  LET control == text[i + 1]
  IN  IF i = Len(text) THEN Taken({}, 2, set)
      ELSE CASE control \in 65..67 ->
             Pushed(SetValue[SetOfMarker(control)], 2, SetOfMarker(control))
        [] control = 49 -> Pushed(102, 2, set)
        [] control = 50 -> Pushed(97, 2, set)
        [] control = 51 -> Pushed(96, 2, set)
        [] control = 52 /\ set # "C" -> Pushed(SetValue[set], 2, set)
        [] control = 123 -> Character(set, 123, 2)
        [] control = 83 /\ set # "C" /\ i + 2 <= Len(text) ->
             Taken({<<98, v>> : v \in CharacterValue(Other(set), text[i + 2])}, 3, set)
        [] OTHER -> Taken({}, 2, set)

EncodePair(text, i) ==
  IF i < Len(text) /\ IsDecimal(text[i]) /\ IsDecimal(text[i + 1])
  THEN Pushed((text[i] - 48) * 10 + text[i + 1] - 48, 2, "C")
  ELSE Taken({}, 2, "C")

EncodeStep(text, i, set) ==
  CASE text[i] = 123 -> EncodeMarker(text, i, set)
    [] text[i] # 123 /\ set = "C" -> EncodePair(text, i)
    [] OTHER -> Character(set, text[i], 1)

\* Position i of the checksum weighs i, the start value 1.
Checksum(values) ==
  (values[1] + MapThenSumSet(LAMBDA i : (i - 1) * values[i], 2..Len(values))) % 103

EncodeCode128(text) ==
  LET encode[at \in (1..Len(text) + 3) \X Sets] ==
        LET step == EncodeStep(text, at[1], at[2])
        IN  IF at[1] > Len(text) THEN {<<>>}
            ELSE UNION {{v \o rest : rest \in encode[<<at[1] + step.advance, step.set>>]}
                          : v \in step.values}
      started == SetOfMarker(text[2])
  IN  IF Len(text) < 2 \/ text[1] # 123 \/ text[2] \notin 65..67 THEN {}
      ELSE {<<StartValue[started]>> \o values \o
              <<Checksum(<<StartValue[started]>> \o values), 106>>
             : values \in encode[<<3, started>>] \ {<<>>}}

----------------------------------------------------------------------------
(* The tokens of a GS1-128 payload: { escapes, parentheses and spaces are for  *)
(* the reader's eye, and * asks for the check digit of its field.              *)

DigitSum(digits) ==
  LET sum[n \in 0..Len(digits)] ==
        IF n = 0 THEN 0
        ELSE sum[n - 1] + (digits[n] - 48) * (IF (Len(digits) - n) % 2 = 0 THEN 3 ELSE 1)
  IN  sum[Len(digits)]
Modulus10(digits) == 48 + ((10 - (DigitSum(digits) % 10)) % 10)

\* start and separated are check_digit_data_start and separator_seen.
Gs1Start == [tokens |-> <<Fnc1>>, start |-> 0, separated |-> FALSE, escaped |-> FALSE, ok |-> TRUE]

Gs1Escaped(g, byte) ==
  CASE byte = 49 -> [g EXCEPT !.tokens = Append(@, Fnc1), !.start = 0,
                              !.separated = FALSE, !.escaped = FALSE]
    [] byte = 51 -> [g EXCEPT !.tokens = Append(@, Fnc3), !.escaped = FALSE]
    [] byte \in {40, 41, 42, 123} -> [g EXCEPT !.tokens = Append(@, byte), !.escaped = FALSE]
    [] OTHER -> [g EXCEPT !.ok = FALSE]

Gs1CheckDigit(g) ==
  LET field == SubSeq(g.tokens, g.start, Len(g.tokens))
  IN  IF g.start # 0 /\ field # <<>> /\ \A i \in DOMAIN field : IsDecimal(field[i])
      THEN [g EXCEPT !.tokens = Append(@, Modulus10(field))]
      ELSE [g EXCEPT !.ok = FALSE]

Gs1Byte(g, byte) ==
  CASE ~g.ok -> g
    [] g.ok /\ g.escaped -> Gs1Escaped(g, byte)
    [] g.ok /\ ~g.escaped /\ byte = 123 -> [g EXCEPT !.escaped = TRUE]
    [] g.ok /\ ~g.escaped /\ byte \in {41, 32} ->
         IF g.separated THEN g
         ELSE [g EXCEPT !.start = Len(g.tokens) + 1, !.separated = TRUE]
    [] g.ok /\ ~g.escaped /\ byte = 42 -> Gs1CheckDigit(g)
    [] g.ok /\ ~g.escaped /\ byte \in 0..127 \ {32, 40, 41, 42, 123} ->
         [g EXCEPT !.tokens = Append(@, byte)]
    [] OTHER -> g

Gs1Tokens(data) ==
  LET after[n \in 0..Len(data)] ==
        IF n = 0 THEN Gs1Start ELSE Gs1Byte(after[n - 1], data[n])
      parsed == after[Len(data)]
  IN  IF /\ Len(data) >= 2 /\ \A i \in DOMAIN data : data[i] <= 127
         /\ parsed.ok /\ ~parsed.escaped /\ Len(parsed.tokens) > 1
      THEN {parsed.tokens} ELSE {}

----------------------------------------------------------------------------

Code128Init ==
  /\ tokens \in (Payloads128 \ {<<>>}) \union UNION {Gs1Tokens(data) : data \in Gs1Payloads}
  /\ choices = <<>>
  /\ symbols = <<>>

\* One turn of the backward loop.
PlanPosition ==
  /\ Len(choices) < Len(tokens)
  /\ choices' = <<PlanRow(choices, Len(tokens) - Len(choices))>> \o choices
  /\ UNCHANGED <<tokens, symbols>>

EncodePlan ==
  /\ Len(choices) = Len(tokens)
  /\ symbols = <<>>
  /\ symbols' = <<EncodeCode128(Explicit(tokens, choices))>>
  /\ UNCHANGED <<tokens, choices>>

Code128Next == PlanPosition \/ EncodePlan
Code128Spec == Code128Init /\ [][Code128Next]_code128Vars

----------------------------------------------------------------------------
(* What a scanner reads *)

\* The reader's code set, its FNC4 latch, what the next symbol is subject to,
\* and what it has read.
Reader(set) == [set |-> set, latched |-> FALSE, fnc4 |-> FALSE, shifted |-> FALSE, read |-> <<>>]

ReadCharacter(r, set, value) ==
  LET low == IF set = "A" /\ value > 63 THEN value - 64 ELSE value + 32
      upper == r.latched # r.fnc4
  IN  [r EXCEPT !.read = Append(@, IF upper THEN low + 128 ELSE low),
                !.fnc4 = FALSE, !.shifted = FALSE]

ReadFnc4(r) ==
  IF r.fnc4 THEN [r EXCEPT !.latched = ~@, !.fnc4 = FALSE] ELSE [r EXCEPT !.fnc4 = TRUE]

ReadSymbol(r, value) ==
  LET set == IF r.shifted THEN Other(r.set) ELSE r.set
  IN  CASE value = 102 -> [r EXCEPT !.read = Append(@, Fnc1)]
        [] value < 100 /\ set = "C" ->
             [r EXCEPT !.read = @ \o <<48 + value \div 10, 48 + (value % 10)>>]
        [] value < 96 /\ set # "C" -> ReadCharacter(r, set, value)
        [] value = 96 /\ set # "C" -> [r EXCEPT !.read = Append(@, Fnc3)]
        [] value = 98 /\ set # "C" -> [r EXCEPT !.shifted = TRUE]
        [] value \in 99..101 /\ set # "C" /\ value = SetValue[set] -> ReadFnc4(r)
        [] OTHER -> [r EXCEPT !.set = CHOOSE s \in Sets : SetValue[s] = value]

ReadAll(r, values) ==
  LET after[n \in 0..Len(values)] ==
        IF n = 0 THEN r ELSE ReadSymbol(after[n - 1], values[n])
  IN  after[Len(values)]
Scanned(values) ==
  ReadAll(Reader(CHOOSE s \in Sets : StartValue[s] = values[1]),
          SubSeq(values, 2, Len(values) - 2)).read

\* Whatever code sets, shifts and latches were planned: the symbol exists, a
\* scanner reads the data out of it, and its checksum holds (encode_code128_auto
\* and encode_gs1_128 expect the explicit encoder to accept every plan).
Code128ScansBack ==
  symbols # <<>> =>
    \E values \in symbols[1] :
      /\ Scanned(values) = tokens
      /\ Checksum(Front(Front(values))) = values[Len(values) - 1]

\* The places the plan is followed through.
Followed(data, rows) ==
  LET from[at \in PlanPlaces(data)] ==
        IF at[1] > Len(data) THEN {} ELSE {at} \union from[After(rows, at)]
  IN  from[Beginning]

\* The brace is written twice, and SHIFT serves only the first.
BraceBehindShift(data, rows) ==
  \E at \in Followed(data, rows) : rows[at[1]][at[2]].shift /\ data[at[1]] % 128 = 123

\* That is the only way the encoder loses the data.
UnshiftedScansBack == symbols # <<>> => BraceBehindShift(tokens, choices) \/ Code128ScansBack

\* The symbols that may come next for a reader that is to read the tokens.
Candidates(r) ==
  IF Len(r.read) = Len(tokens) THEN {}
  ELSE LET next == tokens[Len(r.read) + 1] % 128
           pair == (next - 48) * 10 + tokens[Min({Len(r.read) + 2, Len(tokens)})] - 48
       IN  ({next - 32, next + 64, pair} \union (96..102 \ {97})) \intersect 0..102

ReadersAfter(readers) ==
  {reader \in UNION {{ReadSymbol(r, value) : value \in Candidates(r)} : r \in readers} :
     IsPrefix(reader.read, tokens)}

\* The fewest symbols after the start with which a scanner can read the tokens.
FewestSymbols ==
  LET readers[n \in 0..2 * Len(tokens)] ==
        IF n = 0 THEN {Reader(set) : set \in {"A", "B", "C"}} ELSE ReadersAfter(readers[n - 1])
  IN  Min({n \in 0..2 * Len(tokens) : \E r \in readers[n] : r.read = tokens})

\* For data without bytes of the upper half no sequence of symbols is shorter
\* than the planned one: plan_code128_tokens looks for the narrowest barcode.
Code128IsShortest ==
  (symbols # <<>> /\ \A i \in DOMAIN tokens : tokens[i] \notin 128..255) =>
    \A values \in symbols[1] : Len(values) - 3 = FewestSymbols
=============================================================================
