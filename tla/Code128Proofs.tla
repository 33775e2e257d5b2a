--------------------------- MODULE Code128Proofs ---------------------------
(***************************************************************************)
(* Theorems about Code 128 with planned code sets, for any data: what a    *)
(* plan writes, the explicit encoder accepts, and a scanner reads it back, *)
(* unless the plan puts a brace behind SHIFT.                              *)
(***************************************************************************)
EXTENDS Code128, SequenceTheorems, FiniteSetTheorems, WellFoundedInduction, TLAPS

-----------------------------------------------------------------------------
(* Numbers.                                                                *)

Less == {pair \in Nat \X Nat : pair[1] < pair[2]}

LEMMA LeastNumber ==
  ASSUME NEW numbers \in SUBSET Nat, numbers # {}
  PROVE  \E n \in numbers : \A k \in numbers : n <= k
<1>1. IsWellFoundedOn(Less, Nat)
  BY NatLessThanWellFounded DEF OpToRel, Less
<1>2. PICK n \in numbers : \A k \in numbers : ~ (<<k, n>> \in Less)
  BY <1>1, WFMin
<1>3. \A k \in numbers : ~ (k < n)
  BY <1>2 DEF Less
<1> QED BY <1>3

\* Induction up to a number, for a property given as the set of numbers that have it.
LEMMA UpTo ==
  ASSUME NEW N \in Nat, NEW P, 0 \in P, \A n \in 1..N : n - 1 \in P => n \in P
  PROVE  \A n \in 0..N : n \in P
<1> DEFINE wrong == {n \in 0..N : n \notin P}
<1>1. CASE wrong = {}
  BY <1>1
<1>2. CASE wrong # {}
  <2>1. PICK n \in wrong : \A k \in wrong : n <= k
    <3>1. wrong \in SUBSET Nat
      OBVIOUS
    <3> HIDE DEF wrong
    <3> QED BY <1>2, <3>1, LeastNumber
  <2>2. n \in 1..N /\ n - 1 \in 0..N /\ n - 1 \notin wrong
    BY <2>1
  <2> QED BY <2>1, <2>2
<1> QED BY <1>1, <1>2

\* Induction down from a number.
LEMMA DownFrom ==
  ASSUME NEW N \in Nat, NEW P, N \in P, \A n \in 1..N : n \in P => n - 1 \in P
  PROVE  \A n \in 0..N : n \in P
<1> DEFINE Q == {n \in 0..N : N - n \in P}
<1>1. 0 \in Q
  OBVIOUS
<1>2. ASSUME NEW n \in 1..N, n - 1 \in Q PROVE n \in Q
  <2>1. N - (n - 1) \in P /\ N - (n - 1) \in 1..N
    BY <1>2
  <2>2. (N - (n - 1)) - 1 \in P
    BY <2>1
  <2>3. (N - (n - 1)) - 1 = N - n
    OBVIOUS
  <2> QED BY <2>2, <2>3
<1>3. \A n \in 0..N : n \in Q
  <2> HIDE DEF Q
  <2> QED BY <1>1, <1>2, UpTo
<1>4. ASSUME NEW n \in 0..N PROVE n \in P
  <2>1. N - n \in Q
    BY <1>3
  <2>2. N - (N - n) = n
    OBVIOUS
  <2> QED BY <2>1, <2>2
<1> QED BY <1>4

LEMMA MinOfNumbers ==
  ASSUME NEW numbers \in SUBSET Nat, numbers # {}
  PROVE  Min(numbers) \in numbers /\ \A k \in numbers : Min(numbers) <= k
<1>1. \E n \in numbers : \A k \in numbers : n <= k
  BY LeastNumber
<1> QED BY <1>1 DEF Min

-----------------------------------------------------------------------------
(* The planner: every row holds choices the writer can follow.             *)

Choice == [set : Sets, advance : 1..2, shift : BOOLEAN, fnc4 : 0..2, upper : BOOLEAN, cost : Nat]
Bytes == 0..255
Tokens == Bytes \union {Fnc1, Fnc3}

\* FNC4 serves one character, or two of them turn the half that is in force.
Fnc4Serves(c, byte, upper) ==
  \/ c.fnc4 = 0 /\ c.upper = upper /\ (byte > 127 <=> upper)
  \/ c.fnc4 = 1 /\ c.upper = upper /\ (byte > 127 <=> ~upper)
  \/ c.fnc4 = 2 /\ c.upper = ~upper /\ (byte > 127 <=> ~upper) /\ ~c.shift

ControlChoice(c, token, upper) ==
  /\ token \in {Fnc1, Fnc3} /\ (token = Fnc3 => c.set # "C")
  /\ c.advance = 1 /\ ~c.shift /\ c.fnc4 = 0 /\ c.upper = upper
TextChoice(c, token, current, upper) ==
  /\ token \in Bytes /\ c.set \in {"A", "B"} /\ Encodes(c.set, token % 128)
  /\ c.advance = 1 /\ Fnc4Serves(c, token, upper)
  /\ c.shift => current \in {"A", "B"} /\ current # c.set
PairChoice(c, data, p, upper) ==
  /\ p < Len(data) /\ IsDecimal(data[p]) /\ IsDecimal(data[p + 1])
  /\ c.set = "C" /\ c.advance = 2 /\ ~c.shift /\ c.fnc4 = 0 /\ c.upper = upper

\* What may be chosen at a position.
Sensible(data, p, current, upper) ==
  {c \in Choice : \/ ControlChoice(c, data[p], upper)
                  \/ TextChoice(c, data[p], current, upper)
                  \/ PairChoice(c, data, p, upper)}

LEMMA CheapestIsOffered ==
  ASSUME NEW S, \A c \in S : c.cost \in Nat, NEW candidates \in Seq(S), candidates # <<>>
  PROVE  Cheapest(candidates) \in S
<1> DEFINE costs == {candidates[i].cost : i \in DOMAIN candidates}
<1>1. DOMAIN candidates = 1..Len(candidates) /\ Len(candidates) \in Nat \ {0}
  <2>1. DOMAIN candidates = 1..Len(candidates)
    BY LenProperties
  <2>2. Len(candidates) \in Nat \ {0}
    BY EmptySeq
  <2> QED BY <2>1, <2>2
<1>2. \A i \in DOMAIN candidates : candidates[i] \in S
  BY <1>1, ElementOfSeq
<1>3. costs \in SUBSET Nat /\ costs # {}
  BY <1>1, <1>2
<1>4. PICK lowest : lowest = Min(costs) /\ lowest \in costs
  <2> HIDE DEF costs
  <2> QED BY <1>3, MinOfNumbers
<1> DEFINE cheap == {i \in DOMAIN candidates : candidates[i].cost = lowest}
<1>5. cheap \in SUBSET Nat
  BY <1>1
<1>6. cheap # {}
  BY <1>1, <1>4
<1>7. Min(cheap) \in cheap
  <2> HIDE DEF cheap
  <2> QED BY <1>5, <1>6, MinOfNumbers
<1>8. Cheapest(candidates) = candidates[Min(cheap)]
  BY <1>4 DEF Cheapest
<1> QED BY <1>2, <1>7, <1>8

LEMMA OneElement ==
  ASSUME NEW S, NEW x \in S
  PROVE  <<x>> \in Seq(S) /\ <<x>> # <<>>
OBVIOUS

LEMMA OnlyThen ==
  ASSUME NEW S, NEW condition, NEW choice, condition => choice \in S
  PROVE  Only(condition, choice) \in Seq(S)
<1>1. <<>> \in Seq(S)
  BY EmptySeq
<1>2. ASSUME choice \in S PROVE <<choice>> \in Seq(S)
  BY <1>2, OneElement
<1> QED BY <1>1, <1>2, Zenon DEF Only

\* Rows of choices, from the last position on.
RowsOK(data, rows, p) ==
  /\ rows \in Seq([PlanStates -> Choice])
  /\ Len(rows) <= Len(data) /\ p = Len(data) - Len(rows)
  /\ \A k \in 1..Len(rows), current \in Sets \union {"none"}, upper \in BOOLEAN :
       rows[k][<<current, upper>>] \in Sensible(data, p + k, current, upper)

LEMMA CostsAreNumbers ==
  ASSUME NEW rows \in Seq([PlanStates -> Choice]), NEW advance \in 1..2,
         NEW set \in Sets \union {"none"}, NEW upper \in BOOLEAN
  PROVE  CostFrom(rows, advance, <<set, upper>>) \in Nat
<1>1. CASE advance > Len(rows)
  BY <1>1 DEF CostFrom
<1>2. CASE ~(advance > Len(rows))
  <2>1. advance \in 1..Len(rows)
    BY <1>2
  <2>2. rows[advance] \in [PlanStates -> Choice]
    BY <2>1, ElementOfSeq
  <2>3. <<set, upper>> \in PlanStates
    BY DEF PlanStates
  <2>4. PICK c \in Choice : c = rows[advance][<<set, upper>>]
    BY <2>2, <2>3
  <2>5. c.cost \in Nat
    BY DEF Choice
  <2> QED BY <1>2, <2>4, <2>5 DEF CostFrom
<1> QED BY <1>1, <1>2

LEMMA Joined ==
  ASSUME NEW S, NEW a \in Seq(S), NEW b \in Seq(S)
  PROVE  a \o b \in Seq(S) /\ (a # <<>> \/ b # <<>> => a \o b # <<>>)
<1>1. a \o b \in Seq(S) /\ Len(a \o b) = Len(a) + Len(b)
  BY ConcatProperties
<1>2. Len(a) \in Nat /\ Len(b) \in Nat /\ (a # <<>> => Len(a) # 0) /\ (b # <<>> => Len(b) # 0)
  BY LenProperties, EmptySeq
<1>3. Len(<<>>) = 0
  OBVIOUS
<1> QED BY <1>1, <1>2, <1>3

\* What is offered for a byte in code set A or B.
LEMMA TextOffers ==
  ASSUME NEW rows \in Seq([PlanStates -> Choice]), NEW p, NEW byte \in Bytes, byte = tokens[p],
         NEW current \in Sets \union {"none"}, NEW upper \in BOOLEAN, NEW set \in {"A", "B"}
  PROVE  /\ TextChoices(rows, byte, current, upper, set) \in Seq(Sensible(tokens, p, current, upper))
         /\ Encodes(set, byte % 128) => TextChoices(rows, byte, current, upper, set) # <<>>
<1> DEFINE needsFnc4 == (byte > 127) # upper
           mayShift == current \in {"A", "B"} /\ current # set
           S == Sensible(tokens, p, current, upper)
<1>3. needsFnc4 <=> ~(byte > 127 <=> upper)
  <2>1. CASE upper = TRUE
    BY <2>1
  <2>2. CASE upper = FALSE
    BY <2>2
  <2> QED BY <2>1, <2>2
<1> HIDE DEF needsFnc4
<1>1. CASE ~Encodes(set, byte % 128)
  BY <1>1, EmptySeq DEF TextChoices
<1>2. CASE Encodes(set, byte % 128)
  <2>1. PICK kept \in Nat, there \in Nat, turned \in Nat :
          /\ kept = CostFrom(rows, 1, <<current, upper>>)
          /\ there = CostFrom(rows, 1, <<set, upper>>)
          /\ turned = CostFrom(rows, 1, <<set, ~upper>>)
    <3>1. set \in Sets \union {"none"} /\ 1 \in 1..2
      BY DEF Sets
    <3>2. PICK other \in BOOLEAN : other = ~upper
      OBVIOUS
    <3>3. /\ CostFrom(rows, 1, <<current, upper>>) \in Nat
          /\ CostFrom(rows, 1, <<set, upper>>) \in Nat
          /\ CostFrom(rows, 1, <<set, other>>) \in Nat
      BY <3>1, CostsAreNumbers
    <3> QED BY <3>2, <3>3
  <2>2. PICK switch \in 0..1, extra \in 0..1 :
          /\ switch = OneIf(current # set) /\ extra = OneIf(needsFnc4)
          /\ extra = (IF needsFnc4 THEN 1 ELSE 0)
    BY DEF OneIf, needsFnc4
  <2>3. PICK plain : plain = Choice128(set, 1, FALSE, extra, upper, 1 + extra + switch + there)
    OBVIOUS
  <2>4. PICK shifted : shifted = Choice128(set, 1, TRUE, 0, upper, 2 + kept)
    OBVIOUS
  <2>5. PICK shiftedUpper : shiftedUpper = Choice128(set, 1, TRUE, 1, upper, 3 + kept)
    OBVIOUS
  <2>6. PICK latching : latching = Choice128(set, 1, FALSE, 2, ~upper, 3 + switch + turned)
    OBVIOUS
  <2>7. TextChoices(rows, byte, current, upper, set) =
          <<plain>> \o Only(~needsFnc4 /\ mayShift, shifted)
            \o Only(needsFnc4 /\ mayShift, shiftedUpper) \o Only(needsFnc4, latching)
    BY <1>2, <2>1, <2>2, <2>3, <2>4, <2>5, <2>6, Zenon DEF TextChoices, needsFnc4
  <2>8. set \in Sets /\ 1 \in 1..2 /\ {FALSE, TRUE, ~upper} \subseteq BOOLEAN /\ {0, 1, 2, extra} \subseteq 0..2
        /\ {1 + extra + switch + there, 2 + kept, 3 + kept, 3 + switch + turned} \subseteq Nat
    BY DEF Sets
  <2>9. plain \in S
    <3>1. /\ plain \in Choice /\ plain.set = set /\ plain.advance = 1
          /\ plain.shift = FALSE /\ plain.fnc4 = extra /\ plain.upper = upper
      BY <2>8, <2>3 DEF Choice128, Choice
    <3>2. Fnc4Serves(plain, byte, upper)
      BY <1>3, <3>1, <2>2, Zenon DEF Fnc4Serves
    <3>3. TextChoice(plain, byte, current, upper)
      BY <1>2, <3>1, <3>2 DEF TextChoice
    <3> QED BY <3>1, <3>3 DEF Sensible
  <2>10. (~needsFnc4 /\ mayShift) => shifted \in S
    <3> HAVE ~needsFnc4 /\ mayShift
    <3>1. /\ shifted \in Choice /\ shifted.set = set /\ shifted.advance = 1
          /\ shifted.shift = TRUE /\ shifted.fnc4 = 0 /\ shifted.upper = upper
      BY <2>8, <2>4 DEF Choice128, Choice
    <3>2. Fnc4Serves(shifted, byte, upper)
      BY <1>3, <3>1, Zenon DEF Fnc4Serves
    <3>3. TextChoice(shifted, byte, current, upper)
      BY <1>2, <3>1, <3>2 DEF TextChoice
    <3> QED BY <3>1, <3>3 DEF Sensible
  <2>11. (needsFnc4 /\ mayShift) => shiftedUpper \in S
    <3> HAVE needsFnc4 /\ mayShift
    <3>1. /\ shiftedUpper \in Choice /\ shiftedUpper.set = set /\ shiftedUpper.advance = 1
          /\ shiftedUpper.shift = TRUE /\ shiftedUpper.fnc4 = 1 /\ shiftedUpper.upper = upper
      BY <2>8, <2>5 DEF Choice128, Choice
    <3>2. Fnc4Serves(shiftedUpper, byte, upper)
      BY <1>3, <3>1, Zenon DEF Fnc4Serves
    <3>3. TextChoice(shiftedUpper, byte, current, upper)
      BY <1>2, <3>1, <3>2 DEF TextChoice
    <3> QED BY <3>1, <3>3 DEF Sensible
  <2>12. needsFnc4 => latching \in S
    <3> HAVE needsFnc4
    <3>1. /\ latching \in Choice /\ latching.set = set /\ latching.advance = 1
          /\ latching.shift = FALSE /\ latching.fnc4 = 2 /\ latching.upper = ~upper
      BY <2>8, <2>6 DEF Choice128, Choice
    <3>2. Fnc4Serves(latching, byte, upper)
      BY <1>3, <3>1, Zenon DEF Fnc4Serves
    <3>3. TextChoice(latching, byte, current, upper)
      BY <1>2, <3>1, <3>2 DEF TextChoice
    <3> QED BY <3>1, <3>3 DEF Sensible
  <2> HIDE DEF S, mayShift
  <2>13. PICK b : b = Only(~needsFnc4 /\ mayShift, shifted) /\ b \in Seq(S)
    BY <2>10, OnlyThen, Zenon
  <2>14. PICK c : c = Only(needsFnc4 /\ mayShift, shiftedUpper) /\ c \in Seq(S)
    BY <2>11, OnlyThen, Zenon
  <2>15. PICK d : d = Only(needsFnc4, latching) /\ d \in Seq(S)
    BY <2>12, OnlyThen, Zenon
  <2>16. PICK a \in Seq(S) : a = <<plain>> /\ a # <<>>
    BY <2>9, OneElement
  <2>17. a \o b \o c \o d \in Seq(S) /\ a \o b \o c \o d # <<>>
    BY <2>13, <2>14, <2>15, <2>16, Joined
  <2> QED BY <2>7, <2>13, <2>14, <2>15, <2>16, <2>17 DEF S
<1> QED BY <1>1, <1>2

\* Modulo 128: the lower half of a byte.
LEMMA LowerHalf ==
  ASSUME NEW byte \in Bytes
  PROVE  /\ byte % 128 \in 0..127
         /\ byte > 127 => byte = 128 + (byte % 128)
         /\ ~(byte > 127) => byte = byte % 128
BY DEF Bytes

LEMMA SomeSetEncodes ==
  ASSUME NEW byte \in Bytes
  PROVE  Encodes("A", byte % 128) \/ Encodes("B", byte % 128)
<1>1. PICK low : low = byte % 128 /\ low \in 0..127
  BY LowerHalf
<1>2. Encodes("A", low) <=> low <= 95
  BY DEF Encodes
<1>3. Encodes("B", low) <=> low \in 32..127
  BY DEF Encodes
<1>4. \A n \in 0..127 : n <= 95 \/ n \in 32..127
  OBVIOUS
<1> QED BY <1>1, <1>2, <1>3, <1>4

LEMMA ControlOffers ==
  ASSUME NEW rows \in Seq([PlanStates -> Choice]), NEW p, NEW token \in {Fnc1, Fnc3}, token = tokens[p],
         NEW current \in Sets \union {"none"}, NEW upper \in BOOLEAN
  PROVE  /\ ControlChoices(rows, token, current, upper) \in Seq(Sensible(tokens, p, current, upper))
         /\ ControlChoices(rows, token, current, upper) # <<>>
<1> DEFINE in(set) == Choice128(set, 1, FALSE, 0, upper,
                                1 + OneIf(current # set) + CostFrom(rows, 1, <<set, upper>>))
           S == Sensible(tokens, p, current, upper)
<1>1. ASSUME NEW set \in Sets, token = Fnc3 => set # "C" PROVE in(set) \in S
  <2>1. PICK there \in Nat : there = CostFrom(rows, 1, <<set, upper>>)
    <3>1. set \in Sets \union {"none"} /\ 1 \in 1..2
      OBVIOUS
    <3> QED BY <3>1, CostsAreNumbers
  <2>2. PICK switch \in 0..1 : switch = OneIf(current # set)
    BY DEF OneIf
  <2>3. PICK c : c = Choice128(set, 1, FALSE, 0, upper, 1 + switch + there)
    OBVIOUS
  <2>4. /\ c \in Choice /\ c.set = set /\ c.advance = 1
        /\ c.shift = FALSE /\ c.fnc4 = 0 /\ c.upper = upper
    BY <2>3 DEF Choice128, Choice
  <2>5. ControlChoice(c, tokens[p], upper)
    BY <1>1, <2>4 DEF ControlChoice
  <2>6. c \in S
    BY <2>4, <2>5 DEF Sensible
  <2> QED BY <2>1, <2>2, <2>3, <2>6
<1>2. PICK inA \in S, inB \in S : inA = in("A") /\ inB = in("B")
  BY <1>1 DEF Sets
<1>3. PICK c : c = Only(token # Fnc3, in("C")) /\ c \in Seq(S)
  <2>1. (token # Fnc3) => in("C") \in S
    BY <1>1 DEF Sets
  <2> HIDE DEF S, in
  <2> QED BY <2>1, OnlyThen, Zenon
<1>4. ControlChoices(rows, token, current, upper) = <<inB, inA>> \o c
  BY <1>2, <1>3, Zenon DEF ControlChoices
<1>5. PICK both : both = <<inB, inA>> /\ both \in Seq(S) /\ both # <<>>
  <2> HIDE DEF S, in
  <2>1. <<inB, inA>> \in Seq(S)
    BY <1>2
  <2>2. <<inB, inA>> # <<>>
    OBVIOUS
  <2> QED BY <2>1, <2>2
<1>6. both \o c \in Seq(S) /\ both \o c # <<>>
  <2> HIDE DEF S
  <2> QED BY <1>3, <1>5, Joined
<1> QED BY <1>4, <1>5, <1>6

LEMMA PairOffers ==
  ASSUME NEW rows \in Seq([PlanStates -> Choice]), NEW p,
         NEW current \in Sets \union {"none"}, NEW upper \in BOOLEAN
  PROVE  PairChoices(rows, p, current, upper) \in Seq(Sensible(tokens, p, current, upper))
<1> DEFINE S == Sensible(tokens, p, current, upper)
           decimal == p < Len(tokens) /\ IsDecimal(tokens[p]) /\ IsDecimal(tokens[p + 1])
<1>1. PICK there \in Nat : there = CostFrom(rows, 2, <<"C", upper>>)
  <2>1. "C" \in Sets \union {"none"} /\ 2 \in 1..2
    BY DEF Sets
  <2> QED BY <2>1, CostsAreNumbers
<1>2. PICK switch \in 0..1 : switch = OneIf(current # "C")
  BY DEF OneIf
<1>3. PICK c : c = Choice128("C", 2, FALSE, 0, upper, 1 + switch + there)
  OBVIOUS
<1>4. PairChoices(rows, p, current, upper) = Only(decimal, c)
  BY <1>1, <1>2, <1>3, Zenon DEF PairChoices
<1>5. ASSUME decimal PROVE c \in S
  <2>1. /\ c \in Choice /\ c.set = "C" /\ c.advance = 2
        /\ c.shift = FALSE /\ c.fnc4 = 0 /\ c.upper = upper
    BY <1>3 DEF Choice128, Choice, Sets
  <2>2. PairChoice(c, tokens, p, upper)
    BY <1>5, <2>1 DEF PairChoice
  <2> QED BY <2>1, <2>2 DEF Sensible
<1>6. Only(decimal, c) \in Seq(S)
  <2> HIDE DEF S, decimal
  <2> QED BY <1>5, OnlyThen, Zenon
<1> QED BY <1>4, <1>6

\* A choice of every row is one the writer can follow.
LEMMA RowIsSensible ==
  ASSUME NEW rows \in Seq([PlanStates -> Choice]), NEW p,
         NEW token \in Bytes \union {Fnc1, Fnc3}, token = tokens[p]
  PROVE  /\ PlanRow(rows, p) \in [PlanStates -> Choice]
         /\ \A current \in Sets \union {"none"}, upper \in BOOLEAN :
              PlanRow(rows, p)[<<current, upper>>] \in Sensible(tokens, p, current, upper)
<1>1. ASSUME NEW current \in Sets \union {"none"}, NEW upper \in BOOLEAN
      PROVE  PlanRow(rows, p)[<<current, upper>>] \in Sensible(tokens, p, current, upper)
  <2> DEFINE S == Sensible(tokens, p, current, upper)
             candidates == IF token \in {Fnc1, Fnc3} THEN ControlChoices(rows, token, current, upper)
                           ELSE TextChoices(rows, token, current, upper, "B")
                                  \o TextChoices(rows, token, current, upper, "A")
                                  \o PairChoices(rows, p, current, upper)
  <2>1. PlanRow(rows, p)[<<current, upper>>] = Cheapest(candidates)
    <3>1. <<current, upper>> \in PlanStates
      BY DEF PlanStates
    <3> QED BY <3>1 DEF PlanRow
  <2>2. candidates \in Seq(S) /\ candidates # <<>>
    <3>1. CASE token \in {Fnc1, Fnc3}
      <4> HIDE DEF S
      <4>1. /\ ControlChoices(rows, token, current, upper) \in Seq(S)
            /\ ControlChoices(rows, token, current, upper) # <<>>
        BY <3>1, ControlOffers DEF S
      <4> QED BY <3>1, <4>1, Zenon
    <3>2. CASE token \notin {Fnc1, Fnc3}
      <4>1. token \in Bytes
        BY <3>2
      <4>2. Encodes("A", token % 128) \/ Encodes("B", token % 128)
        BY <4>1, SomeSetEncodes
      <4>3. PICK b : b = TextChoices(rows, token, current, upper, "B") /\ b \in Seq(S)
                       /\ (Encodes("B", token % 128) => b # <<>>)
        BY <4>1, TextOffers
      <4>4. PICK a : a = TextChoices(rows, token, current, upper, "A") /\ a \in Seq(S)
                       /\ (Encodes("A", token % 128) => a # <<>>)
        BY <4>1, TextOffers
      <4>5. PICK c : c = PairChoices(rows, p, current, upper) /\ c \in Seq(S)
        BY PairOffers
      <4>6. PICK ba : ba = b \o a /\ ba \in Seq(S) /\ ba # <<>>
        <5> HIDE DEF S
        <5> QED BY <4>2, <4>3, <4>4, Joined
      <4>7. ba \o c \in Seq(S) /\ ba \o c # <<>>
        <5> HIDE DEF S
        <5> QED BY <4>5, <4>6, Joined
      <4> QED BY <3>2, <4>3, <4>4, <4>5, <4>6, <4>7
    <3> QED BY <3>1, <3>2
  <2>3. \A c \in S : c.cost \in Nat
    BY DEF Sensible, Choice
  <2> HIDE DEF S, candidates
  <2> QED BY <2>1, <2>2, <2>3, CheapestIsOffered DEF S
<1>2. ASSUME NEW state \in PlanStates PROVE PlanRow(rows, p)[state] \in Choice
  <2>1. PICK current \in Sets \union {"none"}, upper \in BOOLEAN : state = <<current, upper>>
    BY DEF PlanStates
  <2> QED BY <1>1, <2>1 DEF Sensible
<1>3. PlanRow(rows, p) = [state \in PlanStates |-> PlanRow(rows, p)[state]]
  BY DEF PlanRow
<1> QED BY <1>1, <1>2, <1>3

PlanInv ==
  /\ tokens \in Seq(Tokens) /\ tokens # <<>>
  /\ RowsOK(tokens, choices, Len(tokens) - Len(choices))
  /\ \/ symbols = <<>>
     \/ Len(choices) = Len(tokens) /\ symbols = <<EncodeCode128(Explicit(tokens, choices))>>

LEMMA RowAdded ==
  ASSUME NEW rows, NEW p \in 1..Len(tokens), RowsOK(tokens, rows, p), tokens \in Seq(Tokens)
  PROVE  RowsOK(tokens, <<PlanRow(rows, p)>> \o rows, p - 1) /\ Len(<<PlanRow(rows, p)>> \o rows) = Len(rows) + 1
<1>1. /\ rows \in Seq([PlanStates -> Choice]) /\ Len(rows) \in Nat
      /\ Len(tokens) \in Nat /\ p = Len(tokens) - Len(rows)
  BY LenProperties DEF RowsOK
<1>2. PICK token \in Bytes \union {Fnc1, Fnc3} : token = tokens[p]
  BY ElementOfSeq DEF Tokens
<1>3. PICK row \in [PlanStates -> Choice] :
        /\ row = PlanRow(rows, p)
        /\ \A current \in Sets \union {"none"}, upper \in BOOLEAN :
             row[<<current, upper>>] \in Sensible(tokens, p, current, upper)
  BY <1>1, <1>2, RowIsSensible
<1>4. PICK first \in Seq([PlanStates -> Choice]) : first = <<row>> /\ Len(first) = 1 /\ first[1] = row
  <2>1. <<row>> \in Seq([PlanStates -> Choice])
    BY OneElement
  <2> QED BY <2>1
<1>5. PICK all \in Seq([PlanStates -> Choice]) :
        /\ all = first \o rows /\ Len(all) = Len(rows) + 1 /\ all[1] = row
        /\ \A k \in 2..Len(rows) + 1 : all[k] = rows[k - 1]
  <2>1. /\ first \o rows \in Seq([PlanStates -> Choice]) /\ Len(first \o rows) = Len(first) + Len(rows)
        /\ \A k \in 1..Len(first) + Len(rows) :
             (first \o rows)[k] = IF k <= Len(first) THEN first[k] ELSE rows[k - Len(first)]
    BY <1>1, ConcatProperties, Zenon
  <2>2. PICK all : all = first \o rows
    OBVIOUS
  <2>3. Len(all) = Len(rows) + 1 /\ all[1] = row /\ \A k \in 2..Len(rows) + 1 : all[k] = rows[k - 1]
    BY <1>1, <1>4, <2>1, <2>2
  <2> QED BY <2>1, <2>2, <2>3
<1>6. ASSUME NEW k \in 1..Len(all), NEW current \in Sets \union {"none"}, NEW upper \in BOOLEAN
      PROVE  all[k][<<current, upper>>] \in Sensible(tokens, p - 1 + k, current, upper)
  <2>1. CASE k = 1
    <3>1. p - 1 + k = p
      BY <1>1, <2>1
    <3> QED BY <1>3, <1>5, <2>1, <3>1
  <2>2. CASE k # 1
    <3>1. PICK before \in 1..Len(rows) : before = k - 1 /\ all[k] = rows[before]
      BY <1>1, <1>5, <2>2
    <3>2. rows[before][<<current, upper>>] \in Sensible(tokens, p + before, current, upper)
      BY DEF RowsOK
    <3>3. p + before = p - 1 + k
      BY <1>1, <3>1
    <3> QED BY <3>1, <3>2, <3>3
  <2> QED BY <2>1, <2>2
<1>7. Len(all) <= Len(tokens) /\ p - 1 = Len(tokens) - Len(all)
  BY <1>1, <1>5
<1> QED BY <1>3, <1>4, <1>5, <1>6, <1>7 DEF RowsOK

LEMMA PlanStep == PlanInv /\ [Code128Next]_code128Vars => PlanInv'
<1> SUFFICES ASSUME PlanInv, [Code128Next]_code128Vars PROVE PlanInv'
  OBVIOUS
<1>1. CASE PlanPosition
  <2>1. /\ Len(choices) \in Nat /\ Len(tokens) \in Nat
    BY LenProperties DEF PlanInv, RowsOK
  <2>2. PICK p \in 1..Len(tokens) : p = Len(tokens) - Len(choices)
    BY <1>1, <2>1 DEF PlanPosition
  <2>3. RowsOK(tokens, choices', p - 1) /\ Len(choices') = Len(choices) + 1
    BY <1>1, <2>2, RowAdded DEF PlanPosition, PlanInv
  <2>4. p - 1 = Len(tokens) - Len(choices')
    BY <2>1, <2>2, <2>3
  <2>5. symbols = <<>>
    BY <1>1, <2>1 DEF PlanInv, PlanPosition
  <2>6. tokens' = tokens /\ symbols' = symbols
    BY <1>1 DEF PlanPosition
  <2> QED BY <2>3, <2>4, <2>5, <2>6 DEF PlanInv
<1>2. CASE EncodePlan
  BY <1>2 DEF EncodePlan, PlanInv
<1>3. CASE UNCHANGED code128Vars
  BY <1>3 DEF code128Vars, PlanInv
<1> QED BY <1>1, <1>2, <1>3 DEF Code128Next

-----------------------------------------------------------------------------
(* The tokens of a GS1-128 payload.                                        *)

\* A loop over N elements whose state stays in a set has its states.
IsLoop(N, D, start, step) == N \in Nat /\ start \in D /\ step \in [D \X (1..N) -> D]
HasStates(N, D, start, step) ==
  \E after \in [0..N -> D] : after[0] = start /\ \A n \in 1..N : after[n] = step[<<after[n - 1], n>>]

LEMMA LoopExists ==
  ASSUME NEW N, NEW D, NEW start, NEW step, IsLoop(N, D, start, step)
  PROVE  HasStates(N, D, start, step)
<1> USE DEF IsLoop
<1> DEFINE Good(g, n) == /\ g[0] = start
                         /\ \A m \in 1..n : g[m] = step[<<g[m - 1], m>>]
           P == {n \in 0..N : \E g \in [0..N -> D] : Good(g, n)}
<1>1. 0 \in P
  <2>1. PICK g : g = [m \in 0..N |-> start]
    OBVIOUS
  <2>2. g \in [0..N -> D] /\ Good(g, 0)
    BY <2>1
  <2> QED BY <2>2
<1>2. ASSUME NEW n \in 1..N, n - 1 \in P PROVE n \in P
  <2>1. PICK g \in [0..N -> D] : Good(g, n - 1)
    BY <1>2
  <2>2. PICK next \in D : next = step[<<g[n - 1], n>>]
    <3>1. n - 1 \in 0..N
      OBVIOUS
    <3>2. <<g[n - 1], n>> \in D \X (1..N)
      BY <3>1
    <3>3. step[<<g[n - 1], n>>] \in D
      BY <3>2
    <3> QED BY <3>3
  <2>3. PICK h \in [0..N -> D] : h[n] = next /\ \A m \in 0..N : m # n => h[m] = g[m]
    <3>1. PICK h : h = [g EXCEPT ![n] = next]
      OBVIOUS
    <3>2. h \in [0..N -> D] /\ h[n] = next /\ \A m \in 0..N : m # n => h[m] = g[m]
      BY <3>1
    <3> QED BY <3>2
  <2>4. \A m \in 1..n : h[m] = step[<<h[m - 1], m>>]
    <3> TAKE m \in 1..n
    <3>1. m - 1 \in 0..N /\ m - 1 # n /\ m \in 0..N
      OBVIOUS
    <3>2. CASE m = n
      BY <2>2, <2>3, <3>1, <3>2
    <3>3. CASE m # n
      <4>1. m \in 1..n - 1
        BY <3>3
      <4> QED BY <2>1, <2>3, <3>1, <3>3, <4>1
    <3> QED BY <3>2, <3>3
  <2>5. Good(h, n)
    <3>1. 0 \in 0..N /\ 0 # n
      OBVIOUS
    <3> QED BY <2>1, <2>3, <2>4, <3>1
  <2> HIDE DEF Good
  <2> QED BY <2>5
<1>3. N \in P
  <2> HIDE DEF P
  <2> QED BY <1>1, <1>2, UpTo
<1>4. PICK g \in [0..N -> D] : Good(g, N)
  BY <1>3
<1> QED BY <1>4 DEF HasStates

LEMMA DigitSumIsNumber ==
  ASSUME NEW digits \in Seq(Int)
  PROVE  DigitSum(digits) \in Int
<1>1. PICK N \in Nat : N = Len(digits) /\ \A n \in 1..N : digits[n] \in Int
  BY LenProperties, ElementOfSeq
<1> DEFINE weight(n) == IF (N - n) % 2 = 0 THEN 3 ELSE 1
           value(n) == (digits[n] - 48) * weight(n)
           step == [x \in Int \X (1..N) |-> x[1] + value(x[2])]
           Good(sum) == sum = [n \in 0..N |-> IF n = 0 THEN 0 ELSE sum[n - 1] + value(n)]
<1>2. \A n \in 1..N : value(n) \in Int
  BY <1>1
<1>3. step \in [Int \X (1..N) -> Int]
  <2> HIDE DEF value
  <2> QED BY <1>2
<1>4. PICK after \in [0..N -> Int] :
        after[0] = 0 /\ \A n \in 1..N : after[n] = step[<<after[n - 1], n>>]
  <2>1. IsLoop(N, Int, 0, step)
    <3> HIDE DEF step
    <3> QED BY <1>3 DEF IsLoop
  <2>2. HasStates(N, Int, 0, step)
    <3> HIDE DEF step
    <3> QED BY <2>1, LoopExists
  <2> HIDE DEF step
  <2> QED BY <2>2 DEF HasStates
<1>5. Good(after)
  <2>1. ASSUME NEW n \in 0..N
        PROVE  after[n] = (IF n = 0 THEN 0 ELSE after[n - 1] + value(n))
    <3>1. CASE n = 0
      BY <1>4, <3>1
    <3>2. CASE n # 0
      <4>1. n \in 1..N /\ n - 1 \in 0..N
        BY <3>2
      <4>2. PICK before \in Int : before = after[n - 1]
        BY <4>1
      <4> HIDE DEF value
      <4> QED BY <1>4, <3>2, <4>1, <4>2
    <3> QED BY <3>1, <3>2
  <2> HIDE DEF value
  <2> QED BY <2>1
<1>6. PICK sum : sum = (CHOOSE f : Good(f)) /\ Good(sum)
  <2> HIDE DEF Good
  <2> QED BY <1>5
<1>7. DigitSum(digits) = sum[N]
  BY <1>1, <1>6 DEF DigitSum
<1>8. \A n \in 0..N : sum[n] \in Int
  <2> DEFINE P == {n \in 0..N : sum[n] \in Int}
  <2>1. sum[0] = 0 /\ \A n \in 1..N : sum[n] = sum[n - 1] + value(n)
    <3>1. \A n \in 0..N : sum[n] = IF n = 0 THEN 0 ELSE sum[n - 1] + value(n)
      <4> HIDE DEF value
      <4> QED BY <1>6
    <3>2. 0 \in 0..N /\ \A n \in 1..N : n \in 0..N /\ n # 0
      OBVIOUS
    <3> HIDE DEF value
    <3> QED BY <3>1, <3>2
  <2>2. 0 \in P
    BY <2>1
  <2>3. ASSUME NEW n \in 1..N, n - 1 \in P PROVE n \in P
    <3> HIDE DEF value
    <3> QED BY <1>2, <2>1, <2>3
  <2>4. \A n \in 0..N : n \in P
    <3> HIDE DEF P
    <3> QED BY <2>2, <2>3, UpTo
  <2> QED BY <2>4
<1> QED BY <1>7, <1>8

Parser == [tokens : Seq(Tokens), start : Nat, separated : BOOLEAN, escaped : BOOLEAN, ok : BOOLEAN]

LEMMA AppendToken ==
  ASSUME NEW seq \in Seq(Tokens), NEW token \in Tokens
  PROVE  Append(seq, token) \in Seq(Tokens)
OBVIOUS

LEMMA ParserSteps ==
  ASSUME NEW g \in Parser, NEW seq \in Seq(Tokens), NEW start \in Nat
  PROVE  /\ [g EXCEPT !.ok = FALSE] \in Parser
         /\ [g EXCEPT !.escaped = TRUE] \in Parser
         /\ [g EXCEPT !.tokens = seq] \in Parser
         /\ [g EXCEPT !.tokens = seq, !.escaped = FALSE] \in Parser
         /\ [g EXCEPT !.start = start, !.separated = TRUE] \in Parser
         /\ [g EXCEPT !.tokens = seq, !.start = 0, !.separated = FALSE, !.escaped = FALSE] \in Parser
<1>1. [g EXCEPT !.ok = FALSE] \in Parser
  BY DEF Parser
<1>2. [g EXCEPT !.escaped = TRUE] \in Parser
  BY DEF Parser
<1>3. [g EXCEPT !.tokens = seq] \in Parser
  BY DEF Parser
<1>4. [g EXCEPT !.tokens = seq, !.escaped = FALSE] \in Parser
  BY DEF Parser
<1>5. [g EXCEPT !.start = start, !.separated = TRUE] \in Parser
  BY DEF Parser
<1>6. [g EXCEPT !.tokens = seq, !.start = 0, !.separated = FALSE, !.escaped = FALSE] \in Parser
  BY DEF Parser
<1> QED BY <1>1, <1>2, <1>3, <1>4, <1>5, <1>6

LEMMA CheckDigitKeeps == ASSUME NEW g \in Parser PROVE Gs1CheckDigit(g) \in Parser
<1> DEFINE field == SubSeq(g.tokens, g.start, Len(g.tokens))
           decimal == g.start # 0 /\ field # <<>> /\ \A i \in DOMAIN field : IsDecimal(field[i])
<1>1. PICK seq \in Seq(Tokens), start \in Nat : seq = g.tokens /\ start = g.start
  BY DEF Parser
<1>2. CASE ~decimal
  <2>1. Gs1CheckDigit(g) = [g EXCEPT !.ok = FALSE]
    BY <1>2, Zenon DEF Gs1CheckDigit
  <2> QED BY <1>1, <2>1, ParserSteps
<1>3. CASE decimal
  <2>1. PICK digits : digits = field
    OBVIOUS
  <2>2. digits \in Seq(Int)
    <3>1. Len(seq) \in Nat /\ \A i \in start..Len(seq) : seq[i] \in Int
      <4>1. \A i \in 1..Len(seq) : seq[i] \in Tokens
        BY ElementOfSeq
      <4>2. Len(seq) \in Nat /\ start >= 1
        BY <1>1, <1>3, LenProperties
      <4>3. \A t \in Tokens : t \in Int
        BY DEF Tokens, Bytes, Fnc1, Fnc3
      <4> QED BY <4>1, <4>2, <4>3
    <3>2. SubSeq(seq, start, Len(seq)) \in Seq(Int)
      BY <3>1, SubSeqProperties
    <3> QED BY <1>1, <2>1, <3>2
  <2>3. PICK check \in Tokens : check = Modulus10(digits)
    <3>1. PICK sum \in Int : sum = DigitSum(digits)
      BY <2>2, DigitSumIsNumber
    <3>2. 48 + ((10 - (sum % 10)) % 10) \in 48..57
      BY <3>1, SMTT(30)
    <3> QED BY <3>1, <3>2 DEF Modulus10, Tokens, Bytes
  <2>4. Gs1CheckDigit(g) = [g EXCEPT !.tokens = Append(g.tokens, check)]
    BY <1>3, <2>1, <2>3, Zenon DEF Gs1CheckDigit
  <2>5. PICK more \in Seq(Tokens) : more = Append(g.tokens, check)
    BY <1>1, AppendToken
  <2> QED BY <2>4, <2>5, ParserSteps
<1> QED BY <1>2, <1>3

LEMMA Gs1Keeps ==
  ASSUME NEW g \in Parser, NEW byte \in Bytes
  PROVE  Gs1Byte(g, byte) \in Parser
<1>1. PICK seq \in Seq(Tokens), start \in Nat : seq = g.tokens /\ start = g.start
  BY DEF Parser
<1>2. {byte, Fnc1, Fnc3} \subseteq Tokens
  BY DEF Tokens
<1>3. PICK after \in Nat : after = Len(g.tokens) + 1
  BY <1>1, LenProperties
<1>4. Gs1Escaped(g, byte) \in Parser
  <2>1. CASE byte = 49
    <3>1. Gs1Escaped(g, byte) = [g EXCEPT !.tokens = Append(g.tokens, Fnc1), !.start = 0,
                                          !.separated = FALSE, !.escaped = FALSE]
      BY <2>1 DEF Gs1Escaped
    <3>2. PICK more \in Seq(Tokens) : more = Append(g.tokens, Fnc1)
      BY <1>1, <1>2, AppendToken
    <3> QED BY <3>1, <3>2, ParserSteps
  <2>2. CASE byte = 51
    <3>1. Gs1Escaped(g, byte) = [g EXCEPT !.tokens = Append(g.tokens, Fnc3), !.escaped = FALSE]
      BY <2>2 DEF Gs1Escaped
    <3> QED BY <1>1, <1>2, <3>1, AppendToken, ParserSteps
  <2>3. CASE byte \in {40, 41, 42, 123}
    <3>1. Gs1Escaped(g, byte) = [g EXCEPT !.tokens = Append(g.tokens, byte), !.escaped = FALSE]
      BY <2>3 DEF Gs1Escaped
    <3> QED BY <1>1, <1>2, <3>1, AppendToken, ParserSteps
  <2>4. CASE byte \notin {40, 41, 42, 49, 51, 123}
    <3>1. Gs1Escaped(g, byte) = [g EXCEPT !.ok = FALSE]
      BY <2>4, Zenon DEF Gs1Escaped
    <3> QED BY <1>1, <3>1, ParserSteps
  <2> QED BY <2>1, <2>2, <2>3, <2>4
<1>5. /\ Gs1CheckDigit(g) \in Parser
      /\ [g EXCEPT !.escaped = TRUE] \in Parser
      /\ [g EXCEPT !.start = after, !.separated = TRUE] \in Parser
      /\ [g EXCEPT !.tokens = Append(g.tokens, byte)] \in Parser
  BY <1>1, <1>2, <1>3, AppendToken, ParserSteps, CheckDigitKeeps
<1>6. \/ Gs1Byte(g, byte) = g
      \/ Gs1Byte(g, byte) = Gs1Escaped(g, byte)
      \/ Gs1Byte(g, byte) = [g EXCEPT !.escaped = TRUE]
      \/ Gs1Byte(g, byte) = [g EXCEPT !.start = after, !.separated = TRUE]
      \/ Gs1Byte(g, byte) = Gs1CheckDigit(g)
      \/ Gs1Byte(g, byte) = [g EXCEPT !.tokens = Append(g.tokens, byte)]
  <2> DEFINE read == g.ok /\ ~g.escaped
  <2>1. CASE ~g.ok \/ g.escaped
    BY <2>1 DEF Gs1Byte
  <2>2. CASE read /\ byte = 123
    <3>1. byte = 123 /\ byte \notin {41, 32} /\ byte # 42 /\ byte \notin 0..127 \ {32, 40, 41, 42, 123}
      BY <2>2
    <3>2. Gs1Byte(g, byte) = [g EXCEPT !.escaped = TRUE]
      BY <2>2, <3>1, Zenon DEF Gs1Byte
    <3> QED BY <3>2
  <2>3. CASE read /\ byte \in {41, 32}
    <3>1. byte # 123 /\ byte \in {41, 32}
      BY <2>3
    <3>2. Gs1Byte(g, byte) = IF g.separated THEN g ELSE [g EXCEPT !.start = after, !.separated = TRUE]
      BY <1>3, <2>3, <3>1 DEF Gs1Byte
    <3> QED BY <3>2
  <2>4. CASE read /\ byte \notin {123, 41, 32}
    BY <1>3, <2>4 DEF Gs1Byte
  <2> QED BY <2>1, <2>2, <2>3, <2>4
<1> QED BY <1>4, <1>5, <1>6

\* What a payload is parsed to.
LEMMA Gs1TokensAreTokens ==
  ASSUME NEW data \in Seq(Bytes), NEW all \in Gs1Tokens(data)
  PROVE  all \in Seq(Tokens) /\ all # <<>>
<1>1. PICK N \in Nat : N = Len(data) /\ \A n \in 1..N : data[n] \in Bytes
  BY LenProperties, ElementOfSeq
<1> DEFINE step == [x \in Parser \X (1..N) |-> Gs1Byte(x[1], data[x[2]])]
           Good(f) == f = [n \in 0..N |-> IF n = 0 THEN Gs1Start ELSE Gs1Byte(f[n - 1], data[n])]
<1>2. step \in [Parser \X (1..N) -> Parser]
  BY <1>1, Gs1Keeps
<1>3. Gs1Start \in Parser
  <2>1. <<Fnc1>> \in Seq(Tokens)
    BY OneElement DEF Tokens
  <2> QED BY <2>1 DEF Gs1Start, Parser
<1>4. HasStates(N, Parser, Gs1Start, step)
  <2> HIDE DEF step
  <2>1. IsLoop(N, Parser, Gs1Start, step)
    BY <1>2, <1>3 DEF IsLoop
  <2> QED BY <2>1, LoopExists
<1>5. PICK f \in [0..N -> Parser] : f[0] = Gs1Start /\ \A n \in 1..N : f[n] = step[<<f[n - 1], n>>]
  <2> HIDE DEF step
  <2> QED BY <1>4 DEF HasStates
<1>6. Good(f)
  <2>1. ASSUME NEW n \in 0..N
        PROVE  f[n] = (IF n = 0 THEN Gs1Start ELSE Gs1Byte(f[n - 1], data[n]))
    <3>1. CASE n = 0
      BY <1>5, <3>1
    <3>2. CASE n # 0
      <4>1. n \in 1..N /\ n - 1 \in 0..N
        BY <3>2
      <4>2. PICK before \in Parser : before = f[n - 1]
        BY <4>1
      <4>3. step[<<before, n>>] = Gs1Byte(before, data[n])
        BY <4>1
      <4> HIDE DEF step
      <4> QED BY <1>5, <3>2, <4>1, <4>2, <4>3
    <3> QED BY <3>1, <3>2
  <2> QED BY <2>1
<1>7. PICK after : after = (CHOOSE g : Good(g)) /\ Good(after)
  <2> HIDE DEF Good
  <2> QED BY <1>6
<1>8. \A n \in 0..N : after[n] \in Parser
  <2> DEFINE P == {n \in 0..N : after[n] \in Parser}
  <2>1. after[0] = Gs1Start /\ \A n \in 1..N : after[n] = Gs1Byte(after[n - 1], data[n])
    <3>1. \A n \in 0..N : after[n] = IF n = 0 THEN Gs1Start ELSE Gs1Byte(after[n - 1], data[n])
      BY <1>7
    <3>2. 0 \in 0..N /\ \A n \in 1..N : n \in 0..N /\ n # 0
      OBVIOUS
    <3> QED BY <3>1, <3>2
  <2>2. 0 \in P
    BY <1>3, <2>1
  <2>3. ASSUME NEW n \in 1..N, n - 1 \in P PROVE n \in P
    BY <1>1, <2>1, <2>3, Gs1Keeps
  <2>4. \A n \in 0..N : n \in P
    <3> HIDE DEF P
    <3> QED BY <2>2, <2>3, UpTo
  <2> QED BY <2>4
<1>9. PICK parsed \in Parser : parsed = after[N]
  BY <1>8
<1>10. all \in (IF /\ Len(data) >= 2 /\ \A i \in DOMAIN data : data[i] <= 127
                  /\ parsed.ok /\ ~parsed.escaped /\ Len(parsed.tokens) > 1
               THEN {parsed.tokens} ELSE {})
  BY <1>1, <1>7, <1>9, Zenon DEF Gs1Tokens
<1>11. all = parsed.tokens /\ Len(parsed.tokens) > 1
  BY <1>10
<1>12. Len(<<>>) = 0
  OBVIOUS
<1> QED BY <1>9, <1>11, <1>12 DEF Parser

LEMMA PlanInitially == Code128Init => PlanInv
<1> SUFFICES ASSUME Code128Init PROVE PlanInv
  OBVIOUS
<1>1. tokens \in Seq(Tokens) /\ tokens # <<>>
  <2>1. CASE tokens \in Payloads128 \ {<<>>}
    <3>1. tokens \in Seq(Bytes) /\ tokens # <<>>
      BY <2>1, PayloadsAssumption DEF Bytes
    <3>2. Bytes \subseteq Tokens
      BY DEF Tokens
    <3> QED BY <3>1, <3>2, SeqMonotonic
  <2>2. CASE tokens \in UNION {Gs1Tokens(data) : data \in Gs1Payloads}
    <3>1. PICK data \in Gs1Payloads : tokens \in Gs1Tokens(data)
      BY <2>2
    <3>2. data \in Seq(Bytes)
      BY PayloadsAssumption DEF Bytes
    <3> QED BY <3>1, <3>2, Gs1TokensAreTokens
  <2> QED BY <2>1, <2>2 DEF Code128Init
<1>2. Len(tokens) \in Nat
  BY <1>1, LenProperties
<1>3. choices = <<>> /\ Len(choices) = 0 /\ symbols = <<>> /\ choices \in Seq([PlanStates -> Choice])
  BY EmptySeq DEF Code128Init
<1> QED BY <1>1, <1>2, <1>3 DEF PlanInv, RowsOK

-----------------------------------------------------------------------------
(* Recursion from the end: each place up to N combines its own with the    *)
(* value of a later place, up to M, and the places after N have `end`.     *)

IsRecursion(M, N, S, V, end, next, combine) ==
  /\ M \in Nat /\ N \in 0..M /\ end \in V
  /\ next \in [(1..N) \X S -> (1..M) \X S]
  /\ \A at \in (1..N) \X S : next[at][1] > at[1]
  /\ combine \in [((1..N) \X S) \X V -> V]
Solves(h, M, N, S, V, end, next, combine) ==
  /\ h \in [(1..M) \X S -> V]
  /\ \A at \in (1..M) \X S : h[at] = IF at[1] > N THEN end ELSE combine[<<at, h[next[at]]>>]

LEMMA RecursionExists ==
  ASSUME NEW M, NEW N, NEW S, NEW V, NEW end, NEW next, NEW combine,
         IsRecursion(M, N, S, V, end, next, combine)
  PROVE  \E h : Solves(h, M, N, S, V, end, next, combine)
<1> DEFINE All == (1..M) \X S
           Body(h, at) == IF at[1] > N THEN end ELSE combine[<<at, h[next[at]]>>]
           Solved(h, k) == \A at \in All : at[1] > k => h[at] = Body(h, at)
           P == {k \in 0..N : \E h \in [All -> V] : Solved(h, k)}
<1>1. /\ M \in Nat /\ N \in 0..M /\ N \in Nat /\ end \in V
      /\ \A at \in (1..N) \X S : next[at] \in All /\ next[at][1] > at[1]
      /\ \A at \in (1..N) \X S, v \in V : combine[<<at, v>>] \in V
  BY DEF IsRecursion
<1>2. N \in P
  <2>1. PICK h : h = [at \in All |-> end]
    OBVIOUS
  <2>2. h \in [All -> V] /\ Solved(h, N)
    BY <1>1, <2>1
  <2> HIDE DEF Solved
  <2> QED BY <1>1, <2>2
<1>3. ASSUME NEW n \in 1..N, n \in P PROVE n - 1 \in P
  <2>1. PICK h \in [All -> V] : Solved(h, n)
    BY <1>3
  <2>2. ASSUME NEW at \in All, ~(at[1] > N) PROVE at \in (1..N) \X S
    BY <1>1, <2>2
  <2>3. ASSUME NEW at \in All PROVE Body(h, at) \in V
    <3>1. CASE at[1] > N
      BY <1>1, <3>1
    <3>2. CASE ~(at[1] > N)
      <4>1. at \in (1..N) \X S
        BY <2>2, <3>2
      <4>2. h[next[at]] \in V
        BY <1>1, <4>1
      <4>3. combine[<<at, h[next[at]]>>] \in V
        BY <1>1, <4>1, <4>2
      <4> QED BY <3>2, <4>3
    <3> QED BY <3>1, <3>2
  <2>4. PICK g \in [All -> V] : \A at \in All : g[at] = IF at[1] = n THEN Body(h, at) ELSE h[at]
    <3>1. PICK g : g = [at \in All |-> IF at[1] = n THEN Body(h, at) ELSE h[at]]
      OBVIOUS
    <3>2. g \in [All -> V] /\ \A at \in All : g[at] = IF at[1] = n THEN Body(h, at) ELSE h[at]
      <4> HIDE DEF Body
      <4> QED BY <2>3, <3>1
    <3> QED BY <3>2
  <2>5. ASSUME NEW at \in All, at[1] >= n PROVE Body(g, at) = Body(h, at)
    <3>1. CASE at[1] > N
      BY <3>1
    <3>2. CASE ~(at[1] > N)
      <4>1. next[at] \in All /\ next[at][1] > at[1] /\ at \in (1..N) \X S
        BY <1>1, <2>2, <3>2
      <4>2. PICK later \in All : later = next[at] /\ later[1] # n
        <5>1. \A x \in All : x[1] \in Int
          OBVIOUS
        <5>2. at[1] \in Int /\ next[at][1] \in Int
          BY <4>1, <5>1
        <5> QED BY <2>5, <4>1, <5>2
      <4>3. g[later] = h[later]
        <5> HIDE DEF Body
        <5> QED BY <2>4, <4>2
      <4> QED BY <4>2, <4>3
    <3> QED BY <3>1, <3>2
  <2>6. Solved(g, n - 1)
    <3>1. ASSUME NEW at \in All, at[1] > n - 1 PROVE g[at] = Body(g, at)
      <4>1. at[1] \in Int /\ at[1] >= n
        BY <3>1
      <4>2. Body(g, at) = Body(h, at)
        BY <2>5, <4>1
      <4> HIDE DEF Body
      <4>3. CASE at[1] = n
        BY <2>4, <4>2, <4>3
      <4>4. CASE at[1] # n
        <5>1. at[1] > n
          BY <4>1, <4>4
        <5> QED BY <2>1, <2>4, <4>2, <4>4, <5>1
      <4> QED BY <4>3, <4>4
    <3> HIDE DEF Body
    <3> QED BY <3>1, Zenon
  <2>7. n - 1 \in 0..N
    BY <1>1
  <2> HIDE DEF Solved
  <2> QED BY <2>6, <2>7
<1>4. 0 \in P
  <2> HIDE DEF P
  <2>1. \A n \in 0..N : n \in P
    BY <1>1, <1>2, <1>3, DownFrom
  <2> QED BY <1>1, <2>1
<1>5. PICK h \in [All -> V] : Solved(h, 0)
  BY <1>4
<1>6. \A at \in All : h[at] = Body(h, at)
  <2>1. \A at \in All : at[1] > 0
    OBVIOUS
  <2> HIDE DEF Body
  <2> QED BY <1>5, <2>1
<1> QED BY <1>5, <1>6 DEF Solves

-----------------------------------------------------------------------------
(* Reading.                                                                *)

\* The readers a sequence of values leads through.
Leads(after, r, values, n) ==
  after[0] = r /\ \A m \in 1..n : after[m] = ReadSymbol(after[m - 1], values[m])

LEMMA ReadersExist ==
  ASSUME NEW r, NEW values, NEW N \in Nat
  PROVE  \E after : Leads(after, r, values, N) /\ after = [m \in 0..N |-> after[m]]
<1> DEFINE P == {n \in 0..N : \E g : Leads(g, r, values, n) /\ g = [m \in 0..n |-> g[m]]}
<1>1. 0 \in P
  <2>1. PICK g : g = [m \in 0..0 |-> r]
    OBVIOUS
  <2>2. g[0] = r /\ g = [m \in 0..0 |-> g[m]] /\ 1..0 = {}
    BY <2>1
  <2> QED BY <2>2 DEF Leads
<1>2. ASSUME NEW n \in 1..N, n - 1 \in P PROVE n \in P
  <2>1. PICK g : Leads(g, r, values, n - 1)
    BY <1>2
  <2>2. PICK next : next = ReadSymbol(g[n - 1], values[n])
    OBVIOUS
  <2>3. PICK h : h = [m \in 0..n |-> IF m = n THEN next ELSE g[m]]
    OBVIOUS
  <2>4. h[0] = r
    BY <2>1, <2>3 DEF Leads
  <2>5. ASSUME NEW m \in 1..n PROVE h[m] = ReadSymbol(h[m - 1], values[m])
    <3>1. h[m - 1] = g[m - 1]
      BY <2>3
    <3>2. CASE m = n
      BY <2>2, <2>3, <3>1, <3>2
    <3>3. CASE m # n
      <4>1. m \in 1..n - 1 /\ h[m] = g[m]
        BY <2>3, <3>3
      <4> QED BY <2>1, <3>1, <4>1 DEF Leads
    <3> QED BY <3>2, <3>3
  <2>6. h = [m \in 0..n |-> h[m]]
    BY <2>3
  <2>7. Leads(h, r, values, n)
    BY <2>4, <2>5 DEF Leads
  <2> QED BY <2>6, <2>7
<1>3. N \in P
  <2> HIDE DEF P
  <2> QED BY <1>1, <1>2, UpTo
<1> QED BY <1>3

LEMMA ReadAllLeads ==
  ASSUME NEW r, NEW values, Len(values) \in Nat
  PROVE  \E after : Leads(after, r, values, Len(values)) /\ ReadAll(r, values) = after[Len(values)]
<1> DEFINE Good(f) == f = [n \in 0..Len(values) |->
                             IF n = 0 THEN r ELSE ReadSymbol(f[n - 1], values[n])]
<1>1. PICK f : Leads(f, r, values, Len(values)) /\ f = [m \in 0..Len(values) |-> f[m]]
  BY ReadersExist, ZenonT(40)
<1>2. Good(f)
  <2>1. \A n \in 0..Len(values) : f[n] = IF n = 0 THEN r ELSE ReadSymbol(f[n - 1], values[n])
    BY <1>1 DEF Leads
  <2> QED BY <1>1, <2>1
<1>3. PICK after : after = (CHOOSE g : Good(g)) /\ Good(after)
  <2> HIDE DEF Good
  <2> QED BY <1>2
<1>4. ReadAll(r, values) = after[Len(values)]
  BY <1>3 DEF ReadAll
<1>5. Leads(after, r, values, Len(values))
  <2>1. \A n \in 0..Len(values) : after[n] = IF n = 0 THEN r ELSE ReadSymbol(after[n - 1], values[n])
    BY <1>3
  <2>2. 0 \in 0..Len(values) /\ \A n \in 1..Len(values) : n \in 0..Len(values) /\ n # 0
    OBVIOUS
  <2> QED BY <2>1, <2>2 DEF Leads
<1> QED BY <1>4, <1>5

LEMMA ReadNothing == ASSUME NEW r PROVE ReadAll(r, <<>>) = r
<1>1. Len(<<>>) = 0
  OBVIOUS
<1> QED BY <1>1, ReadAllLeads DEF Leads

\* The first symbol is read first.
LEMMA ReadFirst ==
  ASSUME NEW r, NEW x \in Int, NEW values \in Seq(Int)
  PROVE  ReadAll(r, <<x>> \o values) = ReadAll(ReadSymbol(r, x), values)
<1>1. PICK N \in Nat : N = Len(values)
  BY LenProperties
<1>2. PICK all : all = <<x>> \o values /\ Len(all) = N + 1 /\ all[1] = x
                  /\ \A n \in 1..N : all[n + 1] = values[n]
  <2>1. PICK one \in Seq(Int) : one = <<x>> /\ Len(one) = 1 /\ one[1] = x
    <3>1. <<x>> \in Seq(Int)
      BY OneElement
    <3> QED BY <3>1
  <2>2. /\ Len(one \o values) = Len(one) + Len(values)
        /\ \A k \in 1..Len(one) + Len(values) :
             (one \o values)[k] = IF k <= Len(one) THEN one[k] ELSE values[k - Len(one)]
    BY ConcatProperties, Zenon
  <2>3. PICK both : both = one \o values
    OBVIOUS
  <2>4. Len(both) = N + 1 /\ both[1] = x /\ \A n \in 1..N : both[n + 1] = values[n]
    BY <1>1, <2>1, <2>2, <2>3
  <2> QED BY <2>1, <2>3, <2>4
<1>3. PICK a : Leads(a, r, all, N + 1) /\ ReadAll(r, all) = a[N + 1]
  <2>1. Len(all) \in Nat
    BY <1>2
  <2>2. \E after : Leads(after, r, all, Len(all)) /\ ReadAll(r, all) = after[Len(all)]
    BY <2>1, ReadAllLeads
  <2> QED BY <1>2, <2>2
<1>4. PICK b : Leads(b, ReadSymbol(r, x), values, N) /\ ReadAll(ReadSymbol(r, x), values) = b[N]
  BY <1>1, ReadAllLeads
<1> DEFINE P == {n \in 0..N : a[n + 1] = b[n]}
<1>5. 0 \in P
  <2>1. 1 \in 1..N + 1
    OBVIOUS
  <2>2. a[1] = ReadSymbol(a[0], all[1]) /\ a[0] = r
    BY <1>3, <2>1 DEF Leads
  <2> QED BY <1>2, <1>4, <2>2 DEF Leads
<1>6. ASSUME NEW n \in 1..N, n - 1 \in P PROVE n \in P
  <2>1. n + 1 \in 1..N + 1 /\ (n + 1) - 1 = n /\ (n - 1) + 1 = n
    OBVIOUS
  <2>2. a[n + 1] = ReadSymbol(a[n], all[n + 1])
    BY <1>3, <2>1 DEF Leads
  <2>3. b[n] = ReadSymbol(b[n - 1], values[n])
    BY <1>4 DEF Leads
  <2>4. a[n] = b[n - 1]
    BY <1>6, <2>1
  <2> QED BY <1>2, <2>2, <2>3, <2>4
<1>7. N \in P
  <2> HIDE DEF P
  <2>1. \A n \in 0..N : n \in P
    BY <1>5, <1>6, UpTo
  <2> QED BY <2>1
<1> QED BY <1>2, <1>3, <1>4, <1>7

\* A reader between two characters.
Readers == [set : Sets, latched : BOOLEAN, fnc4 : BOOLEAN, shifted : BOOLEAN, read : Seq(Tokens)]
At(r, set, latched, fnc4, read) ==
  /\ r \in Readers /\ r.shifted = FALSE
  /\ r.set = set /\ r.latched = latched /\ r.fnc4 = fnc4 /\ r.read = read
Reads(set, latched, fnc4, x, set1, latched1, fnc41, piece) ==
  \A r, read : At(r, set, latched, fnc4, read)
                 => At(ReadSymbol(r, x), set1, latched1, fnc41, read \o piece)

LEMMA NothingAdded == ASSUME NEW read \in Seq(Tokens) PROVE read \o <<>> = read
BY ConcatEmptySeq

LEMMA ReadsMarker ==
  ASSUME NEW set \in Sets, NEW set1 \in Sets \ {set}, NEW latched, NEW fnc4
  PROVE  Reads(set, latched, fnc4, SetValue[set1], set1, latched, fnc4, <<>>)
<1> SUFFICES ASSUME NEW r, NEW read, At(r, set, latched, fnc4, read)
             PROVE  At(ReadSymbol(r, SetValue[set1]), set1, latched, fnc4, read \o <<>>)
  BY DEF Reads
<1>1. /\ r \in Readers /\ r.set = set /\ r.shifted = FALSE /\ read \in Seq(Tokens)
      /\ r.latched = latched /\ r.fnc4 = fnc4 /\ r.read = read
  BY DEF At, Readers
<1>2. PICK value \in 99..101 : value = SetValue[set1]
  BY DEF SetValue, Sets
<1>3. (CHOOSE s \in Sets : SetValue[s] = value) = set1
  BY <1>2 DEF SetValue, Sets
<1>4. value # SetValue[set] /\ ~(value < 100 /\ set = "C")
  BY <1>2 DEF SetValue, Sets
<1>5. ReadSymbol(r, value) = [r EXCEPT !.set = CHOOSE s \in Sets : SetValue[s] = value]
  BY <1>1, <1>2, <1>4 DEF ReadSymbol
<1>6. At([r EXCEPT !.set = set1], set1, latched, fnc4, read)
  BY <1>1 DEF At, Readers
<1> QED BY <1>1, <1>2, <1>3, <1>5, <1>6, NothingAdded

LEMMA ReadsFnc4 ==
  ASSUME NEW set \in {"A", "B"}, NEW latched \in BOOLEAN
  PROVE  /\ Reads(set, latched, FALSE, SetValue[set], set, latched, TRUE, <<>>)
         /\ Reads(set, latched, TRUE, SetValue[set], set, ~latched, FALSE, <<>>)
<1>1. PICK value \in 99..101 : value = SetValue[set]
  BY DEF SetValue
<1>2. ASSUME NEW r, r.set = set, r.shifted = FALSE
      PROVE  ReadSymbol(r, value) = ReadFnc4(r)
  BY <1>1, <1>2 DEF ReadSymbol
<1>3. ASSUME NEW r, NEW read, At(r, set, latched, FALSE, read)
      PROVE  At(ReadSymbol(r, value), set, latched, TRUE, read \o <<>>)
  <2>1. /\ r \in Readers /\ r.set = set /\ r.shifted = FALSE /\ read \in Seq(Tokens)
        /\ r.latched = latched /\ r.fnc4 = FALSE /\ r.read = read
    BY <1>3 DEF At, Readers
  <2>2. At([r EXCEPT !.fnc4 = TRUE], set, latched, TRUE, read)
    BY <2>1 DEF At, Readers
  <2> QED BY <1>2, <2>1, <2>2, NothingAdded DEF ReadFnc4
<1>4. ASSUME NEW r, NEW read, At(r, set, latched, TRUE, read)
      PROVE  At(ReadSymbol(r, value), set, ~latched, FALSE, read \o <<>>)
  <2>1. /\ r \in Readers /\ r.set = set /\ r.shifted = FALSE /\ read \in Seq(Tokens)
        /\ r.latched = latched /\ r.fnc4 = TRUE /\ r.read = read
    BY <1>4 DEF At, Readers
  <2>2. PICK other \in BOOLEAN : other = ~latched
    OBVIOUS
  <2>3. At([r EXCEPT !.latched = other, !.fnc4 = FALSE], set, other, FALSE, read)
    BY <2>1 DEF At, Readers
  <2>4. ReadFnc4(r) = [r EXCEPT !.latched = other, !.fnc4 = FALSE]
    BY <2>1, <2>2 DEF ReadFnc4
  <2> QED BY <1>2, <2>1, <2>2, <2>3, <2>4, NothingAdded
<1> QED BY <1>1, <1>3, <1>4 DEF Reads

\* A byte whose lower half is `low`, in the half that latch and FNC4 tell.
InHalf(low, latched, fnc4) == IF latched # fnc4 THEN low + 128 ELSE low

LEMMA ValueReadsBack ==
  ASSUME NEW set \in {"A", "B"}, NEW low \in 0..127, NEW x \in CharacterValue(set, low)
  PROVE  /\ x \in 0..95
         /\ (IF set = "A" /\ x > 63 THEN x - 64 ELSE x + 32) = low
<1>1. CASE set = "A" /\ low <= 31
  <2>1. x = low + 64
    BY <1>1 DEF CharacterValue
  <2> QED BY <1>1, <2>1
<1>2. CASE set = "A" /\ low \in 32..95
  <2>1. x = low - 32
    BY <1>2 DEF CharacterValue
  <2> QED BY <1>2, <2>1
<1>3. CASE set = "B" /\ low \in 32..127
  <2>1. x = low - 32
    BY <1>3 DEF CharacterValue
  <2> QED BY <1>3, <2>1
<1>4. CASE ~(set = "A" /\ low <= 31) /\ ~(set = "A" /\ low \in 32..95) /\ ~(set = "B" /\ low \in 32..127)
  <2>1. CharacterValue(set, low) = {}
    BY <1>4, Zenon DEF CharacterValue
  <2> QED BY <2>1
<1> QED BY <1>1, <1>2, <1>3, <1>4

LEMMA CharacterRead ==
  ASSUME NEW r \in Readers, NEW set \in {"A", "B"}, NEW low \in 0..127, NEW x \in CharacterValue(set, low),
         NEW byte, byte = InHalf(low, r.latched, r.fnc4)
  PROVE  At(ReadCharacter(r, set, x), r.set, r.latched, FALSE, r.read \o <<byte>>)
<1>1. x \in 0..95 /\ (IF set = "A" /\ x > 63 THEN x - 64 ELSE x + 32) = low
  BY ValueReadsBack
<1>2. byte \in Tokens
  BY DEF InHalf, Tokens, Bytes
<1>3. PICK read \in Seq(Tokens) : read = r.read
  BY DEF Readers
<1>4. PICK more \in Seq(Tokens) : more = Append(read, byte) /\ more = read \o <<byte>>
  BY <1>2, AppendProperties, AppendIsConcat
<1>5. ReadCharacter(r, set, x) = [r EXCEPT !.read = more, !.fnc4 = FALSE, !.shifted = FALSE]
  BY <1>1, <1>3, <1>4 DEF ReadCharacter, InHalf
<1>6. At([r EXCEPT !.read = more, !.fnc4 = FALSE, !.shifted = FALSE], r.set, r.latched, FALSE, more)
  BY DEF At, Readers
<1> QED BY <1>3, <1>4, <1>5, <1>6

\* The set of the next symbol is the reader's own, or after SHIFT the other.
SetSeen(r) == IF r.shifted THEN Other(r.set) ELSE r.set

LEMMA SeenCharacter ==
  ASSUME NEW r, NEW set \in {"A", "B"}, SetSeen(r) = set, NEW x \in 0..95
  PROVE  ReadSymbol(r, x) = ReadCharacter(r, set, x)
<1>1. x # 102 /\ x # 96 /\ x # 98 /\ x \notin 99..101 /\ x < 96 /\ set # "C"
  OBVIOUS
<1> QED BY <1>1, Zenon DEF ReadSymbol, SetSeen

LEMMA SeenPair ==
  ASSUME NEW r, SetSeen(r) = "C", NEW x \in 0..99
  PROVE  ReadSymbol(r, x) = [r EXCEPT !.read = r.read \o <<48 + x \div 10, 48 + (x % 10)>>]
<1>1. x # 102 /\ x < 100
  OBVIOUS
<1> QED BY <1>1, Zenon DEF ReadSymbol, SetSeen

LEMMA ReadsCharacter ==
  ASSUME NEW set \in {"A", "B"}, NEW latched, NEW fnc4,
         NEW low \in 0..127, NEW x \in CharacterValue(set, low)
  PROVE  Reads(set, latched, fnc4, x, set, latched, FALSE, <<InHalf(low, latched, fnc4)>>)
<1> SUFFICES ASSUME NEW r, NEW read, At(r, set, latched, fnc4, read)
             PROVE  At(ReadSymbol(r, x), set, latched, FALSE, read \o <<InHalf(low, latched, fnc4)>>)
  BY DEF Reads
<1>1. /\ r \in Readers /\ r.set = set /\ r.shifted = FALSE /\ r.latched = latched /\ r.fnc4 = fnc4
      /\ r.read = read
  BY DEF At
<1>2. x \in 0..95
  BY ValueReadsBack
<1>3. ReadSymbol(r, x) = ReadCharacter(r, set, x)
  BY <1>1, <1>2, SeenCharacter DEF SetSeen
<1>4. At(ReadCharacter(r, set, x), r.set, r.latched, FALSE, r.read \o <<InHalf(low, r.latched, r.fnc4)>>)
  BY <1>1, CharacterRead
<1> QED BY <1>1, <1>3, <1>4

\* SHIFT and a character of the other set.
ReadsShifted(set, latched, fnc4, x, piece) ==
  \A r, read : At(r, set, latched, fnc4, read)
                 => At(ReadSymbol(ReadSymbol(r, 98), x), set, latched, FALSE, read \o piece)

LEMMA ReadsShift ==
  ASSUME NEW set \in {"A", "B"}, NEW latched, NEW fnc4,
         NEW low \in 0..127, NEW x \in CharacterValue(Other(set), low)
  PROVE  ReadsShifted(set, latched, fnc4, x, <<InHalf(low, latched, fnc4)>>)
<1> SUFFICES ASSUME NEW r, NEW read, At(r, set, latched, fnc4, read)
             PROVE  At(ReadSymbol(ReadSymbol(r, 98), x), set, latched, FALSE,
                       read \o <<InHalf(low, latched, fnc4)>>)
  BY DEF ReadsShifted
<1>1. /\ r \in Readers /\ r.set = set /\ r.shifted = FALSE /\ r.latched = latched /\ r.fnc4 = fnc4
      /\ r.read = read
  BY DEF At
<1>2. PICK other \in {"A", "B"} : other = Other(set)
  BY DEF Other
<1>3. x \in CharacterValue(other, low)
  BY <1>2
<1>4. x \in 0..95
  BY <1>3, ValueReadsBack
<1>5. PICK s : s = [r EXCEPT !.shifted = TRUE]
  OBVIOUS
<1>6. ReadSymbol(r, 98) = s
  BY <1>1, <1>5 DEF ReadSymbol, SetValue
<1>7. /\ s \in Readers /\ s.set = set /\ s.shifted = TRUE /\ s.latched = latched /\ s.fnc4 = fnc4
      /\ s.read = read
  BY <1>1, <1>5 DEF Readers
<1>8. ReadSymbol(s, x) = ReadCharacter(s, other, x)
  BY <1>2, <1>4, <1>7, SeenCharacter DEF SetSeen
<1>9. At(ReadCharacter(s, other, x), s.set, s.latched, FALSE, s.read \o <<InHalf(low, s.latched, s.fnc4)>>)
  BY <1>3, <1>7, CharacterRead
<1> QED BY <1>6, <1>7, <1>8, <1>9

LEMMA ReadsPair ==
  ASSUME NEW latched, NEW fnc4, NEW a \in 48..57, NEW b \in 48..57
  PROVE  Reads("C", latched, fnc4, (a - 48) * 10 + b - 48, "C", latched, fnc4, <<a, b>>)
<1> SUFFICES ASSUME NEW r, NEW read, At(r, "C", latched, fnc4, read)
             PROVE  At(ReadSymbol(r, (a - 48) * 10 + b - 48), "C", latched, fnc4, read \o <<a, b>>)
  BY DEF Reads
<1>1. /\ r \in Readers /\ r.set = "C" /\ r.shifted = FALSE /\ r.latched = latched /\ r.fnc4 = fnc4
      /\ r.read = read /\ read \in Seq(Tokens)
  BY DEF At, Readers
<1>2. PICK x \in 0..99 : x = (a - 48) * 10 + b - 48 /\ 48 + x \div 10 = a /\ 48 + (x % 10) = b
  <2>1. PICK x \in 0..99 : x = (a - 48) * 10 + b - 48
    OBVIOUS
  <2>2. x \div 10 = a - 48 /\ x % 10 = b - 48
    BY <2>1
  <2> QED BY <2>1, <2>2
<1>3. ReadSymbol(r, x) = [r EXCEPT !.read = r.read \o <<48 + x \div 10, 48 + (x % 10)>>]
  BY <1>1, <1>2, SeenPair DEF SetSeen
<1>4. <<a, b>> \in Seq(Tokens)
  <2>1. a \in Tokens /\ b \in Tokens
    BY DEF Tokens, Bytes
  <2> QED BY <2>1
<1>5. PICK more \in Seq(Tokens) : more = read \o <<a, b>>
  BY <1>1, <1>4, ConcatProperties
<1>6. ReadSymbol(r, x) = [r EXCEPT !.read = more]
  BY <1>1, <1>2, <1>3, <1>5
<1>7. At([r EXCEPT !.read = more], "C", latched, fnc4, more)
  BY <1>1 DEF At, Readers
<1> QED BY <1>2, <1>5, <1>6, <1>7

LEMMA ControlRead ==
  ASSUME NEW r \in Readers, r.shifted = FALSE, NEW token \in {Fnc1, Fnc3}
  PROVE  At([r EXCEPT !.read = Append(r.read, token)], r.set, r.latched, r.fnc4, r.read \o <<token>>)
<1>1. PICK read \in Seq(Tokens) : read = r.read
  BY DEF Readers
<1>2. token \in Tokens
  BY DEF Tokens
<1>3. PICK more \in Seq(Tokens) : more = Append(read, token) /\ more = read \o <<token>>
  BY <1>2, AppendProperties, AppendIsConcat, ZenonT(40)
<1>4. At([r EXCEPT !.read = more], r.set, r.latched, r.fnc4, more)
  BY DEF At, Readers
<1> QED BY <1>1, <1>3, <1>4

LEMMA ReadsControl ==
  ASSUME NEW set \in Sets, NEW latched, NEW fnc4
  PROVE  /\ Reads(set, latched, fnc4, 102, set, latched, fnc4, <<Fnc1>>)
         /\ set # "C" => Reads(set, latched, fnc4, 96, set, latched, fnc4, <<Fnc3>>)
<1>1. ASSUME NEW r, NEW read, At(r, set, latched, fnc4, read), NEW token \in {Fnc1, Fnc3}
      PROVE  At([r EXCEPT !.read = Append(r.read, token)], set, latched, fnc4, read \o <<token>>)
  BY <1>1, ControlRead DEF At
<1>2. ASSUME NEW r PROVE ReadSymbol(r, 102) = [r EXCEPT !.read = Append(r.read, Fnc1)]
  BY DEF ReadSymbol
<1>3. ASSUME NEW r, r.shifted = FALSE, r.set = set, set # "C"
      PROVE  ReadSymbol(r, 96) = [r EXCEPT !.read = Append(r.read, Fnc3)]
  BY <1>3 DEF ReadSymbol
<1>4. ASSUME NEW r, NEW read, At(r, set, latched, fnc4, read)
      PROVE  /\ At(ReadSymbol(r, 102), set, latched, fnc4, read \o <<Fnc1>>)
             /\ set # "C" => At(ReadSymbol(r, 96), set, latched, fnc4, read \o <<Fnc3>>)
  <2>1. r.shifted = FALSE /\ r.set = set
    BY <1>4 DEF At
  <2>2. At([r EXCEPT !.read = Append(r.read, Fnc1)], set, latched, fnc4, read \o <<Fnc1>>)
    BY <1>1, <1>4
  <2>3. At([r EXCEPT !.read = Append(r.read, Fnc3)], set, latched, fnc4, read \o <<Fnc3>>)
    BY <1>1, <1>4
  <2>4. set # "C" => At(ReadSymbol(r, 96), set, latched, fnc4, read \o <<Fnc3>>)
    BY <1>3, <2>1, <2>3
  <2> QED BY <1>2, <2>2, <2>4
<1> QED BY <1>4 DEF Reads
-----------------------------------------------------------------------------
(* The explicit encoder.                                                   *)

Steps == [values : SUBSET Seq(Int), advance : 1..3, set : Sets]

LEMMA TakenIsStep ==
  ASSUME NEW values \in SUBSET Seq(Int), NEW advance \in 1..3, NEW set \in Sets
  PROVE  Taken(values, advance, set) \in Steps
BY DEF Taken, Steps

LEMMA PushedIsStep ==
  ASSUME NEW value \in Int, NEW advance \in 1..3, NEW set \in Sets
  PROVE  Pushed(value, advance, set) \in Steps
<1>1. {<<value>>} \in SUBSET Seq(Int)
  BY OneElement
<1> QED BY <1>1, TakenIsStep DEF Pushed

LEMMA CharacterIsStep ==
  ASSUME NEW set \in Sets, NEW byte \in Bytes
  PROVE  /\ CharacterValue(set, byte) \in SUBSET Int
         /\ \A advance \in 1..3 : Character(set, byte, advance) \in Steps
<1>1. CharacterValue(set, byte) \in SUBSET Int
  <2>1. CASE set = "A" /\ byte <= 31
    BY <2>1 DEF CharacterValue, Bytes
  <2>2. CASE set = "A" /\ byte \in 32..95
    BY <2>2 DEF CharacterValue
  <2>3. CASE set = "B" /\ byte \in 32..127
    BY <2>3 DEF CharacterValue
  <2>4. CASE ~(set = "A" /\ byte <= 31) /\ ~(set = "A" /\ byte \in 32..95) /\ ~(set = "B" /\ byte \in 32..127)
    <3>1. CharacterValue(set, byte) = {}
      BY <2>4, Zenon DEF CharacterValue
    <3> QED BY <3>1
  <2> QED BY <2>1, <2>2, <2>3, <2>4
<1>2. {<<v>> : v \in CharacterValue(set, byte)} \in SUBSET Seq(Int)
  <2>1. ASSUME NEW v \in CharacterValue(set, byte) PROVE <<v>> \in Seq(Int)
    <3>1. v \in Int
      BY <1>1
    <3> QED BY <3>1, OneElement
  <2> QED BY <2>1
<1> QED BY <1>1, <1>2, TakenIsStep DEF Character

LEMMA MarkerIsStep ==
  ASSUME NEW text \in Seq(Bytes), NEW i \in 1..Len(text), NEW set \in Sets
  PROVE  EncodeMarker(text, i, set) \in Steps
<1>0. Len(text) \in Nat
  BY LenProperties
<1>1. Taken({}, 2, set) \in Steps
  <2>1. {} \in SUBSET Seq(Int) /\ 2 \in 1..3
    OBVIOUS
  <2> QED BY <2>1, TakenIsStep
<1>2. CASE i = Len(text)
  <2>1. EncodeMarker(text, i, set) = Taken({}, 2, set)
    BY <1>2 DEF EncodeMarker
  <2> QED BY <1>1, <2>1
<1>3. CASE i # Len(text)
  <2>1. PICK byte \in Bytes : byte = text[i + 1]
    <3>1. i + 1 \in 1..Len(text)
      BY <1>0, <1>3
    <3> QED BY <3>1, ElementOfSeq
  <2>2. CASE byte \in 65..67
    <3>1. PICK other \in Sets : other = SetOfMarker(byte)
      BY <2>2 DEF SetOfMarker, Sets
    <3>2. PICK value \in Int : value = SetValue[other]
      BY DEF SetValue, Sets
    <3>3. EncodeMarker(text, i, set) = Pushed(value, 2, other)
      BY <1>3, <2>1, <2>2, <3>1, <3>2 DEF EncodeMarker
    <3> QED BY <3>3, PushedIsStep
  <2>3. CASE byte \in {49, 50, 51}
    <3>1. \E value \in Int : EncodeMarker(text, i, set) = Pushed(value, 2, set)
      BY <1>3, <2>1, <2>3 DEF EncodeMarker
    <3> QED BY <3>1, PushedIsStep
  <2>4. CASE byte = 52 /\ set # "C"
    <3>1. PICK value \in Int : value = SetValue[set]
      BY DEF SetValue, Sets
    <3>2. EncodeMarker(text, i, set) = Pushed(value, 2, set)
      BY <1>3, <2>1, <2>4, <3>1 DEF EncodeMarker
    <3> QED BY <3>2, PushedIsStep
  <2>5. CASE byte = 123
    <3>1. EncodeMarker(text, i, set) = Character(set, 123, 2)
      BY <1>3, <2>1, <2>5 DEF EncodeMarker
    <3> QED BY <2>5, <3>1, CharacterIsStep
  <2>6. CASE byte = 83 /\ set # "C" /\ i + 2 <= Len(text)
    <3>1. PICK next \in Bytes : next = text[i + 2]
      <4>1. i + 2 \in 1..Len(text)
        BY <2>6
      <4> QED BY <4>1, ElementOfSeq
    <3>2. PICK other \in Sets : other = Other(set)
      BY DEF Other, Sets
    <3>3. EncodeMarker(text, i, set) = Taken({<<98, v>> : v \in CharacterValue(Other(set), text[i + 2])}, 3, set)
      <4>1. /\ text[i + 1] \notin 65..67 /\ text[i + 1] # 49 /\ text[i + 1] # 50 /\ text[i + 1] # 51
            /\ text[i + 1] # 52 /\ text[i + 1] # 123
            /\ text[i + 1] = 83 /\ set # "C" /\ i + 2 <= Len(text)
        BY <2>1, <2>6
      <4> QED BY <1>3, <4>1, Zenon DEF EncodeMarker
    <3>4. PICK values \in SUBSET Seq(Int) : values = {<<98, v>> : v \in CharacterValue(other, next)}
      <4>1. ASSUME NEW v \in CharacterValue(other, next) PROVE <<98, v>> \in Seq(Int)
        <5>1. v \in Int
          BY CharacterIsStep
        <5> QED BY <5>1
      <4> QED BY <4>1
    <3>5. Taken(values, 3, set) \in Steps
      <4>1. 3 \in 1..3
        OBVIOUS
      <4> QED BY <3>4, <4>1, TakenIsStep
    <3> QED BY <3>1, <3>2, <3>3, <3>4, <3>5, Zenon
  <2>7. CASE /\ byte \notin 65..67 /\ byte # 49 /\ byte # 50 /\ byte # 51 /\ byte # 123
             /\ ~(byte = 52 /\ set # "C") /\ ~(byte = 83 /\ set # "C" /\ i + 2 <= Len(text))
    <3>1. EncodeMarker(text, i, set) = Taken({}, 2, set)
      BY <1>3, <2>1, <2>7, Zenon DEF EncodeMarker
    <3> QED BY <1>1, <3>1
  <2> QED BY <2>2, <2>3, <2>4, <2>5, <2>6, <2>7
<1> QED BY <1>2, <1>3

LEMMA EncodeStepIsStep ==
  ASSUME NEW text \in Seq(Bytes), NEW i \in 1..Len(text), NEW set \in Sets
  PROVE  EncodeStep(text, i, set) \in Steps
<1>1. PICK byte \in Bytes : byte = text[i]
  BY ElementOfSeq
<1>2. CASE byte = 123
  BY <1>1, <1>2, MarkerIsStep DEF EncodeStep
<1>3. CASE byte # 123 /\ set = "C"
  <2>1. EncodeStep(text, i, set) = EncodePair(text, i)
    BY <1>1, <1>3 DEF EncodeStep
  <2>2. CASE i < Len(text) /\ IsDecimal(text[i]) /\ IsDecimal(text[i + 1])
    <3>1. PICK value \in Int : value = (text[i] - 48) * 10 + text[i + 1] - 48
      <4>1. PICK a \in 48..57, b \in 48..57 : a = text[i] /\ b = text[i + 1]
        BY <2>2 DEF IsDecimal
      <4>2. (a - 48) * 10 + b - 48 \in Int
        OBVIOUS
      <4> QED BY <4>1, <4>2
    <3>2. EncodePair(text, i) = Pushed(value, 2, "C")
      BY <2>2, <3>1 DEF EncodePair
    <3> QED BY <2>1, <3>2, PushedIsStep DEF Sets
  <2>3. CASE ~(i < Len(text) /\ IsDecimal(text[i]) /\ IsDecimal(text[i + 1]))
    <3>1. EncodePair(text, i) = Taken({}, 2, "C")
      BY <2>3, Zenon DEF EncodePair
    <3> QED BY <2>1, <3>1, TakenIsStep DEF Sets
  <2> QED BY <2>2, <2>3
<1>4. CASE byte # 123 /\ set # "C"
  <2>1. EncodeStep(text, i, set) = Character(set, byte, 1)
    BY <1>1, <1>4, Zenon DEF EncodeStep
  <2> QED BY <2>1, CharacterIsStep
<1> QED BY <1>2, <1>3, <1>4

\* Each of the values in front of each of the rests.
Prefixed(values, rests) == UNION {{v \o rest : rest \in rests} : v \in values}

LEMMA PrefixedHolds ==
  ASSUME NEW values \in SUBSET Seq(Int), NEW rests \in SUBSET Seq(Int)
  PROVE  /\ Prefixed(values, rests) \in SUBSET Seq(Int)
         /\ \A v \in values, rest \in rests : v \o rest \in Prefixed(values, rests)
<1>1. ASSUME NEW v \in values, NEW rest \in rests
      PROVE  v \o rest \in Seq(Int)
  BY ConcatProperties
<1>2. ASSUME NEW w \in Prefixed(values, rests) PROVE w \in Seq(Int)
  <2>1. PICK v \in values : w \in {v \o rest : rest \in rests}
    BY DEF Prefixed
  <2>2. PICK rest \in rests : w = v \o rest
    BY <2>1
  <2> QED BY <1>1, <2>2
<1>3. ASSUME NEW v \in values, NEW rest \in rests
      PROVE  v \o rest \in Prefixed(values, rests)
  <2>1. v \o rest \in {v \o rest2 : rest2 \in rests}
    OBVIOUS
  <2> QED BY <2>1 DEF Prefixed
<1> QED BY <1>2, <1>3

TextPlaces(text) == (1..Len(text) + 3) \X Sets
EncodedAt(text, h, at) ==
  IF at[1] > Len(text) THEN {<<>>}
  ELSE Prefixed(EncodeStep(text, at[1], at[2]).values,
                h[<<at[1] + EncodeStep(text, at[1], at[2]).advance, EncodeStep(text, at[1], at[2]).set>>])
IsEncoding(text, h) ==
  /\ h \in [TextPlaces(text) -> SUBSET Seq(Int)]
  /\ \A at \in TextPlaces(text) : h[at] = EncodedAt(text, h, at)

LEMMA EncodingExists ==
  ASSUME NEW text \in Seq(Bytes)
  PROVE  \E h : IsEncoding(text, h)
<1>1. PICK N \in Nat : N = Len(text)
  BY LenProperties
<1>2. PICK V : V = SUBSET Seq(Int)
  OBVIOUS
<1>3. PICK InText : InText = (1..N) \X Sets
  OBVIOUS
<1> DEFINE step(at) == EncodeStep(text, at[1], at[2])
           later(at) == <<at[1] + step(at).advance, step(at).set>>
<1>4. ASSUME NEW at \in InText
      PROVE  /\ step(at).values \in V /\ later(at) \in (1..N + 3) \X Sets
             /\ later(at)[1] > at[1]
  <2>1. at[1] \in 1..N /\ at[2] \in Sets
    BY <1>3
  <2>2. step(at) \in Steps
    BY <1>1, <2>1, EncodeStepIsStep
  <2>3. PICK n \in 1..N, a \in 1..3, set \in Sets : n = at[1] /\ a = step(at).advance /\ set = step(at).set
    <3> HIDE DEF step
    <3>1. step(at).advance \in 1..3 /\ step(at).set \in Sets
      BY <2>2 DEF Steps
    <3> QED BY <2>1, <3>1
  <2>4. later(at) = <<n + a, set>> /\ n + a \in 1..N + 3 /\ n + a > n
    <3> HIDE DEF step
    <3> QED BY <2>3, SMTT(30)
  <2>5. step(at).values \in V
    <3> HIDE DEF step
    <3> QED BY <1>2, <2>2 DEF Steps
  <2> HIDE DEF later, step
  <2> QED BY <2>3, <2>4, <2>5
<1>5. PICK next : /\ next \in [InText -> (1..N + 3) \X Sets]
                  /\ \A at \in InText : next[at] = later(at) /\ next[at][1] > at[1]
  <2> HIDE DEF later
  <2>1. PICK f : f = [at \in InText |-> later(at)]
    OBVIOUS
  <2> QED BY <1>4, <2>1
<1>6. PICK combine : /\ combine \in [InText \X V -> V]
                     /\ \A at \in InText, rests \in V :
                          combine[<<at, rests>>] = Prefixed(step(at).values, rests)
  <2> HIDE DEF step
  <2>1. PICK f : f = [x \in InText \X V |-> Prefixed(step(x[1]).values, x[2])]
    OBVIOUS
  <2>2. \A at \in InText, rests \in V : Prefixed(step(at).values, rests) \in V
    BY <1>2, <1>4, PrefixedHolds
  <2> QED BY <2>1, <2>2
<1>7. {<<>>} \in V
  BY <1>2, EmptySeq
<1>8. PICK h : Solves(h, N + 3, N, Sets, V, {<<>>}, next, combine)
  <2>1. IsRecursion(N + 3, N, Sets, V, {<<>>}, next, combine)
    BY <1>3, <1>5, <1>6, <1>7 DEF IsRecursion
  <2> QED BY <2>1, RecursionExists
<1>9. PICK Where : Where = TextPlaces(text) /\ Where = (1..N + 3) \X Sets
  BY <1>1 DEF TextPlaces
<1>10. /\ h \in [Where -> V]
       /\ \A at \in Where : h[at] = IF at[1] > N THEN {<<>>} ELSE combine[<<at, h[next[at]]>>]
  BY <1>8, <1>9 DEF Solves
<1>11. ASSUME NEW at \in Where PROVE h[at] = EncodedAt(text, h, at)
  <2>1. CASE at[1] > N
    BY <1>1, <1>10, <2>1, Zenon DEF EncodedAt
  <2>2. CASE ~(at[1] > N)
    <3>1. at \in InText
      BY <1>3, <1>9, <2>2
    <3>2. next[at] = later(at) /\ h[next[at]] \in V
      <4> HIDE DEF later
      <4> QED BY <1>5, <1>9, <1>10, <3>1
    <3>3. h[at] = Prefixed(step(at).values, h[later(at)])
      <4> HIDE DEF later, step
      <4> QED BY <1>6, <1>10, <2>2, <3>1, <3>2
    <3> QED BY <1>1, <2>2, <3>3, Zenon DEF EncodedAt
  <2> QED BY <2>1, <2>2
<1> QED BY <1>2, <1>9, <1>10, <1>11 DEF IsEncoding

\* Codes as the encoder's function has them.
IsCode(text, f) == \A at \in TextPlaces(text) : f[at] = EncodedAt(text, f, at)

LEMMA CodeExists ==
  ASSUME NEW text \in Seq(Bytes), Len(text) >= 2, text[1] = 123, text[2] \in 65..67
  PROVE  \E f : /\ IsCode(text, f)
                /\ EncodeCode128(text) =
                     {<<StartValue[SetOfMarker(text[2])]>> \o values \o
                        <<Checksum(<<StartValue[SetOfMarker(text[2])]>> \o values), 106>>
                       : values \in f[<<3, SetOfMarker(text[2])>>] \ {<<>>}}
<1> DEFINE Good(f) == f = [at \in (1..Len(text) + 3) \X Sets |->
                             LET step == EncodeStep(text, at[1], at[2])
                             IN  IF at[1] > Len(text) THEN {<<>>}
                                 ELSE UNION {{v \o rest : rest \in f[<<at[1] + step.advance, step.set>>]}
                                               : v \in step.values}]
<1>1. PICK h : IsEncoding(text, h)
  BY EncodingExists
<1>2. Good(h)
  <2>1. h = [at \in TextPlaces(text) |-> h[at]]
    BY <1>1 DEF IsEncoding
  <2>2. h = [at \in TextPlaces(text) |-> EncodedAt(text, h, at)]
    BY <1>1, <2>1 DEF IsEncoding
  <2> QED BY <2>2, Zenon DEF EncodedAt, Prefixed, TextPlaces
<1>3. PICK f : f = (CHOOSE g : Good(g)) /\ Good(f)
  <2> HIDE DEF Good
  <2> QED BY <1>2
<1>4. IsCode(text, f)
  <2>1. f = [at \in TextPlaces(text) |-> EncodedAt(text, f, at)]
    BY <1>3, Zenon DEF EncodedAt, Prefixed, TextPlaces
  <2> HIDE DEF Good
  <2>2. \A at \in TextPlaces(text) : [at2 \in TextPlaces(text) |-> EncodedAt(text, f, at2)][at] = EncodedAt(text, f, at)
    BY Zenon
  <2> QED BY <2>1, <2>2, Zenon DEF IsCode
<1>5. ~(Len(text) < 2 \/ text[1] # 123 \/ text[2] \notin 65..67)
  <2>1. Len(text) \in Nat
    BY LenProperties
  <2> QED BY <2>1
<1>6. EncodeCode128(text) =
        {<<StartValue[SetOfMarker(text[2])]>> \o values \o
           <<Checksum(<<StartValue[SetOfMarker(text[2])]>> \o values), 106>>
          : values \in f[<<3, SetOfMarker(text[2])>>] \ {<<>>}}
  BY <1>3, <1>5, Zenon DEF EncodeCode128
<1> QED BY <1>4, <1>6

-----------------------------------------------------------------------------
(* What the code of the text from a position on says to a reader.          *)

Tells(v, set, latched, fnc4, out) ==
  v \in Seq(Int) /\ \A r, read : At(r, set, latched, fnc4, read) => ReadAll(r, v).read = read \o out
Says(f, i, set, latched, fnc4, out) == \E v \in f[<<i, set>>] : Tells(v, set, latched, fnc4, out)

LEMMA SaysNothing ==
  ASSUME NEW text \in Seq(Bytes), NEW f, IsCode(text, f), NEW set \in Sets, NEW latched, NEW fnc4
  PROVE  Says(f, Len(text) + 1, set, latched, fnc4, <<>>)
<1>1. PICK N \in Nat : N = Len(text)
  BY LenProperties
<1>2. PICK at : at = <<N + 1, set>>
  OBVIOUS
<1>3. at \in TextPlaces(text) /\ at[1] > Len(text)
  BY <1>1, <1>2 DEF TextPlaces
<1>4. f[at] = {<<>>}
  BY <1>3 DEF IsCode, EncodedAt
<1>5. ASSUME NEW r, NEW read, At(r, set, latched, fnc4, read)
      PROVE  ReadAll(r, <<>>).read = read \o <<>>
  <2>1. r.read = read /\ read \in Seq(Tokens)
    BY <1>5 DEF At, Readers
  <2> QED BY <2>1, ReadNothing, NothingAdded
<1>6. Tells(<<>>, set, latched, fnc4, <<>>)
  BY <1>5, EmptySeq DEF Tells
<1> QED BY <1>1, <1>2, <1>4, <1>6 DEF Says

LEMMA Reassociated ==
  ASSUME NEW a \in Seq(Tokens), NEW b \in Seq(Tokens), NEW c \in Seq(Tokens)
  PROVE  (a \o b) \o c = a \o (b \o c)
BY ConcatAssociative

\* One symbol, and what the rest tells.
LEMMA TellsFirst ==
  ASSUME NEW x \in Int, NEW rest, NEW set, NEW latched, NEW fnc4, NEW set1, NEW latched1, NEW fnc41,
         NEW piece \in Seq(Tokens), NEW out \in Seq(Tokens),
         Reads(set, latched, fnc4, x, set1, latched1, fnc41, piece),
         Tells(rest, set1, latched1, fnc41, out)
  PROVE  Tells(<<x>> \o rest, set, latched, fnc4, piece \o out)
<1>1. rest \in Seq(Int) /\ <<x>> \in Seq(Int)
  BY OneElement DEF Tells
<1>2. <<x>> \o rest \in Seq(Int)
  BY <1>1, ConcatProperties
<1>3. ASSUME NEW r, NEW read, At(r, set, latched, fnc4, read)
      PROVE  ReadAll(r, <<x>> \o rest).read = read \o (piece \o out)
  <2>1. read \in Seq(Tokens)
    BY <1>3 DEF At, Readers
  <2>2. At(ReadSymbol(r, x), set1, latched1, fnc41, read \o piece)
    BY <1>3 DEF Reads
  <2>3. ReadAll(ReadSymbol(r, x), rest).read = (read \o piece) \o out
    BY <2>2 DEF Tells
  <2>4. ReadAll(r, <<x>> \o rest) = ReadAll(ReadSymbol(r, x), rest)
    BY <1>1, ReadFirst
  <2>5. (read \o piece) \o out = read \o (piece \o out)
    BY <2>1, Reassociated
  <2> QED BY <2>3, <2>4, <2>5, Zenon
<1> QED BY <1>2, <1>3 DEF Tells

\* SHIFT, the symbol it serves, and what the rest tells.
LEMMA TellsShifted ==
  ASSUME NEW x \in Int, NEW rest, NEW set, NEW latched, NEW fnc4,
         NEW piece \in Seq(Tokens), NEW out \in Seq(Tokens),
         ReadsShifted(set, latched, fnc4, x, piece),
         Tells(rest, set, latched, FALSE, out)
  PROVE  Tells(<<98, x>> \o rest, set, latched, fnc4, piece \o out)
<1>1. rest \in Seq(Int) /\ <<x>> \in Seq(Int) /\ <<98>> \in Seq(Int) /\ <<98, x>> \in Seq(Int)
  <2>1. 98 \in Int
    OBVIOUS
  <2> QED BY <2>1, OneElement DEF Tells
<1>2. <<98, x>> \o rest \in Seq(Int) /\ <<x>> \o rest \in Seq(Int)
  BY <1>1, ConcatProperties
<1>3. <<98, x>> \o rest = <<98>> \o (<<x>> \o rest)
  <2>1. <<98, x>> = <<98>> \o <<x>>
    OBVIOUS
  <2> QED BY <1>1, <2>1, ConcatAssociative
<1>4. ASSUME NEW r, NEW read, At(r, set, latched, fnc4, read)
      PROVE  ReadAll(r, <<98, x>> \o rest).read = read \o (piece \o out)
  <2>1. read \in Seq(Tokens)
    BY <1>4 DEF At, Readers
  <2>2. At(ReadSymbol(ReadSymbol(r, 98), x), set, latched, FALSE, read \o piece)
    BY <1>4 DEF ReadsShifted
  <2>3. ReadAll(ReadSymbol(ReadSymbol(r, 98), x), rest).read = (read \o piece) \o out
    BY <2>2 DEF Tells
  <2>4. ReadAll(r, <<98>> \o (<<x>> \o rest)) = ReadAll(ReadSymbol(r, 98), <<x>> \o rest)
    <3>1. 98 \in Int
      OBVIOUS
    <3> QED BY <1>2, <3>1, ReadFirst, ZenonT(40)
  <2>5. ReadAll(ReadSymbol(r, 98), <<x>> \o rest) = ReadAll(ReadSymbol(ReadSymbol(r, 98), x), rest)
    BY <1>1, ReadFirst
  <2>6. (read \o piece) \o out = read \o (piece \o out)
    BY <2>1, Reassociated
  <2> QED BY <1>3, <2>3, <2>4, <2>5, <2>6
<1> QED BY <1>2, <1>4 DEF Tells

\* The step takes `advance` bytes to the set, and may add the values v.
Adds(text, i, set, v, advance, set1) ==
  LET step == EncodeStep(text, i, set)
  IN  v \in step.values /\ step.advance = advance /\ step.set = set1

LEMMA CodeOfStep ==
  ASSUME NEW text \in Seq(Bytes), NEW f, IsCode(text, f), NEW i \in 1..Len(text), NEW set \in Sets,
         NEW v, NEW advance, NEW set1, Adds(text, i, set, v, advance, set1),
         NEW rest \in f[<<i + advance, set1>>]
  PROVE  v \o rest \in f[<<i, set>>]
<1>1. PICK N \in Nat : N = Len(text)
  BY LenProperties
<1>2. PICK at : at = <<i, set>>
  OBVIOUS
<1>3. at \in TextPlaces(text) /\ ~(at[1] > Len(text)) /\ at[1] = i /\ at[2] = set
  BY <1>1, <1>2 DEF TextPlaces
<1>4. f[at] = EncodedAt(text, f, at)
  BY <1>3 DEF IsCode
<1>5. EncodedAt(text, f, at) = Prefixed(EncodeStep(text, i, set).values, f[<<i + advance, set1>>])
  BY <1>3, Zenon DEF EncodedAt, Adds
<1>6. v \in EncodeStep(text, i, set).values
  BY DEF Adds
<1>7. v \o rest \in Prefixed(EncodeStep(text, i, set).values, f[<<i + advance, set1>>])
  <2>1. v \o rest \in {v \o rest2 : rest2 \in f[<<i + advance, set1>>]}
    OBVIOUS
  <2> QED BY <1>6, <2>1 DEF Prefixed
<1> QED BY <1>2, <1>4, <1>5, <1>7

LEMMA SaysFirst ==
  ASSUME NEW text \in Seq(Bytes), NEW f, IsCode(text, f), NEW i \in 1..Len(text), NEW set \in Sets,
         NEW latched, NEW fnc4, NEW x \in Int, NEW advance, NEW set1, NEW latched1, NEW fnc41,
         NEW piece \in Seq(Tokens), NEW out \in Seq(Tokens),
         Adds(text, i, set, <<x>>, advance, set1),
         Reads(set, latched, fnc4, x, set1, latched1, fnc41, piece),
         Says(f, i + advance, set1, latched1, fnc41, out)
  PROVE  Says(f, i, set, latched, fnc4, piece \o out)
<1>1. PICK rest \in f[<<i + advance, set1>>] : Tells(rest, set1, latched1, fnc41, out)
  BY DEF Says
<1>2. Tells(<<x>> \o rest, set, latched, fnc4, piece \o out)
  BY <1>1, TellsFirst
<1>3. <<x>> \o rest \in f[<<i, set>>]
  BY CodeOfStep
<1> QED BY <1>2, <1>3 DEF Says

LEMMA SaysShifted ==
  ASSUME NEW text \in Seq(Bytes), NEW f, IsCode(text, f), NEW i \in 1..Len(text), NEW set \in Sets,
         NEW latched, NEW fnc4, NEW x \in Int, NEW advance,
         NEW piece \in Seq(Tokens), NEW out \in Seq(Tokens),
         Adds(text, i, set, <<98, x>>, advance, set),
         ReadsShifted(set, latched, fnc4, x, piece),
         Says(f, i + advance, set, latched, FALSE, out)
  PROVE  Says(f, i, set, latched, fnc4, piece \o out)
<1>1. PICK rest \in f[<<i + advance, set>>] : Tells(rest, set, latched, FALSE, out)
  BY DEF Says
<1>2. Tells(<<98, x>> \o rest, set, latched, fnc4, piece \o out)
  BY <1>1, TellsShifted
<1>3. <<98, x>> \o rest \in f[<<i, set>>]
  BY CodeOfStep
<1> QED BY <1>2, <1>3 DEF Says
-----------------------------------------------------------------------------
(* Pieces of the text.                                                     *)

Holds(text, i, piece) ==
  /\ i \in Nat \ {0} /\ i + Len(piece) <= Len(text) + 1
  /\ \A k \in 1..Len(piece) : text[i + k - 1] = piece[k]

LEMMA HoldsParts ==
  ASSUME NEW text \in Seq(Bytes), NEW i, NEW a \in Seq(Bytes), NEW b \in Seq(Bytes), Holds(text, i, a \o b)
  PROVE  Holds(text, i, a) /\ Holds(text, i + Len(a), b) /\ Len(a \o b) = Len(a) + Len(b)
<1>1. PICK A \in Nat, B \in Nat, N \in Nat : A = Len(a) /\ B = Len(b) /\ N = Len(text)
  BY LenProperties
<1>2. PICK both : /\ both = a \o b /\ Len(both) = A + B
                  /\ \A k \in 1..A + B : both[k] = IF k <= A THEN a[k] ELSE b[k - A]
  <2>1. /\ Len(a \o b) = Len(a) + Len(b)
        /\ \A k \in 1..Len(a) + Len(b) : (a \o b)[k] = IF k <= Len(a) THEN a[k] ELSE b[k - Len(a)]
    BY ConcatProperties, Zenon
  <2>2. PICK both : both = a \o b
    OBVIOUS
  <2>3. /\ Len(both) = A + B
        /\ \A k \in 1..A + B : both[k] = IF k <= A THEN a[k] ELSE b[k - A]
    BY <1>1, <2>1, <2>2
  <2> QED BY <2>2, <2>3
<1>3. /\ i \in Nat \ {0} /\ i + (A + B) <= N + 1
      /\ \A k \in 1..A + B : text[i + k - 1] = both[k]
  BY <1>1, <1>2 DEF Holds
<1>4. Holds(text, i, a)
  <2>1. ASSUME NEW k \in 1..A PROVE text[i + k - 1] = a[k]
    <3>1. k \in 1..A + B /\ k <= A
      OBVIOUS
    <3> QED BY <1>2, <1>3, <3>1
  <2> QED BY <1>1, <1>3, <2>1 DEF Holds
<1>5. Holds(text, i + A, b)
  <2>1. ASSUME NEW k \in 1..B PROVE text[(i + A) + k - 1] = b[k]
    <3>1. A + k \in 1..A + B /\ ~(A + k <= A) /\ (A + k) - A = k /\ i + (A + k) - 1 = (i + A) + k - 1
      BY <1>3
    <3> QED BY <1>2, <1>3, <3>1
  <2> QED BY <1>1, <1>3, <2>1 DEF Holds
<1> QED BY <1>1, <1>2, <1>4, <1>5

LEMMA HoldsOne ==
  ASSUME NEW text \in Seq(Bytes), NEW i, NEW byte, Holds(text, i, <<byte>>)
  PROVE  i \in 1..Len(text) /\ text[i] = byte
<1>1. PICK one : one = <<byte>> /\ Len(one) = 1 /\ one[1] = byte
  OBVIOUS
<1>2. Len(text) \in Nat
  BY LenProperties
<1>3. 1 \in 1..Len(one) /\ i \in Nat \ {0} /\ i + 1 - 1 = i /\ i + 1 <= Len(text) + 1
  BY <1>1 DEF Holds
<1>4. text[i + 1 - 1] = one[1]
  BY <1>1, <1>3 DEF Holds
<1> QED BY <1>1, <1>2, <1>3, <1>4

LEMMA HoldsMarker ==
  ASSUME NEW text \in Seq(Bytes), NEW i, NEW character, Holds(text, i, Marker(character))
  PROVE  i \in 1..Len(text) /\ i # Len(text) /\ text[i] = 123 /\ text[i + 1] = character
<1>1. PICK two : two = <<123, character>> /\ Len(two) = 2 /\ two[1] = 123 /\ two[2] = character
  <2>1. PICK two : two = <<123, character>>
    OBVIOUS
  <2>2. Len(two) = 2
    BY <2>1
  <2>3. two[1] = 123 /\ two[2] = character
    BY <2>1
  <2> QED BY <2>1, <2>2, <2>3
<1>2. Len(text) \in Nat
  BY LenProperties
<1>3. /\ 1 \in 1..Len(two) /\ 2 \in 1..Len(two) /\ i \in Nat \ {0} /\ i + 1 - 1 = i /\ i + 2 - 1 = i + 1
      /\ i + 2 <= Len(text) + 1
  BY <1>1 DEF Holds, Marker
<1>4. text[i + 1 - 1] = two[1] /\ text[i + 2 - 1] = two[2]
  BY <1>1, <1>3 DEF Holds, Marker
<1> QED BY <1>1, <1>2, <1>3, <1>4

-----------------------------------------------------------------------------
(* What the encoder adds for each piece.                                   *)

LEMMA MarkerTaken ==
  ASSUME NEW text \in Seq(Bytes), NEW i, NEW character, NEW set, Holds(text, i, Marker(character))
  PROVE  EncodeStep(text, i, set) = EncodeMarker(text, i, set)
BY HoldsMarker DEF EncodeStep

LEMMA AddsSet ==
  ASSUME NEW text \in Seq(Bytes), NEW i, NEW set, NEW set1 \in Sets, Holds(text, i, SetMarker(set1))
  PROVE  Adds(text, i, set, <<SetValue[set1]>>, 2, set1)
<1>1. PICK byte \in 65..67 : SetMarker(set1) = Marker(byte) /\ SetOfMarker(byte) = set1
  <2>1. CASE set1 = "A"
    BY <2>1 DEF SetMarker, SetOfMarker
  <2>2. CASE set1 = "B"
    BY <2>2 DEF SetMarker, SetOfMarker
  <2>3. CASE set1 = "C"
    BY <2>3 DEF SetMarker, SetOfMarker
  <2> QED BY <2>1, <2>2, <2>3 DEF Sets
<1>2. Holds(text, i, Marker(byte))
  BY <1>1
<1>3. i # Len(text) /\ text[i + 1] = byte
  BY <1>2, HoldsMarker
<1>4. EncodeMarker(text, i, set) = Pushed(SetValue[set1], 2, set1)
  BY <1>1, <1>3 DEF EncodeMarker
<1> QED BY <1>2, <1>4, MarkerTaken DEF Adds, Pushed, Taken

LEMMA AddsFnc4 ==
  ASSUME NEW text \in Seq(Bytes), NEW i, NEW set \in {"A", "B"}, Holds(text, i, Marker(52))
  PROVE  Adds(text, i, set, <<SetValue[set]>>, 2, set)
<1>1. i # Len(text) /\ text[i + 1] = 52
  BY HoldsMarker
<1>2. EncodeMarker(text, i, set) = Pushed(SetValue[set], 2, set)
  BY <1>1 DEF EncodeMarker
<1> QED BY <1>2, MarkerTaken DEF Adds, Pushed, Taken

LEMMA AddsControl ==
  ASSUME NEW text \in Seq(Bytes), NEW i, NEW set, NEW character \in {49, 51}, Holds(text, i, Marker(character))
  PROVE  Adds(text, i, set, <<IF character = 49 THEN 102 ELSE 96>>, 2, set)
<1>1. i # Len(text) /\ text[i + 1] = character
  BY HoldsMarker
<1>2. EncodeMarker(text, i, set) = Pushed(IF character = 49 THEN 102 ELSE 96, 2, set)
  BY <1>1 DEF EncodeMarker
<1> QED BY <1>2, MarkerTaken DEF Adds, Pushed, Taken

LEMMA CharacterAdds ==
  ASSUME NEW set, NEW byte, NEW advance, NEW x \in CharacterValue(set, byte)
  PROVE  LET step == Character(set, byte, advance)
         IN  <<x>> \in step.values /\ step.advance = advance /\ step.set = set
BY DEF Character, Taken

LEMMA AddsBrace ==
  ASSUME NEW text \in Seq(Bytes), NEW i, NEW set, Holds(text, i, Marker(123)), NEW x \in CharacterValue(set, 123)
  PROVE  Adds(text, i, set, <<x>>, 2, set)
<1>1. i # Len(text) /\ text[i + 1] = 123
  BY HoldsMarker
<1>2. EncodeMarker(text, i, set) = Character(set, 123, 2)
  BY <1>1 DEF EncodeMarker
<1> QED BY <1>2, MarkerTaken, CharacterAdds DEF Adds

LEMMA AddsShift ==
  ASSUME NEW text \in Seq(Bytes), NEW i, NEW set \in {"A", "B"}, NEW byte,
         Holds(text, i, Marker(83)), Holds(text, i + 2, <<byte>>), NEW x \in CharacterValue(Other(set), byte)
  PROVE  Adds(text, i, set, <<98, x>>, 3, set)
<1>1. i # Len(text) /\ text[i + 1] = 83
  BY HoldsMarker
<1>2. i + 2 <= Len(text) /\ text[i + 2] = byte
  BY HoldsOne
<1>3. EncodeMarker(text, i, set) = Taken({<<98, v>> : v \in CharacterValue(Other(set), text[i + 2])}, 3, set)
  <2>1. /\ text[i + 1] \notin 65..67 /\ text[i + 1] # 49 /\ text[i + 1] # 50 /\ text[i + 1] # 51
        /\ text[i + 1] # 52 /\ text[i + 1] # 123
        /\ text[i + 1] = 83 /\ set # "C" /\ i + 2 <= Len(text)
    BY <1>1, <1>2
  <2> QED BY <1>1, <2>1, Zenon DEF EncodeMarker
<1>4. <<98, x>> \in {<<98, v>> : v \in CharacterValue(Other(set), text[i + 2])}
  BY <1>2
<1> QED BY <1>3, <1>4, MarkerTaken DEF Adds, Taken

LEMMA AddsCharacter ==
  ASSUME NEW text \in Seq(Bytes), NEW i, NEW set \in {"A", "B"}, NEW byte \in Bytes \ {123},
         Holds(text, i, <<byte>>), NEW x \in CharacterValue(set, byte)
  PROVE  Adds(text, i, set, <<x>>, 1, set)
<1>1. text[i] = byte
  BY HoldsOne
<1>2. EncodeStep(text, i, set) = Character(set, byte, 1)
  <2>1. text[i] # 123 /\ set # "C"
    BY <1>1
  <2> QED BY <1>1, <2>1, Zenon DEF EncodeStep
<1> QED BY <1>2, CharacterAdds DEF Adds

LEMMA AddsPair ==
  ASSUME NEW text \in Seq(Bytes), NEW i, NEW a \in 48..57, NEW b \in 48..57,
         Holds(text, i, <<a>>), Holds(text, i + 1, <<b>>)
  PROVE  Adds(text, i, "C", <<(a - 48) * 10 + b - 48>>, 2, "C")
<1>1. text[i] = a /\ text[i + 1] = b /\ i \in 1..Len(text) /\ i + 1 \in 1..Len(text) /\ Len(text) \in Nat
  BY HoldsOne, LenProperties
<1>2. EncodeStep(text, i, "C") = EncodePair(text, i)
  <2>1. text[i] # 123
    BY <1>1
  <2> QED BY <2>1 DEF EncodeStep
<1>3. EncodePair(text, i) = Pushed((a - 48) * 10 + b - 48, 2, "C")
  <2>1. i < Len(text) /\ IsDecimal(a) /\ IsDecimal(b)
    BY <1>1 DEF IsDecimal
  <2> QED BY <1>1, <2>1, Zenon DEF EncodePair
<1> QED BY <1>2, <1>3 DEF Adds, Pushed, Taken
-----------------------------------------------------------------------------
(* What each piece tells a reader.                                         *)

LEMMA SaysSilent ==
  ASSUME NEW text \in Seq(Bytes), NEW f, IsCode(text, f), NEW i \in 1..Len(text), NEW set \in Sets,
         NEW latched, NEW fnc4, NEW x \in Int, NEW set1, NEW latched1, NEW fnc41, NEW out \in Seq(Tokens),
         Adds(text, i, set, <<x>>, 2, set1),
         Reads(set, latched, fnc4, x, set1, latched1, fnc41, <<>>),
         Says(f, i + 2, set1, latched1, fnc41, out)
  PROVE  Says(f, i, set, latched, fnc4, out)
<1>1. <<>> \in Seq(Tokens) /\ <<>> \o out = out
  BY EmptySeq, ConcatEmptySeq
<1>2. Says(f, i, set, latched, fnc4, <<>> \o out)
  BY <1>1, SaysFirst
<1> QED BY <1>1, <1>2

LEMMA SaysSet ==
  ASSUME NEW text \in Seq(Bytes), NEW f, IsCode(text, f), NEW i, NEW set \in Sets, NEW set1 \in Sets \ {set},
         NEW latched, NEW fnc4, NEW out \in Seq(Tokens),
         Holds(text, i, SetMarker(set1)), Says(f, i + 2, set1, latched, fnc4, out)
  PROVE  Says(f, i, set, latched, fnc4, out)
<1>1. PICK x \in Int : x = SetValue[set1]
  BY DEF SetValue, Sets
<1>2. i \in 1..Len(text)
  <2>1. \E character : SetMarker(set1) = Marker(character)
    BY DEF SetMarker
  <2> QED BY <2>1, HoldsMarker
<1>3. Adds(text, i, set, <<x>>, 2, set1)
  BY <1>1, AddsSet
<1>4. Reads(set, latched, fnc4, x, set1, latched, fnc4, <<>>)
  BY <1>1, ReadsMarker
<1> QED BY <1>2, <1>3, <1>4, SaysSilent

LEMMA SaysFnc4 ==
  ASSUME NEW text \in Seq(Bytes), NEW f, IsCode(text, f), NEW i, NEW set \in {"A", "B"},
         NEW latched, NEW fnc4, NEW latched1, NEW fnc41, latched \in BOOLEAN,
         \/ fnc4 = FALSE /\ latched1 = latched /\ fnc41 = TRUE
         \/ fnc4 = TRUE /\ latched1 = ~latched /\ fnc41 = FALSE,
         NEW out \in Seq(Tokens), Holds(text, i, Marker(52)), Says(f, i + 2, set, latched1, fnc41, out)
  PROVE  Says(f, i, set, latched, fnc4, out)
<1>1. PICK x \in Int : x = SetValue[set]
  BY DEF SetValue
<1>2. i \in 1..Len(text) /\ set \in Sets
  BY HoldsMarker DEF Sets
<1>3. Adds(text, i, set, <<x>>, 2, set)
  BY <1>1, AddsFnc4
<1>4. Reads(set, latched, fnc4, x, set, latched1, fnc41, <<>>)
  <2>1. /\ Reads(set, latched, FALSE, x, set, latched, TRUE, <<>>)
        /\ Reads(set, latched, TRUE, x, set, ~latched, FALSE, <<>>)
    BY <1>1, ReadsFnc4
  <2>2. CASE fnc4 = FALSE /\ latched1 = latched /\ fnc41 = TRUE
    BY <2>1, <2>2, Zenon
  <2>3. CASE fnc4 = TRUE /\ latched1 = ~latched /\ fnc41 = FALSE
    BY <2>1, <2>3, Zenon
  <2> QED BY <2>2, <2>3
<1> QED BY <1>2, <1>3, <1>4, SaysSilent

LEMMA SomeValue ==
  ASSUME NEW set \in {"A", "B"}, NEW low \in 0..127, Encodes(set, low)
  PROVE  \E x \in Int : x \in CharacterValue(set, low)
<1>1. CASE set = "A" /\ low <= 31
  BY <1>1 DEF CharacterValue
<1>2. CASE set = "A" /\ low > 31
  <2>1. low \in 32..95 /\ ~(low <= 31)
    BY <1>2 DEF Encodes
  <2>2. CharacterValue(set, low) = {low - 32}
    BY <1>2, <2>1 DEF CharacterValue
  <2> QED BY <2>2
<1>3. CASE set = "B"
  <2>1. low \in 32..127
    BY <1>3 DEF Encodes
  <2>2. CharacterValue(set, low) = {low - 32}
    BY <1>3, <2>1 DEF CharacterValue
  <2> QED BY <2>2
<1> QED BY <1>1, <1>2, <1>3

LEMMA MarkerLength ==
  ASSUME NEW x, NEW y
  PROVE  Len(Marker(x)) = 2 /\ Len(<<y>>) = 1
<1>1. Len(<<123, x>>) = 2
  OBVIOUS
<1>2. Len(<<y>>) = 1
  OBVIOUS
<1> QED BY <1>1, <1>2 DEF Marker

LEMMA TextWritten ==
  ASSUME NEW byte \in Bytes, NEW set \in {"A", "B"}, NEW low, low = byte % 128
  PROVE  Written(byte, set) = IF low = 123 THEN Marker(123) ELSE <<low>>
<1>1. byte # Fnc1 /\ byte # Fnc3 /\ set # "C"
  BY DEF Bytes, Fnc1, Fnc3
<1> QED BY <1>1, Zenon DEF Written

LEMMA SaysCharacter ==
  ASSUME NEW text \in Seq(Bytes), NEW f, IsCode(text, f), NEW i, NEW set \in {"A", "B"},
         NEW latched, NEW fnc4, NEW byte \in Bytes, NEW low \in 0..127, low = byte % 128,
         byte = InHalf(low, latched, fnc4), Encodes(set, low), NEW out \in Seq(Tokens),
         Holds(text, i, Written(byte, set)),
         Says(f, i + Len(Written(byte, set)), set, latched, FALSE, out)
  PROVE  Says(f, i, set, latched, fnc4, <<byte>> \o out)
<1>1. PICK x \in Int : x \in CharacterValue(set, low)
  BY SomeValue
<1>2. Reads(set, latched, fnc4, x, set, latched, FALSE, <<byte>>)
  BY <1>1, ReadsCharacter
<1>3. <<byte>> \in Seq(Tokens) /\ set \in Sets
  BY OneElement DEF Tokens, Sets
<1>4. CASE low = 123
  <2>1. Holds(text, i, Marker(123)) /\ Says(f, i + 2, set, latched, FALSE, out)
    <3>1. Written(byte, set) = Marker(123)
      BY <1>4, TextWritten
    <3> QED BY <3>1, MarkerLength
  <2>2. i \in 1..Len(text)
    BY <2>1, HoldsMarker
  <2>3. Adds(text, i, set, <<x>>, 2, set)
    BY <1>1, <1>4, <2>1, AddsBrace
  <2> QED BY <1>2, <1>3, <2>1, <2>2, <2>3, SaysFirst
<1>5. CASE low # 123
  <2>1. Holds(text, i, <<low>>) /\ Says(f, i + 1, set, latched, FALSE, out)
    <3>1. Written(byte, set) = <<low>>
      BY <1>5, TextWritten
    <3> QED BY <3>1, MarkerLength
  <2>2. i \in 1..Len(text)
    BY <2>1, HoldsOne
  <2>3. Adds(text, i, set, <<x>>, 1, set)
    <3>1. low \in Bytes \ {123}
      BY <1>5 DEF Bytes
    <3> QED BY <1>1, <2>1, <3>1, AddsCharacter
  <2> QED BY <1>2, <1>3, <2>1, <2>2, <2>3, SaysFirst
<1> QED BY <1>4, <1>5

LEMMA SaysBehindShift ==
  ASSUME NEW text \in Seq(Bytes), NEW f, IsCode(text, f), NEW i, NEW set \in {"A", "B"},
         NEW latched, NEW fnc4, NEW byte \in Bytes, NEW low \in 0..127, low = byte % 128, low # 123,
         byte = InHalf(low, latched, fnc4), Encodes(Other(set), low), NEW out \in Seq(Tokens),
         Holds(text, i, Marker(83)), Holds(text, i + 2, Written(byte, Other(set))),
         Says(f, i + 3, set, latched, FALSE, out)
  PROVE  Says(f, i, set, latched, fnc4, <<byte>> \o out)
<1>1. PICK other \in {"A", "B"} : other = Other(set)
  BY DEF Other
<1>2. PICK x \in Int : x \in CharacterValue(other, low)
  BY <1>1, SomeValue
<1>3. ReadsShifted(set, latched, fnc4, x, <<byte>>)
  BY <1>1, <1>2, ReadsShift
<1>4. <<byte>> \in Seq(Tokens) /\ set \in Sets
  BY OneElement DEF Tokens, Sets
<1>5. Holds(text, i + 2, <<low>>)
  BY <1>1, TextWritten
<1>6. Adds(text, i, set, <<98, x>>, 3, set)
  BY <1>1, <1>2, <1>5, AddsShift
<1>7. i \in 1..Len(text)
  BY HoldsMarker
<1> QED BY <1>3, <1>4, <1>6, <1>7, SaysShifted

LEMMA SaysControl ==
  ASSUME NEW text \in Seq(Bytes), NEW f, IsCode(text, f), NEW i, NEW set \in Sets,
         NEW latched, NEW fnc4, NEW token \in {Fnc1, Fnc3}, token = Fnc3 => set # "C", NEW out \in Seq(Tokens),
         Holds(text, i, Written(token, set)),
         Says(f, i + Len(Written(token, set)), set, latched, fnc4, out)
  PROVE  Says(f, i, set, latched, fnc4, <<token>> \o out)
<1>1. PICK character \in {49, 51} : /\ character = IF token = Fnc1 THEN 49 ELSE 51
                                    /\ Written(token, set) = Marker(character)
  <2>1. CASE token = Fnc1
    <3>1. Written(token, set) = Marker(49)
      BY <2>1 DEF Written, Fnc1, Fnc3
    <3> QED BY <2>1, <3>1
  <2>2. CASE token = Fnc3
    <3>1. token # Fnc1
      BY <2>2 DEF Fnc1, Fnc3
    <3>2. Written(token, set) = Marker(51)
      BY <2>2, <3>1 DEF Written
    <3> QED BY <3>1, <3>2
  <2> QED BY <2>1, <2>2
<1>2. PICK x \in Int : x = IF character = 49 THEN 102 ELSE 96
  OBVIOUS
<1>3. Holds(text, i, Marker(character)) /\ Says(f, i + 2, set, latched, fnc4, out) /\ i \in 1..Len(text)
  <2>1. Holds(text, i, Marker(character))
    BY <1>1
  <2>2. Len(Written(token, set)) = 2
    BY <1>1, MarkerLength
  <2>3. i \in 1..Len(text)
    BY <2>1, HoldsMarker
  <2> QED BY <2>1, <2>2, <2>3
<1>4. Adds(text, i, set, <<x>>, 2, set)
  BY <1>2, <1>3, AddsControl
<1>5. Reads(set, latched, fnc4, x, set, latched, fnc4, <<token>>)
  <2>1. Reads(set, latched, fnc4, 102, set, latched, fnc4, <<Fnc1>>)
    BY ReadsControl
  <2>2. set # "C" => Reads(set, latched, fnc4, 96, set, latched, fnc4, <<Fnc3>>)
    BY ReadsControl
  <2>3. CASE token = Fnc1
    <3>1. x = 102
      BY <1>1, <1>2, <2>3
    <3> QED BY <2>1, <2>3, <3>1
  <2>4. CASE token = Fnc3
    <3>1. x = 96
      BY <1>1, <1>2, <2>4 DEF Fnc1, Fnc3
    <3> QED BY <2>2, <2>4, <3>1
  <2> QED BY <2>3, <2>4
<1>6. <<token>> \in Seq(Tokens)
  BY OneElement DEF Tokens
<1> QED BY <1>3, <1>4, <1>5, <1>6, SaysFirst, ZenonT(40)

LEMMA SaysPair ==
  ASSUME NEW text \in Seq(Bytes), NEW f, IsCode(text, f), NEW i,
         NEW latched, NEW fnc4, NEW a \in 48..57, NEW b \in 48..57, NEW out \in Seq(Tokens),
         Holds(text, i, Written(a, "C")), Holds(text, i + Len(Written(a, "C")), Written(b, "C")),
         Says(f, i + 2, "C", latched, fnc4, out)
  PROVE  Says(f, i, "C", latched, fnc4, <<a, b>> \o out)
<1>1. ASSUME NEW digit \in 48..57 PROVE Written(digit, "C") = <<digit>>
  <2>1. digit # Fnc1 /\ digit # Fnc3 /\ digit # 123
    BY DEF Fnc1, Fnc3
  <2> QED BY <2>1, Zenon DEF Written
<1>2. Holds(text, i, <<a>>) /\ Holds(text, i + 1, <<b>>)
  BY <1>1, MarkerLength
<1>3. PICK x \in Int : x = (a - 48) * 10 + b - 48
  OBVIOUS
<1>4. Adds(text, i, "C", <<x>>, 2, "C")
  BY <1>2, <1>3, AddsPair
<1>5. Reads("C", latched, fnc4, x, "C", latched, fnc4, <<a, b>>)
  BY <1>3, ReadsPair
<1>6. <<a, b>> \in Seq(Tokens) /\ "C" \in Sets /\ i \in 1..Len(text)
  <2>1. a \in Tokens /\ b \in Tokens
    BY DEF Tokens, Bytes
  <2>2. i \in 1..Len(text)
    BY <1>2, HoldsOne
  <2> QED BY <2>1, <2>2 DEF Sets
<1> QED BY <1>4, <1>5, <1>6, SaysFirst
-----------------------------------------------------------------------------
(* What a choice tells a reader.                                           *)

LEMMA MarkerIsText ==
  ASSUME NEW byte \in Bytes
  PROVE  Marker(byte) \in Seq(Bytes) /\ <<byte>> \in Seq(Bytes)
<1>1. 123 \in Bytes
  BY DEF Bytes
<1>2. <<123, byte>> \in Seq(Bytes)
  BY <1>1
<1>3. <<byte>> \in Seq(Bytes)
  BY OneElement
<1> QED BY <1>2, <1>3 DEF Marker

LEMMA WrittenIsText ==
  ASSUME NEW token \in Tokens, NEW set
  PROVE  Written(token, set) \in Seq(Bytes)
<1>1. CASE token = Fnc1 \/ token = Fnc3
  <2>1. 49 \in Bytes /\ 51 \in Bytes
    BY DEF Bytes
  <2>2. Written(token, set) = Marker(49) \/ Written(token, set) = Marker(51)
    BY <1>1 DEF Written, Fnc1, Fnc3
  <2> QED BY <2>1, <2>2, MarkerIsText
<1>2. CASE token # Fnc1 /\ token # Fnc3
  <2>1. PICK byte \in Bytes : byte = IF set = "C" THEN token ELSE token % 128
    <3>1. token \in Bytes
      BY <1>2 DEF Tokens
    <3>2. token % 128 \in Bytes
      BY <3>1 DEF Bytes
    <3> QED BY <3>1, <3>2
  <2>2. Written(token, set) = IF byte = 123 THEN Marker(123) ELSE <<byte>>
    BY <1>2, <2>1, Zenon DEF Written
  <2>3. 123 \in Bytes
    BY DEF Bytes
  <2> QED BY <2>2, <2>3, MarkerIsText
<1> QED BY <1>1, <1>2

\* The data from a position on.
Rest(data, p) == SubSeq(data, p, Len(data))

LEMMA RestTokens ==
  ASSUME NEW data \in Seq(Tokens), NEW p \in Nat \ {0}
  PROVE  Rest(data, p) \in Seq(Tokens)
<1>1. Len(data) \in Nat
  BY LenProperties
<1>2. \A i \in p..Len(data) : data[i] \in Tokens
  <2>1. \A i \in p..Len(data) : i \in 1..Len(data)
    BY <1>1
  <2> QED BY <2>1, ElementOfSeq
<1> QED BY <1>1, <1>2, SubSeqProperties DEF Rest

LEMMA RestOne ==
  ASSUME NEW data \in Seq(Tokens), NEW p \in 1..Len(data)
  PROVE  Rest(data, p) = <<data[p]>> \o Rest(data, p + 1)
<1>1. PICK N \in Nat : N = Len(data)
  BY LenProperties
<1>2. /\ p \in 1..Len(data) + 1 /\ p \in (p - 1)..Len(data) /\ Len(data) \in p..Len(data)
  BY <1>1
<1>3. SubSeq(data, p, p) \o SubSeq(data, p + 1, Len(data)) = SubSeq(data, p, Len(data))
  BY <1>2, ConcatAdjacentSubSeq
<1>4. SubSeq(data, p, p) = <<data[p]>>
  <2>1. PICK one : one = SubSeq(data, p, p)
    OBVIOUS
  <2>2. \A i \in p..p : data[i] \in Tokens
    <3>1. p..p = {p}
      BY <1>1
    <3> QED BY <3>1, ElementOfSeq
  <2>3. one \in Seq(Tokens) /\ Len(one) = 1 /\ one[1] = data[p]
    <3>1. /\ SubSeq(data, p, p) \in Seq(Tokens)
          /\ Len(SubSeq(data, p, p)) = IF p <= p THEN p - p + 1 ELSE 0
          /\ \A i \in 1..p - p + 1 : SubSeq(data, p, p)[i] = data[p + i - 1]
      BY <1>1, <2>2, SubSeqProperties
    <3>2. p - p + 1 = 1 /\ p <= p /\ 1 \in 1..p - p + 1 /\ p + 1 - 1 = p
      BY <1>1
    <3> QED BY <2>1, <3>1, <3>2
  <2>4. one = <<data[p]>>
    BY <2>3
  <2> QED BY <2>1, <2>4
<1> QED BY <1>3, <1>4 DEF Rest

LEMMA Concatenated ==
  ASSUME NEW S, NEW a \in Seq(S), NEW b \in Seq(S)
  PROVE  \E both \in Seq(S) :
           /\ both = a \o b /\ Len(both) = Len(a) + Len(b)
           /\ \A k \in 1..Len(a) + Len(b) : both[k] = IF k <= Len(a) THEN a[k] ELSE b[k - Len(a)]
<1>1. /\ a \o b \in Seq(S) /\ Len(a \o b) = Len(a) + Len(b)
      /\ \A k \in 1..Len(a) + Len(b) : (a \o b)[k] = IF k <= Len(a) THEN a[k] ELSE b[k - Len(a)]
  BY ConcatProperties, Zenon
<1>2. PICK both : both = a \o b
  OBVIOUS
<1>3. /\ both \in Seq(S) /\ Len(both) = Len(a) + Len(b)
      /\ \A k \in 1..Len(a) + Len(b) : both[k] = IF k <= Len(a) THEN a[k] ELSE b[k - Len(a)]
  BY <1>1, <1>2, Zenon
<1> QED BY <1>2, <1>3, Zenon

LEMMA TwoOnes ==
  ASSUME NEW a \in Tokens, NEW b \in Tokens
  PROVE  <<a>> \o <<b>> = <<a, b>>
<1>1. PICK one \in Seq(Tokens) : one = <<a>> /\ Len(one) = 1 /\ one[1] = a
  <2>1. <<a>> \in Seq(Tokens) /\ Len(<<a>>) = 1 /\ <<a>>[1] = a
    BY OneElement
  <2> QED BY <2>1
<1>2. PICK other \in Seq(Tokens) : other = <<b>> /\ Len(other) = 1 /\ other[1] = b
  <2>1. <<b>> \in Seq(Tokens) /\ Len(<<b>>) = 1 /\ <<b>>[1] = b
    BY OneElement
  <2> QED BY <2>1
<1>3. PICK both \in Seq(Tokens) :
        /\ both = one \o other /\ Len(both) = Len(one) + Len(other)
        /\ \A k \in 1..Len(one) + Len(other) : both[k] = IF k <= Len(one) THEN one[k] ELSE other[k - Len(one)]
  <2>1. /\ one \o other \in Seq(Tokens) /\ Len(one \o other) = Len(one) + Len(other)
        /\ \A k \in 1..Len(one) + Len(other) :
             (one \o other)[k] = IF k <= Len(one) THEN one[k] ELSE other[k - Len(one)]
    BY ConcatProperties, Zenon
  <2> QED BY <2>1, Zenon
<1>4. Len(both) = 2 /\ both[1] = a /\ both[2] = b
  BY <1>1, <1>2, <1>3
<1>5. both = <<a, b>>
  <2>1. PICK two \in Seq(Tokens) : two = <<a, b>> /\ Len(two) = 2 /\ two[1] = a /\ two[2] = b
    <3>1. PICK two : two = <<a, b>>
      OBVIOUS
    <3>2. two \in Seq(Tokens) /\ Len(two) = 2 /\ two[1] = a /\ two[2] = b
      BY <3>1
    <3> QED BY <3>1, <3>2
  <2>2. \A k \in 1..Len(both) : both[k] = two[k]
    BY <1>4, <2>1
  <2>3. both = two
    BY <1>4, <2>1, <2>2, SeqEqual
  <2> QED BY <2>1, <2>3, Zenon
<1> QED BY <1>1, <1>2, <1>3, <1>5, Zenon

LEMMA RestTwo ==
  ASSUME NEW data \in Seq(Tokens), NEW p \in 1..Len(data), p < Len(data)
  PROVE  Rest(data, p) = <<data[p], data[p + 1]>> \o Rest(data, p + 2)
<1>1. PICK N \in Nat : N = Len(data)
  BY LenProperties
<1>2. Rest(data, p) = <<data[p]>> \o (<<data[p + 1]>> \o Rest(data, p + 2))
  <2>1. p + 1 \in 1..Len(data) /\ (p + 1) + 1 = p + 2
    BY <1>1
  <2>2. Rest(data, p + 1) = <<data[p + 1]>> \o Rest(data, (p + 1) + 1)
    BY <2>1, RestOne
  <2> QED BY <2>1, <2>2, RestOne
<1>3. PICK a \in Tokens, b \in Tokens : a = data[p] /\ b = data[p + 1]
  <2>1. p + 1 \in 1..Len(data)
    BY <1>1
  <2> QED BY <2>1, ElementOfSeq
<1>4. <<a>> \in Seq(Tokens) /\ <<b>> \in Seq(Tokens) /\ Rest(data, p + 2) \in Seq(Tokens)
  <2>1. p + 2 \in Nat \ {0}
    BY <1>1
  <2> QED BY <2>1, OneElement, RestTokens
<1>5. (<<a>> \o <<b>>) \o Rest(data, p + 2) = <<a>> \o (<<b>> \o Rest(data, p + 2))
  BY <1>4, Reassociated
<1>6. <<a>> \o <<b>> = <<a, b>>
  BY TwoOnes
<1> QED BY <1>2, <1>3, <1>5, <1>6

LEMMA RestNone ==
  ASSUME NEW data \in Seq(Tokens)
  PROVE  Rest(data, Len(data) + 1) = <<>>
<1>1. PICK N \in Nat : N = Len(data)
  BY LenProperties
<1> QED BY <1>1, SubSeqEmpty DEF Rest

LEMMA Fnc4Length ==
  /\ Repeated(Marker(52), 0) = <<>>
  /\ Repeated(Marker(52), 1) = Marker(52)
  /\ Repeated(Marker(52), 2) = Marker(52) \o Marker(52)
  /\ \A n \in 0..2 : Repeated(Marker(52), n) \in Seq(Bytes) /\ Len(Repeated(Marker(52), n)) = 2 * n
<1>1. /\ Repeated(Marker(52), 0) = <<>>
      /\ Repeated(Marker(52), 1) = Marker(52)
      /\ Repeated(Marker(52), 2) = Marker(52) \o Marker(52)
  <2>1. Repeated(Marker(52), 0) = <<>>
    BY DEF Repeated
  <2>2. Repeated(Marker(52), 1) = Marker(52)
    BY DEF Repeated
  <2>3. Repeated(Marker(52), 2) = Marker(52) \o Marker(52)
    BY DEF Repeated
  <2> QED BY <2>1, <2>2, <2>3
<1>2. PICK m \in Seq(Bytes) : m = Marker(52) /\ Len(m) = 2
  <2>1. 52 \in Bytes
    BY DEF Bytes
  <2> QED BY <2>1, MarkerIsText, MarkerLength
<1>3. PICK both \in Seq(Bytes) : both = Marker(52) \o Marker(52) /\ Len(both) = 4
  <2>1. PICK both \in Seq(Bytes) : both = m \o m /\ Len(both) = Len(m) + Len(m)
    BY Concatenated, Zenon
  <2>2. Len(both) = 4
    <3>1. Len(both) = Len(m) + Len(m)
      BY <2>1, Zenon
    <3> QED BY <1>2, <3>1
  <2>3. both = Marker(52) \o Marker(52)
    BY <1>2, <2>1, Zenon
  <2> QED BY <2>2, <2>3, Zenon
<1>4. PICK none \in Seq(Bytes) : none = Repeated(Marker(52), 0) /\ Len(none) = 0
  BY <1>1, EmptySeq
<1>5. ASSUME NEW n \in 0..2
      PROVE  Repeated(Marker(52), n) \in Seq(Bytes) /\ Len(Repeated(Marker(52), n)) = 2 * n
  <2>1. CASE n = 0
    BY <1>4, <2>1
  <2>2. CASE n = 1
    BY <1>1, <1>2, <2>2
  <2>3. CASE n = 2
    <3>1. Repeated(Marker(52), n) = both
      BY <1>1, <1>3, <2>3, Zenon
    <3>2. Len(both) = 2 * n /\ both \in Seq(Bytes)
      <4>1. Len(both) = 4
        BY <1>3, Zenon
      <4> QED BY <2>3, <4>1
    <3> QED BY <3>1, <3>2, Zenon
  <2> QED BY <2>1, <2>2, <2>3
<1> QED BY <1>1, <1>5

\* The half in force and the FNC4 pending behind n times FNC4.
Half(n, upper, upper1, fnc4) ==
  \/ n = 0 /\ upper1 = upper /\ fnc4 = FALSE
  \/ n = 1 /\ upper1 = upper /\ fnc4 = TRUE
  \/ n = 2 /\ upper1 = ~upper /\ fnc4 = FALSE

LEMMA SaysHalf ==
  ASSUME NEW text \in Seq(Bytes), NEW f, IsCode(text, f), NEW i, NEW set \in {"A", "B"},
         NEW upper, upper \in BOOLEAN, NEW n, NEW upper1, NEW fnc4,
         Half(n, upper, upper1, fnc4), NEW out \in Seq(Tokens),
         Holds(text, i, Repeated(Marker(52), n)),
         Says(f, i + 2 * n, set, upper1, fnc4, out)
  PROVE  Says(f, i, set, upper, FALSE, out)
<1>1. i \in Nat
  BY DEF Holds
<1>2. CASE n = 0 /\ upper1 = upper /\ fnc4 = FALSE
  <2>1. i + 2 * n = i
    BY <1>1, <1>2
  <2> QED BY <1>2, <2>1
<1>3. CASE n = 1 /\ upper1 = upper /\ fnc4 = TRUE
  <2>1. i + 2 * n = i + 2
    BY <1>1, <1>3
  <2>2. Holds(text, i, Marker(52)) /\ Says(f, i + 2, set, upper1, fnc4, out)
    BY <1>3, <2>1, Fnc4Length
  <2> QED BY <1>3, <2>2, SaysFnc4
<1>4. CASE n = 2 /\ upper1 = ~upper /\ fnc4 = FALSE
  <2>1. i + 2 * n = (i + 2) + 2
    BY <1>1, <1>4
  <2>2. Says(f, (i + 2) + 2, set, upper1, fnc4, out)
    BY <2>1
  <2>3. Holds(text, i, Marker(52)) /\ Holds(text, i + 2, Marker(52))
    <3>1. PICK m \in Seq(Bytes) : m = Marker(52) /\ Len(m) = 2
      <4>1. 52 \in Bytes
        BY DEF Bytes
      <4> QED BY <4>1, MarkerIsText, MarkerLength
    <3>2. Holds(text, i, m \o m)
      BY <1>4, <3>1, Fnc4Length
    <3>3. Holds(text, i, m) /\ Holds(text, i + Len(m), m)
      BY <3>2, HoldsParts
    <3> QED BY <3>1, <3>3
  <2>4. PICK pending : pending = TRUE
    OBVIOUS
  <2>5. Says(f, i + 2, set, upper, pending, out)
    BY <1>4, <2>2, <2>3, <2>4, SaysFnc4
  <2>6. PICK none : none = FALSE
    OBVIOUS
  <2>7. Says(f, i, set, upper, none, out)
    BY <2>3, <2>4, <2>5, <2>6, SaysFnc4
  <2> QED BY <2>6, <2>7
<1> QED BY <1>2, <1>3, <1>4 DEF Half

LEMMA DataOne ==
  ASSUME NEW data \in Seq(Tokens), NEW p \in 1..Len(data), NEW c \in Choice, c.advance = 1
  PROVE  Data(data, c, p) = Written(data[p], c.set) /\ Data(data, c, p) \in Seq(Bytes)
<1>1. PICK token \in Tokens : token = data[p]
  BY ElementOfSeq
<1>2. PICK written \in Seq(Bytes) : written = Written(data[p], c.set)
  BY <1>1, WrittenIsText
<1>3. written \o <<>> = written
  BY ConcatEmptySeq
<1>4. c.advance # 2
  OBVIOUS
<1>5. Data(data, c, p) = written \o <<>>
  BY <1>2, <1>4, Zenon DEF Data
<1> QED BY <1>2, <1>3, <1>5, Zenon

LEMMA HalfServed ==
  ASSUME NEW c \in Choice, NEW byte \in Bytes, NEW upper \in BOOLEAN, Fnc4Serves(c, byte, upper),
         NEW low, low = byte % 128
  PROVE  \E fnc4 : Half(c.fnc4, upper, c.upper, fnc4) /\ byte = InHalf(low, c.upper, fnc4)
<1>1. low \in 0..127 /\ (byte > 127 => byte = low + 128) /\ (~(byte > 127) => byte = low)
  BY LowerHalf
<1>2. CASE c.fnc4 = 0 /\ c.upper = upper /\ (byte > 127 <=> upper)
  <2>1. Half(c.fnc4, upper, c.upper, FALSE)
    BY <1>2 DEF Half
  <2>2. byte = InHalf(low, c.upper, FALSE)
    <3>1. CASE upper = TRUE
      BY <1>1, <1>2, <3>1 DEF InHalf
    <3>2. CASE upper = FALSE
      BY <1>1, <1>2, <3>2 DEF InHalf
    <3> QED BY <3>1, <3>2
  <2> QED BY <2>1, <2>2, Zenon
<1>3. CASE c.fnc4 = 1 /\ c.upper = upper /\ (byte > 127 <=> ~upper)
  <2>1. Half(c.fnc4, upper, c.upper, TRUE)
    BY <1>3 DEF Half
  <2>2. byte = InHalf(low, c.upper, TRUE)
    <3>1. CASE upper = TRUE
      BY <1>1, <1>3, <3>1 DEF InHalf
    <3>2. CASE upper = FALSE
      BY <1>1, <1>3, <3>2 DEF InHalf
    <3> QED BY <3>1, <3>2
  <2> QED BY <2>1, <2>2, Zenon
<1>4. CASE c.fnc4 = 2 /\ c.upper = ~upper /\ (byte > 127 <=> ~upper)
  <2>1. Half(c.fnc4, upper, c.upper, FALSE)
    BY <1>4 DEF Half
  <2>2. byte = InHalf(low, c.upper, FALSE)
    <3>1. CASE upper = TRUE
      BY <1>1, <1>4, <3>1 DEF InHalf
    <3>2. CASE upper = FALSE
      BY <1>1, <1>4, <3>2 DEF InHalf
    <3> QED BY <3>1, <3>2
  <2> QED BY <2>1, <2>2, Zenon
<1> QED BY <1>2, <1>3, <1>4 DEF Fnc4Serves

LEMMA TextSays ==
  ASSUME NEW text \in Seq(Bytes), NEW f, IsCode(text, f), NEW i,
         NEW data \in Seq(Tokens), NEW p \in 1..Len(data), NEW current, NEW upper, upper \in BOOLEAN,
         NEW c \in Choice, TextChoice(c, data[p], current, upper), c.shift = FALSE,
         Holds(text, i, Repeated(Marker(52), c.fnc4)), Holds(text, i + 2 * c.fnc4, Data(data, c, p)),
         Says(f, i + 2 * c.fnc4 + Len(Data(data, c, p)), c.set, c.upper, FALSE, Rest(data, p + c.advance))
  PROVE  Says(f, i, c.set, upper, FALSE, Rest(data, p))
<1>1. PICK byte \in Bytes : byte = data[p]
  BY DEF TextChoice
<1>2. PICK low \in 0..127 : low = byte % 128
  BY LowerHalf
<1>3. PICK set \in {"A", "B"} : set = c.set
  BY DEF TextChoice
<1>4. Encodes(set, low) /\ c.advance = 1 /\ Fnc4Serves(c, byte, upper)
  BY <1>1, <1>2, <1>3 DEF TextChoice
<1>5. PICK out \in Seq(Tokens) : out = Rest(data, p + 1)
  <2>1. p + 1 \in Nat \ {0}
    OBVIOUS
  <2> QED BY <2>1, RestTokens
<1>6. PICK fnc4 : Half(c.fnc4, upper, c.upper, fnc4) /\ byte = InHalf(low, c.upper, fnc4)
  BY <1>2, <1>4, HalfServed
<1>7. PICK written : written = Written(byte, set) /\ written = Data(data, c, p)
  BY <1>1, <1>3, <1>4, DataOne
<1>8. PICK j : j = i + 2 * c.fnc4
  OBVIOUS
<1>9. Holds(text, j, Written(byte, set)) /\ Says(f, j + Len(Written(byte, set)), set, c.upper, FALSE, out)
  BY <1>3, <1>4, <1>5, <1>7, <1>8
<1>10. Says(f, j, set, c.upper, fnc4, <<byte>> \o out)
  BY <1>2, <1>4, <1>6, <1>9, SaysCharacter, ZenonT(40)
<1>11. Rest(data, p) = <<byte>> \o out
  BY <1>1, <1>5, RestOne, Zenon
<1>12. Rest(data, p) \in Seq(Tokens)
  <2>1. p \in Nat \ {0}
    OBVIOUS
  <2> QED BY <2>1, RestTokens
<1>13. Says(f, j, set, c.upper, fnc4, Rest(data, p))
  BY <1>10, <1>11, Zenon
<1> QED BY <1>3, <1>6, <1>8, <1>12, <1>13, SaysHalf

LEMMA ShiftSays ==
  ASSUME NEW text \in Seq(Bytes), NEW f, IsCode(text, f), NEW i,
         NEW data \in Seq(Tokens), NEW p \in 1..Len(data), NEW current, NEW upper, upper \in BOOLEAN,
         NEW c \in Choice, TextChoice(c, data[p], current, upper), c.shift = TRUE, data[p] % 128 # 123,
         Holds(text, i, Repeated(Marker(52), c.fnc4)), Holds(text, i + 2 * c.fnc4, Marker(83)),
         Holds(text, i + 2 * c.fnc4 + 2, Data(data, c, p)),
         Says(f, i + 2 * c.fnc4 + 2 + Len(Data(data, c, p)), current, c.upper, FALSE, Rest(data, p + c.advance))
  PROVE  Says(f, i, current, upper, FALSE, Rest(data, p))
<1>1. PICK byte \in Bytes : byte = data[p]
  BY DEF TextChoice
<1>2. PICK low \in 0..127 : low = byte % 128
  BY LowerHalf
<1>3. PICK set \in {"A", "B"} : set = current /\ c.set = Other(set)
  BY DEF TextChoice, Other
<1>4. Encodes(Other(set), low) /\ c.advance = 1 /\ Fnc4Serves(c, byte, upper)
  BY <1>1, <1>2, <1>3 DEF TextChoice
<1>5. PICK out \in Seq(Tokens) : out = Rest(data, p + 1)
  <2>1. p + 1 \in Nat \ {0}
    OBVIOUS
  <2> QED BY <2>1, RestTokens
<1>6. PICK fnc4 : Half(c.fnc4, upper, c.upper, fnc4) /\ byte = InHalf(low, c.upper, fnc4)
  BY <1>2, <1>4, HalfServed
<1>7. /\ Written(byte, Other(set)) = Data(data, c, p)
      /\ Len(Data(data, c, p)) = 1
  <2>1. Written(byte, Other(set)) = Data(data, c, p)
    BY <1>1, <1>3, <1>4, DataOne
  <2>2. Written(byte, Other(set)) = <<low>>
    <3>1. Other(set) \in {"A", "B"}
      BY DEF Other
    <3> QED BY <1>1, <1>2, <3>1, TextWritten
  <2> QED BY <2>1, <2>2, MarkerLength
<1>8. PICK j : j = i + 2 * c.fnc4 /\ j \in Nat
  <2>1. i + 2 * c.fnc4 \in Nat
    BY DEF Holds
  <2> QED BY <2>1
<1>9. /\ Holds(text, j, Marker(83)) /\ Holds(text, j + 2, Written(byte, Other(set)))
      /\ Says(f, j + 3, set, c.upper, FALSE, out)
  <2>1. j + 2 + 1 = j + 3
    BY <1>8
  <2> QED BY <1>3, <1>4, <1>5, <1>7, <1>8, <2>1
<1>10. low # 123
  BY <1>1, <1>2
<1>11. Says(f, j, set, c.upper, fnc4, <<byte>> \o out)
  <2>1. PICK half : half = c.upper
    OBVIOUS
  <2>2. /\ IsCode(text, f) /\ low = byte % 128 /\ low # 123 /\ byte = InHalf(low, half, fnc4)
        /\ Encodes(Other(set), low)
    BY <1>2, <1>4, <1>6, <1>10, <2>1
  <2>3. Holds(text, j, Marker(83))
    BY <1>9
  <2>4. Holds(text, j + 2, Written(byte, Other(set)))
    BY <1>9
  <2>5. Says(f, j + 3, set, half, FALSE, out)
    BY <1>9, <2>1
  <2>6. Says(f, j, set, half, fnc4, <<byte>> \o out)
    BY <2>2, <2>3, <2>4, <2>5, SaysBehindShift, Zenon
  <2> QED BY <2>1, <2>6
<1>12. Rest(data, p) = <<byte>> \o out
  BY <1>1, <1>5, RestOne, Zenon
<1>13. Rest(data, p) \in Seq(Tokens)
  <2>1. p \in Nat \ {0}
    OBVIOUS
  <2> QED BY <2>1, RestTokens
<1>14. Says(f, j, set, c.upper, fnc4, Rest(data, p))
  BY <1>11, <1>12, Zenon
<1> QED BY <1>3, <1>6, <1>8, <1>13, <1>14, SaysHalf, ZenonT(40)

LEMMA ControlSays ==
  ASSUME NEW text \in Seq(Bytes), NEW f, IsCode(text, f), NEW i,
         NEW data \in Seq(Tokens), NEW p \in 1..Len(data), NEW upper,
         NEW c \in Choice, ControlChoice(c, data[p], upper), Holds(text, i, Data(data, c, p)),
         Says(f, i + Len(Data(data, c, p)), c.set, c.upper, FALSE, Rest(data, p + c.advance))
  PROVE  Says(f, i, c.set, upper, FALSE, Rest(data, p))
<1>1. PICK token \in {Fnc1, Fnc3} : token = data[p]
  BY DEF ControlChoice
<1>2. PICK set \in Sets : set = c.set
  BY DEF Choice
<1>3. c.advance = 1 /\ c.upper = upper /\ (token = Fnc3 => set # "C")
  BY <1>1, <1>2 DEF ControlChoice
<1>4. PICK out \in Seq(Tokens) : out = Rest(data, p + 1)
  <2>1. p + 1 \in Nat \ {0}
    OBVIOUS
  <2> QED BY <2>1, RestTokens
<1>5. Written(token, set) = Data(data, c, p)
  BY <1>1, <1>2, <1>3, DataOne
<1>6. Holds(text, i, Written(token, set)) /\ Says(f, i + Len(Written(token, set)), set, upper, FALSE, out)
  BY <1>2, <1>3, <1>4, <1>5
<1>7. PICK none : none = FALSE
  OBVIOUS
<1>8. Says(f, i, set, upper, none, <<token>> \o out)
  BY <1>3, <1>6, <1>7, SaysControl
<1>9. Rest(data, p) = <<token>> \o out
  BY <1>1, <1>4, RestOne, Zenon
<1> QED BY <1>2, <1>7, <1>8, <1>9, Zenon

LEMMA PairSays ==
  ASSUME NEW text \in Seq(Bytes), NEW f, IsCode(text, f), NEW i,
         NEW data \in Seq(Tokens), NEW p \in 1..Len(data), NEW upper,
         NEW c \in Choice, PairChoice(c, data, p, upper), Holds(text, i, Data(data, c, p)),
         Says(f, i + Len(Data(data, c, p)), c.set, c.upper, FALSE, Rest(data, p + c.advance))
  PROVE  Says(f, i, c.set, upper, FALSE, Rest(data, p))
<1>1. PICK a \in 48..57, b \in 48..57 : a = data[p] /\ b = data[p + 1]
  BY DEF PairChoice, IsDecimal
<1>2. c.set = "C" /\ c.advance = 2 /\ c.upper = upper /\ p < Len(data)
  BY DEF PairChoice
<1>3. PICK out \in Seq(Tokens) : out = Rest(data, p + 2)
  <2>1. p + 2 \in Nat \ {0}
    OBVIOUS
  <2> QED BY <2>1, RestTokens
<1>4. PICK wa \in Seq(Bytes), wb \in Seq(Bytes) :
        wa = Written(a, "C") /\ wb = Written(b, "C") /\ Len(wa) = 1 /\ Len(wb) = 1
  <2>1. ASSUME NEW digit \in 48..57 PROVE Written(digit, "C") \in Seq(Bytes) /\ Len(Written(digit, "C")) = 1
    <3>1. digit # Fnc1 /\ digit # Fnc3 /\ digit # 123 /\ digit \in Tokens
      BY DEF Fnc1, Fnc3, Tokens, Bytes
    <3>2. Written(digit, "C") = <<digit>>
      BY <3>1, Zenon DEF Written
    <3> QED BY <3>1, <3>2, WrittenIsText, MarkerLength
  <2> QED BY <2>1
<1>5. Data(data, c, p) = wa \o wb
  BY <1>1, <1>2, <1>4, Zenon DEF Data
<1>6. Holds(text, i, wa) /\ Holds(text, i + Len(wa), wb) /\ Len(Data(data, c, p)) = 2
  <2>1. Holds(text, i, wa \o wb)
    BY <1>5, Zenon
  <2>2. Holds(text, i, wa) /\ Holds(text, i + Len(wa), wb) /\ Len(wa \o wb) = Len(wa) + Len(wb)
    BY <2>1, HoldsParts
  <2>3. Len(Data(data, c, p)) = Len(wa) + Len(wb)
    BY <1>5, <2>2, Zenon
  <2> QED BY <1>4, <2>2, <2>3
<1>7. Says(f, i + 2, "C", upper, FALSE, out)
  BY <1>2, <1>3, <1>6
<1>8. PICK none : none = FALSE
  OBVIOUS
<1>9. Says(f, i, "C", upper, none, <<a, b>> \o out)
  BY <1>4, <1>6, <1>7, <1>8, SaysPair
<1>10. Rest(data, p) = <<a, b>> \o out
  BY <1>1, <1>2, <1>3, RestTwo, Zenon
<1> QED BY <1>2, <1>8, <1>9, <1>10, Zenon

LEMMA DataIsText ==
  ASSUME NEW data \in Seq(Tokens), NEW p \in 1..Len(data), NEW current, NEW upper,
         NEW c \in Sensible(data, p, current, upper)
  PROVE  Data(data, c, p) \in Seq(Bytes) /\ p + c.advance \in (p + 1)..(Len(data) + 1)
<1>1. PICK N \in Nat : N = Len(data)
  BY LenProperties
<1>2. PICK first \in Seq(Bytes) : first = Written(data[p], c.set)
  <2>1. data[p] \in Tokens
    BY ElementOfSeq
  <2> QED BY <2>1, WrittenIsText
<1>3. c \in Choice /\ c.advance \in {1, 2} /\ (c.advance = 2 => p < Len(data))
  BY DEF Sensible, Choice, ControlChoice, TextChoice, PairChoice
<1>4. CASE c.advance = 1
  <2>1. Data(data, c, p) \in Seq(Bytes)
    BY <1>3, <1>4, DataOne
  <2> QED BY <1>1, <1>4, <2>1
<1>5. CASE c.advance = 2
  <2>1. PICK second \in Seq(Bytes) : second = Written(data[p + 1], c.set)
    <3>1. p + 1 \in 1..Len(data)
      BY <1>1, <1>3, <1>5
    <3>2. data[p + 1] \in Tokens
      BY <3>1, ElementOfSeq
    <3> QED BY <3>2, WrittenIsText
  <2>2. Data(data, c, p) = first \o second
    BY <1>2, <1>5, <2>1, Zenon DEF Data
  <2>3. PICK both \in Seq(Bytes) : both = first \o second
    BY Concatenated, Zenon
  <2>4. Data(data, c, p) \in Seq(Bytes)
    BY <2>2, <2>3, Zenon
  <2> QED BY <1>1, <1>3, <1>5, <2>4
<1> QED BY <1>3, <1>4, <1>5

\* The text of a choice without SHIFT, to a reader of its set.
LEMMA UnshiftedSays ==
  ASSUME NEW text \in Seq(Bytes), NEW f, IsCode(text, f), NEW i,
         NEW data \in Seq(Tokens), NEW p \in 1..Len(data), NEW current, NEW upper, upper \in BOOLEAN,
         NEW c \in Sensible(data, p, current, upper), c.shift = FALSE,
         Holds(text, i, Repeated(Marker(52), c.fnc4)), Holds(text, i + 2 * c.fnc4, Data(data, c, p)),
         Says(f, i + 2 * c.fnc4 + Len(Data(data, c, p)), c.set, c.upper, FALSE, Rest(data, p + c.advance))
  PROVE  Says(f, i, c.set, upper, FALSE, Rest(data, p))
<1>1. c \in Choice
  BY DEF Sensible
<1>2. CASE TextChoice(c, data[p], current, upper)
  BY <1>1, <1>2, TextSays
<1>3. CASE ControlChoice(c, data[p], upper) \/ PairChoice(c, data, p, upper)
  <2>1. c.fnc4 = 0 /\ i \in Nat
    BY <1>3 DEF ControlChoice, PairChoice, Holds
  <2>2. i + 2 * c.fnc4 = i
    BY <2>1
  <2>3. Holds(text, i, Data(data, c, p))
    BY <2>2
  <2>4. Says(f, i + Len(Data(data, c, p)), c.set, c.upper, FALSE, Rest(data, p + c.advance))
    BY <2>2
  <2>5. CASE ControlChoice(c, data[p], upper)
    BY <1>1, <2>3, <2>4, <2>5, ControlSays
  <2>6. CASE PairChoice(c, data, p, upper)
    BY <1>1, <2>3, <2>4, <2>6, PairSays
  <2> QED BY <1>3, <2>5, <2>6
<1> QED BY <1>2, <1>3 DEF Sensible

\* What a choice is introduced by, piece by piece.
SetChange(current, set) == IF current = set THEN <<>> ELSE SetMarker(set)

LEMMA SetChangeIsText ==
  ASSUME NEW current, NEW set \in Sets
  PROVE  SetChange(current, set) \in Seq(Bytes) /\ (current # set => Len(SetChange(current, set)) = 2)
<1>1. CASE current = set
  BY <1>1, EmptySeq DEF SetChange
<1>2. CASE current # set
  <2>1. PICK byte \in Bytes : SetMarker(set) = Marker(byte)
    <3>1. set = "A" => SetMarker(set) = Marker(65)
      BY DEF SetMarker
    <3>2. set = "B" => SetMarker(set) = Marker(66)
      BY DEF SetMarker
    <3>3. set = "C" => SetMarker(set) = Marker(67)
      BY DEF SetMarker
    <3> QED BY <3>1, <3>2, <3>3 DEF Sets, Bytes
  <2> QED BY <1>2, <2>1, MarkerIsText, MarkerLength DEF SetChange
<1> QED BY <1>1, <1>2

LEMMA IntroductionIsText ==
  ASSUME NEW c \in Choice, NEW current
  PROVE  Introduction(c, current) \in Seq(Bytes)
<1>1. PICK fnc4 \in Seq(Bytes) : fnc4 = Repeated(Marker(52), c.fnc4)
  BY Fnc4Length DEF Choice
<1>2. CASE c.shift
  <2>1. PICK shift \in Seq(Bytes) : shift = Marker(83)
    BY MarkerIsText DEF Bytes
  <2>2. PICK both \in Seq(Bytes) : both = fnc4 \o shift
    BY Concatenated, Zenon
  <2>3. Introduction(c, current) = fnc4 \o shift
    BY <1>1, <1>2, <2>1, Zenon DEF Introduction
  <2> QED BY <2>2, <2>3, Zenon
<1>3. CASE ~c.shift
  <2>1. PICK change \in Seq(Bytes) : change = SetChange(current, c.set)
    BY SetChangeIsText DEF Choice
  <2>2. PICK both \in Seq(Bytes) : both = change \o fnc4
    BY Concatenated, Zenon
  <2>3. Introduction(c, current) = change \o fnc4
    BY <1>1, <1>3, <2>1, Zenon DEF Introduction, SetChange
  <2> QED BY <2>2, <2>3, Zenon
<1> QED BY <1>2, <1>3

\* The text of a choice, to a reader of the set before it.
LEMMA ChoiceSays ==
  ASSUME NEW text \in Seq(Bytes), NEW f, IsCode(text, f), NEW i,
         NEW data \in Seq(Tokens), NEW p \in 1..Len(data), NEW current \in Sets, NEW upper, upper \in BOOLEAN,
         NEW c \in Sensible(data, p, current, upper), ~(c.shift /\ data[p] % 128 = 123),
         NEW j, j = i + Len(Introduction(c, current)),
         Holds(text, i, Introduction(c, current)), Holds(text, j, Data(data, c, p)),
         Says(f, j + Len(Data(data, c, p)), IF c.shift THEN current ELSE c.set, c.upper, FALSE,
              Rest(data, p + c.advance))
  PROVE  Says(f, i, current, upper, FALSE, Rest(data, p))
<1>1. c \in Choice /\ c.fnc4 \in 0..2 /\ c.set \in Sets /\ i \in Nat
  BY DEF Sensible, Choice, Holds
<1>2. PICK fnc4 \in Seq(Bytes) : fnc4 = Repeated(Marker(52), c.fnc4) /\ Len(fnc4) = 2 * c.fnc4
  BY <1>1, Fnc4Length
<1>3. Rest(data, p) \in Seq(Tokens)
  <2>1. p \in Nat \ {0}
    OBVIOUS
  <2> QED BY <2>1, RestTokens
<1>4. CASE c.shift
  <2>1. PICK shift \in Seq(Bytes) : shift = Marker(83) /\ Len(shift) = 2
    BY MarkerIsText, MarkerLength DEF Bytes
  <2>2. Introduction(c, current) = fnc4 \o shift
    BY <1>2, <1>4, <2>1, Zenon DEF Introduction
  <2>3. Holds(text, i, fnc4 \o shift)
    BY <2>2, Zenon
  <2>4. Holds(text, i, fnc4) /\ Holds(text, i + Len(fnc4), shift) /\ Len(fnc4 \o shift) = Len(fnc4) + Len(shift)
    BY <2>3, HoldsParts
  <2>5. j = i + 2 * c.fnc4 + 2
    <3>1. Len(Introduction(c, current)) = Len(fnc4) + Len(shift)
      BY <2>2, <2>4, Zenon
    <3> QED BY <1>1, <1>2, <2>1, <3>1
  <2>6. TextChoice(c, data[p], current, upper)
    BY <1>4 DEF Sensible, ControlChoice, PairChoice
  <2>7. Holds(text, i, Repeated(Marker(52), c.fnc4)) /\ Holds(text, i + 2 * c.fnc4, Marker(83))
    BY <1>2, <2>1, <2>4
  <2>8. Holds(text, i + 2 * c.fnc4 + 2, Data(data, c, p))
    BY <2>5
  <2>9. Says(f, i + 2 * c.fnc4 + 2 + Len(Data(data, c, p)), current, c.upper, FALSE, Rest(data, p + c.advance))
    BY <1>4, <2>5
  <2>10. c.shift = TRUE /\ data[p] % 128 # 123
    BY <1>1, <1>4 DEF Choice
  <2> QED BY <1>1, <2>6, <2>7, <2>8, <2>9, <2>10, ShiftSays
<1>5. CASE ~c.shift
  <2>1. PICK change \in Seq(Bytes) : /\ change = SetChange(current, c.set)
                                    /\ (current # c.set => Len(change) = 2)
    BY <1>1, SetChangeIsText
  <2>2. Introduction(c, current) = change \o fnc4
    BY <1>2, <1>5, <2>1, Zenon DEF Introduction, SetChange
  <2>3. Holds(text, i, change \o fnc4)
    BY <2>2, Zenon
  <2>4. Holds(text, i, change) /\ Holds(text, i + Len(change), fnc4) /\ Len(change \o fnc4) = Len(change) + Len(fnc4)
    BY <2>3, HoldsParts
  <2>5. PICK k : k = i + Len(change)
    OBVIOUS
  <2>6. j = k + 2 * c.fnc4
    <3>1. Len(Introduction(c, current)) = Len(change) + Len(fnc4)
      BY <2>2, <2>4, Zenon
    <3>2. Len(change) \in Nat
      BY LenProperties
    <3> QED BY <1>1, <1>2, <2>5, <3>1, <3>2
  <2>7. Holds(text, k, Repeated(Marker(52), c.fnc4)) /\ Holds(text, k + 2 * c.fnc4, Data(data, c, p))
    BY <1>2, <2>4, <2>5, <2>6
  <2>8. Says(f, k + 2 * c.fnc4 + Len(Data(data, c, p)), c.set, c.upper, FALSE, Rest(data, p + c.advance))
    BY <1>5, <2>6
  <2>9. c.shift = FALSE
    BY <1>1, <1>5 DEF Choice
  <2>10. Says(f, k, c.set, upper, FALSE, Rest(data, p))
    BY <2>7, <2>8, <2>9, UnshiftedSays
  <2>11. CASE current = c.set
    <3>1. Len(change) = 0
      BY <2>1, <2>11 DEF SetChange
    <3>2. k = i
      BY <1>1, <2>5, <3>1
    <3> QED BY <2>10, <2>11, <3>2
  <2>12. CASE current # c.set
    <3>1. Holds(text, i, SetMarker(c.set)) /\ k = i + 2
      BY <2>1, <2>4, <2>5, <2>12 DEF SetChange
    <3>2. PICK set1 \in Sets \ {current} : set1 = c.set
      BY <1>1, <2>12
    <3>3. PICK none : none = FALSE
      OBVIOUS
    <3>4. Holds(text, i, SetMarker(set1)) /\ Says(f, i + 2, set1, upper, none, Rest(data, p))
      BY <2>10, <3>1, <3>2, <3>3
    <3>5. Says(f, i, current, upper, none, Rest(data, p))
      BY <1>3, <3>4, SaysSet
    <3> QED BY <3>3, <3>5
  <2> QED BY <2>11, <2>12
<1> QED BY <1>4, <1>5
-----------------------------------------------------------------------------
(* Following the plan.                                                     *)

\* A row for each position.
Plans(data, rows) ==
  /\ data \in Seq(Tokens) /\ rows \in Seq([PlanStates -> Choice]) /\ Len(rows) = Len(data)
  /\ RowsOK(data, rows, 0)

LEMMA AfterIs ==
  ASSUME NEW rows, NEW at, NEW c, c = rows[at[1]][at[2]],
         NEW set, set = IF c.shift THEN at[2][1] ELSE c.set
  PROVE  After(rows, at) = <<at[1] + c.advance, <<set, c.upper>>>>
BY DEF After, StateAfter

LEMMA PlaceInPlan ==
  ASSUME NEW data, NEW rows, Plans(data, rows), NEW at \in (1..Len(data)) \X PlanStates,
         NEW c, c = rows[at[1]][at[2]], NEW set, set = IF c.shift THEN at[2][1] ELSE c.set
  PROVE  /\ c \in Choice /\ c \in Sensible(data, at[1], at[2][1], at[2][2])
         /\ at[1] + c.advance \in (at[1] + 1)..(Len(data) + 1)
         /\ set \in Sets /\ c.upper \in BOOLEAN
         /\ (at[2][1] = "none" => c.shift = FALSE)
         /\ Data(data, c, at[1]) \in Seq(Bytes) /\ Introduction(c, at[2][1]) \in Seq(Bytes)
<1>1. PICK p \in 1..Len(data), current \in Sets \union {"none"}, upper \in BOOLEAN :
        at = <<p, <<current, upper>>>>
  BY DEF PlanStates
<1>2. data \in Seq(Tokens) /\ p \in 1..Len(rows) /\ 0 + p = p
  BY DEF Plans
<1>3. rows[p][<<current, upper>>] \in Sensible(data, 0 + p, current, upper)
  BY <1>2 DEF Plans, RowsOK
<1>4. c \in Sensible(data, p, current, upper)
  BY <1>1, <1>2, <1>3
<1>5. c \in Choice /\ (c.shift => current \in {"A", "B"})
  BY <1>4 DEF Sensible, ControlChoice, TextChoice, PairChoice
<1>6. c.shift \in BOOLEAN /\ c.set \in Sets /\ c.upper \in BOOLEAN
  BY <1>5 DEF Choice
<1>8. p + c.advance \in (p + 1)..(Len(data) + 1) /\ Data(data, c, p) \in Seq(Bytes)
  BY <1>2, <1>4, DataIsText
<1>9. Introduction(c, current) \in Seq(Bytes)
  BY <1>5, IntroductionIsText
<1>10. set \in Sets /\ (current = "none" => c.shift = FALSE)
  BY <1>1, <1>5, <1>6 DEF Sets
<1> QED BY <1>1, <1>4, <1>5, <1>6, <1>8, <1>9, <1>10

LeadsOn(data, rows, next) ==
  /\ next \in [(1..Len(data)) \X PlanStates -> (1..Len(data) + 1) \X PlanStates]
  /\ \A at \in (1..Len(data)) \X PlanStates : next[at] = After(rows, at) /\ next[at][1] > at[1]

LEMMA NextPlaces ==
  ASSUME NEW data, NEW rows, Plans(data, rows)
  PROVE  /\ PlanPlaces(data) = (1..Len(data) + 1) \X PlanStates
         /\ \E next : LeadsOn(data, rows, next)
<1>1. PICK N \in Nat : N = Len(data)
  BY LenProperties DEF Plans
<1>2. ASSUME NEW at \in (1..N) \X PlanStates
      PROVE  After(rows, at) \in (1..N + 1) \X PlanStates /\ After(rows, at)[1] > at[1]
  <2>1. PICK c : c = rows[at[1]][at[2]]
    OBVIOUS
  <2>2. PICK set : set = IF c.shift THEN at[2][1] ELSE c.set
    OBVIOUS
  <2>3. /\ After(rows, at) = <<at[1] + c.advance, <<set, c.upper>>>>
        /\ at[1] + c.advance \in (at[1] + 1)..(N + 1) /\ set \in Sets /\ c.upper \in BOOLEAN
    <3>1. at \in (1..Len(data)) \X PlanStates
      BY <1>1
    <3>2. /\ After(rows, at) = <<at[1] + c.advance, <<set, c.upper>>>>
          /\ at[1] + c.advance \in (at[1] + 1)..(Len(data) + 1) /\ set \in Sets /\ c.upper \in BOOLEAN
      <4>1. After(rows, at) = <<at[1] + c.advance, <<set, c.upper>>>>
        BY <2>1, <2>2, AfterIs
      <4>2. at[1] + c.advance \in (at[1] + 1)..(Len(data) + 1)
        BY <2>1, <2>2, <3>1, PlaceInPlan
      <4>3. set \in Sets /\ c.upper \in BOOLEAN
        BY <2>1, <2>2, <3>1, PlaceInPlan
      <4> QED BY <4>1, <4>2, <4>3
    <3> QED BY <1>1, <3>2, Zenon
  <2>4. PICK m : m = at[1] + c.advance /\ m \in (at[1] + 1)..(N + 1)
    BY <2>3
  <2>5. m \in 1..N + 1 /\ m > at[1] /\ <<set, c.upper>> \in PlanStates
    <3>1. at[1] \in 1..N
      OBVIOUS
    <3> QED BY <2>3, <2>4, <3>1 DEF PlanStates
  <2> QED BY <2>3, <2>4, <2>5
<1>3. PICK next : next = [at \in (1..N) \X PlanStates |-> After(rows, at)]
  OBVIOUS
<1>4. LeadsOn(data, rows, next)
  BY <1>1, <1>2, <1>3 DEF LeadsOn
<1> QED BY <1>4 DEF PlanPlaces

\* The text that each place of the plan leads to.
IsPlanText(data, rows, W) ==
  \A at \in PlanPlaces(data) :
    W[at] = IF at[1] > Len(data) THEN <<>>
            ELSE Introduction(rows[at[1]][at[2]], at[2][1]) \o Data(data, rows[at[1]][at[2]], at[1])
                   \o W[After(rows, at)]
\* The places that each place leads through.
IsPath(data, rows, F) ==
  \A at \in PlanPlaces(data) :
    F[at] = IF at[1] > Len(data) THEN {} ELSE {at} \union F[After(rows, at)]

LEMMA PlanTextExists ==
  ASSUME NEW data, NEW rows, Plans(data, rows)
  PROVE  \E W : IsPlanText(data, rows, W) /\ Explicit(data, rows) = W[Beginning]
<1>1. PICK N \in Nat : N = Len(data)
  BY LenProperties DEF Plans
<1>2. PICK V : V = Seq(Bytes)
  OBVIOUS
<1>3. PICK Places : Places = PlanPlaces(data) /\ Places = (1..N + 1) \X PlanStates
  BY <1>1, NextPlaces
<1>4. PICK Inside : Inside = (1..N) \X PlanStates
  OBVIOUS
<1>5. PICK next : /\ next \in [Inside -> Places]
                  /\ \A at \in Inside : next[at] = After(rows, at) /\ next[at][1] > at[1]
  <2>1. \E next : LeadsOn(data, rows, next)
    BY NextPlaces
  <2> QED BY <1>1, <1>3, <1>4, <2>1 DEF LeadsOn
<1> DEFINE own(at) == Introduction(rows[at[1]][at[2]], at[2][1]) \o Data(data, rows[at[1]][at[2]], at[1])
           joined(at, rest) == own(at) \o rest
<1>6. ASSUME NEW at \in Inside, NEW rest \in V PROVE joined(at, rest) \in V
  <2>1. PICK introduction \in Seq(Bytes), piece \in Seq(Bytes) :
          /\ introduction = Introduction(rows[at[1]][at[2]], at[2][1])
          /\ piece = Data(data, rows[at[1]][at[2]], at[1])
    BY <1>1, <1>4, PlaceInPlan
  <2>2. PICK both \in Seq(Bytes) : both = introduction \o piece
    BY Concatenated, Zenon
  <2>3. PICK all \in Seq(Bytes) : all = both \o rest
    BY <1>2, Concatenated, Zenon
  <2>4. joined(at, rest) = all
    BY <2>1, <2>2, <2>3, Zenon
  <2> QED BY <1>2, <2>4
<1>7. PICK combine : /\ combine \in [Inside \X V -> V]
                     /\ \A at \in Inside, rest \in V : combine[<<at, rest>>] = joined(at, rest)
  <2> HIDE DEF joined
  <2>1. PICK g : g = [x \in Inside \X V |-> joined(x[1], x[2])]
    OBVIOUS
  <2> QED BY <1>6, <2>1
<1>8. <<>> \in V
  BY <1>2, EmptySeq
<1>9. PICK h : Solves(h, N + 1, N, PlanStates, V, <<>>, next, combine)
  <2>1. IsRecursion(N + 1, N, PlanStates, V, <<>>, next, combine)
    BY <1>3, <1>4, <1>5, <1>7, <1>8 DEF IsRecursion
  <2> QED BY <2>1, RecursionExists
<1>10. /\ h \in [Places -> V]
       /\ \A at \in Places : h[at] = IF at[1] > N THEN <<>> ELSE combine[<<at, h[next[at]]>>]
  BY <1>3, <1>9 DEF Solves
<1> DEFINE body(g, at) == IF at[1] > Len(data) THEN <<>>
                          ELSE Introduction(rows[at[1]][at[2]], at[2][1])
                                 \o Data(data, rows[at[1]][at[2]], at[1]) \o g[After(rows, at)]
           Good(g) == g = [at \in PlanPlaces(data) |-> body(g, at)]
<1>11. ASSUME NEW at \in Places PROVE h[at] = body(h, at)
  <2>1. CASE at[1] > N
    <3>1. at[1] > Len(data) /\ h[at] = <<>>
      BY <1>1, <1>10, <2>1
    <3> QED BY <3>1
  <2>2. CASE ~(at[1] > N)
    <3>1. at \in Inside /\ ~(at[1] > Len(data))
      BY <1>1, <1>3, <1>4, <2>2
    <3>2. next[at] = After(rows, at) /\ h[next[at]] \in V
      BY <1>5, <1>10, <3>1
    <3>3. h[at] = joined(at, h[After(rows, at)])
      <4> HIDE DEF joined
      <4> QED BY <1>7, <1>10, <2>2, <3>1, <3>2
    <3> QED BY <3>1, <3>3, Zenon
  <2> QED BY <2>1, <2>2
<1>12. Good(h)
  <2> HIDE DEF body
  <2>1. h = [at \in Places |-> h[at]]
    BY <1>10
  <2> QED BY <1>3, <1>11, <2>1
<1>13. PICK W : W = (CHOOSE g : Good(g)) /\ Good(W)
  <2> HIDE DEF Good
  <2> QED BY <1>12
<1>14. Explicit(data, rows) = W[Beginning]
  BY <1>13, Zenon DEF Explicit
<1>15. ASSUME NEW at \in PlanPlaces(data) PROVE W[at] = body(W, at)
  <2> HIDE DEF body
  <2> QED BY <1>13
<1>16. IsPlanText(data, rows, W)
  BY <1>15, Zenon DEF IsPlanText
<1> QED BY <1>14, <1>16

LEMMA PathExists ==
  ASSUME NEW data, NEW rows, Plans(data, rows)
  PROVE  \E F : IsPath(data, rows, F) /\ Followed(data, rows) = F[Beginning]
<1>1. PICK N \in Nat : N = Len(data)
  BY LenProperties DEF Plans
<1>2. PICK Places : Places = PlanPlaces(data) /\ Places = (1..N + 1) \X PlanStates
  BY <1>1, NextPlaces
<1>3. PICK Inside : Inside = (1..N) \X PlanStates
  OBVIOUS
<1>4. PICK next : /\ next \in [Inside -> Places]
                  /\ \A at \in Inside : next[at] = After(rows, at) /\ next[at][1] > at[1]
  <2>1. \E next : LeadsOn(data, rows, next)
    BY NextPlaces
  <2> QED BY <1>1, <1>2, <1>3, <2>1 DEF LeadsOn
<1>5. PICK V : V = SUBSET Places
  OBVIOUS
<1>6. PICK combine : /\ combine \in [Inside \X V -> V]
                     /\ \A at \in Inside, rest \in V : combine[<<at, rest>>] = {at} \union rest
  <2>1. PICK g : g = [x \in Inside \X V |-> {x[1]} \union x[2]]
    OBVIOUS
  <2>2. \A at \in Inside, rest \in V : {at} \union rest \in V
    BY <1>2, <1>3, <1>5
  <2> QED BY <2>1, <2>2
<1>7. {} \in V
  BY <1>5
<1>8. PICK h : Solves(h, N + 1, N, PlanStates, V, {}, next, combine)
  <2>1. IsRecursion(N + 1, N, PlanStates, V, {}, next, combine)
    BY <1>2, <1>3, <1>4, <1>6, <1>7 DEF IsRecursion
  <2> QED BY <2>1, RecursionExists
<1>9. /\ h \in [Places -> V]
      /\ \A at \in Places : h[at] = IF at[1] > N THEN {} ELSE combine[<<at, h[next[at]]>>]
  BY <1>2, <1>8 DEF Solves
<1> DEFINE body(g, at) == IF at[1] > Len(data) THEN {} ELSE {at} \union g[After(rows, at)]
           Good(g) == g = [at \in PlanPlaces(data) |-> body(g, at)]
<1>10. ASSUME NEW at \in Places PROVE h[at] = body(h, at)
  <2>1. CASE at[1] > N
    BY <1>1, <1>9, <2>1
  <2>2. CASE ~(at[1] > N)
    <3>1. at \in Inside /\ ~(at[1] > Len(data))
      BY <1>1, <1>2, <1>3, <2>2
    <3>2. next[at] = After(rows, at) /\ h[next[at]] \in V
      BY <1>4, <1>9, <3>1
    <3>3. h[at] = {at} \union h[After(rows, at)]
      BY <1>6, <1>9, <2>2, <3>1, <3>2
    <3> QED BY <3>1, <3>3, Zenon
  <2> QED BY <2>1, <2>2
<1>11. Good(h)
  <2> HIDE DEF body
  <2>1. h = [at \in Places |-> h[at]]
    BY <1>9
  <2> QED BY <1>2, <1>10, <2>1
<1>12. PICK F : F = (CHOOSE g : Good(g)) /\ Good(F)
  <2> HIDE DEF Good
  <2> QED BY <1>11
<1>13. Followed(data, rows) = F[Beginning]
  BY <1>12, Zenon DEF Followed
<1>14. ASSUME NEW at \in PlanPlaces(data) PROVE F[at] = body(F, at)
  <2> HIDE DEF body
  <2> QED BY <1>12
<1>15. IsPath(data, rows, F)
  BY <1>14, Zenon DEF IsPath
<1> QED BY <1>13, <1>15

LEMMA PlanTextIsText ==
  ASSUME NEW data, NEW rows, Plans(data, rows), NEW W, IsPlanText(data, rows, W)
  PROVE  \A at \in PlanPlaces(data) : W[at] \in Seq(Bytes)
<1>1. PICK N \in Nat : N = Len(data)
  BY LenProperties DEF Plans
<1>2. PlanPlaces(data) = (1..N + 1) \X PlanStates
  BY <1>1, NextPlaces
<1> DEFINE P == {n \in 0..N + 1 : \A at \in PlanPlaces(data) : at[1] > n => W[at] \in Seq(Bytes)}
<1>3. N + 1 \in P
  BY <1>2
<1>4. ASSUME NEW n \in 1..N + 1, n \in P PROVE n - 1 \in P
  <2>1. ASSUME NEW at \in PlanPlaces(data), at[1] = n PROVE W[at] \in Seq(Bytes)
    <3>1. CASE n > N
      <4>1. W[at] = <<>>
        BY <1>1, <2>1, <3>1 DEF IsPlanText
      <4> QED BY <4>1, EmptySeq
    <3>2. CASE ~(n > N)
      <4>1. at \in (1..Len(data)) \X PlanStates
        BY <1>1, <1>2, <2>1, <3>2
      <4>2. PICK c, set : c = rows[at[1]][at[2]] /\ set = IF c.shift THEN at[2][1] ELSE c.set
        OBVIOUS
      <4>3. PICK introduction \in Seq(Bytes), piece \in Seq(Bytes) :
              introduction = Introduction(c, at[2][1]) /\ piece = Data(data, c, at[1])
        <5>1. Introduction(c, at[2][1]) \in Seq(Bytes) /\ Data(data, c, at[1]) \in Seq(Bytes)
          BY <4>1, <4>2, PlaceInPlan
        <5> QED BY <5>1
      <4>4. PICK later \in PlanPlaces(data) : later = After(rows, at) /\ later[1] > n
        <5>1. PICK next : LeadsOn(data, rows, next)
          BY NextPlaces
        <5>2. next[at] \in (1..N + 1) \X PlanStates /\ next[at] = After(rows, at) /\ next[at][1] > at[1]
          BY <1>1, <4>1, <5>1 DEF LeadsOn
        <5> QED BY <1>2, <2>1, <5>2
      <4>5. PICK rest \in Seq(Bytes) : rest = W[later]
        BY <1>4, <4>4
      <4>6. ~(at[1] > Len(data))
        BY <1>1, <2>1, <3>2
      <4>7. W[at] = introduction \o piece \o rest
        BY <4>2, <4>3, <4>4, <4>5, <4>6, Zenon DEF IsPlanText
      <4>8. PICK both \in Seq(Bytes) : both = introduction \o piece
        BY Concatenated, Zenon
      <4>9. PICK all \in Seq(Bytes) : all = both \o rest
        BY Concatenated, Zenon
      <4> QED BY <4>7, <4>8, <4>9, Zenon
    <3> QED BY <3>1, <3>2
  <2>2. ASSUME NEW at \in PlanPlaces(data), at[1] > n - 1 PROVE W[at] \in Seq(Bytes)
    <3>1. at[1] \in 1..N + 1
      BY <1>2
    <3>2. CASE at[1] = n
      BY <2>1, <3>2
    <3>3. CASE at[1] # n
      <4>1. at[1] > n
        BY <2>2, <3>1, <3>3
      <4> QED BY <1>4, <4>1
    <3> QED BY <3>2, <3>3
  <2>3. n - 1 \in 0..N + 1
    BY <1>1
  <2> QED BY <2>2, <2>3
<1>5. 0 \in P
  <2> HIDE DEF P
  <2>1. N + 1 \in Nat
    BY <1>1
  <2>2. \A n \in 0..N + 1 : n \in P
    BY <1>3, <1>4, <2>1, DownFrom
  <2> QED BY <1>1, <2>2
<1>6. ASSUME NEW at \in PlanPlaces(data) PROVE at[1] > 0
  BY <1>2
<1> QED BY <1>5, <1>6

\* No place among them puts a brace behind SHIFT.
Clean(data, rows, places) == \A at \in places : ~(rows[at[1]][at[2]].shift /\ data[at[1]] % 128 = 123)

LEMMA PlanSays ==
  ASSUME NEW data, NEW rows, Plans(data, rows), NEW W, IsPlanText(data, rows, W),
         NEW F, IsPath(data, rows, F), NEW text \in Seq(Bytes), NEW f, IsCode(text, f)
  PROVE  \A at \in PlanPlaces(data), i \in Nat :
           (/\ at[2][1] # "none" /\ Clean(data, rows, F[at])
            /\ Holds(text, i, W[at]) /\ i + Len(W[at]) = Len(text) + 1)
             => Says(f, i, at[2][1], at[2][2], FALSE, Rest(data, at[1]))
<1>1. PICK N \in Nat : N = Len(data)
  BY LenProperties DEF Plans
<1>2. PlanPlaces(data) = (1..N + 1) \X PlanStates /\ data \in Seq(Tokens)
  BY <1>1, NextPlaces DEF Plans
<1> DEFINE Ends(at, i) == /\ at[2][1] # "none" /\ Clean(data, rows, F[at])
                          /\ Holds(text, i, W[at]) /\ i + Len(W[at]) = Len(text) + 1
           Goal(at, i) == Says(f, i, at[2][1], at[2][2], FALSE, Rest(data, at[1]))
           P == {n \in 0..N + 1 : \A at \in PlanPlaces(data), i \in Nat :
                                    at[1] > n /\ Ends(at, i) => Goal(at, i)}
<1>3. N + 1 \in P
  <2>1. \A at \in PlanPlaces(data) : ~(at[1] > N + 1)
    BY <1>2
  <2> HIDE DEF Ends, Goal
  <2> QED BY <1>1, <2>1
<1>4. ASSUME NEW n \in 1..N + 1, n \in P PROVE n - 1 \in P
  <2>1. ASSUME NEW at \in PlanPlaces(data), NEW i \in Nat, at[1] = n, Ends(at, i) PROVE Goal(at, i)
    <3>1. PICK current \in Sets, upper \in BOOLEAN : at = <<n, <<current, upper>>>>
      BY <1>2, <2>1 DEF PlanStates
    <3>2. CASE n > N
      <4>1. n = N + 1 /\ W[at] = <<>>
        BY <1>1, <2>1, <3>2 DEF IsPlanText
      <4>2. i = Len(text) + 1
        <5>1. Len(<<>>) = 0
          OBVIOUS
        <5> QED BY <2>1, <4>1, <5>1
      <4>3. PICK none : none = FALSE
        OBVIOUS
      <4>4. Says(f, Len(text) + 1, current, upper, none, <<>>)
        BY SaysNothing
      <4>5. Rest(data, n) = <<>>
        BY <1>1, <1>2, <4>1, RestNone
      <4>6. Goal(at, i) = Says(f, i, current, upper, FALSE, Rest(data, n))
        BY <3>1
      <4> HIDE DEF Goal
      <4> QED BY <4>2, <4>3, <4>4, <4>5, <4>6
    <3>3. CASE ~(n > N)
      <4>1. at \in (1..Len(data)) \X PlanStates /\ n \in 1..Len(data) /\ ~(at[1] > Len(data))
        BY <1>1, <1>2, <2>1, <3>3
      <4>2. PICK c, set : c = rows[at[1]][at[2]] /\ set = IF c.shift THEN at[2][1] ELSE c.set
        OBVIOUS
      <4>3. /\ c \in Sensible(data, n, current, upper) /\ c.upper \in BOOLEAN /\ set \in Sets
        <5>1. c \in Sensible(data, at[1], at[2][1], at[2][2]) /\ c.upper \in BOOLEAN /\ set \in Sets
          BY <4>1, <4>2, PlaceInPlan
        <5> QED BY <3>1, <5>1
      <4>4. PICK introduction \in Seq(Bytes), piece \in Seq(Bytes) :
              introduction = Introduction(c, at[2][1]) /\ piece = Data(data, c, at[1])
        <5>1. Introduction(c, at[2][1]) \in Seq(Bytes) /\ Data(data, c, at[1]) \in Seq(Bytes)
          BY <4>1, <4>2, PlaceInPlan
        <5> QED BY <5>1
      <4>5. PICK later \in PlanPlaces(data) : later = After(rows, at) /\ later[1] > n
        <5>1. PICK next : LeadsOn(data, rows, next)
          BY NextPlaces
        <5>2. next[at] \in (1..N + 1) \X PlanStates /\ next[at] = After(rows, at) /\ next[at][1] > at[1]
          BY <1>1, <4>1, <5>1 DEF LeadsOn
        <5> QED BY <1>2, <2>1, <5>2
      <4>6. later[1] = n + c.advance /\ later[2][1] = set /\ later[2][2] = c.upper
        <5>1. later = <<at[1] + c.advance, <<set, c.upper>>>>
          BY <4>2, <4>5, AfterIs
        <5> QED BY <2>1, <5>1
      <4>7. PICK rest \in Seq(Bytes) : rest = W[later]
        BY PlanTextIsText
      <4>8. PICK both \in Seq(Bytes) : both = introduction \o piece /\ Len(both) = Len(introduction) + Len(piece)
        BY Concatenated, ZenonT(40)
      <4>9. W[at] = both \o rest
        BY <4>1, <4>2, <4>4, <4>5, <4>7, <4>8, Zenon DEF IsPlanText
      <4>10. Holds(text, i, both) /\ Holds(text, i + Len(both), rest) /\ Len(W[at]) = Len(both) + Len(rest)
        <5>1. Holds(text, i, both \o rest)
          BY <2>1, <4>9, Zenon
        <5>2. Holds(text, i, both) /\ Holds(text, i + Len(both), rest) /\ Len(both \o rest) = Len(both) + Len(rest)
          BY <5>1, HoldsParts
        <5> QED BY <4>9, <5>2, Zenon
      <4>11. Holds(text, i, introduction) /\ Holds(text, i + Len(introduction), piece)
        <5>1. Holds(text, i, introduction \o piece)
          BY <4>8, <4>10, Zenon
        <5> QED BY <5>1, HoldsParts
      <4>12. PICK j \in Nat : j = i + Len(introduction)
        BY LenProperties
      <4>13. PICK k \in Nat : k = j + Len(piece) /\ k = i + Len(both)
        <5>1. Len(introduction) \in Nat /\ Len(piece) \in Nat
          BY LenProperties
        <5>2. Len(both) = Len(introduction) + Len(piece)
          BY <4>8, Zenon
        <5> QED BY <4>12, <5>1, <5>2
      <4>14. k + Len(W[later]) = Len(text) + 1
        <5>1. PICK B \in Nat, R \in Nat, T \in Nat : B = Len(both) /\ R = Len(rest) /\ T = Len(text)
          BY LenProperties
        <5>2. Len(W[at]) = Len(both) + Len(rest) /\ i + Len(W[at]) = Len(text) + 1
          BY <2>1, <4>10, Zenon
        <5>3. Len(W[at]) = B + R /\ i + Len(W[at]) = T + 1
          BY <5>1, <5>2, Zenon
        <5>4. k = i + B /\ Len(W[later]) = R
          BY <4>7, <4>13, <5>1, Zenon
        <5>5. k + R = T + 1
          BY <5>1, <5>3, <5>4
        <5> QED BY <5>1, <5>4, <5>5
      <4>15. F[at] = {at} \union F[later]
        BY <4>1, <4>5, Zenon DEF IsPath
      <4>16. Clean(data, rows, F[later]) /\ ~(c.shift /\ data[n] % 128 = 123)
        BY <2>1, <4>2, <4>15 DEF Clean
      <4>17. Ends(later, k)
        <5>1. set # "none"
          BY <4>3 DEF Sets
        <5>2. Holds(text, k, W[later])
          BY <4>7, <4>10, <4>13
        <5> QED BY <4>6, <4>14, <4>16, <5>1, <5>2
      <4>18. Goal(later, k)
        <5> HIDE DEF Ends, Goal
        <5> QED BY <1>4, <4>5, <4>17
      <4>19. PICK none : none = FALSE
        OBVIOUS
      <4>20. Says(f, j + Len(Data(data, c, n)), IF c.shift THEN current ELSE c.set, c.upper, FALSE,
                  Rest(data, n + c.advance))
        <5>1. Says(f, k, later[2][1], later[2][2], FALSE, Rest(data, later[1]))
          BY <4>18
        <5>2. k = j + Len(Data(data, c, n)) /\ later[2][1] = IF c.shift THEN current ELSE c.set
          BY <2>1, <3>1, <4>2, <4>4, <4>6, <4>13
        <5> QED BY <4>6, <5>1, <5>2
      <4>21. /\ j = i + Len(Introduction(c, current)) /\ Holds(text, i, Introduction(c, current))
             /\ Holds(text, j, Data(data, c, n))
        BY <2>1, <3>1, <4>4, <4>11, <4>12
      <4>22. Says(f, i, current, upper, FALSE, Rest(data, n))
        <5>1. data \in Seq(Tokens) /\ n \in 1..Len(data) /\ c \in Sensible(data, n, current, upper)
          BY <1>2, <4>1, <4>3
        <5>2. ~(c.shift /\ data[n] % 128 = 123)
          BY <4>16
        <5>3. Holds(text, i, Introduction(c, current)) /\ Holds(text, j, Data(data, c, n))
          BY <4>21
        <5> QED BY <4>20, <4>21, <5>1, <5>2, <5>3, ChoiceSays
      <4>23. Goal(at, i) = Says(f, i, current, upper, FALSE, Rest(data, n))
        BY <3>1
      <4> HIDE DEF Goal
      <4> QED BY <4>22, <4>23
    <3> QED BY <3>2, <3>3
  <2>2. ASSUME NEW at \in PlanPlaces(data), NEW i \in Nat, at[1] > n - 1, Ends(at, i) PROVE Goal(at, i)
    <3> HIDE DEF Ends, Goal
    <3>1. at[1] \in 1..N + 1
      BY <1>2
    <3>2. CASE at[1] = n
      BY <2>1, <2>2, <3>2
    <3>3. CASE at[1] # n
      <4>1. at[1] > n
        BY <2>2, <3>1, <3>3
      <4> QED BY <1>4, <2>2, <4>1
    <3> QED BY <3>2, <3>3
  <2>3. n - 1 \in 0..N + 1
    BY <1>1
  <2> HIDE DEF Ends, Goal
  <2> QED BY <2>2, <2>3
<1>5. 0 \in P
  <2> HIDE DEF P
  <2>1. N + 1 \in Nat
    BY <1>1
  <2>2. \A n \in 0..N + 1 : n \in P
    BY <1>3, <1>4, <2>1, DownFrom
  <2> QED BY <1>1, <2>2
<1>6. ASSUME NEW at \in PlanPlaces(data) PROVE at[1] > 0
  BY <1>2
<1>7. ASSUME NEW at \in PlanPlaces(data), NEW i \in Nat, Ends(at, i) PROVE Goal(at, i)
  <2> HIDE DEF Ends, Goal
  <2> QED BY <1>5, <1>6, <1>7
<1> QED BY <1>7
-----------------------------------------------------------------------------
(* The whole symbol.                                                       *)

InParts(values, start, code, check) ==
  /\ values[1] = start /\ SubSeq(values, 2, Len(values) - 2) = code
  /\ Front(Front(values)) = <<start>> \o code /\ values[Len(values) - 1] = check
Symbol(start, code, check, stop) == <<start>> \o code \o <<check, stop>>

LEMMA SymbolParts ==
  ASSUME NEW S, NEW start \in S, NEW code \in Seq(S), NEW check \in S, NEW stop \in S,
         NEW values, values = Symbol(start, code, check, stop)
  PROVE  InParts(values, start, code, check)
<1>1. PICK N \in Nat : N = Len(code)
  BY LenProperties
<1>2. PICK one \in Seq(S) : one = <<start>> /\ Len(one) = 1 /\ one[1] = start
  <2>1. <<start>> \in Seq(S) /\ Len(<<start>>) = 1 /\ <<start>>[1] = start
    BY OneElement
  <2> QED BY <2>1
<1>3. PICK both \in Seq(S) : /\ both = one \o code /\ Len(both) = Len(one) + Len(code)
                             /\ \A k \in 1..Len(one) + Len(code) :
                                  both[k] = IF k <= Len(one) THEN one[k] ELSE code[k - Len(one)]
  <2>1. /\ one \o code \in Seq(S) /\ Len(one \o code) = Len(one) + Len(code)
        /\ \A k \in 1..Len(one) + Len(code) : (one \o code)[k] = IF k <= Len(one) THEN one[k] ELSE code[k - Len(one)]
    BY ConcatProperties, Zenon
  <2> QED BY <2>1, Zenon
<1>4. Len(both) = N + 1 /\ both[1] = start /\ \A k \in 1..N : both[k + 1] = code[k]
  <2>1. \A k \in 1..N + 1 : both[k] = IF k <= 1 THEN one[k] ELSE code[k - 1]
    BY <1>1, <1>2, <1>3
  <2>2. \A k \in 1..N : k + 1 \in 1..N + 1 /\ ~(k + 1 <= 1) /\ (k + 1) - 1 = k
    OBVIOUS
  <2>3. Len(both) = N + 1
    BY <1>1, <1>2, <1>3
  <2>4. 1 \in 1..N + 1 /\ 1 <= 1
    OBVIOUS
  <2>5. both[1] = start
    BY <1>2, <2>1, <2>4
  <2> QED BY <2>1, <2>2, <2>3, <2>5
<1>5. PICK last \in Seq(S) : last = <<check, stop>> /\ Len(last) = 2 /\ last[1] = check
  <2>1. PICK last : last = <<check, stop>>
    OBVIOUS
  <2>2. last \in Seq(S) /\ Len(last) = 2 /\ last[1] = check
    BY <2>1
  <2> QED BY <2>1, <2>2
<1>6. PICK all \in Seq(S) : /\ all = both \o last /\ Len(all) = Len(both) + Len(last)
                            /\ \A k \in 1..Len(both) + Len(last) :
                                 all[k] = IF k <= Len(both) THEN both[k] ELSE last[k - Len(both)]
  <2>1. /\ both \o last \in Seq(S) /\ Len(both \o last) = Len(both) + Len(last)
        /\ \A k \in 1..Len(both) + Len(last) :
             (both \o last)[k] = IF k <= Len(both) THEN both[k] ELSE last[k - Len(both)]
    BY ConcatProperties, Zenon
  <2> QED BY <2>1, Zenon
<1>7. values = all
  BY <1>2, <1>3, <1>5, <1>6, Zenon DEF Symbol
<1>8. /\ Len(all) = N + 3 /\ \A k \in 1..N + 1 : all[k] = both[k]
      /\ all[N + 2] = check
  <2>1. Len(all) = N + 3 /\ \A k \in 1..N + 3 : all[k] = IF k <= N + 1 THEN both[k] ELSE last[k - (N + 1)]
    BY <1>4, <1>5, <1>6
  <2>2. N + 2 \in 1..N + 3 /\ ~(N + 2 <= N + 1) /\ (N + 2) - (N + 1) = 1
    OBVIOUS
  <2>3. all[N + 2] = check
    BY <1>5, <2>1, <2>2
  <2>4. \A k \in 1..N + 1 : all[k] = both[k]
    BY <2>1
  <2> QED BY <2>1, <2>3, <2>4
<1>9. all[1] = start /\ \A k \in 1..N : all[k + 1] = code[k]
  <2>1. 1 \in 1..N + 1 /\ \A k \in 1..N : k + 1 \in 1..N + 1
    OBVIOUS
  <2> QED BY <1>4, <1>8, <2>1
<1>10. \A k \in 1..N + 3 : all[k] \in S
  BY <1>8, ElementOfSeq
<1>11. SubSeq(all, 2, N + 1) = code
  <2>1. PICK part : part = SubSeq(all, 2, N + 1)
    OBVIOUS
  <2>2. \A k \in 2..N + 1 : all[k] \in S
    BY <1>10
  <2>3. /\ part \in Seq(S) /\ Len(part) = IF 2 <= N + 1 THEN (N + 1) - 2 + 1 ELSE 0
        /\ \A k \in 1..(N + 1) - 2 + 1 : part[k] = all[2 + k - 1]
    BY <2>1, <2>2, SubSeqProperties
  <2>4. Len(part) = N /\ \A k \in 1..N : part[k] = all[k + 1]
    BY <2>3
  <2>5. Len(part) = Len(code) /\ \A k \in 1..Len(part) : part[k] = code[k]
    BY <1>1, <1>9, <2>4
  <2>6. part = code
    BY <2>3, <2>5, SeqEqual
  <2> QED BY <2>1, <2>6
<1>12. PICK front \in Seq(S) : /\ front = SubSeq(all, 1, N + 2) /\ Len(front) = N + 2
                               /\ \A k \in 1..N + 2 : front[k] = all[k]
  <2>1. PICK front : front = SubSeq(all, 1, N + 2)
    OBVIOUS
  <2>2. \A k \in 1..N + 2 : all[k] \in S
    BY <1>10
  <2>3. /\ front \in Seq(S) /\ Len(front) = IF 1 <= N + 2 THEN (N + 2) - 1 + 1 ELSE 0
        /\ \A k \in 1..(N + 2) - 1 + 1 : front[k] = all[1 + k - 1]
    BY <2>1, <2>2, SubSeqProperties
  <2>4. Len(front) = N + 2 /\ \A k \in 1..N + 2 : front[k] = all[k]
    BY <2>3
  <2> QED BY <2>1, <2>3, <2>4
<1>13. SubSeq(front, 1, N + 1) = both
  <2>1. PICK part : part = SubSeq(front, 1, N + 1)
    OBVIOUS
  <2>2. \A k \in 1..N + 1 : front[k] \in S
    BY <1>10, <1>12
  <2>3. /\ part \in Seq(S) /\ Len(part) = IF 1 <= N + 1 THEN (N + 1) - 1 + 1 ELSE 0
        /\ \A k \in 1..(N + 1) - 1 + 1 : part[k] = front[1 + k - 1]
    BY <2>1, <2>2, SubSeqProperties
  <2>4. Len(part) = N + 1 /\ \A k \in 1..N + 1 : part[k] = both[k]
    <3>1. Len(part) = N + 1 /\ \A k \in 1..N + 1 : part[k] = front[k]
      BY <2>3
    <3>2. \A k \in 1..N + 1 : front[k] = both[k]
      BY <1>8, <1>12
    <3> QED BY <3>1, <3>2
  <2>5. Len(part) = Len(both) /\ \A k \in 1..Len(part) : part[k] = both[k]
    BY <1>4, <2>4
  <2>6. part = both
    BY <2>3, <2>5, SeqEqual
  <2> QED BY <2>1, <2>6
<1>14. Front(all) = front
  <2>1. Len(all) - 1 = N + 2
    BY <1>8
  <2> QED BY <1>12, <2>1, Zenon DEF Front
<1>15. Front(front) = both
  <2>1. Len(front) - 1 = N + 1
    BY <1>12
  <2> QED BY <1>13, <2>1, Zenon DEF Front
<1>16. Front(Front(values)) = <<start>> \o code
  BY <1>2, <1>3, <1>7, <1>14, <1>15, Zenon
<1>17. Len(values) - 2 = N + 1 /\ Len(values) - 1 = N + 2
  BY <1>7, <1>8
<1> QED BY <1>7, <1>8, <1>9, <1>11, <1>16, <1>17, Zenon DEF InParts

\* What the code tells a reader that starts in the set.
TellsFresh(code, set, data) == \A no : no = FALSE => Tells(code, set, no, no, data)

\* A symbol is read from the set that it starts with.
LEMMA SymbolReads ==
  ASSUME NEW set \in Sets, NEW code \in Seq(Int), NEW data \in Seq(Tokens),
         TellsFresh(code, set, data),
         NEW start, start = StartValue[set], NEW check, NEW values, values = Symbol(start, code, check, 106)
  PROVE  Scanned(values) = data /\ InParts(values, start, code, check)
<1>1. PICK R : R = Int \union {check}
  OBVIOUS
<1>2. code \in Seq(R) /\ check \in R /\ 106 \in R
  BY <1>1, SeqMonotonic
<1>3. start \in R
  BY <1>1 DEF StartValue, Sets
<1>4. InParts(values, start, code, check)
  BY <1>2, <1>3, SymbolParts
<1>5. (CHOOSE s \in Sets : StartValue[s] = values[1]) = set
  <2>1. \A s \in Sets : StartValue[s] = StartValue[set] => s = set
    BY DEF Sets, StartValue
  <2>2. values[1] = StartValue[set]
    BY <1>4 DEF InParts
  <2> QED BY <2>1, <2>2
<1>6. Scanned(values) = ReadAll(Reader(set), code).read
  BY <1>4, <1>5, Zenon DEF Scanned, InParts
<1>7. PICK no, nothing : no = FALSE /\ nothing = <<>>
  OBVIOUS
<1>9. Tells(code, set, no, no, data)
  BY <1>7 DEF TellsFresh
<1>8. At(Reader(set), set, no, no, nothing)
  <2>1. <<>> \in Seq(Tokens)
    BY EmptySeq
  <2> QED BY <1>7, <2>1 DEF At, Reader, Readers
<1>10. ReadAll(Reader(set), code).read = nothing \o data
  BY <1>8, <1>9 DEF Tells
<1>11. <<>> \o data = data
  BY ConcatEmptySeq
<1> QED BY <1>4, <1>6, <1>7, <1>10, <1>11

LEMMA HoldsWhole ==
  ASSUME NEW text \in Seq(Bytes)
  PROVE  Holds(text, 1, text)
<1>1. PICK N \in Nat : N = Len(text)
  BY LenProperties
<1>2. \A k \in 1..N : 1 + k - 1 = k
  OBVIOUS
<1> QED BY <1>1, <1>2 DEF Holds

LEMMA SetMarkerIs ==
  ASSUME NEW set \in Sets
  PROVE  \E byte \in 65..67 : SetMarker(set) = Marker(byte) /\ SetOfMarker(byte) = set
<1>1. CASE set = "A"
  BY <1>1 DEF SetMarker, SetOfMarker
<1>2. CASE set = "B"
  BY <1>2 DEF SetMarker, SetOfMarker
<1>3. CASE set = "C"
  BY <1>3 DEF SetMarker, SetOfMarker
<1> QED BY <1>1, <1>2, <1>3 DEF Sets

WholeSymbol(set, code) ==
  <<StartValue[set]>> \o code \o <<Checksum(<<StartValue[set]>> \o code), 106>>
Scans(values, data) ==
  Scanned(values) = data /\ Checksum(Front(Front(values))) = values[Len(values) - 1]

LEMMA SymbolScans ==
  ASSUME NEW set \in Sets, NEW code \in Seq(Int), NEW data \in Seq(Tokens), TellsFresh(code, set, data)
  PROVE  Scans(WholeSymbol(set, code), data)
<1>1. PICK start : start = StartValue[set]
  OBVIOUS
<1>2. PICK check : check = Checksum(<<start>> \o code)
  OBVIOUS
<1>3. PICK values : values = Symbol(start, code, check, 106)
  OBVIOUS
<1>4. Scanned(values) = data /\ InParts(values, start, code, check)
  BY <1>1, <1>3, SymbolReads, SMTT(40)
<1>5. values = WholeSymbol(set, code)
  BY <1>1, <1>2, <1>3, Zenon DEF WholeSymbol, Symbol
<1> QED BY <1>2, <1>4, <1>5, Zenon DEF InParts, Scans

ScansBack(encoded, data) ==
  \E values \in encoded : /\ Scanned(values) = data
                         /\ Checksum(Front(Front(values))) = values[Len(values) - 1]
\* Every code of the text tells the data to a reader of the set.
FreshSay(text, set, data) == \A f : IsCode(text, f) => Says(f, 3, set, FALSE, FALSE, data)

LEMMA CodeScansBack ==
  ASSUME NEW text \in Seq(Bytes), Len(text) >= 2, text[1] = 123, text[2] \in 65..67,
         NEW set \in Sets, SetOfMarker(text[2]) = set,
         NEW data \in Seq(Tokens), data # <<>>, FreshSay(text, set, data)
  PROVE  ScansBack(EncodeCode128(text), data)
<1>1. PICK no, nothing : no = FALSE /\ nothing = <<>>
  OBVIOUS
<1>2. PICK f : /\ IsCode(text, f)
               /\ EncodeCode128(text) =
                    {<<StartValue[SetOfMarker(text[2])]>> \o values \o
                       <<Checksum(<<StartValue[SetOfMarker(text[2])]>> \o values), 106>>
                      : values \in f[<<3, SetOfMarker(text[2])>>] \ {<<>>}}
  BY CodeExists
<1>3. PICK code \in Seq(Int) : code \in f[<<3, set>>] /\ Tells(code, set, no, no, data)
  <2>1. IsCode(text, f)
    BY <1>2
  <2>2. Says(f, 3, set, FALSE, FALSE, data)
    BY <2>1, Zenon DEF FreshSay
  <2>3. PICK code : code \in f[<<3, set>>] /\ Tells(code, set, no, no, data)
    BY <1>1, <2>2, Zenon DEF Says
  <2>4. code \in Seq(Int)
    BY <2>3 DEF Tells
  <2> QED BY <2>3, <2>4
<1>4. PICK values : values = WholeSymbol(set, code)
  OBVIOUS
<1>5. TellsFresh(code, set, data)
  BY <1>1, <1>3 DEF TellsFresh
<1>6. Scans(values, data)
  BY <1>4, <1>5, SymbolScans
<1>7. PICK codes : codes = f[<<3, set>>] \ {<<>>}
  OBVIOUS
<1>8. code # <<>>
  <2>1. ASSUME code = <<>> PROVE FALSE
    <3>1. At(Reader(set), set, no, no, nothing)
      <4>1. <<>> \in Seq(Tokens)
        BY EmptySeq
      <4> QED BY <1>1, <4>1 DEF At, Reader, Readers
    <3>2. Tells(<<>>, set, no, no, data)
      BY <1>3, <2>1
    <3>3. ReadAll(Reader(set), <<>>).read = nothing \o data
      BY <3>1, <3>2 DEF Tells
    <3>4. ReadAll(Reader(set), <<>>).read = nothing
      BY <3>1, ReadNothing DEF At
    <3>5. <<>> \o data = data
      BY ConcatEmptySeq
    <3> QED BY <1>1, <3>3, <3>4, <3>5
  <2> QED BY <2>1
<1>9. values \in EncodeCode128(text)
  <2>1. code \in codes
    BY <1>3, <1>7, <1>8
  <2>2. EncodeCode128(text) = {WholeSymbol(set, vals) : vals \in codes}
    BY <1>2, <1>7, Zenon DEF WholeSymbol
  <2> QED BY <1>4, <2>1, <2>2
<1> QED BY <1>6, <1>9 DEF Scans, ScansBack

\* What a plan writes, the encoder turns into a symbol that reads back.
LEMMA PlanScansBack ==
  ASSUME NEW data, NEW rows, Plans(data, rows), data # <<>>, ~BraceBehindShift(data, rows)
  PROVE  ScansBack(EncodeCode128(Explicit(data, rows)), data)
<1>1. PICK W : IsPlanText(data, rows, W) /\ Explicit(data, rows) = W[Beginning]
  BY PlanTextExists
<1>2. PICK F : IsPath(data, rows, F) /\ Followed(data, rows) = F[Beginning]
  BY PathExists
<1>3. PICK N \in Nat : N = Len(data) /\ N > 0
  <2>1. data \in Seq(Tokens) /\ Len(data) \in Nat
    BY LenProperties DEF Plans
  <2>2. Len(data) # 0
    BY <2>1, EmptySeq
  <2> QED BY <2>1, <2>2
<1>0. PICK no, first, three : no = FALSE /\ first = 1 /\ three = 3
  OBVIOUS
<1>4. PICK at : at = Beginning /\ at[1] = 1 /\ at[2][1] = "none" /\ at[2][2] = no
  <2>1. PICK at : at = <<1, <<"none", no>>>>
    OBVIOUS
  <2>2. at[1] = 1 /\ at[2][1] = "none" /\ at[2][2] = no
    BY <2>1
  <2>3. at = Beginning
    BY <1>0, <2>1, Zenon DEF Beginning
  <2> QED BY <2>2, <2>3
<1>5. at \in PlanPlaces(data) /\ at \in (1..Len(data)) \X PlanStates /\ ~(at[1] > Len(data))
  <2>1. <<"none", FALSE>> \in PlanStates
    BY DEF PlanStates
  <2>2. at = <<1, <<"none", FALSE>>>>
    BY <1>4 DEF Beginning
  <2>3. 1 \in 1..N /\ 1 \in 1..N + 1 /\ ~(1 > N)
    BY <1>3
  <2> QED BY <1>3, <2>1, <2>2, <2>3 DEF PlanPlaces
<1>6. PICK c, set : c = rows[at[1]][at[2]] /\ set = IF c.shift THEN at[2][1] ELSE c.set
  OBVIOUS
<1>7. /\ c \in Choice /\ c \in Sensible(data, at[1], at[2][1], at[2][2]) /\ c.upper \in BOOLEAN /\ set \in Sets
      /\ c.shift = FALSE /\ c.set = set
  <2>1. c \in Choice /\ c \in Sensible(data, at[1], at[2][1], at[2][2])
    BY <1>5, <1>6, PlaceInPlan
  <2>3. c.upper \in BOOLEAN /\ set \in Sets
    BY <1>5, <1>6, PlaceInPlan
  <2>2. c.shift = FALSE
    <3>1. c.shift => at[2][1] \in {"A", "B"}
      BY <2>1 DEF Sensible, ControlChoice, TextChoice, PairChoice
    <3> QED BY <1>4, <2>1, <3>1 DEF Choice
  <2> QED BY <1>4, <1>6, <2>1, <2>2, <2>3
<1>8. set # "none"
  BY <1>7 DEF Sets
<1>9. PICK introduction \in Seq(Bytes), piece \in Seq(Bytes) :
        introduction = Introduction(c, at[2][1]) /\ piece = Data(data, c, at[1])
  <2>1. Introduction(c, at[2][1]) \in Seq(Bytes) /\ Data(data, c, at[1]) \in Seq(Bytes)
    BY <1>5, <1>6, PlaceInPlan
  <2> QED BY <2>1
<1>10. PICK change \in Seq(Bytes), fnc4 \in Seq(Bytes) :
         change = SetMarker(set) /\ Len(change) = 2 /\ fnc4 = Repeated(Marker(52), c.fnc4) /\ Len(fnc4) = 2 * c.fnc4
  <2>1. SetChange("none", set) \in Seq(Bytes) /\ Len(SetChange("none", set)) = 2
    BY <1>7, <1>8, SetChangeIsText
  <2>2. SetChange("none", set) = SetMarker(set)
    BY <1>8 DEF SetChange
  <2>3. Repeated(Marker(52), c.fnc4) \in Seq(Bytes) /\ Len(Repeated(Marker(52), c.fnc4)) = 2 * c.fnc4
    BY <1>7, Fnc4Length DEF Choice
  <2> QED BY <2>1, <2>2, <2>3
<1>11. introduction = change \o fnc4
  <2>1. at[2][1] # c.set /\ ~c.shift
    BY <1>4, <1>7, <1>8
  <2> QED BY <1>7, <1>9, <1>10, <2>1, Zenon DEF Introduction
<1>12. PICK later \in PlanPlaces(data) : later = After(rows, at)
  <2>1. PICK next : LeadsOn(data, rows, next)
    BY NextPlaces
  <2>2. next[at] \in (1..Len(data) + 1) \X PlanStates /\ next[at] = After(rows, at)
    BY <1>5, <2>1 DEF LeadsOn
  <2> QED BY <2>2 DEF PlanPlaces
<1>13. later[1] = 1 + c.advance /\ later[2][1] = set /\ later[2][2] = c.upper
  <2>1. later = <<at[1] + c.advance, <<set, c.upper>>>>
    BY <1>6, <1>12, AfterIs
  <2> QED BY <1>4, <2>1
<1>14. PICK rest \in Seq(Bytes) : rest = W[later]
  BY <1>1, PlanTextIsText
<1>15. PICK text \in Seq(Bytes) : text = Explicit(data, rows)
  BY <1>1, <1>4, <1>5, PlanTextIsText
<1>16. PICK both \in Seq(Bytes) : both = introduction \o piece
  BY Concatenated, Zenon
<1>17. text = both \o rest
  <2>1. W[at] = both \o rest
    BY <1>1, <1>5, <1>6, <1>9, <1>12, <1>14, <1>16, Zenon DEF IsPlanText
  <2> QED BY <1>1, <1>4, <1>15, <2>1, Zenon
<1>18. Holds(text, first, both) /\ Holds(text, first + Len(both), rest) /\ Len(text) = Len(both) + Len(rest)
  <2>1. Holds(text, first, both \o rest)
    BY <1>0, <1>17, HoldsWhole, Zenon
  <2>2. Holds(text, first, both) /\ Holds(text, first + Len(both), rest) /\ Len(both \o rest) = Len(both) + Len(rest)
    BY <2>1, HoldsParts
  <2> QED BY <1>17, <2>2, Zenon
<1>19. /\ Holds(text, first, introduction) /\ Holds(text, first + Len(introduction), piece)
       /\ Len(both) = Len(introduction) + Len(piece)
  <2>1. Holds(text, first, introduction \o piece)
    BY <1>16, <1>18, Zenon
  <2>2. /\ Holds(text, first, introduction) /\ Holds(text, first + Len(introduction), piece)
        /\ Len(introduction \o piece) = Len(introduction) + Len(piece)
    BY <2>1, HoldsParts
  <2> QED BY <1>16, <2>2, Zenon
<1>20. /\ Holds(text, first, change) /\ Holds(text, first + Len(change), fnc4)
       /\ Len(introduction) = Len(change) + Len(fnc4)
  <2>1. Holds(text, first, change \o fnc4)
    BY <1>11, <1>19, Zenon
  <2>2. /\ Holds(text, first, change) /\ Holds(text, first + Len(change), fnc4)
        /\ Len(change \o fnc4) = Len(change) + Len(fnc4)
    BY <2>1, HoldsParts
  <2> QED BY <1>11, <2>2, Zenon
<1>21. PICK n \in Nat, P \in Nat, R \in Nat, T \in Nat :
         n = c.fnc4 /\ P = Len(piece) /\ R = Len(rest) /\ T = Len(text)
  <2>1. c.fnc4 \in Nat
    BY <1>7 DEF Choice
  <2>2. Len(piece) \in Nat /\ Len(rest) \in Nat /\ Len(text) \in Nat
    BY LenProperties
  <2> QED BY <2>1, <2>2
<1>22. /\ Len(change) = 2 /\ Len(fnc4) = 2 * n /\ Len(introduction) = 2 + 2 * n
       /\ Len(both) = 2 + 2 * n + P /\ T = 2 + 2 * n + P + R
  <2>1. Len(change) = 2 /\ Len(fnc4) = 2 * n
    BY <1>10, <1>21, Zenon
  <2>2. Len(introduction) = 2 + 2 * n
    BY <1>20, <2>1, Zenon
  <2>3. Len(both) = 2 + 2 * n + P
    BY <1>19, <1>21, <2>2, Zenon
  <2>4. T = 2 + 2 * n + P + R
    BY <1>18, <1>21, <2>3, Zenon
  <2> QED BY <2>1, <2>2, <2>3, <2>4
<1>23. PICK byte \in 65..67 : SetMarker(set) = Marker(byte) /\ SetOfMarker(byte) = set
  BY <1>7, SetMarkerIs
<1>24. text[1] = 123 /\ text[2] = byte /\ Len(text) >= 2
  <2>1. Holds(text, 1, Marker(byte))
    BY <1>0, <1>10, <1>20, <1>23
  <2>2. text[1] = 123 /\ text[1 + 1] = byte
    BY <2>1, HoldsMarker
  <2>3. 1 + 1 = 2
    OBVIOUS
  <2>4. T >= 2
    BY <1>22
  <2>5. Len(text) >= 2
    BY <1>21, <2>4
  <2> QED BY <2>2, <2>3, <2>5
<1>25. SUFFICES ASSUME NEW f, IsCode(text, f) PROVE Says(f, 3, set, FALSE, FALSE, data)
  <2>1. SetOfMarker(text[2]) = set /\ data \in Seq(Tokens) /\ text[2] \in 65..67
    BY <1>23, <1>24 DEF Plans
  <2>2. ASSUME FreshSay(text, set, data) PROVE ScansBack(EncodeCode128(text), data)
    BY <1>7, <1>24, <2>1, <2>2, CodeScansBack
  <2> QED BY <1>15, <2>2 DEF FreshSay
<1>27. PICK i \in Nat : i = 3 + 2 * n + P /\ i + Len(W[later]) = Len(text) + 1 /\ Holds(text, i, W[later])
  <2>1. PICK i : i = 3 + 2 * n + P
    OBVIOUS
  <2>2. Len(W[later]) = R
    BY <1>14, <1>21, Zenon
  <2>3. i \in Nat /\ i + R = T + 1 /\ 1 + Len(both) = i
    BY <1>22, <2>1
  <2> QED BY <1>0, <1>14, <1>18, <1>21, <2>1, <2>2, <2>3
<1>28. Clean(data, rows, F[later])
  <2>1. F[at] = {at} \union F[later]
    BY <1>2, <1>5, <1>12, Zenon DEF IsPath
  <2>2. F[later] \subseteq Followed(data, rows)
    BY <1>2, <1>4, <2>1
  <2> QED BY <2>2 DEF BraceBehindShift, Clean
<1>29. Says(f, i, later[2][1], later[2][2], FALSE, Rest(data, later[1]))
  <2>1. later[2][1] # "none"
    BY <1>8, <1>13
  <2> QED BY <1>1, <1>2, <1>25, <1>27, <1>28, <2>1, PlanSays
<1>30. Says(f, 3, set, FALSE, FALSE, Rest(data, 1))
  <2>1. PICK p \in 1..Len(data) : p = 1 /\ p = at[1]
    BY <1>3, <1>4
  <2>2. c \in Sensible(data, p, at[2][1], no) /\ no \in BOOLEAN /\ data \in Seq(Tokens)
    BY <1>0, <1>4, <1>7, <2>1 DEF Plans
  <2>3. Holds(text, three, Repeated(Marker(52), c.fnc4))
    <3>1. first + Len(change) = three
      BY <1>0, <1>22
    <3> QED BY <1>10, <1>20, <3>1
  <2>4. Holds(text, three + 2 * c.fnc4, Data(data, c, p))
    <3>1. first + Len(introduction) = three + 2 * n
      BY <1>0, <1>22
    <3>2. Data(data, c, p) = piece /\ c.fnc4 = n
      BY <1>9, <1>21, <2>1
    <3> QED BY <1>19, <3>1, <3>2
  <2>5. Says(f, three + 2 * c.fnc4 + Len(Data(data, c, p)), c.set, c.upper, FALSE, Rest(data, p + c.advance))
    <3>1. i = three + 2 * c.fnc4 + Len(Data(data, c, p))
      BY <1>0, <1>9, <1>21, <1>27, <2>1
    <3>2. Says(f, i, set, c.upper, FALSE, Rest(data, p + c.advance))
      BY <1>13, <1>29, <2>1
    <3> QED BY <1>7, <3>1, <3>2
  <2>6. Says(f, three, c.set, no, FALSE, Rest(data, p))
    <3>1. c.shift = FALSE /\ IsCode(text, f)
      BY <1>7, <1>25
    <3>2. PICK current : current = at[2][1]
      OBVIOUS
    <3>3. c \in Sensible(data, p, current, no)
      BY <2>2, <3>2
    <3> QED BY <2>2, <2>3, <2>4, <2>5, <3>1, <3>3, UnshiftedSays
  <2> QED BY <1>0, <1>7, <2>1, <2>6
<1>31. Rest(data, 1) = data /\ data \in Seq(Tokens)
  BY SubSeqFull DEF Rest, Plans
<1> QED BY <1>30, <1>31
-----------------------------------------------------------------------------

\* Whatever the data: unless a brace stands behind SHIFT on the planned way,
\* the explicit encoder accepts the plan, a scanner reads the data back and the
\* checksum holds (plan_code128_tokens, write_explicit and the encoder agree).
THEOREM PlannedDataScansBack == Code128Spec => []UnshiftedScansBack
<1>1. PlanInv /\ [Code128Next]_code128Vars => PlanInv'
  BY PlanStep
<1>2. PlanInv => UnshiftedScansBack
  <2> SUFFICES ASSUME PlanInv, symbols # <<>>, ~BraceBehindShift(tokens, choices)
               PROVE  Code128ScansBack
    BY DEF UnshiftedScansBack
  <2>1. Len(choices) = Len(tokens) /\ symbols = <<EncodeCode128(Explicit(tokens, choices))>>
    BY DEF PlanInv
  <2>2. Plans(tokens, choices) /\ tokens # <<>>
    <3>1. Len(tokens) \in Nat
      BY LenProperties DEF PlanInv
    <3>2. Len(tokens) - Len(choices) = 0
      BY <2>1, <3>1
    <3>3. RowsOK(tokens, choices, 0)
      BY <3>2 DEF PlanInv
    <3> QED BY <2>1, <3>3 DEF PlanInv, Plans, RowsOK
  <2>3. symbols[1] = EncodeCode128(Explicit(tokens, choices))
    BY <2>1
  <2> QED BY <2>2, <2>3, PlanScansBack DEF Code128ScansBack, ScansBack
<1> QED BY <1>1, <1>2, PlanInitially, PTL DEF Code128Spec
=============================================================================
