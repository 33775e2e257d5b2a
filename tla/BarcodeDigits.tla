---------------------------- MODULE BarcodeDigits ----------------------------
(* What the bar codes of numbers share (barcode.rs): digits and their check    *)
(* digit, and symbols, sequences of dark (1) and light (0) modules.            *)
EXTENDS Integers, FiniteSetsExt, SequencesExt

Digits(data) == [i \in DOMAIN data |-> data[i] - 48]
AreDigits(data) == \A i \in DOMAIN data : data[i] \in 48..57

\* The rightmost digit weighs three, the next one, and so on.
WeightedSum(digits) ==
  MapThenSumSet(LAMBDA i : digits[i] * (IF (Len(digits) - i) % 2 = 0 THEN 3 ELSE 1), DOMAIN digits)
CheckDigit(digits) == (10 - (WeightedSum(digits) % 10)) % 10

\* The lowest bits of a number, the highest of them first.
Modules(number, width) == [i \in 1..width |-> (number \div 2^(width - i)) % 2]
Number(modules) == MapThenSumSet(LAMBDA i : modules[i] * 2^(Len(modules) - i), DOMAIN modules)

\* An encoder answers {}, an error, or one symbol with the text shown at it.
Symbol(modules, hri) == {[modules |-> modules, hri |-> hri]}
=============================================================================
