--------------------------- MODULE ReceiptProofs ----------------------------
(***************************************************************************)
(* Theorems about the rendering of a job, for any bytes, any profile that  *)
(* a printer may have, any limits, and whatever the barcode and QR         *)
(* encoders answer.                                                        *)
(***************************************************************************)
EXTENDS EscPosInterpreter, FiniteSetTheorems, SequenceTheorems, WellFoundedInduction, TLAPS

-----------------------------------------------------------------------------
(* Least and greatest numbers, and sums over sheets.                       *)

Less == {pair \in Nat \X Nat : pair[1] < pair[2]}

LEMMA LeastNumber ==
  ASSUME NEW numbers \in SUBSET Nat, numbers # {}
  PROVE  \E n \in numbers : \A k \in numbers : n <= k
<1>1. IsWellFoundedOn(Less, Nat)
  BY NatLessThanWellFounded DEF OpToRel, Less
<1>2. PICK n \in numbers : \A k \in numbers : ~ (<<k, n>> \in Less)
  BY <1>1, WFMin
<1>3. \A k \in numbers : ~ (k < n)
  BY <1>2 DEF Less
<1> QED BY <1>3

LEMMA UpTo ==
  ASSUME NEW N \in Nat, NEW P, 0 \in P, \A n \in 1..N : n - 1 \in P => n \in P
  PROVE  \A n \in 0..N : n \in P
<1> DEFINE wrong == {n \in 0..N : n \notin P}
<1>1. CASE wrong = {}
  BY <1>1
<1>2. CASE wrong # {}
  <2>1. PICK n \in wrong : \A k \in wrong : n <= k
    <3>1. wrong \in SUBSET Nat
      OBVIOUS
    <3> HIDE DEF wrong
    <3> QED BY <1>2, <3>1, LeastNumber
  <2>2. n \in 1..N /\ n - 1 \in 0..N /\ n - 1 \notin wrong
    BY <2>1
  <2> QED BY <2>1, <2>2
<1> QED BY <1>1, <1>2

\* A function given by its first value and by a step exists.
StepSet(N, V) == [(1..N) \X V -> V]
Stepwise(g, N, V, base, step) ==
  /\ g \in [0..N -> V] /\ g[0] = base
  /\ \A n \in 1..N : g[n] = step[<<n, g[n - 1]>>]

LEMMA StepByStep ==
  ASSUME NEW N \in Nat, NEW V, NEW base \in V, NEW step \in StepSet(N, V)
  PROVE  \E g : Stepwise(g, N, V, base, step)
<1> DEFINE Good(g, n) == g \in [0..n -> V] /\ g[0] = base
                          /\ \A m \in 1..n : g[m] = step[<<m, g[m - 1]>>]
           P == {n \in 0..N : \E g : Good(g, n)}
<1>1. 0 \in P
  <2>1. PICK g : g = [m \in 0..0 |-> base]
    OBVIOUS
  <2>2. Good(g, 0)
    BY <2>1
  <2>3. 0 \in 0..N
    OBVIOUS
  <2> HIDE DEF Good
  <2> QED BY <2>2, <2>3
<1>2. ASSUME NEW n \in 1..N, n - 1 \in P PROVE n \in P
  <2>1. PICK g : Good(g, n - 1)
    BY <1>2
  <2> DEFINE h == [m \in 0..n |-> IF m = n THEN step[<<n, g[n - 1]>>] ELSE g[m]]
  <2>2. n - 1 \in 0..(n - 1) /\ g[n - 1] \in V
    BY <2>1
  <2>3. \A m \in 0..n : m # n => m \in 0..(n - 1)
    OBVIOUS
  <2>4. h \in [0..n -> V]
    BY <2>1, <2>2, <2>3 DEF StepSet
  <2>5. h[0] = base
    BY <2>1
  <2>6. ASSUME NEW m \in 1..n PROVE h[m] = step[<<m, h[m - 1]>>]
    <3>1. m - 1 \in 0..n /\ m - 1 # n /\ h[m - 1] = g[m - 1]
      OBVIOUS
    <3>2. CASE m = n
      BY <3>1, <3>2
    <3>3. CASE m # n
      <4>1. m \in 1..(n - 1) /\ m \in 0..n /\ h[m] = g[m]
        BY <3>3
      <4> HIDE DEF h
      <4> QED BY <2>1, <3>1, <4>1
    <3> QED BY <3>2, <3>3
  <2> HIDE DEF h
  <2>7. Good(h, n)
    BY <2>4, <2>5, <2>6
  <2> QED BY <2>7
<1>3. N \in P
  <2> HIDE DEF P
  <2> QED BY <1>1, <1>2, UpTo
<1> QED BY <1>3 DEF Stepwise

LEMMA MinOfNumbers ==
  ASSUME NEW numbers \in SUBSET Nat, numbers # {}
  PROVE  Min(numbers) \in numbers /\ \A k \in numbers : Min(numbers) <= k
<1>1. \E n \in numbers : \A k \in numbers : n <= k
  BY LeastNumber
<1> QED BY <1>1 DEF Min

LEMMA MaxOfNumbers ==
  ASSUME NEW numbers \in SUBSET Nat, numbers # {}, NEW bound \in Nat,
         \A k \in numbers : k <= bound
  PROVE  Max(numbers) \in numbers /\ \A k \in numbers : k <= Max(numbers)
<1> DEFINE distances == {bound - k : k \in numbers}
<1>1. distances \in SUBSET Nat
  OBVIOUS
<1>2. distances # {}
  OBVIOUS
<1>3. PICK d \in distances : \A e \in distances : d <= e
  <2> HIDE DEF distances
  <2> QED BY <1>2, <1>1, LeastNumber
<1>4. PICK n \in numbers : d = bound - n
  BY <1>3
<1>5. \A k \in numbers : n >= k
  BY <1>3, <1>4
<1> QED BY <1>5 DEF Max

LEMMA MaxOfTwo ==
  ASSUME NEW a \in Int, NEW b \in Int
  PROVE  Max({a, b}) \in {a, b} /\ a <= Max({a, b}) /\ b <= Max({a, b})
<1>1. \E m \in {a, b} : \A k \in {a, b} : m >= k
  OBVIOUS
<1> QED BY <1>1 DEF Max

LEMMA MaxOfThree ==
  ASSUME NEW a \in Int, NEW b \in Int, NEW c \in Int
  PROVE  /\ Max({a, b, c}) \in {a, b, c}
         /\ a <= Max({a, b, c}) /\ b <= Max({a, b, c}) /\ c <= Max({a, b, c})
<1>1. \E m \in {a, b, c} : \A k \in {a, b, c} : m >= k
  OBVIOUS
<1> QED BY <1>1 DEF Max

LEMMA MinOfTwo ==
  ASSUME NEW a \in Int, NEW b \in Int
  PROVE  Min({a, b}) \in {a, b} /\ Min({a, b}) <= a /\ Min({a, b}) <= b
<1>1. \E m \in {a, b} : \A k \in {a, b} : m <= k
  OBVIOUS
<1> QED BY <1>1 DEF Min

\* A finite set of integers, told by an enumeration, has a least and a greatest one.
LEMMA LowestAndHighest ==
  ASSUME NEW numbers \in SUBSET Int, numbers # {}, IsFiniteSet(numbers)
  PROVE  /\ Min(numbers) \in Int /\ Max(numbers) \in Int
         /\ \A k \in numbers : Min(numbers) <= k /\ k <= Max(numbers)
<1>1. PICK size \in Nat : ExistsBijection(1..size, numbers)
  BY FS_CardinalityType
<1>2. PICK f \in Bijection(1..size, numbers) : TRUE
  BY <1>1 DEF ExistsBijection
<1>3. /\ f \in [1..size -> numbers] /\ f \in [1..size -> Int]
      /\ \A k \in numbers : \E i \in 1..size : f[i] = k
  BY <1>2 DEF Bijection, Surjection
<1>4. size # 0
  <2>1. PICK k \in numbers : TRUE
    OBVIOUS
  <2>2. PICK i \in 1..size : f[i] = k
    BY <1>3, <2>1
  <2> QED BY <2>2
<1> DEFINE Extremes(n) ==
             /\ \E i \in 1..n : \A j \in 1..n : f[i] <= f[j]
             /\ \E i \in 1..n : \A j \in 1..n : f[j] <= f[i]
           Ranked == {0} \union {n \in 1..size : Extremes(n)}
<1>5. Extremes(1)
  <2>1. 1 \in 1..1 /\ \A j \in 1..1 : j = 1
    OBVIOUS
  <2>2. f[1] \in Int
    BY <1>3, <1>4
  <2> QED BY <2>1, <2>2
<1>6. ASSUME NEW n \in 1..size, n # 1, Extremes(n - 1) PROVE Extremes(n)
  <2>1. PICK low \in 1..(n - 1) : \A j \in 1..(n - 1) : f[low] <= f[j]
    BY <1>6
  <2>2. PICK high \in 1..(n - 1) : \A j \in 1..(n - 1) : f[j] <= f[high]
    BY <1>6
  <2>3. \A j \in 1..n : j = n \/ j \in 1..(n - 1)
    OBVIOUS
  <2>4. /\ low \in 1..n /\ high \in 1..n /\ f[low] \in Int /\ f[high] \in Int
          /\ n \in 1..n /\ f[n] \in Int
    BY <1>3, <1>6
  <2>5. \E i \in 1..n : \A j \in 1..n : f[i] <= f[j]
    <3>1. CASE f[low] <= f[n]
      BY <2>1, <2>3, <2>4, <3>1
    <3>2. CASE ~(f[low] <= f[n])
      <4>1. \A j \in 1..(n - 1) : f[n] <= f[j]
        BY <1>3, <2>1, <2>4, <3>2
      <4>2. \A j \in 1..n : f[n] <= f[j]
        BY <2>3, <2>4, <4>1
      <4> QED BY <2>4, <4>2
    <3> QED BY <3>1, <3>2
  <2>6. \E i \in 1..n : \A j \in 1..n : f[j] <= f[i]
    <3>1. CASE f[n] <= f[high]
      BY <2>2, <2>3, <2>4, <3>1
    <3>2. CASE ~(f[n] <= f[high])
      <4>1. \A j \in 1..(n - 1) : f[j] <= f[n]
        BY <1>3, <2>2, <2>4, <3>2
      <4>2. \A j \in 1..n : f[j] <= f[n]
        BY <2>3, <2>4, <4>1
      <4> QED BY <2>4, <4>2
    <3> QED BY <3>1, <3>2
  <2> QED BY <2>5, <2>6
<1>7. \A n \in 1..size : n - 1 \in Ranked => n \in Ranked
  <2> HIDE DEF Extremes
  <2> QED BY <1>5, <1>6
<1>8. Extremes(size)
  <2>1. size \in Ranked
    <3>1. 0 \in Ranked /\ size \in 0..size
      OBVIOUS
    <3> HIDE DEF Ranked
    <3> QED BY <1>7, <3>1, UpTo
  <2> HIDE DEF Extremes
  <2> QED BY <1>4, <2>1
<1>9. /\ \E i \in numbers : \A j \in numbers : i <= j
      /\ \E i \in numbers : \A j \in numbers : i >= j
  <2>1. PICK low \in 1..size : \A j \in 1..size : f[low] <= f[j]
    BY <1>8
  <2>2. PICK high \in 1..size : \A j \in 1..size : f[j] <= f[high]
    BY <1>8
  <2>3. f[low] \in numbers /\ f[high] \in numbers
    BY <1>3
  <2>4. \A j \in numbers : f[low] <= j /\ f[high] >= j
    BY <1>3, <2>1, <2>2
  <2> QED BY <2>3, <2>4
<1>10. /\ Min(numbers) \in numbers /\ \A j \in numbers : Min(numbers) <= j
       /\ Max(numbers) \in numbers /\ \A j \in numbers : Max(numbers) >= j
  BY <1>9 DEF Min, Max
<1> QED BY <1>10

-----------------------------------------------------------------------------
(* Surfaces, and the dots of sheets.                                       *)

Region == [command : Nat, x : Int, y : Int, width : Int, height : Int]
SurfaceSet == [width : Nat, height : Nat, regions : {R \in SUBSET Region : IsFiniteSet(R)}]
Sheets == Seq(SurfaceSet)
Area(surface) == surface.width * surface.height

LEMMA AreaIsNumber == ASSUME NEW s \in SurfaceSet PROVE Area(s) \in Nat
<1>1. s.width \in Nat /\ s.height \in Nat
  BY DEF SurfaceSet
<1> QED BY <1>1 DEF Area

SumsUp(dots, sheets) ==
  /\ dots \in [0..Len(sheets) -> Nat] /\ dots[0] = 0
  /\ \A n \in 1..Len(sheets) : dots[n] = dots[n - 1] + Area(sheets[n])

LEMMA SumExists ==
  ASSUME NEW sheets \in Sheets
  PROVE  \E dots : SumsUp(dots, sheets) /\ SheetDots(sheets) = dots[Len(sheets)]
<1> DEFINE N == Len(sheets)
           step == [pair \in (1..N) \X Nat |-> pair[2] + Area(sheets[pair[1]])]
           IsSum(d) == d = [n \in 0..N |-> IF n = 0 THEN 0 ELSE d[n - 1] + sheets[n].width * sheets[n].height]
           dots == CHOOSE d : IsSum(d)
<1>1. N \in Nat /\ \A n \in 1..N : sheets[n] \in SurfaceSet
  BY DEF Sheets
<1>2. \A n \in 1..N : Area(sheets[n]) \in Nat
  BY <1>1, AreaIsNumber
<1>3. step \in StepSet(N, Nat)
  BY <1>2 DEF StepSet
<1>4. PICK g : Stepwise(g, N, Nat, 0, step)
  <2>1. 0 \in Nat
    OBVIOUS
  <2> HIDE DEF step, N
  <2> QED BY <1>1, <1>3, <2>1, StepByStep
<1>5. /\ g \in [0..N -> Nat] /\ g[0] = 0
      /\ \A n \in 1..N : g[n] = step[<<n, g[n - 1]>>]
  BY <1>4 DEF Stepwise
<1>6. \A n \in 1..N : g[n] = g[n - 1] + Area(sheets[n])
  <2> TAKE n \in 1..N
  <2>1. n - 1 \in 0..N /\ g[n - 1] \in Nat
    BY <1>1, <1>5
  <2> QED BY <1>5, <2>1
<1>7. IsSum(g)
  <2>1. g = [n \in 0..N |-> g[n]]
    BY <1>5
  <2>2. \A n \in 0..N : g[n] = IF n = 0 THEN 0 ELSE g[n - 1] + sheets[n].width * sheets[n].height
    BY <1>1, <1>5, <1>6 DEF Area
  <2> QED BY <2>1, <2>2
<1>8. IsSum(dots)
  BY <1>7
<1>9. SheetDots(sheets) = dots[N]
  BY DEF SheetDots
<1> DEFINE Same == {n \in 0..N : dots[n] = g[n]}
<1>10. \A n \in 0..N : n \in Same
  <2>1. 0 \in Same
    <3>1. 0 \in 0..N
      BY <1>1
    <3> HIDE DEF dots
    <3> QED BY <1>5, <1>8, <3>1
  <2>2. \A n \in 1..N : n - 1 \in Same => n \in Same
    <3> TAKE n \in 1..N
    <3>1. dots[n] = dots[n - 1] + sheets[n].width * sheets[n].height
      <4>1. n \in 0..N /\ n # 0
        BY <1>1
      <4> HIDE DEF dots
      <4> QED BY <1>8, <4>1
    <3>2. g[n] = g[n - 1] + sheets[n].width * sheets[n].height
      BY <1>6 DEF Area
    <3> HIDE DEF dots
    <3> QED BY <3>1, <3>2
  <2> HIDE DEF Same
  <2> QED BY <1>1, <2>1, <2>2, UpTo
<1>11. dots[N] = g[N]
  BY <1>1, <1>10
<1> QED BY <1>5, <1>6, <1>9, <1>11 DEF SumsUp

LEMMA NoSheetsNoDots == SheetDots(<<>>) = 0
<1>1. <<>> \in Sheets
  BY DEF Sheets
<1>2. PICK sheets \in Sheets : sheets = <<>>
  BY <1>1
<1>3. PICK dots : SumsUp(dots, sheets) /\ SheetDots(sheets) = dots[Len(sheets)]
  BY SumExists
<1>4. Len(sheets) = 0
  BY <1>2
<1> QED BY <1>2, <1>3, <1>4 DEF SumsUp

LEMMA DotsOfSheets ==
  ASSUME NEW sheets \in Sheets, NEW sheet \in SurfaceSet
  PROVE  /\ SheetDots(sheets) \in Nat
         /\ SheetDots(Append(sheets, sheet)) = SheetDots(sheets) + Area(sheet)
<1> DEFINE N == Len(sheets)
<1>1. Append(sheets, sheet) \in Sheets
  BY DEF Sheets
<1>2. PICK more \in Sheets : more = Append(sheets, sheet)
  BY <1>1
<1>3. /\ N \in Nat /\ Len(more) = N + 1 /\ more[N + 1] = sheet
      /\ \A n \in 1..N : more[n] = sheets[n]
  BY <1>2 DEF Sheets
<1>4. PICK f : SumsUp(f, sheets) /\ SheetDots(sheets) = f[N]
  BY SumExists
<1>5. PICK g : SumsUp(g, more) /\ SheetDots(more) = g[N + 1]
  BY <1>3, SumExists
<1> HIDE DEF N
<1> DEFINE Same == {n \in 0..N : f[n] = g[n]}
<1>6. \A n \in 0..N : n \in Same
  <2>1. 0 \in Same
    BY <1>3, <1>4, <1>5 DEF SumsUp
  <2>2. \A n \in 1..N : n - 1 \in Same => n \in Same
    <3> TAKE n \in 1..N
    <3>1. n \in 1..(N + 1) /\ n \in 0..N
      BY <1>3
    <3>2. f[n] = f[n - 1] + Area(sheets[n])
      BY <1>4 DEF SumsUp, N
    <3>3. g[n] = g[n - 1] + Area(more[n])
      BY <1>3, <1>5, <3>1 DEF SumsUp
    <3> QED BY <1>3, <3>1, <3>2, <3>3
  <2> HIDE DEF Same
  <2> QED BY <1>3, <2>1, <2>2, UpTo
<1>7. f[N] = g[N] /\ f[N] \in Nat
  <2>1. N \in 0..N
    BY <1>3
  <2> QED BY <1>4, <1>6, <2>1 DEF SumsUp, N
<1>8. g[N + 1] = g[N] + Area(sheet)
  <2>1. N + 1 \in 1..Len(more) /\ (N + 1) - 1 = N
    BY <1>3
  <2> QED BY <1>3, <1>5, <2>1 DEF SumsUp
<1> QED BY <1>2, <1>4, <1>5, <1>7, <1>8

-----------------------------------------------------------------------------
(* The invariant of the printer.                                           *)

Fields ==
  { "failed", "command", "sheets", "roll", "top", "events", "warnings", "line", "left", "x",
    "used", "hasData", "atBeginning", "lineHeight", "lineSpacing", "unitsX", "unitsY", "font",
    "codePage", "charset", "spacing", "tabs", "wide", "tall", "emphasized", "underline",
    "reversed", "justification", "graphics", "pendingLf", "qrData", "qrModule", "qrLevel",
    "barHeight", "barModule", "hri", "hriFont" }

FontNames == {"A", "B"}
Image == [width : Nat \ {0}, height : Nat \ {0}]

Settings(p) ==
  /\ p.lineSpacing \in Nat /\ p.spacing \in Nat
  /\ p.unitsX \in Nat \ {0} /\ p.unitsY \in Nat \ {0}
  /\ p.font \in FontNames /\ p.hriFont \in FontNames
  /\ p.wide \in Nat /\ p.tall \in Nat
  /\ p.justification \in {"left", "center", "right"}
  /\ \A i \in DOMAIN p.tabs : p.tabs[i] \in Nat
  /\ p.graphics \subseteq Image
  /\ p.qrModule \in Nat \ {0} /\ p.barHeight \in Nat /\ p.barModule \in 2..6

PaperTypes(p) ==
  /\ p.command \in Nat /\ p.top \in Nat /\ p.x \in Nat /\ p.used \in Nat /\ p.lineHeight \in Nat
  /\ p.sheets \in Sheets /\ p.roll \in SurfaceSet /\ p.line \in SurfaceSet
  /\ p.hasData \in BOOLEAN /\ p.atBeginning \in BOOLEAN
  /\ p.left \in Nat /\ p.left <= p.roll.width

EmptyLine(p) ==
  /\ p.line.height = 0 /\ p.line.regions = {}
  /\ p.x = 0 /\ p.used = 0 /\ p.lineHeight = 0
  /\ ~p.hasData

\* What is on the roll and on the sheets is within the limits.
Limits(p) ==
  /\ p.roll.height <= MaxHeight
  /\ \A i \in DOMAIN p.sheets : p.sheets[i].height <= MaxHeight
  /\ SheetDots(p.sheets) + Area(p.roll) <= MaxDots
  /\ Len(p.sheets) <= MaxSheets

\* What is marked is of a command that was filed under the sheet it is marked on: what
\* the line holds is for the current sheet.
Filed(p, filed) ==
  /\ \A i \in DOMAIN p.sheets : \A r \in p.sheets[i].regions : <<r.command, i - 1>> \in filed
  /\ \A r \in p.roll.regions \union p.line.regions : <<r.command, Len(p.sheets)>> \in filed

\* What was committed to paper stays there, and leaves with the sheet.
Kept(p, committed) ==
  \A c \in committed :
    \/ /\ c[2] + 1 \in DOMAIN p.sheets
       /\ Marked(p.sheets[c[2] + 1], c[1]) # {} /\ p.sheets[c[2] + 1].height > 0
    \/ c[2] = Len(p.sheets) /\ Marked(p.roll, c[1]) # {} /\ p.roll.height > 0

Good(p, filed, committed) ==
  /\ DOMAIN p = Fields
  /\ Settings(p)
  /\ PaperTypes(p)
  /\ p.atBeginning => EmptyLine(p)
  /\ Limits(p)
  /\ Filed(p, filed)
  /\ Kept(p, committed)

\* The command being executed has marked nothing yet.
Clean(p) == \A r \in p.roll.regions \union p.line.regions : r.command # p.command

-----------------------------------------------------------------------------
(* What marks and feeds make of surfaces.                                  *)

LEMMA LimitsAreNumbers == MaxSheets \in Nat /\ MaxHeight \in Nat /\ MaxDots \in Nat
BY LimitsAssumption

LEMMA SurfaceFields ==
  ASSUME NEW s \in SurfaceSet
  PROVE  /\ s.width \in Nat /\ s.height \in Nat
         /\ s.regions \subseteq Region /\ IsFiniteSet(s.regions)
BY DEF SurfaceSet

LEMMA NewSurface ==
  ASSUME NEW width \in Nat
  PROVE  /\ Surface(width) \in SurfaceSet
         /\ Surface(width).width = width /\ Surface(width).height = 0 /\ Surface(width).regions = {}
<1>1. IsFiniteSet({}) /\ {} \in SUBSET Region
  BY FS_EmptySet
<1> QED BY <1>1 DEF Surface, SurfaceSet

LEMMA TallerSurface ==
  ASSUME NEW s \in SurfaceSet, NEW height \in Nat
  PROVE  LET t == Taller(s, height)
         IN  /\ t \in SurfaceSet
             /\ t.width = s.width /\ t.regions = s.regions
             /\ t.height \in {s.height, height} /\ s.height <= t.height /\ height <= t.height
<1>1. PICK h \in Nat : h = s.height
  BY SurfaceFields
<1>2. PICK m : m = Max({h, height})
  OBVIOUS
<1>3. m \in {h, height} /\ h <= m /\ height <= m
  BY <1>2, MaxOfTwo
<1>4. Taller(s, height) = [s EXCEPT !.height = m]
  BY <1>1, <1>2 DEF Taller, SurfaceSet
<1> QED BY <1>1, <1>3, <1>4 DEF SurfaceSet

LEMMA MarkedSurface ==
  ASSUME NEW p, NEW s \in SurfaceSet, NEW x \in Int, NEW y \in Int, NEW width \in Int,
         NEW height \in Int, p.command \in Nat
  PROVE  LET t == MarkRegion(p, s, x, y, width, height)
         IN  /\ t \in SurfaceSet
             /\ t.width = s.width /\ t.height = s.height /\ s.regions \subseteq t.regions
             /\ \A r \in t.regions : r \in s.regions \/ r.command = p.command
             /\ \E r \in t.regions : r.command = p.command
<1> DEFINE region == [command |-> p.command, x |-> x, y |-> y, width |-> width, height |-> height]
<1>1. region \in Region /\ region.command = p.command
  BY DEF Region
<1>2. PICK regions : regions = s.regions \union {region}
  OBVIOUS
<1>3. IsFiniteSet(regions)
  BY <1>2, SurfaceFields, FS_AddElement
<1>4. regions \in SUBSET Region
  BY <1>1, <1>2, SurfaceFields
<1>5. MarkRegion(p, s, x, y, width, height) = [s EXCEPT !.regions = regions]
  BY <1>2 DEF MarkRegion, SurfaceSet
<1> HIDE DEF region
<1> QED BY <1>1, <1>2, <1>3, <1>4, <1>5 DEF SurfaceSet

\* A line of which everything is on a roll from row `top` on.
Carries(t, roll, line, top) ==
  /\ t \in SurfaceSet
  /\ t.width = roll.width /\ roll.regions \subseteq t.regions
  /\ roll.height <= t.height
  /\ t.height <= roll.height \/ t.height <= top + line.height
  /\ \A r \in t.regions : r \in roll.regions \/ \E l \in line.regions : l.command = r.command

LEMMA Composited ==
  ASSUME NEW roll \in SurfaceSet, NEW line \in SurfaceSet, NEW left \in Nat, NEW top \in Nat,
         NEW t, t = CompositeAt(roll, line, left, top)
  PROVE  Carries(t, roll, line, top)
<1> DEFINE Shift(r) == [r EXCEPT !.x = @ + left, !.y = @ + top]
           moved == {Shift(r) : r \in line.regions}
           f == [r \in line.regions |-> Shift(r)]
<1>1. \A r \in line.regions : Shift(r) \in Region /\ Shift(r).command = r.command
  <2> TAKE r \in line.regions
  <2>1. r \in Region
    BY SurfaceFields
  <2>2. PICK x \in Int, y \in Int : x = r.x + left /\ y = r.y + top
    BY <2>1 DEF Region
  <2>3. Shift(r) = [r EXCEPT !.x = x, !.y = y]
    BY <2>1, <2>2 DEF Region
  <2> HIDE DEF Shift
  <2> QED BY <2>1, <2>3 DEF Region
<1>2. IsFiniteSet(moved)
  <2>1. f \in Surjection(line.regions, moved)
    BY DEF Surjection
  <2> HIDE DEF f, moved
  <2> QED BY <2>1, SurfaceFields, FS_Surjection
<1>3. moved \in SUBSET Region
  <2> HIDE DEF Shift
  <2> QED BY <1>1
<1>4. PICK height \in Nat : height = IF line.height = 0 THEN 0 ELSE top + line.height
  BY SurfaceFields
<1>5. PICK u \in SurfaceSet : u = Taller(roll, height)
  BY TallerSurface
<1>6. /\ u.width = roll.width /\ u.regions = roll.regions
      /\ u.height \in {roll.height, height} /\ roll.height <= u.height
  BY <1>5, TallerSurface
<1>7. PICK regions : regions = u.regions \union moved
  OBVIOUS
<1>8. IsFiniteSet(regions) /\ regions \in SUBSET Region
  <2> HIDE DEF moved
  <2>1. IsFiniteSet(u.regions) /\ u.regions \in SUBSET Region
    BY SurfaceFields
  <2>2. PICK v : v = u.regions
    OBVIOUS
  <2>3. PICK w : w = moved
    OBVIOUS
  <2>4. IsFiniteSet(v \union w)
    BY <1>2, <2>1, <2>2, <2>3, FS_Union
  <2> QED BY <1>3, <1>7, <2>1, <2>2, <2>3, <2>4
<1>9. t = [u EXCEPT !.regions = regions]
  BY <1>4, <1>5, <1>7 DEF CompositeAt, SurfaceSet
<1>10. \A r \in regions : r \in roll.regions \/ \E l \in line.regions : l.command = r.command
  <2> HIDE DEF Shift
  <2> QED BY <1>1, <1>6, <1>7
<1>11. u.height <= roll.height \/ u.height <= top + line.height
  BY <1>4, <1>6, SurfaceFields
<1> HIDE DEF moved
<1> QED BY <1>6, <1>7, <1>8, <1>9, <1>10, <1>11 DEF SurfaceSet, Carries

LEMMA HigherIsLarger ==
  ASSUME NEW s \in SurfaceSet, NEW height \in Nat, s.height <= height
  PROVE  Area(s) <= s.width * height
<1>1. \A w, a, b \in Nat : a <= b => w * a <= w * b
  OBVIOUS
<1> QED BY <1>1, SurfaceFields DEF Area

-----------------------------------------------------------------------------
(* What an operation has to show for the invariant of the printer.         *)

LEMMA OnSameSheet ==
  ASSUME NEW p, NEW q, NEW filed, NEW committed, Good(p, filed, committed),
         DOMAIN q = Fields, Settings(q), PaperTypes(q), q.atBeginning => EmptyLine(q),
         q.sheets = p.sheets,
         q.roll.height <= MaxHeight, SheetDots(p.sheets) + Area(q.roll) <= MaxDots,
         p.roll.regions \subseteq q.roll.regions, p.roll.height <= q.roll.height,
         \A r \in q.roll.regions \union q.line.regions : <<r.command, Len(p.sheets)>> \in filed
  PROVE  Good(q, filed, committed)
<1>1. Limits(q)
  BY DEF Good, Limits
<1>2. Filed(q, filed)
  BY DEF Good, Filed
<1>3. Kept(q, committed)
  <2>1. p.roll.height \in Nat /\ q.roll.height \in Nat
    BY SurfaceFields DEF Good, PaperTypes
  <2>2. \A n : Marked(p.roll, n) \subseteq Marked(q.roll, n)
    BY DEF Marked
  <2> QED BY <2>1, <2>2 DEF Good, Kept
<1> QED BY <1>1, <1>2, <1>3 DEF Good

\* Only the line, and where on it the printer is.
LEMMA OnTheLine ==
  ASSUME NEW p, NEW q, NEW filed, NEW committed, Good(p, filed, committed),
         DOMAIN q = Fields, Settings(q), PaperTypes(q), q.atBeginning => EmptyLine(q),
         q.sheets = p.sheets, q.roll = p.roll,
         \A r \in q.line.regions : r \in p.line.regions \/ <<r.command, Len(p.sheets)>> \in filed
  PROVE  Good(q, filed, committed)
<1>1. p.roll.height <= p.roll.height
  BY SurfaceFields DEF Good, PaperTypes
<1>2. \A r \in q.roll.regions \union q.line.regions : <<r.command, Len(p.sheets)>> \in filed
  BY DEF Good, Filed
<1>3. p.roll.height <= MaxHeight /\ SheetDots(p.sheets) + Area(p.roll) <= MaxDots
  BY DEF Good, Limits
<1> QED BY <1>1, <1>2, <1>3, OnSameSheet

SamePaper(p, q) ==
  /\ q.command = p.command /\ q.sheets = p.sheets /\ q.roll = p.roll /\ q.top = p.top
  /\ q.left = p.left /\ q.line = p.line /\ q.x = p.x /\ q.used = p.used /\ q.lineHeight = p.lineHeight
  /\ q.hasData = p.hasData /\ q.atBeginning = p.atBeginning

LEMMA OnlySettings ==
  ASSUME NEW p, NEW q, NEW filed, NEW committed, Good(p, filed, committed),
         DOMAIN q = Fields, Settings(q), SamePaper(p, q)
  PROVE  Good(q, filed, committed) /\ (Clean(p) => Clean(q))
<1>1. PaperTypes(q)
  BY DEF Good, PaperTypes, SamePaper
<1>2. q.atBeginning => EmptyLine(q)
  BY DEF Good, EmptyLine, SamePaper
<1>3. Good(q, filed, committed)
  BY <1>1, <1>2, OnTheLine DEF SamePaper
<1> QED BY <1>3 DEF SamePaper, Clean

\* What an operation leaves: the command has marked nothing, if it had not before.
Quiet(p, q, filed, committed) ==
  /\ Good(q, filed, committed)
  /\ q.command = p.command
  /\ Clean(p) => Clean(q)

LEMMA SettingsAreQuiet ==
  ASSUME NEW p, NEW q, NEW filed, NEW committed, Good(p, filed, committed),
         DOMAIN q = Fields, Settings(q), SamePaper(p, q)
  PROVE  Quiet(p, q, filed, committed)
BY OnlySettings DEF Quiet, SamePaper

LEMMA FailedIsQuiet ==
  ASSUME NEW p, NEW filed, NEW committed, Good(p, filed, committed)
  PROVE  Quiet(p, Failed(p), filed, committed) /\ Failed(p).sheets = p.sheets
<1>1. PICK q : q = Failed(p)
  OBVIOUS
<1>2. DOMAIN q = Fields /\ Settings(q) /\ SamePaper(p, q)
  BY <1>1 DEF Failed, Good, Settings, SamePaper, Fields
<1> QED BY <1>1, <1>2, SettingsAreQuiet DEF SamePaper

LEMMA RollFits ==
  ASSUME NEW p, NEW filed, NEW committed, Good(p, filed, committed),
         NEW roll \in SurfaceSet, roll.width = p.roll.width,
         NEW height \in Nat, ValidRollHeight(p, height),
         roll.height <= p.roll.height \/ roll.height <= height
  PROVE  roll.height <= MaxHeight /\ SheetDots(p.sheets) + Area(roll) <= MaxDots
<1>1. PICK sheets \in Sheets, old \in SurfaceSet : sheets = p.sheets /\ old = p.roll
  BY DEF Good, PaperTypes
<1>2. PICK dots \in Nat : dots = SheetDots(sheets)
  <2>1. SheetDots(sheets) \in Nat
    BY DotsOfSheets
  <2> QED BY <2>1
<1>3. /\ old.height <= MaxHeight /\ dots + Area(old) <= MaxDots
      /\ height <= MaxHeight /\ dots + old.width * height <= MaxDots
  BY <1>1, <1>2 DEF Good, Limits, ValidRollHeight
<1>4. /\ Area(old) \in Nat /\ Area(roll) \in Nat
      /\ roll.height \in Nat /\ old.height \in Nat /\ old.width \in Nat /\ roll.width = old.width
  BY <1>1, AreaIsNumber, SurfaceFields
<1>5. CASE roll.height <= old.height
  <2>1. Area(roll) <= roll.width * old.height
    BY <1>4, <1>5, HigherIsLarger
  <2>2. Area(roll) <= Area(old)
    BY <1>4, <2>1 DEF Area
  <2> QED BY <1>1, <1>2, <1>3, <1>4, <1>5, <2>2, LimitsAreNumbers
<1>6. CASE roll.height <= height
  <2>1. Area(roll) <= roll.width * height
    BY <1>4, <1>6, HigherIsLarger
  <2>2. PICK area \in Nat : area = old.width * height
    BY <1>4
  <2> QED BY <1>1, <1>2, <1>3, <1>4, <1>6, <2>1, <2>2, LimitsAreNumbers
<1> QED BY <1>1, <1>5, <1>6

-----------------------------------------------------------------------------
(* Feeding paper.                                                          *)

LEMMA JustifiedIsNumber ==
  ASSUME NEW p, Settings(p), NEW area \in Nat, NEW width \in Nat
  PROVE  Justified(p, area, width) \in Nat
<1>1. PICK remaining : remaining = Max({0, area - width})
  OBVIOUS
<1>2. remaining \in Nat
  <2>1. PICK d \in Int : d = area - width
    OBVIOUS
  <2>2. 0 \in Int /\ d \in Int
    OBVIOUS
  <2>3. Max({0, d}) \in {0, d} /\ 0 <= Max({0, d})
    BY <2>2, MaxOfTwo, Zenon
  <2> QED BY <1>1, <2>1, <2>3
<1>3. remaining \div 2 \in Nat
  BY <1>2
<1> QED BY <1>1, <1>2, <1>3 DEF Justified, Settings

\* StartLine, and the sheets and the roll as they are.
LEMMA StartedLine ==
  ASSUME NEW p, DOMAIN p = Fields
  PROVE  LET s == StartLine(p)
         IN  /\ DOMAIN s = Fields
             /\ s.command = p.command /\ s.sheets = p.sheets /\ s.roll = p.roll /\ s.top = p.top
             /\ s.left = p.left /\ s.line = p.line /\ s.lineHeight = p.lineHeight
             /\ s.x = 0 /\ s.used = 0 /\ s.hasData = FALSE /\ s.atBeginning = TRUE
             /\ Settings(p) => Settings(s)
BY DEF StartLine, Settings, Fields

LEMMA FeedLinesQuiet ==
  ASSUME NEW p, NEW filed, NEW committed, Good(p, filed, committed), NEW lines \in Nat
  PROVE  /\ Quiet(p, FeedLines(p, lines), filed, committed)
         /\ FeedLines(p, lines).sheets = p.sheets
<1>1. /\ p.lineSpacing \in Nat /\ p.lineHeight \in Nat /\ p.top \in Nat /\ p.left \in Nat
      /\ p.used \in Nat /\ p.line \in SurfaceSet /\ p.roll \in SurfaceSet
      /\ p.line.height \in Nat /\ p.line.width \in Nat /\ p.roll.height \in Nat
  BY SurfaceFields DEF Good, Settings, PaperTypes
<1>2. PICK feed \in Nat :
        feed = IF lines = 0 THEN 0
               ELSE Max({p.lineSpacing, p.lineHeight}) + p.lineSpacing * (lines - 1)
  <2>1. PICK spacing \in Nat, height \in Nat : spacing = p.lineSpacing /\ height = p.lineHeight
    BY <1>1
  <2>2. spacing \in Int /\ height \in Int
    OBVIOUS
  <2>3. Max({spacing, height}) \in {spacing, height}
    BY <2>2, MaxOfTwo, Zenon
  <2>4. lines # 0 => lines - 1 \in Nat /\ spacing * (lines - 1) \in Nat
    OBVIOUS
  <2> QED BY <2>1, <2>3, <2>4
<1>3. PICK tallest \in Nat :
        /\ tallest = Max({feed, p.line.height, p.lineHeight})
        /\ feed <= tallest /\ p.line.height <= tallest
  <2>1. PICK a \in Nat, b \in Nat : a = p.line.height /\ b = p.lineHeight
    BY <1>1
  <2>2. feed \in Int /\ a \in Int /\ b \in Int
    OBVIOUS
  <2>3. Max({feed, a, b}) \in {feed, a, b} /\ feed <= Max({feed, a, b}) /\ a <= Max({feed, a, b})
    BY <2>2, MaxOfThree, Zenon
  <2> QED BY <2>1, <2>3
<1>4. PICK left \in Nat : left = p.left + Justified(p, p.line.width, p.used)
  <2>1. PICK width \in Nat, used \in Nat : width = p.line.width /\ used = p.used
    BY <1>1
  <2>2. Settings(p)
    BY DEF Good
  <2>3. Justified(p, width, used) \in Nat
    BY <2>2, JustifiedIsNumber
  <2> QED BY <1>1, <2>1, <2>3
<1>5. PICK required \in Nat : required = p.top + tallest
  BY <1>1
<1>6. PICK composed : composed = CompositeAt(p.roll, p.line, left, p.top)
  OBVIOUS
<1>7. /\ composed \in SurfaceSet
      /\ composed.width = p.roll.width /\ p.roll.regions \subseteq composed.regions
      /\ p.roll.height <= composed.height
      /\ composed.height <= p.roll.height \/ composed.height <= p.top + p.line.height
      /\ \A r \in composed.regions :
           r \in p.roll.regions \/ \E l \in p.line.regions : l.command = r.command
  <2>1. PICK old \in SurfaceSet, line \in SurfaceSet, top \in Nat :
          old = p.roll /\ line = p.line /\ top = p.top
    BY <1>1
  <2>2. composed = CompositeAt(old, line, left, top)
    BY <1>6, <2>1
  <2>3. Carries(composed, old, line, top)
    BY ONLY <2>2, Composited
  <2> QED BY <2>1, <2>3 DEF Carries
<1>8. PICK bottom \in Nat : bottom = p.top + feed
  BY <1>1
<1>9. PICK roll : roll = Taller(composed, bottom)
  OBVIOUS
<1>10. /\ roll \in SurfaceSet /\ roll.width = composed.width /\ roll.regions = composed.regions
       /\ roll.height \in {composed.height, bottom} /\ composed.height <= roll.height
  BY <1>7, <1>9, TallerSurface
<1>11. /\ roll.width = p.roll.width /\ p.roll.regions \subseteq roll.regions
       /\ p.roll.height <= roll.height
       /\ roll.height <= p.roll.height \/ roll.height <= required
       /\ \A r \in roll.regions :
            r \in p.roll.regions \/ \E l \in p.line.regions : l.command = r.command
  <2>1. composed.height \in Nat /\ roll.height \in Nat
    BY <1>7, <1>10, SurfaceFields
  <2> QED BY <1>1, <1>3, <1>5, <1>7, <1>8, <1>10, <2>1
<1>12. CASE ~ValidRollHeight(p, required)
  <2>1. FeedLines(p, lines) = Failed(p)
    BY <1>2, <1>3, <1>5, <1>12 DEF FeedLines, Requires
  <2> QED BY <2>1, FailedIsQuiet
<1>13. CASE ValidRollHeight(p, required)
  <2>1. PICK s : s = StartLine(p)
    OBVIOUS
  <2>2. PICK q : q = [s EXCEPT !.roll = roll, !.top = bottom, !.line = Surface(p.line.width),
                               !.lineHeight = 0]
    OBVIOUS
  <2>3. /\ DOMAIN s = Fields
        /\ s.command = p.command /\ s.sheets = p.sheets /\ s.roll = p.roll /\ s.top = p.top
        /\ s.left = p.left /\ s.line = p.line /\ s.lineHeight = p.lineHeight
        /\ s.x = 0 /\ s.used = 0 /\ s.hasData = FALSE /\ s.atBeginning = TRUE
        /\ Settings(s)
    BY <2>1, StartedLine DEF Good
  <2>4. FeedLines(p, lines) = q
    BY <1>2, <1>3, <1>4, <1>5, <1>6, <1>8, <1>9, <1>13, <2>1, <2>2, <2>3
       DEF FeedLines, Requires, Fields
  <2>5. /\ DOMAIN q = Fields /\ Settings(q)
        /\ q.command = p.command /\ q.sheets = p.sheets /\ q.roll = roll /\ q.top = bottom
        /\ q.left = p.left /\ q.line = Surface(p.line.width) /\ q.lineHeight = 0
        /\ q.x = 0 /\ q.used = 0 /\ q.hasData = FALSE /\ q.atBeginning = TRUE
    BY <2>2, <2>3 DEF Settings, Fields
  <2>6. q.line \in SurfaceSet /\ q.line.height = 0 /\ q.line.regions = {}
    BY <1>1, <2>5, NewSurface
  <2>7. PaperTypes(q) /\ EmptyLine(q)
    <3>1. q.hasData \in BOOLEAN /\ q.atBeginning \in BOOLEAN
      BY <2>5, Zenon
    <3> QED BY <1>10, <1>11, <2>5, <2>6, <3>1 DEF PaperTypes, EmptyLine, Good
  <2>8. roll.height <= MaxHeight /\ SheetDots(p.sheets) + Area(roll) <= MaxDots
    BY <1>10, <1>11, <1>13, RollFits
  <2>9. \A r \in q.roll.regions \union q.line.regions : <<r.command, Len(p.sheets)>> \in filed
    BY <1>11, <2>5, <2>6 DEF Good, Filed
  <2>10. Good(q, filed, committed)
    BY <1>11, <2>5, <2>7, <2>8, <2>9, OnSameSheet
  <2>11. Clean(p) => Clean(q)
    BY <1>11, <2>5, <2>6 DEF Clean
  <2> QED BY <2>4, <2>5, <2>10, <2>11 DEF Quiet
<1> QED BY <1>12, <1>13


-----------------------------------------------------------------------------
(* The operations that mark nothing.                                       *)

LEMMA QuietTwice ==
  ASSUME NEW p, NEW q, NEW r, NEW filed, NEW committed,
         Quiet(p, q, filed, committed), Quiet(q, r, filed, committed)
  PROVE  Quiet(p, r, filed, committed)
BY DEF Quiet

LEMMA NothingIsQuiet ==
  ASSUME NEW p, NEW filed, NEW committed, Good(p, filed, committed)
  PROVE  Quiet(p, p, filed, committed)
BY DEF Quiet

LEMMA MotionDots ==
  ASSUME IsProfile(profile), NEW p, Settings(p), NEW units \in Nat
  PROVE  DotsX(p, units) \in Nat /\ DotsY(p, units) \in Nat
<1>1. \A n \in Nat, unit \in Nat \ {0} : n \div unit \in Nat
  OBVIOUS
<1>2. \A a, b \in Nat : a * b \in Nat
  OBVIOUS
<1>3. units * profile.dpiX \in Nat /\ units * profile.dpiY \in Nat
  BY <1>2 DEF IsProfile
<1> QED BY <1>1, <1>3 DEF DotsX, DotsY, Settings

LEMMA PrintAndFeedDotsQuiet ==
  ASSUME NEW p, NEW filed, NEW committed, Good(p, filed, committed), NEW dots \in Nat
  PROVE  /\ Quiet(p, PrintAndFeedDots(p, dots), filed, committed)
         /\ PrintAndFeedDots(p, dots).sheets = p.sheets
<1>1. PICK a : a = [p EXCEPT !.lineSpacing = dots]
  OBVIOUS
<1>2. DOMAIN a = Fields /\ Settings(a) /\ SamePaper(p, a)
  BY <1>1 DEF Good, Settings, SamePaper, Fields
<1>3. Quiet(p, a, filed, committed)
  BY <1>2, SettingsAreQuiet
<1>4. PICK b : b = FeedLines(a, 1)
  OBVIOUS
<1>5. Quiet(a, b, filed, committed) /\ b.sheets = a.sheets
  <2>1. PICK one \in Nat : one = 1
    OBVIOUS
  <2>2. Good(a, filed, committed)
    BY <1>3 DEF Quiet
  <2> QED BY <1>4, <2>1, <2>2, FeedLinesQuiet
<1>6. PICK c : c = [b EXCEPT !.lineSpacing = p.lineSpacing]
  OBVIOUS
<1>7. DOMAIN c = Fields /\ Settings(c) /\ SamePaper(b, c)
  BY <1>5, <1>6 DEF Quiet, Good, Settings, SamePaper, Fields
<1>8. Quiet(b, c, filed, committed)
  BY <1>5, <1>7, SettingsAreQuiet DEF Quiet
<1>9. Quiet(p, c, filed, committed)
  BY <1>3, <1>5, <1>8, QuietTwice
<1>10. PrintAndFeedDots(p, dots) = c
  BY <1>1, <1>4, <1>6 DEF PrintAndFeedDots
<1> QED BY <1>2, <1>5, <1>7, <1>9, <1>10 DEF SamePaper

LEMMA ExecuteEscJQuiet ==
  ASSUME IsProfile(profile), NEW p, NEW filed, NEW committed, Good(p, filed, committed),
         NEW units \in Nat
  PROVE  Quiet(p, ExecuteEscJ(p, units), filed, committed)
<1>1. PICK dots \in Nat : dots = DotsY(p, units)
  BY MotionDots DEF Good
<1>2. Quiet(p, PrintAndFeedDots(p, dots), filed, committed)
  BY PrintAndFeedDotsQuiet
<1> QED BY <1>1, <1>2, NothingIsQuiet DEF ExecuteEscJ, PrintAndFeedMotionUnits

LEMMA LineFeedQuiet ==
  ASSUME NEW p, NEW filed, NEW committed, Good(p, filed, committed)
  PROVE  /\ Quiet(p, LineFeed(p), filed, committed)
         /\ LineFeed(p).sheets = p.sheets
<1>1. PICK a : a = [p EXCEPT !.pendingLf = FALSE]
  OBVIOUS
<1>2. DOMAIN a = Fields /\ Settings(a) /\ SamePaper(p, a)
  BY <1>1 DEF Good, Settings, SamePaper, Fields
<1>3. Quiet(p, a, filed, committed)
  BY <1>2, SettingsAreQuiet
<1>4. Quiet(a, FeedLines(a, 1), filed, committed) /\ FeedLines(a, 1).sheets = a.sheets
  <2>1. PICK one \in Nat : one = 1
    OBVIOUS
  <2>2. Good(a, filed, committed)
    BY <1>3 DEF Quiet
  <2> QED BY <2>1, <2>2, FeedLinesQuiet
<1>5. Quiet(p, FeedLines(a, 1), filed, committed)
  BY <1>3, <1>4, QuietTwice
<1> QED BY <1>1, <1>2, <1>3, <1>4, <1>5 DEF LineFeed, SamePaper

LEMMA CarriageReturnQuiet ==
  ASSUME NEW p, NEW filed, NEW committed, Good(p, filed, committed)
  PROVE  Quiet(p, CarriageReturn(p), filed, committed)
BY LineFeedQuiet, NothingIsQuiet DEF CarriageReturn

\* A cut takes what is on the roll along; nothing is on the line.
LEMMA CutQuiet ==
  ASSUME NEW p, NEW filed, NEW committed, Good(p, filed, committed), NEW kind
  PROVE  Quiet(p, Cut(p, kind), filed, committed)
<1>1. CASE ~p.atBeginning
  BY <1>1, NothingIsQuiet DEF Cut
<1>2. CASE p.atBeginning /\ ~(Len(p.sheets) < MaxSheets)
  BY <1>2, FailedIsQuiet DEF Cut, CutAnywhere, Requires
<1>3. CASE p.atBeginning /\ Len(p.sheets) < MaxSheets
  <2>1. PICK warnings : warnings =
          IF (IF kind = "partial" THEN "partial_cut" ELSE "full_cut") \in profile.features
          THEN p.warnings ELSE p.warnings + 1
    OBVIOUS
  <2>2. PICK sheets \in Sheets, roll \in SurfaceSet : sheets = p.sheets /\ roll = p.roll
    BY DEF Good, PaperTypes
  <2>3. PICK fresh : fresh = Surface(roll.width)
    OBVIOUS
  <2>4. /\ fresh \in SurfaceSet
        /\ fresh.width = roll.width /\ fresh.height = 0 /\ fresh.regions = {}
    <3>1. PICK width \in Nat : width = roll.width
      BY SurfaceFields
    <3> QED BY <2>3, <3>1, NewSurface
  <2>5. Append(sheets, roll) \in Sheets
    BY DEF Sheets
  <2>6. PICK more \in Sheets : more = Append(sheets, roll)
    BY <2>5
  <2>7. PICK n \in Nat :
          /\ n = Len(sheets) /\ Len(more) = n + 1 /\ more[n + 1] = roll
          /\ DOMAIN sheets = 1..n /\ DOMAIN more = 1..(n + 1)
          /\ \A i \in 1..n : more[i] = sheets[i]
    BY <2>6 DEF Sheets
  <2>8. PICK q : q = [p EXCEPT !.warnings = warnings, !.sheets = more, !.roll = fresh, !.top = 0]
    OBVIOUS
  <2>9. Cut(p, kind) = q
    BY <1>3, <2>1, <2>2, <2>3, <2>6, <2>8 DEF Cut, CutAnywhere, Requires, Good, Fields
  <2>10. /\ DOMAIN q = Fields /\ Settings(q)
         /\ q.sheets = more /\ q.roll = fresh /\ q.top = 0 /\ q.command = p.command
         /\ q.left = p.left /\ q.line = p.line /\ q.x = p.x /\ q.used = p.used
         /\ q.lineHeight = p.lineHeight /\ q.hasData = p.hasData /\ q.atBeginning = p.atBeginning
    BY <2>8 DEF Good, Settings, Fields
  <2>11. PaperTypes(q)
    BY <2>2, <2>4, <2>10 DEF Good, PaperTypes
  <2>12. EmptyLine(p)
    BY <1>3 DEF Good
  <2>13. EmptyLine(q)
    BY <2>10, <2>12 DEF EmptyLine
  <2>14. Limits(q)
    <3>1. Area(fresh) = 0
      BY <2>4, SurfaceFields DEF Area
    <3>2. SheetDots(sheets) \in Nat /\ SheetDots(more) = SheetDots(sheets) + Area(roll)
      BY <2>6, DotsOfSheets
    <3>3. Area(roll) \in Nat
      BY AreaIsNumber
    <3>4. SheetDots(q.sheets) + Area(q.roll) <= MaxDots
      BY <2>2, <2>10, <3>1, <3>2, <3>3 DEF Good, Limits
    <3>5. \A i \in DOMAIN q.sheets : q.sheets[i].height <= MaxHeight
      BY <2>2, <2>7, <2>10 DEF Good, Limits
    <3>6. q.roll.height <= MaxHeight /\ Len(q.sheets) <= MaxSheets
      BY <1>3, <2>2, <2>4, <2>7, <2>10, LimitsAreNumbers
    <3> QED BY <3>4, <3>5, <3>6 DEF Limits
  <2>15. Filed(q, filed)
    <3>1. \A i \in DOMAIN q.sheets : \A r \in q.sheets[i].regions : <<r.command, i - 1>> \in filed
      <4> TAKE i \in DOMAIN q.sheets
      <4> TAKE r \in q.sheets[i].regions
      <4>1. CASE i \in 1..n
        BY <2>2, <2>7, <2>10, <4>1 DEF Good, Filed
      <4>2. CASE i = n + 1
        <5>1. r \in p.roll.regions /\ n = i - 1
          BY <2>2, <2>7, <2>10, <4>2
        <5>2. <<r.command, n>> \in filed
          BY <2>2, <2>7, <5>1 DEF Good, Filed
        <5> QED BY <5>1, <5>2
      <4> QED BY <2>7, <2>10, <4>1, <4>2
    <3>2. q.roll.regions \union q.line.regions = {}
      BY <2>4, <2>10, <2>12 DEF EmptyLine
    <3> QED BY <3>1, <3>2 DEF Filed
  <2>16. Kept(q, committed)
    <3> SUFFICES ASSUME NEW c \in committed
                 PROVE  \/ /\ c[2] + 1 \in DOMAIN q.sheets
                           /\ Marked(q.sheets[c[2] + 1], c[1]) # {}
                           /\ q.sheets[c[2] + 1].height > 0
                        \/ c[2] = Len(q.sheets) /\ Marked(q.roll, c[1]) # {} /\ q.roll.height > 0
      BY DEF Kept
    <3>1. ASSUME c[2] + 1 \in DOMAIN sheets, Marked(sheets[c[2] + 1], c[1]) # {},
                 sheets[c[2] + 1].height > 0
          PROVE  /\ c[2] + 1 \in DOMAIN more
                 /\ Marked(more[c[2] + 1], c[1]) # {} /\ more[c[2] + 1].height > 0
      BY <2>7, <3>1
    <3>2. ASSUME c[2] = n, Marked(roll, c[1]) # {}, roll.height > 0
          PROVE  /\ c[2] + 1 \in DOMAIN more
                 /\ Marked(more[c[2] + 1], c[1]) # {} /\ more[c[2] + 1].height > 0
      BY <2>7, <3>2
    <3> QED BY <2>2, <2>7, <2>10, <3>1, <3>2 DEF Good, Kept
  <2>17. Clean(q)
    BY <2>4, <2>10, <2>12 DEF EmptyLine, Clean
  <2> QED BY <2>9, <2>10, <2>11, <2>13, <2>14, <2>15, <2>16, <2>17 DEF Quiet, Good
<1> QED BY <1>1, <1>2, <1>3

LEMMA FeedToCutQuiet ==
  ASSUME IsProfile(profile), NEW p, NEW filed, NEW committed, Good(p, filed, committed),
         NEW kind, NEW feed \in Nat
  PROVE  Quiet(p, FeedToCutPositionAndCut(p, kind, feed), filed, committed)
<1>1. PICK dots \in Nat : dots = DotsY(p, feed)
  BY MotionDots DEF Good
<1> DEFINE ignored == ~p.atBeginning \/ (IF kind = "partial" THEN profile.partialCutFeed
                                       ELSE profile.fullCutFeed) = "ignored"
           uncuttable == {"full_cut", "partial_cut"} \intersect profile.features = {}
           beyond == CHOOSE n \in profile.cutter : TRUE
           fed == IF uncuttable THEN PrintAndFeedDots(p, dots)
                  ELSE PrintAndFeedDots(p, beyond + dots)
<1>2. FeedToCutPositionAndCut(p, kind, feed) =
        IF ignored THEN p
        ELSE IF uncuttable \/ profile.cutter # {}
             THEN IF fed.failed THEN fed ELSE Cut(fed, kind)
             ELSE Failed(p)
  BY <1>1 DEF FeedToCutPositionAndCut, PrintAndFeedMotionUnits, Requires
<1>3. ASSUME uncuttable \/ profile.cutter # {}
      PROVE  Quiet(p, IF fed.failed THEN fed ELSE Cut(fed, kind), filed, committed)
  <2>1. profile.cutter # {} => beyond \in Nat
    BY DEF IsProfile
  <2> HIDE DEF beyond, uncuttable, ignored
  <2>2. \E all \in Nat : fed = PrintAndFeedDots(p, all)
    <3>1. CASE uncuttable
      BY <3>1
    <3>2. CASE ~uncuttable
      <4>1. beyond + dots \in Nat
        BY <1>3, <2>1, <3>2
      <4> QED BY <3>2, <4>1
    <3> QED BY <3>1, <3>2
  <2>3. PICK all \in Nat : fed = PrintAndFeedDots(p, all)
    BY <2>2
  <2> HIDE DEF fed
  <2>4. PICK q : q = fed
    OBVIOUS
  <2>5. Quiet(p, q, filed, committed)
    BY <2>3, <2>4, PrintAndFeedDotsQuiet
  <2>6. Quiet(q, Cut(q, kind), filed, committed)
    BY <2>5, CutQuiet DEF Quiet
  <2>7. Quiet(p, Cut(q, kind), filed, committed)
    BY <2>5, <2>6, QuietTwice
  <2> QED BY <2>4, <2>5, <2>7
<1> HIDE DEF ignored, uncuttable, fed
<1> QED BY <1>2, <1>3, NothingIsQuiet, FailedIsQuiet

\* Without a command executing, the line may be left as it was, moved on, or emptied.
LEMMA LineIsQuiet ==
  ASSUME NEW p, NEW q, NEW filed, NEW committed, Good(p, filed, committed),
         DOMAIN q = Fields, Settings(q), PaperTypes(q), q.atBeginning => EmptyLine(q),
         q.command = p.command, q.sheets = p.sheets, q.roll = p.roll,
         q.line.regions \subseteq p.line.regions
  PROVE  Quiet(p, q, filed, committed)
<1>1. Good(q, filed, committed)
  <2>1. \A r \in q.line.regions : r \in p.line.regions \/ <<r.command, Len(p.sheets)>> \in filed
    OBVIOUS
  <2> QED BY <2>1, OnTheLine
<1> QED BY <1>1 DEF Quiet, Clean

LEMMA NewAreaQuiet ==
  ASSUME NEW p, NEW filed, NEW committed, Good(p, filed, committed), p.atBeginning,
         NEW left \in Nat, left <= p.roll.width, NEW width \in Nat
  PROVE  Quiet(p, NewArea(p, left, width), filed, committed)
<1>1. PICK line \in SurfaceSet : line = Surface(width) /\ line.height = 0 /\ line.regions = {}
  BY NewSurface
<1>2. PICK q : q = [p EXCEPT !.left = left, !.line = line, !.x = 0, !.used = 0, !.hasData = FALSE]
  OBVIOUS
<1>3. /\ DOMAIN q = Fields /\ Settings(q)
      /\ q.command = p.command /\ q.sheets = p.sheets /\ q.roll = p.roll /\ q.top = p.top
      /\ q.left = left /\ q.line = line /\ q.x = 0 /\ q.used = 0 /\ q.lineHeight = p.lineHeight
      /\ q.hasData = FALSE /\ q.atBeginning = p.atBeginning
  BY <1>2 DEF Good, Settings, Fields
<1>4. q.hasData \in BOOLEAN
  BY <1>3, Zenon
<1>5. PaperTypes(q)
  BY <1>1, <1>3, <1>4 DEF Good, PaperTypes
<1>6. EmptyLine(q)
  BY <1>1, <1>3 DEF Good, EmptyLine
<1>7. q.line.regions \subseteq p.line.regions
  BY <1>1, <1>3
<1>8. Quiet(p, q, filed, committed)
  BY <1>3, <1>5, <1>6, <1>7, LineIsQuiet
<1> QED BY <1>1, <1>2, <1>8 DEF NewArea

LEMMA SetLeftMarginQuiet ==
  ASSUME IsProfile(profile), NEW p, NEW filed, NEW committed, Good(p, filed, committed),
         NEW units \in Nat
  PROVE  Quiet(p, SetLeftMargin(p, units), filed, committed)
<1>1. PICK dots \in Nat : dots = DotsX(p, units)
  BY MotionDots DEF Good
<1>2. PICK roll \in Nat, line \in Nat : roll = p.roll.width /\ line = p.line.width
  BY SurfaceFields DEF Good, PaperTypes
<1>3. PICK margin \in Nat : margin = Min({dots, roll}) /\ margin <= roll
  <2>1. dots \in Int /\ roll \in Int
    OBVIOUS
  <2>2. Min({dots, roll}) \in {dots, roll} /\ Min({dots, roll}) <= roll
    BY <2>1, MinOfTwo, Zenon
  <2> QED BY <2>2
<1>4. PICK width \in Nat : width = Min({line, roll - margin})
  <2>1. PICK rest \in Nat : rest = roll - margin
    BY <1>3
  <2>2. line \in Int /\ rest \in Int
    OBVIOUS
  <2>3. Min({line, rest}) \in {line, rest}
    BY <2>2, MinOfTwo, Zenon
  <2> QED BY <2>1, <2>3
<1>5. p.atBeginning => Quiet(p, NewArea(p, margin, width), filed, committed)
  BY <1>2, <1>3, NewAreaQuiet
<1> QED BY <1>1, <1>2, <1>3, <1>4, <1>5, NothingIsQuiet DEF SetLeftMargin

LEMMA SetPrintAreaWidthQuiet ==
  ASSUME IsProfile(profile), NEW p, NEW filed, NEW committed, Good(p, filed, committed),
         NEW units \in Nat
  PROVE  Quiet(p, SetPrintAreaWidth(p, units), filed, committed)
<1>1. PICK dots \in Nat : dots = DotsX(p, units)
  BY MotionDots DEF Good
<1>2. PICK roll \in Nat, left \in Nat : roll = p.roll.width /\ left = p.left /\ left <= roll
  BY SurfaceFields DEF Good, PaperTypes
<1>3. PICK width \in Nat : width = Min({dots, roll - left})
  <2>1. PICK rest \in Nat : rest = roll - left
    BY <1>2
  <2>2. dots \in Int /\ rest \in Int
    OBVIOUS
  <2>3. Min({dots, rest}) \in {dots, rest}
    BY <2>2, MinOfTwo, Zenon
  <2> QED BY <2>1, <2>3
<1>4. p.atBeginning => Quiet(p, NewArea(p, left, width), filed, committed)
  BY <1>2, NewAreaQuiet
<1> QED BY <1>1, <1>2, <1>3, <1>4, NothingIsQuiet DEF SetPrintAreaWidth

\* A position on the line begins it.
LEMMA BegunLine ==
  ASSUME NEW p, NEW q, NEW filed, NEW committed, Good(p, filed, committed),
         NEW x \in Nat, NEW used \in Nat,
         q = [p EXCEPT !.x = x, !.used = used, !.atBeginning = FALSE]
  PROVE  Quiet(p, q, filed, committed)
<1>1. /\ DOMAIN q = Fields /\ Settings(q)
      /\ q.command = p.command /\ q.sheets = p.sheets /\ q.roll = p.roll /\ q.top = p.top
      /\ q.left = p.left /\ q.line = p.line /\ q.x = x /\ q.used = used
      /\ q.lineHeight = p.lineHeight /\ q.hasData = p.hasData /\ q.atBeginning = FALSE
  BY DEF Good, Settings, Fields
<1>2. q.atBeginning \in BOOLEAN
  BY <1>1, Zenon
<1>3. PaperTypes(q)
  BY <1>1, <1>2 DEF Good, PaperTypes
<1> QED BY <1>1, <1>3, LineIsQuiet

LEMMA MoveToQuiet ==
  ASSUME NEW p, NEW filed, NEW committed, Good(p, filed, committed), NEW position
  PROVE  Quiet(p, MoveTo(p, position), filed, committed)
<1>1. p.line.width \in Nat /\ p.x \in Nat /\ p.used \in Nat
  BY SurfaceFields DEF Good, PaperTypes
<1>2. PICK x \in Nat : x = IF position \in 0..p.line.width THEN position ELSE p.x
  BY <1>1
<1>3. PICK used \in Nat : used = p.used
  BY <1>1
<1>4. PICK q : q = [p EXCEPT !.x = x, !.used = used, !.atBeginning = FALSE]
  OBVIOUS
<1>5. Quiet(p, q, filed, committed)
  BY <1>4, BegunLine
<1>6. MoveTo(p, position) = q
  BY <1>2, <1>3, <1>4 DEF MoveTo, Good, Fields
<1> QED BY <1>5, <1>6

LEMMA LeastTab ==
  ASSUME NEW p, Settings(p), NEW tabs, tabs \subseteq ToSet(p.tabs), tabs # {}
  PROVE  Min(tabs) \in tabs /\ Min(tabs) \in Nat
<1>1. tabs \in SUBSET Nat
  BY DEF Settings, ToSet
<1> QED BY <1>1, MinOfNumbers

LEMMA TabToQuiet ==
  ASSUME NEW p, NEW filed, NEW committed, Good(p, filed, committed), NEW position \in Nat
  PROVE  Quiet(p, [TabTo(p, position) EXCEPT !.atBeginning = FALSE], filed, committed)
<1>1. PICK used \in Nat : used = p.used
  BY DEF Good, PaperTypes
<1>2. PICK wider \in Nat : wider = Max({used, position})
  <2>1. used \in Int /\ position \in Int
    OBVIOUS
  <2>2. Max({used, position}) \in {used, position}
    BY <2>1, MaxOfTwo, Zenon
  <2> QED BY <2>2
<1>3. PICK q : q = [p EXCEPT !.x = position, !.used = wider, !.atBeginning = FALSE]
  OBVIOUS
<1>4. Quiet(p, q, filed, committed)
  BY <1>3, BegunLine
<1>5. TabTo(p, position) = [p EXCEPT !.x = position, !.used = wider]
  BY <1>1, <1>2 DEF TabTo, Good, Fields
<1> QED BY <1>3, <1>4, <1>5 DEF Good, Fields

LEMMA HorizontalTabQuiet ==
  ASSUME NEW p, NEW filed, NEW committed, Good(p, filed, committed)
  PROVE  Quiet(p, HorizontalTab(p), filed, committed)
<1> DEFINE ahead == {t \in ToSet(p.tabs) : t > p.x}
<1>1. PICK fed : fed = LineFeed(p)
  OBVIOUS
<1>2. Quiet(p, fed, filed, committed)
  BY <1>1, LineFeedQuiet
<1> DEFINE again == TabsWithin(fed, 0, fed.line.width)
           tabbed == CASE ahead = {} -> p
                       [] ahead # {} /\ Min(ahead) <= p.line.width -> TabTo(p, Min(ahead))
                       [] OTHER -> IF again = {} THEN fed ELSE TabTo(fed, Min(again))
<1>3. HorizontalTab(p) = [tabbed EXCEPT !.atBeginning = FALSE]
  BY <1>1 DEF HorizontalTab
<1>4. \A q : Good(q, filed, committed)
               => Quiet(q, [q EXCEPT !.atBeginning = FALSE], filed, committed)
  <2> TAKE q
  <2> HAVE Good(q, filed, committed)
  <2>1. PICK x \in Nat, used \in Nat : x = q.x /\ used = q.used
    BY DEF Good, PaperTypes
  <2>2. PICK r : r = [q EXCEPT !.x = x, !.used = used, !.atBeginning = FALSE]
    OBVIOUS
  <2>3. Quiet(q, r, filed, committed)
    BY <2>2, BegunLine
  <2>4. r = [q EXCEPT !.atBeginning = FALSE]
    BY <2>1, <2>2 DEF Good, Fields
  <2> QED BY <2>3, <2>4
<1>5. CASE ahead = {}
  <2>1. tabbed = p
    BY <1>5
  <2> QED BY <1>3, <1>4, <2>1
<1>6. CASE ahead # {} /\ Min(ahead) <= p.line.width
  <2> HIDE DEF ahead
  <2>1. ahead \subseteq ToSet(p.tabs) /\ Settings(p)
    BY DEF ahead, Good
  <2>2. PICK position \in Nat : position = Min(ahead)
    BY <1>6, <2>1, LeastTab
  <2>3. tabbed = TabTo(p, position)
    BY <1>6, <2>2
  <2> HIDE DEF tabbed
  <2> QED BY <1>3, <2>3, TabToQuiet
<1>7. CASE ~(ahead = {}) /\ ~(ahead # {} /\ Min(ahead) <= p.line.width)
  <2>1. tabbed = IF again = {} THEN fed ELSE TabTo(fed, Min(again))
    BY <1>7
  <2>2. Good(fed, filed, committed)
    BY <1>2 DEF Quiet
  <2>3. CASE again = {}
    <3>1. tabbed = fed
      BY <2>1, <2>3
    <3>2. Quiet(fed, [fed EXCEPT !.atBeginning = FALSE], filed, committed)
      BY <1>4, <2>2
    <3> HIDE DEF tabbed
    <3> QED BY <1>2, <1>3, <3>1, <3>2, QuietTwice
  <2>4. CASE again # {}
    <3> HIDE DEF again
    <3>1. again \subseteq ToSet(fed.tabs) /\ Settings(fed)
      BY <2>2 DEF again, TabsWithin, Good
    <3>2. PICK position \in Nat : position = Min(again)
      BY <2>4, <3>1, LeastTab
    <3>3. tabbed = TabTo(fed, position)
      BY <2>1, <2>4, <3>2
    <3>4. Quiet(fed, [TabTo(fed, position) EXCEPT !.atBeginning = FALSE], filed, committed)
      BY <2>2, TabToQuiet
    <3> HIDE DEF tabbed
    <3>5. HorizontalTab(p) = [TabTo(fed, position) EXCEPT !.atBeginning = FALSE]
      BY <1>3, <3>3
    <3> QED BY <1>2, <3>4, <3>5, QuietTwice
  <2> QED BY <2>3, <2>4
<1> QED BY <1>5, <1>6, <1>7

\* A power-on printer has every setting.
LEMMA PowerOnSettings ==
  ASSUME IsProfile(profile)
  PROVE  DOMAIN PowerOn = Fields /\ Settings(PowerOn) /\ EmptyLine(PowerOn)
<1>1. /\ profile.width \in Nat /\ profile.lineSpacing \in Nat
      /\ profile.unitsX \in Nat \ {0} /\ profile.unitsY \in Nat \ {0}
      /\ profile.fonts["A"].width \in Nat
  BY DEF IsProfile
<1>2. PICK tabs : tabs = [i \in 1..31 |-> i * 8 * profile.fonts.A.width]
  OBVIOUS
<1>3. \A i \in DOMAIN tabs : tabs[i] \in Nat
  <2>1. PICK width \in Nat : width = profile.fonts["A"].width
    BY <1>1
  <2> QED BY <1>2, <2>1
<1>4. PICK line : line = Surface(profile.width)
  OBVIOUS
<1>5. line.height = 0 /\ line.regions = {}
  BY <1>1, <1>4, NewSurface
<1>6. PICK q : q = PowerOn
  OBVIOUS
<1>7. /\ DOMAIN q = Fields
      /\ q.lineSpacing = profile.lineSpacing /\ q.spacing = 0
      /\ q.unitsX = profile.unitsX /\ q.unitsY = profile.unitsY
      /\ q.font = "A" /\ q.hriFont = "A" /\ q.wide = 1 /\ q.tall = 1
      /\ q.justification = "left" /\ q.tabs = tabs /\ q.graphics = {}
      /\ q.qrModule = 3 /\ q.barHeight = 162 /\ q.barModule = 3
      /\ q.line = line /\ q.x = 0 /\ q.used = 0 /\ q.lineHeight = 0 /\ q.hasData = FALSE
  BY <1>2, <1>4, <1>6 DEF PowerOn, LeftEdge, Fields
<1>8. Settings(q)
  BY <1>1, <1>3, <1>7 DEF Settings, FontNames
<1> QED BY <1>5, <1>6, <1>7, <1>8 DEF EmptyLine

LEMMA PowerOnLine ==
  ASSUME IsProfile(profile)
  PROVE  /\ PowerOn.line \in SurfaceSet /\ PowerOn.x \in Nat /\ PowerOn.used \in Nat
         /\ PowerOn.lineHeight \in Nat /\ PowerOn.left = 0
         /\ PowerOn.hasData \in BOOLEAN /\ PowerOn.atBeginning \in BOOLEAN
<1>1. profile.width \in Nat
  BY DEF IsProfile
<1>2. PICK line \in SurfaceSet : line = Surface(profile.width)
  <2>1. PICK width \in Nat : width = profile.width
    BY <1>1
  <2> QED BY <2>1, NewSurface
<1>3. PICK q : q = PowerOn
  OBVIOUS
<1>4. /\ q.line = line /\ q.x = 0 /\ q.used = 0 /\ q.lineHeight = 0 /\ q.left = 0
      /\ q.hasData = FALSE /\ q.atBeginning = TRUE
  BY <1>2, <1>3 DEF PowerOn
<1>5. q.hasData \in BOOLEAN /\ q.atBeginning \in BOOLEAN
  BY <1>4, Zenon
<1> QED BY <1>3, <1>4, <1>5

LEMMA InitializeQuiet ==
  ASSUME IsProfile(profile), NEW p, NEW filed, NEW committed, Good(p, filed, committed)
  PROVE  Quiet(p, Initialize(p), filed, committed)
<1>1. PICK on : on = PowerOn
  OBVIOUS
<1>2. /\ DOMAIN on = Fields /\ Settings(on) /\ EmptyLine(on)
      /\ on.line \in SurfaceSet /\ on.x \in Nat /\ on.used \in Nat
      /\ on.lineHeight \in Nat /\ on.left = 0
      /\ on.hasData \in BOOLEAN /\ on.atBeginning \in BOOLEAN
  BY <1>1, PowerOnSettings, PowerOnLine
<1>3. PICK q : q = [on EXCEPT !.command = p.command, !.sheets = p.sheets, !.roll = p.roll,
                               !.top = p.top, !.events = p.events, !.warnings = p.warnings]
  OBVIOUS
<1>4. /\ DOMAIN q = Fields /\ Settings(q)
      /\ q.command = p.command /\ q.sheets = p.sheets /\ q.roll = p.roll /\ q.top = p.top
      /\ q.left = on.left /\ q.line = on.line /\ q.x = on.x /\ q.used = on.used
      /\ q.lineHeight = on.lineHeight
      /\ q.hasData = on.hasData /\ q.atBeginning = on.atBeginning
  BY <1>2, <1>3 DEF Settings, Fields
<1>5. EmptyLine(q)
  BY <1>2, <1>4 DEF EmptyLine
<1>6. PaperTypes(q)
  <2>1. q.hasData \in BOOLEAN /\ q.atBeginning \in BOOLEAN
    BY <1>2, <1>4, Zenon
  <2>2. p.roll.width \in Nat
    BY SurfaceFields DEF Good, PaperTypes
  <2> QED BY <1>2, <1>4, <2>1, <2>2 DEF Good, PaperTypes
<1>7. q.line.regions \subseteq p.line.regions
  BY <1>5 DEF EmptyLine
<1>8. Quiet(p, q, filed, committed)
  BY <1>4, <1>5, <1>6, <1>7, LineIsQuiet
<1> QED BY <1>1, <1>3, <1>8 DEF Initialize

\* Column graphics: dots, but no mark.  None at all leave an unbegun line empty.
LEMMA PaintBitImageQuiet ==
  ASSUME NEW p, NEW filed, NEW committed, Good(p, filed, committed),
         NEW columns, Len(columns) \in Nat, NEW scale \in Nat, NEW pitch \in Nat
  PROVE  Quiet(p, PaintBitImage(p, columns, scale, pitch), filed, committed)
<1> DEFINE rows == UNION {ImageRows(columns[c]) : c \in
                          {c \in DOMAIN columns : p.x + (c - 1) * scale < p.line.width}}
           depths == {0} \union {y * pitch + 1 : y \in rows}
           data == columns # <<>>
<1>1. rows \subseteq 0..23
  BY DEF ImageRows
<1>2. PICK bound \in Nat : bound = 23 * pitch + 1
  OBVIOUS
<1>3. /\ depths \in SUBSET Nat /\ depths # {}
      /\ \A d \in depths : d <= bound
  <2>1. \A y \in 0..23 : y * pitch + 1 \in Nat /\ y * pitch + 1 <= bound
    BY <1>2
  <2> HIDE DEF rows
  <2> QED BY <1>1, <1>2, <2>1
<1>4. PICK depth \in Nat : depth = Max(depths) /\ depth \in depths
  <2> HIDE DEF depths
  <2>1. Max(depths) \in depths
    BY <1>3, MaxOfNumbers
  <2> QED BY <1>3, <2>1
<1>5. PICK line \in SurfaceSet : line = p.line
  BY DEF Good, PaperTypes
<1>6. PICK taller : taller = Taller(line, depth)
  OBVIOUS
<1>7. /\ taller \in SurfaceSet /\ taller.regions = line.regions
      /\ taller.height \in {line.height, depth}
  BY <1>6, TallerSurface
<1>8. PICK x \in Nat, used \in Nat : x = p.x /\ used = p.used
  BY DEF Good, PaperTypes
<1>9. PICK right \in Nat : right = x + Len(columns) * scale
  <2>1. PICK n \in Nat : n = Len(columns)
    OBVIOUS
  <2> QED BY <2>1
<1>10. PICK wider \in Nat : wider = Max({used, right}) /\ wider \in {used, right}
  <2> HIDE DEF rows, depths, data
  <2>1. used \in Int /\ right \in Int
    OBVIOUS
  <2>2. Max({used, right}) \in {used, right}
    BY <2>1, MaxOfTwo, Zenon
  <2> QED BY <2>2
<1>11. PICK has \in BOOLEAN, begins \in BOOLEAN :
         has = (p.hasData \/ data) /\ begins = (p.atBeginning /\ ~data)
  <2>1. (p.hasData \/ data) \in BOOLEAN /\ (p.atBeginning /\ ~data) \in BOOLEAN
    BY Zenon
  <2> HIDE DEF data
  <2> QED BY <2>1, Zenon
<1>12. PICK q : q = [p EXCEPT !.line = taller, !.x = right, !.used = wider, !.hasData = has,
                              !.atBeginning = begins]
  OBVIOUS
<1>13. PaintBitImage(p, columns, scale, pitch) = q
  <2>1. PaintBitImage(p, columns, scale, pitch)
          = [p EXCEPT !.line = Taller(p.line, depth), !.x = right, !.used = Max({p.used, right}),
                      !.hasData = p.hasData \/ data, !.atBeginning = p.atBeginning /\ ~data]
    <3>1. PaintBitImage(p, columns, scale, pitch)
            = [p EXCEPT !.line = Taller(@, depth), !.x = right, !.used = Max({@, right}),
                        !.hasData = @ \/ data, !.atBeginning = @ /\ ~data]
      BY <1>4, <1>8, <1>9 DEF PaintBitImage
    <3> HIDE DEF data
    <3> QED BY <3>1
  <2> HIDE DEF data
  <2> QED BY <1>5, <1>6, <1>8, <1>10, <1>11, <1>12, <2>1, Zenon
<1>14. /\ DOMAIN q = Fields /\ Settings(q)
       /\ q.command = p.command /\ q.sheets = p.sheets /\ q.roll = p.roll /\ q.top = p.top
       /\ q.left = p.left /\ q.line = taller /\ q.x = right /\ q.used = wider
       /\ q.lineHeight = p.lineHeight /\ q.hasData = has /\ q.atBeginning = begins
  BY <1>12 DEF Good, Settings, Fields
<1>15. PaperTypes(q)
  <2>1. q.hasData \in BOOLEAN /\ q.atBeginning \in BOOLEAN
    BY <1>14, Zenon
  <2> QED BY <1>7, <1>14, <2>1 DEF Good, PaperTypes
<1>16. ASSUME q.atBeginning PROVE EmptyLine(q)
  <2>1. p.atBeginning /\ ~data
    BY <1>11, <1>14, <1>16, Zenon
  <2>2. EmptyLine(p)
    BY <2>1 DEF Good
  <2>3. columns = <<>>
    BY <2>1
  <2>4. Len(columns) = 0 /\ DOMAIN columns = {}
    BY <2>3
  <2>5. rows = {}
    BY <2>4
  <2>6. depth = 0
    <3> HIDE DEF rows
    <3> QED BY <1>4, <2>5
  <2>7. ~has
    BY <1>11, <2>1, <2>2, Zenon DEF EmptyLine
  <2>8. right = 0 /\ wider = 0
    BY <1>8, <1>9, <1>10, <2>2, <2>4 DEF EmptyLine
  <2>9. taller.height = 0 /\ taller.regions = {}
    BY <1>5, <1>7, <2>2, <2>6 DEF EmptyLine
  <2> QED BY <1>14, <2>2, <2>7, <2>8, <2>9 DEF EmptyLine
<1>17. q.line.regions \subseteq p.line.regions
  BY <1>5, <1>7, <1>14
<1>18. Quiet(p, q, filed, committed)
  <2> HIDE DEF rows, depths, data
  <2> QED BY <1>14, <1>15, <1>16, <1>17, LineIsQuiet
<1> QED BY <1>13, <1>18

-----------------------------------------------------------------------------
(* The operations that mark what they print.                               *)

\* A command that marks the roll leaves it on the sheet it found.
Result(p, q, filed, committed) ==
  /\ Good(q, filed, committed)
  /\ q.command = p.command
  /\ Marked(q.roll, q.command) = {} \/ (q.roll.height > 0 /\ q.sheets = p.sheets)

\* A printer about to execute a command that is filed under the current sheet.
Ready(p, filed, committed) ==
  /\ Good(p, filed, committed) /\ Clean(p)
  /\ <<p.command, Len(p.sheets)>> \in filed

LEMMA QuietIsResult ==
  ASSUME NEW p, NEW q, NEW filed, NEW committed, Clean(p), Quiet(p, q, filed, committed)
  PROVE  Result(p, q, filed, committed)
BY DEF Quiet, Result, Clean, Marked

LEMMA ResultWithSettings ==
  ASSUME NEW p, NEW q, NEW r, NEW filed, NEW committed, Result(p, q, filed, committed),
         DOMAIN r = Fields, Settings(r), SamePaper(q, r)
  PROVE  Result(p, r, filed, committed)
<1>1. Good(r, filed, committed)
  BY OnlySettings DEF Result
<1> QED BY <1>1 DEF Result, SamePaper

LEMMA FailedIsResult ==
  ASSUME NEW p, NEW filed, NEW committed, Ready(p, filed, committed)
  PROVE  Result(p, Failed(p), filed, committed)
BY FailedIsQuiet, QuietIsResult DEF Ready

LEMMA FontSizes ==
  ASSUME IsProfile(profile), NEW font \in FontNames
  PROVE  profile.fonts[font].width \in Nat /\ profile.fonts[font].height \in Nat
BY DEF IsProfile, FontNames

LEMMA AdvanceIsNumber ==
  ASSUME IsProfile(profile), NEW p, Settings(p)
  PROVE  Advance(p) \in Nat /\ Font(p).height \in Nat
<1>1. PICK font \in FontNames : font = p.font
  BY DEF Settings
<1>2. profile.fonts[font].width \in Nat /\ profile.fonts[font].height \in Nat
  BY FontSizes
<1>3. PICK width \in Nat, spacing \in Nat, wide \in Nat :
        width = profile.fonts[font].width /\ spacing = p.spacing /\ wide = p.wide
  BY <1>2 DEF Settings
<1>4. (width + spacing) * wide \in Nat
  OBVIOUS
<1> QED BY <1>1, <1>2, <1>3, <1>4 DEF Advance, Font

LEMMA PrintCharacterResult ==
  ASSUME IsProfile(profile), NEW p, NEW filed, NEW committed, Ready(p, filed, committed), NEW byte
  PROVE  Result(p, PrintCharacter(p, byte), filed, committed)
<1>1. PICK q : q = IF p.x + Advance(p) > p.line.width THEN LineFeed(p) ELSE p
  OBVIOUS
<1>2. Quiet(p, q, filed, committed) /\ q.sheets = p.sheets
  BY <1>1, LineFeedQuiet, NothingIsQuiet DEF Ready
<1>3. PICK advance \in Nat : advance = Advance(p)
  BY AdvanceIsNumber DEF Ready, Good
<1>4. PICK height \in Nat : height = Font(p).height * p.tall
  <2>1. PICK a \in Nat, b \in Nat : a = Font(p).height /\ b = p.tall
    BY AdvanceIsNumber DEF Ready, Good, Settings
  <2> QED BY <2>1
<1>5. PICK inked \in Nat :
        inked = IF byte # Space \/ ((p.reversed \/ p.underline > 0) /\ q.x < q.line.width)
                THEN height ELSE 0
  OBVIOUS
<1>6. CASE q.failed
  <2>1. PrintCharacter(p, byte) = q
    BY <1>1, <1>6 DEF PrintCharacter
  <2> QED BY <1>2, <2>1, QuietIsResult DEF Ready
<1>7. CASE ~q.failed
  <2>1. PICK line \in SurfaceSet, x \in Nat, used \in Nat, tall \in Nat, n \in Nat :
          line = q.line /\ x = q.x /\ used = q.used /\ tall = q.lineHeight /\ n = q.command
    BY <1>2 DEF Quiet, Good, PaperTypes
  <2>2. PICK taller \in SurfaceSet : taller = Taller(line, inked) /\ taller.regions = line.regions
    BY TallerSurface
  <2>3. PICK marked : marked = MarkRegion(q, taller, x, 0, advance, height)
    OBVIOUS
  <2>4. /\ marked \in SurfaceSet
        /\ \A r \in marked.regions : r \in line.regions \/ r.command = n
    <3>1. PICK zero \in Int : zero = 0
      OBVIOUS
    <3>2. x \in Int /\ advance \in Int /\ height \in Int /\ q.command \in Nat
      BY <2>1
    <3> QED BY <2>1, <2>2, <2>3, <3>1, <3>2, MarkedSurface
  <2>5. PICK higher \in Nat : higher = Max({tall, height})
    <3>1. tall \in Int /\ height \in Int
      OBVIOUS
    <3>2. Max({tall, height}) \in {tall, height}
      BY <3>1, MaxOfTwo, Zenon
    <3> QED BY <3>2
  <2>6. PICK right \in Nat : right = x + advance
    OBVIOUS
  <2>7. PICK wider \in Nat : wider = Max({used, right})
    <3>1. used \in Int /\ right \in Int
      OBVIOUS
    <3>2. Max({used, right}) \in {used, right}
      BY <3>1, MaxOfTwo, Zenon
    <3> QED BY <3>2
  <2>8. PICK r : r = [q EXCEPT !.line = marked, !.lineHeight = higher, !.x = right,
                               !.used = wider, !.hasData = TRUE, !.atBeginning = FALSE]
    OBVIOUS
  <2>9. PrintCharacter(p, byte) = r
    <3>1. PrintCharacter(p, byte)
            = [q EXCEPT !.line = MarkRegion(q, Taller(@, inked), q.x, 0, advance, height),
                        !.lineHeight = Max({@, height}), !.x = @ + advance,
                        !.used = Max({@, q.x + advance}), !.hasData = TRUE, !.atBeginning = FALSE]
      BY <1>1, <1>3, <1>4, <1>5, <1>7 DEF PrintCharacter
    <3>2. PrintCharacter(p, byte)
            = [q EXCEPT !.line = MarkRegion(q, Taller(q.line, inked), q.x, 0, advance, height),
                        !.lineHeight = Max({q.lineHeight, height}), !.x = q.x + advance,
                        !.used = Max({q.used, q.x + advance}), !.hasData = TRUE,
                        !.atBeginning = FALSE]
      BY <3>1
    <3> QED BY <2>1, <2>2, <2>3, <2>5, <2>6, <2>7, <2>8, <3>2, Zenon
  <2>10. /\ DOMAIN r = Fields /\ Settings(r)
         /\ r.command = n /\ r.sheets = q.sheets /\ r.roll = q.roll /\ r.top = q.top
         /\ r.left = q.left /\ r.line = marked /\ r.x = right /\ r.used = wider
         /\ r.lineHeight = higher /\ r.hasData = TRUE /\ r.atBeginning = FALSE
    BY <1>2, <2>1, <2>8 DEF Quiet, Good, Settings, Fields
  <2>11. r.hasData \in BOOLEAN /\ r.atBeginning \in BOOLEAN
    BY <2>10, Zenon
  <2>12. PaperTypes(r)
    BY <1>2, <2>4, <2>10, <2>11 DEF Quiet, Good, PaperTypes
  <2>13. \A m \in r.line.regions : m \in q.line.regions \/ <<m.command, Len(q.sheets)>> \in filed
    BY <1>2, <2>1, <2>4, <2>10 DEF Ready, Quiet
  <2>14. Good(r, filed, committed)
    BY <1>2, <2>10, <2>12, <2>13, OnTheLine DEF Quiet
  <2>15. Marked(r.roll, r.command) = {}
    BY <1>2, <2>1, <2>10 DEF Ready, Quiet, Clean, Marked
  <2> QED BY <1>2, <2>1, <2>9, <2>10, <2>14, <2>15 DEF Result, Quiet
<1> QED BY <1>6, <1>7

LEMMA PrintByteResult ==
  ASSUME IsProfile(profile), NEW p, NEW filed, NEW committed, Ready(p, filed, committed), NEW byte
  PROVE  Result(p, PrintByte(p, byte), filed, committed)
BY PrintCharacterResult, FailedIsResult DEF PrintByte, Requires

LEMMA PrintDirectlyResult ==
  ASSUME NEW p, NEW filed, NEW committed, Ready(p, filed, committed), p.atBeginning,
         NEW roll \in SurfaceSet, roll.width = p.roll.width, roll.height = p.roll.height,
         p.roll.regions \subseteq roll.regions,
         \A r \in roll.regions : r \in p.roll.regions \/ r.command = p.command,
         NEW nextTop \in Nat, nextTop > 0 \/ roll.regions = p.roll.regions
  PROVE  Result(p, PrintDirectly(p, roll, nextTop), filed, committed)
<1>1. CASE ~ValidRollHeight(p, nextTop)
  <2>1. PrintDirectly(p, roll, nextTop) = Failed(p)
    BY <1>1 DEF PrintDirectly, Requires
  <2> QED BY <2>1, FailedIsResult
<1>2. CASE ValidRollHeight(p, nextTop)
  <2>1. PICK s : s = StartLine(p)
    OBVIOUS
  <2>2. /\ DOMAIN s = Fields
        /\ s.command = p.command /\ s.sheets = p.sheets /\ s.roll = p.roll /\ s.top = p.top
        /\ s.left = p.left /\ s.line = p.line /\ s.lineHeight = p.lineHeight
        /\ s.x = 0 /\ s.used = 0 /\ s.hasData = FALSE /\ s.atBeginning = TRUE
        /\ Settings(s)
    BY <2>1, StartedLine DEF Ready, Good
  <2>3. PICK taller : taller = Taller(roll, nextTop)
    OBVIOUS
  <2>4. /\ taller \in SurfaceSet /\ taller.width = roll.width /\ taller.regions = roll.regions
        /\ taller.height \in {roll.height, nextTop}
        /\ roll.height <= taller.height /\ nextTop <= taller.height
    BY <2>3, TallerSurface
  <2>5. PICK q : q = [s EXCEPT !.roll = taller, !.top = nextTop]
    OBVIOUS
  <2>6. PrintDirectly(p, roll, nextTop) = q
    BY <1>2, <2>1, <2>3, <2>5 DEF PrintDirectly, Requires
  <2>7. /\ DOMAIN q = Fields /\ Settings(q)
        /\ q.command = p.command /\ q.sheets = p.sheets /\ q.roll = taller /\ q.top = nextTop
        /\ q.left = p.left /\ q.line = p.line /\ q.lineHeight = p.lineHeight
        /\ q.x = 0 /\ q.used = 0 /\ q.hasData = FALSE /\ q.atBeginning = TRUE
    BY <2>2, <2>5 DEF Settings, Fields
  <2>8. EmptyLine(p)
    BY DEF Ready, Good
  <2>9. EmptyLine(q)
    BY <2>7, <2>8 DEF EmptyLine
  <2>10. PaperTypes(q)
    <3>1. q.hasData \in BOOLEAN /\ q.atBeginning \in BOOLEAN
      BY <2>7, Zenon
    <3> QED BY <2>4, <2>7, <3>1 DEF Ready, Good, PaperTypes
  <2>11. taller.height <= MaxHeight /\ SheetDots(p.sheets) + Area(taller) <= MaxDots
    <3>1. taller.height <= p.roll.height \/ taller.height <= nextTop
      BY <2>4, SurfaceFields
    <3>2. Good(p, filed, committed) /\ taller.width = p.roll.width
      BY <2>4 DEF Ready
    <3> QED BY <1>2, <2>4, <3>1, <3>2, RollFits
  <2>12. \A r \in q.roll.regions \union q.line.regions : <<r.command, Len(p.sheets)>> \in filed
    BY <2>4, <2>7 DEF Ready, Good, Filed
  <2>13. Good(q, filed, committed)
    <3>1. Good(p, filed, committed)
      BY DEF Ready
    <3>2. p.roll.regions \subseteq q.roll.regions /\ p.roll.height <= q.roll.height
      BY <2>4, <2>7
    <3> QED BY <2>7, <2>9, <2>10, <2>11, <2>12, <3>1, <3>2, OnSameSheet
  <2>14. Marked(q.roll, q.command) = {} \/ q.roll.height > 0
    <3>1. CASE nextTop > 0
      BY <2>4, <2>7, <3>1, SurfaceFields
    <3>2. CASE roll.regions = p.roll.regions
      BY <2>4, <2>7, <3>2 DEF Ready, Clean, Marked
    <3> QED BY <3>1, <3>2
  <2> QED BY <2>6, <2>7, <2>13, <2>14 DEF Result
<1> QED BY <1>1, <1>2

LEMMA StartOnRoll ==
  ASSUME NEW p, NEW filed, NEW committed, Good(p, filed, committed), NEW size \in Nat
  PROVE  p.left + Justified(p, p.line.width, size) \in Nat
<1>1. PICK width \in Nat : width = p.line.width
  BY SurfaceFields DEF Good, PaperTypes
<1>2. Justified(p, width, size) \in Nat
  BY JustifiedIsNumber DEF Good
<1> QED BY <1>1, <1>2 DEF Good, PaperTypes

\* What the command marks is on the roll, from its top on.
LEMMA PrintMarkedResult ==
  ASSUME NEW p, NEW filed, NEW committed, Ready(p, filed, committed), p.atBeginning,
         NEW left \in Nat, NEW kept \in Int, NEW high \in Nat, NEW height \in Nat \ {0}
  PROVE  Result(p, PrintDirectly(p, MarkRegion(p, p.roll, left, p.top, kept, high),
                                 p.top + height), filed, committed)
<1>1. PICK old \in SurfaceSet, top \in Nat : old = p.roll /\ top = p.top
  BY DEF Ready, Good, PaperTypes
<1>2. p.command \in Nat
  BY DEF Ready, Good, PaperTypes
<1>3. PICK roll : roll = MarkRegion(p, old, left, top, kept, high)
  OBVIOUS
<1>4. left \in Int /\ top \in Int /\ high \in Int
  OBVIOUS
<1>5. /\ roll \in SurfaceSet
      /\ roll.width = old.width /\ roll.height = old.height /\ old.regions \subseteq roll.regions
      /\ \A r \in roll.regions : r \in old.regions \/ r.command = p.command
  BY <1>2, <1>3, <1>4, MarkedSurface
<1>6. PICK bottom \in Nat : bottom = top + height /\ bottom > 0
  OBVIOUS
<1>7. Result(p, PrintDirectly(p, roll, bottom), filed, committed)
  BY <1>1, <1>5, <1>6, PrintDirectlyResult
<1> QED BY <1>1, <1>3, <1>6, <1>7

LEMMA PrintRasterImageResult ==
  ASSUME NEW p, NEW filed, NEW committed, Ready(p, filed, committed), p.atBeginning,
         NEW width \in Nat, NEW height \in Nat \ {0}
  PROVE  Result(p, PrintRasterImage(p, width, height), filed, committed)
<1>1. PICK left \in Nat : left = p.left + Justified(p, p.line.width, width)
  BY StartOnRoll DEF Ready
<1>2. PICK area \in Int : area = p.left + p.line.width - left
  BY SurfaceFields DEF Ready, Good, PaperTypes
<1>3. PICK kept \in Int : kept = Min({width, area})
  <2>1. width \in Int
    OBVIOUS
  <2>2. Min({width, area}) \in {width, area}
    BY <2>1, MinOfTwo, Zenon
  <2> QED BY <2>2
<1>4. Result(p, PrintDirectly(p, MarkRegion(p, p.roll, left, p.top, kept, height),
                              p.top + height), filed, committed)
  BY PrintMarkedResult
<1> QED BY <1>1, <1>2, <1>3, <1>4 DEF PrintRasterImage

LEMMA StoreRasterGraphicsQuiet ==
  ASSUME NEW p, NEW filed, NEW committed, Good(p, filed, committed), NEW image \in Image
  PROVE  Quiet(p, StoreRasterGraphics(p, image), filed, committed)
<1>1. PICK q : q = [p EXCEPT !.graphics = {image}]
  OBVIOUS
<1>2. DOMAIN q = Fields /\ Settings(q) /\ SamePaper(p, q)
  BY <1>1 DEF Good, Settings, SamePaper, Fields
<1>3. Quiet(p, q, filed, committed)
  BY <1>2, SettingsAreQuiet
<1> QED BY <1>1, <1>3, FailedIsQuiet DEF StoreRasterGraphics, Requires

LEMMA PrintBufferedGraphicsResult ==
  ASSUME NEW p, NEW filed, NEW committed, Ready(p, filed, committed)
  PROVE  Result(p, PrintBufferedGraphics(p), filed, committed)
<1> DEFINE able == "graphics" \in profile.features /\ p.atBeginning /\ p.graphics # {}
<1>1. CASE ~able
  <2>1. PrintBufferedGraphics(p) = Failed(p)
    BY <1>1 DEF PrintBufferedGraphics, Requires
  <2> QED BY <2>1, FailedIsResult
<1>2. CASE able
  <2>1. PICK image \in Image : image = CHOOSE g \in p.graphics : TRUE
    <3>1. (CHOOSE g \in p.graphics : TRUE) \in p.graphics
      BY <1>2
    <3> QED BY <3>1 DEF Ready, Good, Settings
  <2>2. PICK width \in Nat, height \in Nat \ {0} : width = image.width /\ height = image.height
    BY DEF Image
  <2>3. PICK printed : printed = PrintRasterImage(p, width, height)
    OBVIOUS
  <2>4. Result(p, printed, filed, committed)
    BY <1>2, <2>3, PrintRasterImageResult
  <2>5. PICK q : q = [printed EXCEPT !.graphics = {}]
    OBVIOUS
  <2>6. DOMAIN q = Fields /\ Settings(q) /\ SamePaper(printed, q)
    BY <2>4, <2>5 DEF Result, Good, Settings, SamePaper, Fields
  <2>7. Result(p, q, filed, committed)
    BY <2>4, <2>6, ResultWithSettings
  <2>8. PrintBufferedGraphics(p) = q
    BY <1>2, <2>1, <2>2, <2>3, <2>5 DEF PrintBufferedGraphics, Requires
  <2> QED BY <2>7, <2>8
<1> QED BY <1>1, <1>2

LEMMA PrintBarcodeResult ==
  ASSUME IsProfile(profile), NEW p, NEW filed, NEW committed, Ready(p, filed, committed),
         NEW symbol \in BarcodeSymbol
  PROVE  Result(p, PrintBarcode(p, symbol), filed, committed)
<1>1. PICK bars \in Nat, module \in Nat, least \in Nat, top \in Nat :
        /\ bars = p.barHeight /\ module = p.barModule /\ least = symbol.minimumHeight
        /\ top = p.top
  <2>1. p.barHeight \in Nat /\ p.barModule \in 2..6 /\ p.top \in Nat
    BY DEF Ready, Good, Settings, PaperTypes
  <2>2. symbol.minimumHeight \in Nat
    BY DEF BarcodeSymbol
  <2> QED BY <2>1, <2>2
<1>2. PICK scaled \in Nat : scaled = least * module
  OBVIOUS
<1>3. PICK height \in Nat : height = Max({bars, scaled})
  <2>1. bars \in Int /\ scaled \in Int
    OBVIOUS
  <2>2. Max({bars, scaled}) \in {bars, scaled}
    BY <2>1, MaxOfTwo, Zenon
  <2> QED BY <2>2
<1>4. PICK labels \in Nat : labels = HriLabels(p)
  <2>1. PICK font \in FontNames : font = p.hriFont
    BY DEF Ready, Good, Settings
  <2>2. PICK tall \in Nat : tall = profile.fonts[font].height
    BY FontSizes
  <2>3. PICK lines \in Nat : lines = CASE p.hri = "none" -> 0 [] p.hri = "both" -> 2 [] OTHER -> 1
    OBVIOUS
  <2>4. HriLabels(p) = tall * lines
    BY <2>1, <2>2, <2>3 DEF HriLabels
  <2> QED BY <2>4
<1>5. PICK bottom \in Nat : bottom = top + height + labels
  OBVIOUS
<1>6. p.atBeginning => Result(p, PrintDirectly(p, p.roll, bottom), filed, committed)
  <2> HAVE p.atBeginning
  <2>1. PICK roll \in SurfaceSet : roll = p.roll
    BY DEF Ready, Good, PaperTypes
  <2> QED BY <2>1, PrintDirectlyResult
<1> QED BY <1>1, <1>2, <1>3, <1>4, <1>5, <1>6, FailedIsResult DEF PrintBarcode, Requires

LEMMA StoreQrDataQuiet ==
  ASSUME NEW p, NEW filed, NEW committed, Good(p, filed, committed), NEW data
  PROVE  Quiet(p, StoreQrData(p, data), filed, committed)
<1>1. PICK q : q = [p EXCEPT !.qrData = data]
  OBVIOUS
<1>2. DOMAIN q = Fields /\ Settings(q) /\ SamePaper(p, q)
  BY <1>1 DEF Good, Settings, SamePaper, Fields
<1>3. Quiet(p, q, filed, committed)
  BY <1>2, SettingsAreQuiet
<1> QED BY <1>1, <1>3, FailedIsQuiet DEF StoreQrData, SetQr, Requires

LEMMA SetQrResult ==
  ASSUME NEW p, NEW q, NEW filed, NEW committed, Ready(p, filed, committed),
         Result(p, q, filed, committed)
  PROVE  Result(p, SetQr(p, q), filed, committed)
BY FailedIsResult DEF SetQr, Requires

LEMMA PrintQrResult ==
  ASSUME NEW p, NEW filed, NEW committed, Ready(p, filed, committed), NEW modules \in QrSizes
  PROVE  Result(p, PrintQr(p, modules), filed, committed)
<1>1. PICK module \in Nat \ {0} : module = p.qrModule
  BY DEF Ready, Good, Settings
<1>2. PICK size \in Nat \ {0} : size = modules * module
  <2>1. \A a, b \in Nat \ {0} : a * b \in Nat \ {0}
    OBVIOUS
  <2> QED BY <2>1 DEF QrSizes
<1>3. PICK left \in Nat : left = p.left + Justified(p, p.line.width, size)
  BY StartOnRoll DEF Ready
<1>4. PICK printed :
        printed = PrintDirectly(p, MarkRegion(p, p.roll, left, p.top, size, size), p.top + size)
  OBVIOUS
<1>5. p.atBeginning => Result(p, printed, filed, committed)
  <2>1. size \in Int /\ size \in Nat
    OBVIOUS
  <2> QED BY <1>4, <2>1, PrintMarkedResult
<1> QED BY <1>1, <1>2, <1>3, <1>4, <1>5, FailedIsResult DEF PrintQr, SetQr, Requires

LEMMA DrawerPulseQuiet ==
  ASSUME NEW p, NEW filed, NEW committed, Good(p, filed, committed), NEW connector
  PROVE  Quiet(p, DrawerPulse(p, connector), filed, committed)
<1>1. PICK events : events = p.events + 1
  OBVIOUS
<1>2. PICK q : q = [p EXCEPT !.events = events]
  OBVIOUS
<1>3. DOMAIN q = Fields /\ Settings(q) /\ SamePaper(p, q)
  BY <1>2 DEF Good, Settings, SamePaper, Fields
<1>4. Quiet(p, q, filed, committed)
  BY <1>3, SettingsAreQuiet
<1>5. q = [p EXCEPT !.events = @ + 1]
  BY <1>1, <1>2 DEF Good
<1> QED BY <1>4, <1>5, FailedIsQuiet DEF DrawerPulse, Requires

-----------------------------------------------------------------------------
(* Taking a command apart.                                                 *)

\* A job with a command to come.
Reading == IsProfile(profile) /\ job \in Seq(0..255) /\ offset \in Nat /\ offset < Len(job)

\* A command that does not end the rendering.
Executed(p, done, filed, committed) ==
  \/ done.printer.failed
  \/ done.length \in Nat \ {0} /\ Result(p, done.printer, filed, committed)

LEMMA SettingsResult ==
  ASSUME NEW p, NEW q, NEW filed, NEW committed, Ready(p, filed, committed),
         DOMAIN q = Fields, Settings(q), SamePaper(p, q)
  PROVE  Result(p, q, filed, committed)
BY SettingsAreQuiet, QuietIsResult DEF Ready

LEMMA RefusedIsExecuted ==
  ASSUME NEW p, NEW filed, NEW committed
  PROVE  Executed(p, Refused, filed, committed)
BY DEF Executed, Refused, Done

LEMMA DoneIsExecuted ==
  ASSUME NEW p, NEW q, NEW filed, NEW committed, Result(p, q, filed, committed),
         NEW length \in Nat \ {0}, NEW command
  PROVE  Executed(p, Done(length, q, command), filed, committed)
BY DEF Executed, Done

LEMMA ElementOfJob ==
  ASSUME Reading, NEW k \in 1..Len(job)
  PROVE  job[k] \in 0..255
<1>1. \A S : \A s \in Seq(S) : \A i \in 1..Len(s) : s[i] \in S
  OBVIOUS
<1>2. job \in Seq(0..255)
  BY DEF Reading
<1> QED BY <1>1, <1>2

LEMMA ByteIsNumber ==
  ASSUME Reading, NEW i \in Nat, Has(i + 1)
  PROVE  Byte(i) \in 0..255
<1>1. PICK k \in 1..Len(job) : k = offset + 1 + i
  BY DEF Reading, Has
<1> QED BY <1>1, ElementOfJob DEF Byte

LEMMA WordIsNumber ==
  ASSUME Reading, NEW i \in Nat, Has(i + 2)
  PROVE  Word(i) \in Nat
<1>1. offset \in Nat /\ Len(job) \in Nat
  BY DEF Reading
<1>2. PICK next \in Nat : next = i + 1
  OBVIOUS
<1>3. Has(i + 1) /\ Has(next + 1)
  BY <1>1, <1>2 DEF Has
<1>4. PICK low \in 0..255, high \in 0..255 : low = Byte(i) /\ high = Byte(next)
  BY <1>3, ByteIsNumber
<1> QED BY <1>2, <1>4 DEF Word

LEMMA BytesAreSequence ==
  ASSUME Reading, NEW from \in Nat, NEW to \in Nat, from <= to, Has(to)
  PROVE  LET bytes == Bytes(from, to)
         IN  /\ bytes \in Seq(0..255) /\ Len(bytes) = to - from
             /\ \A i \in 1..(to - from) : bytes[i] \in 0..255
<1>1. PICK first \in Int, last \in Int : first = offset + 1 + from /\ last = offset + to
  BY DEF Reading
<1>2. first \in Nat \ {0} /\ last <= Len(job) /\ last - first + 1 = to - from
  BY <1>1 DEF Reading, Has
<1>3. PICK s, bytes : s = job /\ bytes = SubSeq(s, first, last)
  OBVIOUS
<1>4. \A i \in first..last : s[i] \in 0..255
  <2> TAKE i \in first..last
  <2>1. i \in 1..Len(job)
    BY <1>2 DEF Reading
  <2> QED BY <1>3, <2>1, ElementOfJob
<1>5. PICK S : S = 0..255
  OBVIOUS
<1>6. /\ bytes \in Seq(S)
      /\ Len(bytes) = IF first <= last THEN last - first + 1 ELSE 0
  BY <1>3, <1>4, <1>5, SubSeqProperties
<1>7. Len(bytes) = to - from
  BY <1>2, <1>6
<1>8. \A i \in 1..(to - from) : bytes[i] \in S
  BY <1>6, <1>7
<1>9. Bytes(from, to) = bytes
  BY <1>1, <1>3 DEF Bytes
<1> QED BY <1>5, <1>6, <1>7, <1>8, <1>9

LEMMA PrefixLength ==
  ASSUME NEW bytes, NEW n \in Nat
  PROVE  Len(SubSeq(bytes, 1, n)) = n
<1>1. PICK S : S = {bytes[i] : i \in 1..n}
  OBVIOUS
<1>2. PICK one \in Int : one = 1
  OBVIOUS
<1>3. n \in Int /\ \A i \in one..n : bytes[i] \in S
  BY <1>1, <1>2
<1>4. Len(SubSeq(bytes, one, n)) = IF one <= n THEN n - one + 1 ELSE 0
  BY <1>3, SubSeqProperties
<1> QED BY <1>2, <1>4

LEMMA ChosenDigit ==
  ASSUME NEW n \in Nat, NEW last \in 0..9, IsDigitOf(n, last)
  PROVE  Chosen(n) \in 0..last
BY DEF IsDigitOf, Chosen

\* The values that stay in the profile's own terms.
LEMMA ProfileNumbers ==
  ASSUME Reading
  PROVE  /\ profile.lineSpacing \in Nat /\ profile.columnPitch \in Nat
         /\ profile.unitsX \in Nat \ {0} /\ profile.unitsY \in Nat \ {0}
BY DEF Reading, IsProfile

LEMMA EscDExecuted ==
  ASSUME Reading, NEW p, NEW filed, NEW committed, Ready(p, filed, committed), Has(2)
  PROVE  Executed(p, EscD(p), filed, committed)
<1> DEFINE left == Len(job) - offset - 2
           Ends(n) == \/ n = 32 \/ Byte(2 + n) = 0
                      \/ n > 0 /\ Byte(2 + n) <= Byte(1 + n)
           ends == {n \in 0..Min({left - 1, 32}) : Ends(n)}
<1>1. CASE ends = {}
  BY <1>1, RefusedIsExecuted DEF EscD
<1>2. CASE ends # {}
  <2>1. PICK most \in Int : most = Min({left - 1, 32}) /\ most <= left - 1
    <3>1. PICK rest \in Int : rest = left - 1
      <4>1. Len(job) \in Int /\ offset \in Int
        BY DEF Reading
      <4>2. left - 1 \in Int
        BY <4>1
      <4> HIDE DEF left, Ends, ends
      <4> QED BY <4>2
    <3>2. 32 \in Int
      OBVIOUS
    <3>3. Min({rest, 32}) \in {rest, 32} /\ Min({rest, 32}) <= rest
      BY <3>1, <3>2, MinOfTwo, Zenon
    <3> QED BY <3>1, <3>3
  <2>2. PICK n \in Nat : n = Min(ends) /\ n <= left - 1
    <3>1. ends \in SUBSET Nat /\ \A k \in ends : k <= left - 1
      <4>1. left \in Int
        BY DEF Reading
      <4> HIDE DEF Ends, left
      <4> QED BY <2>1, <4>1
    <3> HIDE DEF ends
    <3>2. Min(ends) \in ends
      BY <1>2, <3>1, MinOfNumbers
    <3> QED BY <3>1, <3>2
  <2>3. PICK columns : columns = Bytes(2, 2 + n)
    OBVIOUS
  <2>4. /\ columns \in Seq(0..255) /\ Len(columns) = n
        /\ \A i \in 1..n : columns[i] \in 0..255
    <3>1. PICK two \in Nat, to \in Nat : two = 2 /\ to = 2 + n
      OBVIOUS
    <3>4. two <= to /\ Has(to)
      <4>1. Len(job) \in Int /\ offset \in Int
        BY DEF Reading
      <4> QED BY <2>2, <3>1, <4>1 DEF Has
    <3> HIDE DEF Ends, left, ends
    <3>2. /\ Bytes(two, to) \in Seq(0..255) /\ Len(Bytes(two, to)) = to - two
          /\ \A i \in 1..(to - two) : Bytes(two, to)[i] \in 0..255
      BY <3>1, <3>4, BytesAreSequence
    <3>3. columns = Bytes(two, to) /\ to - two = n
      BY <2>3, <3>1
    <3> QED BY <3>2, <3>3
  <2>5. PICK tabs : tabs = [i \in DOMAIN columns |-> columns[i] * Advance(p)]
    OBVIOUS
  <2>6. \A i \in DOMAIN tabs : tabs[i] \in Nat
    <3>1. PICK advance \in Nat : advance = Advance(p)
      BY AdvanceIsNumber DEF Reading, Ready, Good
    <3>2. \A i \in DOMAIN columns : columns[i] \in Nat
      <4>1. DOMAIN columns = 1..n
        BY <2>4
      <4>2. \A i \in 1..n : columns[i] \in Nat
        <5>1. \A i \in 1..n : columns[i] \in 0..255
          BY <2>4
        <5>2. 0..255 \subseteq Nat
          OBVIOUS
        <5> QED BY <5>1, <5>2, Zenon
      <4> QED BY <4>1, <4>2, Zenon
    <3> QED BY <2>5, <3>1, <3>2
  <2>7. PICK q : q = [p EXCEPT !.tabs = tabs]
    OBVIOUS
  <2>8. DOMAIN q = Fields /\ Settings(q) /\ SamePaper(p, q)
    BY <2>6, <2>7 DEF Ready, Good, Settings, SamePaper, Fields
  <2>9. Result(p, q, filed, committed)
    BY <2>8, SettingsResult
  <2>10. PICK length \in Nat \ {0} : length = 2 + n + IF Byte(2 + n) = 0 THEN 1 ELSE 0
    OBVIOUS
  <2>11. EscD(p) = Done(length, q, <<"tab_positions", columns>>)
    <3>1. EscD(p) = Done(2 + Len(columns) + IF Byte(2 + Len(columns)) = 0 THEN 1 ELSE 0,
                         SetTabPositions(p, columns), <<"tab_positions", columns>>)
      BY <1>2, <2>2, <2>3 DEF EscD
    <3> QED BY <2>4, <2>5, <2>7, <2>10, <3>1 DEF SetTabPositions
  <2> QED BY <2>9, <2>10, <2>11, DoneIsExecuted
<1> QED BY <1>1, <1>2

LEMMA SettingIsExecuted ==
  ASSUME NEW p, NEW q, NEW filed, NEW committed, Ready(p, filed, committed),
         DOMAIN q = Fields, Settings(q), SamePaper(p, q),
         NEW length \in Nat \ {0}, NEW command
  PROVE  Executed(p, Done(length, q, command), filed, committed)
BY SettingsResult, DoneIsExecuted

LEMMA QuietIsExecuted ==
  ASSUME NEW p, NEW q, NEW filed, NEW committed, Ready(p, filed, committed),
         Quiet(p, q, filed, committed), NEW length \in Nat \ {0}, NEW command
  PROVE  Executed(p, Done(length, q, command), filed, committed)
BY QuietIsResult, DoneIsExecuted DEF Ready

LEMMA EscStarExecuted ==
  ASSUME Reading, NEW p, NEW filed, NEW committed, Ready(p, filed, committed)
  PROVE  Executed(p, EscStar(p), filed, committed)
<1> DEFINE mode == Byte(2)
           size == IF mode \in {0, 1} THEN 1 ELSE 3
           columns == [c \in 1..Word(3) |-> Bytes(5 + (c - 1) * size, 5 + c * size)]
           pitch == IF size = 1 THEN profile.columnPitch ELSE 1
           scale == IF mode \in {0, 32} THEN 2 ELSE 1
           whole == Has(5) /\ Has(5 + Word(3) * size)
           painted == PaintBitImage(p, columns, scale, pitch)
           command == <<"bit_image", mode, Word(3)>>
<1>1. EscStar(p) \in {Refused, Done(5 + Word(3) * size, painted, command)}
  BY DEF EscStar, Whole
<1>2. EscStar(p) # Refused => Has(5)
  BY DEF EscStar
<1>3. ASSUME Has(5) PROVE Executed(p, Done(5 + Word(3) * size, painted, command), filed, committed)
  <2>1. PICK n \in Nat : n = Word(3)
    <3>1. PICK three \in Nat : three = 3
      OBVIOUS
    <3>2. Has(three + 2)
      BY <1>3, <3>1
    <3> QED BY <3>1, <3>2, WordIsNumber
  <2>2. PICK image : image = columns
    <3> HIDE DEF columns
    <3> QED OBVIOUS
  <2>3. Len(image) \in Nat
    <3>1. PICK S : S = {columns[c] : c \in 1..n}
      <4> HIDE DEF columns
      <4> QED OBVIOUS
    <3>2. image \in [1..n -> S]
      BY <2>1, <2>2, <3>1
    <3>3. image \in Seq(S)
      BY <3>2
    <3> QED BY <3>3
  <2>4. PICK distance \in Nat, between \in Nat : distance = scale /\ between = pitch
    <3>1. scale \in Nat
      OBVIOUS
    <3>2. pitch \in Nat
      BY ProfileNumbers
    <3> HIDE DEF scale, pitch
    <3> QED BY <3>1, <3>2
  <2>5. PICK length \in Nat \ {0} : length = 5 + Word(3) * size
    <3>1. 5 + n * size \in Nat \ {0}
      OBVIOUS
    <3> HIDE DEF size
    <3> QED BY <2>1, <3>1
  <2>6. PICK q : q = PaintBitImage(p, image, distance, between)
    OBVIOUS
  <2>7. Quiet(p, q, filed, committed)
    BY <2>3, <2>6, PaintBitImageQuiet DEF Ready
  <2> HIDE DEF columns, scale, pitch, size
  <2> QED BY <2>2, <2>4, <2>5, <2>6, <2>7, QuietIsExecuted
<1> HIDE DEF painted, size, command
<1> QED BY <1>1, <1>2, <1>3, RefusedIsExecuted

LEMMA EscMotionExecuted ==
  ASSUME Reading, NEW p, NEW filed, NEW committed, Ready(p, filed, committed)
  PROVE  Executed(p, EscMotion(p), filed, committed)
<1>1. CASE ~Has(3)
  BY <1>1, RefusedIsExecuted DEF EscMotion
<1>2. CASE Has(3)
  <2>1. PICK n \in Nat : n = Byte(2)
    <3>1. PICK two \in Nat : two = 2 /\ Has(two + 1)
      BY <1>2
    <3>2. Byte(two) \in 0..255
      BY <3>1, ByteIsNumber
    <3> QED BY <3>1, <3>2
  <2>2. Good(p, filed, committed)
    BY DEF Ready
  <2>3. CASE Byte(1) = 97
    <3>1. CASE ~IsDigitOf(n, 2)
      BY <1>2, <2>1, <2>3, <3>1, RefusedIsExecuted DEF EscMotion, Choice
    <3>2. CASE IsDigitOf(n, 2)
      <4>1. Chosen(n) \in 0..2
        <5>1. PICK last \in 0..9 : last = 2
          OBVIOUS
        <5> QED BY <3>2, <5>1, ChosenDigit
      <4>2. PICK j \in {"left", "center", "right"} : j = Justifications[1 + Chosen(n)]
        BY <4>1 DEF Justifications
      <4>3. PICK q : q = [p EXCEPT !.justification = j]
        OBVIOUS
      <4>4. DOMAIN q = Fields /\ Settings(q) /\ SamePaper(p, q)
        BY <2>2, <4>3 DEF Good, Settings, SamePaper, Fields
      <4>5. Quiet(p, SetJustification(p, j), filed, committed)
        BY <2>2, <4>3, <4>4, SettingsAreQuiet, NothingIsQuiet DEF SetJustification
      <4>6. EscMotion(p) = Done(3, SetJustification(p, j), <<"justification", j>>)
        BY <1>2, <2>1, <2>3, <3>2, <4>2 DEF EscMotion, Choice
      <4> QED BY <4>5, <4>6, QuietIsExecuted
    <3> QED BY <3>1, <3>2
  <2>4. CASE Byte(1) = 100
    <3>1. EscMotion(p) = Done(3, FeedLines(p, n), <<"feed_lines", n>>)
      BY <1>2, <2>1, <2>4 DEF EscMotion
    <3>2. Quiet(p, FeedLines(p, n), filed, committed)
      BY <2>2, FeedLinesQuiet
    <3> QED BY <3>1, <3>2, QuietIsExecuted
  <2>5. CASE Byte(1) = 116
    <3>1. PICK q : q = [p EXCEPT !.codePage = n]
      OBVIOUS
    <3>2. DOMAIN q = Fields /\ Settings(q) /\ SamePaper(p, q)
      BY <2>2, <3>1 DEF Good, Settings, SamePaper, Fields
    <3>3. EscMotion(p) \in {Refused, Done(3, q, <<"code_table", n>>)}
      BY <1>2, <2>1, <2>5, <3>1 DEF EscMotion
    <3> QED BY <3>2, <3>3, SettingIsExecuted, RefusedIsExecuted
  <2>6. CASE Byte(1) = 92 /\ Has(4)
    <3>1. PICK position :
            SetRelativePrintPosition(p, Signed(Word(2))) = MoveTo(p, position)
      BY DEF SetRelativePrintPosition
    <3>2. Quiet(p, MoveTo(p, position), filed, committed)
      BY <2>2, MoveToQuiet
    <3>3. EscMotion(p) = Done(4, MoveTo(p, position), <<"relative_position", Word(2)>>)
      BY <1>2, <2>6, <3>1 DEF EscMotion
    <3> QED BY <3>2, <3>3, QuietIsExecuted
  <2>7. CASE Byte(1) = 112 /\ Has(4)
    <3>1. Quiet(p, DrawerPulse(p, n), filed, committed)
      BY <2>2, DrawerPulseQuiet
    <3>2. EscMotion(p) \in {Refused, Done(5, DrawerPulse(p, n), <<"pulse", Chosen(n)>>)}
      BY <1>2, <2>1, <2>7 DEF EscMotion, Whole
    <3> QED BY <3>1, <3>2, QuietIsExecuted, RefusedIsExecuted
  <2>8. CASE ~(Byte(1) = 97 \/ Byte(1) = 100 \/ Byte(1) = 116 \/ (Byte(1) = 92 /\ Has(4))
                \/ (Byte(1) = 112 /\ Has(4)))
    <3>1. EscMotion(p) = Refused
      BY <1>2, <2>8 DEF EscMotion
    <3> QED BY <3>1, RefusedIsExecuted
  <2> QED BY <2>3, <2>4, <2>5, <2>6, <2>7, <2>8
<1> QED BY <1>1, <1>2

LEMMA EscParameterExecuted ==
  ASSUME Reading, NEW p, NEW filed, NEW committed, Ready(p, filed, committed)
  PROVE  Executed(p, EscParameter(p), filed, committed)
<1>1. CASE ~Has(3)
  BY <1>1, RefusedIsExecuted DEF EscParameter
<1>2. CASE Has(3)
  <2> DEFINE code == Byte(1)
             Sets(q) == DOMAIN q = Fields /\ Settings(q) /\ SamePaper(p, q)
  <2>1. PICK n \in Nat : n = Byte(2)
    <3>1. PICK two \in Nat : two = 2 /\ Has(two + 1)
      BY <1>2
    <3>2. Byte(two) \in 0..255
      BY <3>1, ByteIsNumber
    <3> QED BY <3>1, <3>2
  <2>2. Good(p, filed, committed)
    BY DEF Ready
  <2>3. PICK across \in Nat, down \in Nat : across = DotsX(p, n) /\ down = DotsY(p, n)
    BY <2>2, MotionDots DEF Reading, Good
  <2>4. CASE code = 32
    <3>1. PICK q : q = [p EXCEPT !.spacing = across]
      OBVIOUS
    <3>2. Sets(q)
      BY <2>2, <3>1 DEF Good, Settings, SamePaper, Fields
    <3>3. EscParameter(p) = Done(3, q, <<"character_spacing", n>>)
      BY <1>2, <2>1, <2>3, <2>4, <3>1 DEF EscParameter
    <3> QED BY <3>2, <3>3, SettingIsExecuted
  <2>5. CASE code = 33
    <3>1. PICK font \in FontNames, tall \in Nat, wide \in Nat :
            /\ font = IF Bit(n, 0) = 1 THEN "B" ELSE "A"
            /\ tall = 1 + Bit(n, 4) /\ wide = 1 + Bit(n, 5)
      <4>1. Bit(n, 4) \in Nat /\ Bit(n, 5) \in Nat
        <5>1. (n \div 16) % 2 \in Nat /\ (n \div 32) % 2 \in Nat /\ 2^4 = 16 /\ 2^5 = 32
          OBVIOUS
        <5> QED BY <5>1 DEF Bit
      <4>2. (IF Bit(n, 0) = 1 THEN "B" ELSE "A") \in FontNames
        BY DEF FontNames
      <4> QED BY <4>1, <4>2
    <3>2. PICK emphasized, underline : emphasized = (Bit(n, 3) = 1) /\ underline = Bit(n, 7)
      OBVIOUS
    <3>3. PICK q : q = [p EXCEPT !.font = font, !.tall = tall, !.wide = wide,
                                 !.emphasized = emphasized, !.underline = underline]
      OBVIOUS
    <3>4. Sets(q)
      BY <2>2, <3>3 DEF Good, Settings, SamePaper, Fields
    <3>5. SetPrintMode(p, n) = q
      BY <3>1, <3>2, <3>3, Zenon DEF SetPrintMode
    <3>6. EscParameter(p) = Done(3, q, <<"print_mode", n>>)
      BY <1>2, <2>1, <2>5, <3>5 DEF EscParameter
    <3> QED BY <3>4, <3>6, SettingIsExecuted
  <2>6. CASE code = 45
    <3>1. PICK q : q = [p EXCEPT !.underline = Chosen(n)]
      OBVIOUS
    <3>2. Sets(q)
      BY <2>2, <3>1 DEF Good, Settings, SamePaper, Fields
    <3>3. EscParameter(p) \in {Refused, Done(3, q, <<"underline", Chosen(n)>>)}
      BY <1>2, <2>1, <2>6, <3>1 DEF EscParameter, Choice
    <3> QED BY <3>2, <3>3, SettingIsExecuted, RefusedIsExecuted
  <2>7. CASE code = 51
    <3>1. PICK q : q = [p EXCEPT !.lineSpacing = down]
      OBVIOUS
    <3>2. Sets(q)
      BY <2>2, <3>1 DEF Good, Settings, SamePaper, Fields
    <3>3. EscParameter(p) = Done(3, q, <<"line_spacing", n>>)
      BY <1>2, <2>1, <2>3, <2>7, <3>1 DEF EscParameter
    <3> QED BY <3>2, <3>3, SettingIsExecuted
  <2>8. CASE code = 69
    <3>1. PICK q : q = [p EXCEPT !.emphasized = n % 2 = 1]
      OBVIOUS
    <3>2. Sets(q)
      BY <2>2, <3>1 DEF Good, Settings, SamePaper, Fields
    <3>3. EscParameter(p) = Done(3, q, <<"emphasis", n % 2 = 1>>)
      BY <1>2, <2>1, <2>8, <3>1 DEF EscParameter
    <3> QED BY <3>2, <3>3, SettingIsExecuted
  <2>9. CASE code = 74
    <3>1. EscParameter(p) = Done(3, ExecuteEscJ(p, n), <<"feed_paper", n>>)
      BY <1>2, <2>1, <2>9 DEF EscParameter
    <3>2. Quiet(p, ExecuteEscJ(p, n), filed, committed)
      BY <2>2, ExecuteEscJQuiet DEF Reading
    <3> QED BY <3>1, <3>2, QuietIsExecuted
  <2>10. CASE code = 77
    <3>1. CASE ~IsDigitOf(n, 1)
      BY <1>2, <2>1, <2>10, <3>1, RefusedIsExecuted DEF EscParameter, Choice
    <3>2. CASE IsDigitOf(n, 1)
      <4>1. Chosen(n) \in 0..1
        <5>1. PICK last \in 0..9 : last = 1
          OBVIOUS
        <5> QED BY <3>2, <5>1, ChosenDigit
      <4>2. PICK font \in FontNames : font = <<"A", "B">>[1 + Chosen(n)]
        BY <4>1 DEF FontNames
      <4>3. PICK q : q = [p EXCEPT !.font = font]
        OBVIOUS
      <4>4. Sets(q)
        BY <2>2, <4>3 DEF Good, Settings, SamePaper, Fields
      <4>5. EscParameter(p) = Done(3, q, <<"font", Chosen(n)>>)
        BY <1>2, <2>1, <2>10, <3>2, <4>2, <4>3 DEF EscParameter, Choice
      <4> QED BY <4>4, <4>5, SettingIsExecuted
    <3> QED BY <3>1, <3>2
  <2>11. CASE code = 82
    <3>1. PICK q : q = [p EXCEPT !.charset = n]
      OBVIOUS
    <3>2. Sets(q)
      BY <2>2, <3>1 DEF Good, Settings, SamePaper, Fields
    <3>3. EscParameter(p) \in {Refused, Done(3, q, <<"charset", n>>)}
      BY <1>2, <2>1, <2>11, <3>1 DEF EscParameter
    <3> QED BY <3>2, <3>3, SettingIsExecuted, RefusedIsExecuted
  <2>12. CASE code = 36 /\ Has(4)
    <3>1. PICK position : SetAbsolutePrintPosition(p, Word(2)) = MoveTo(p, position)
      BY DEF SetAbsolutePrintPosition
    <3>2. Quiet(p, MoveTo(p, position), filed, committed)
      BY <2>2, MoveToQuiet
    <3>3. EscParameter(p) = Done(4, MoveTo(p, position), <<"position", Word(2)>>)
      BY <1>2, <2>12, <3>1 DEF EscParameter
    <3> QED BY <3>2, <3>3, QuietIsExecuted
  <2>13. CASE ~(code \in {32, 33, 45, 51, 69, 74, 77, 82} \/ (code = 36 /\ Has(4)))
    <3>1. EscParameter(p) = Refused
      BY <1>2, <2>13 DEF EscParameter
    <3> QED BY <3>1, RefusedIsExecuted
  <2> HIDE DEF code
  <2> QED BY <2>4, <2>5, <2>6, <2>7, <2>8, <2>9, <2>10, <2>11, <2>12, <2>13
<1> QED BY <1>1, <1>2

LEMMA EscCommandExecuted ==
  ASSUME Reading, NEW p, NEW filed, NEW committed, Ready(p, filed, committed)
  PROVE  Executed(p, EscCommand(p), filed, committed)
<1>1. CASE ~Has(2)
  BY <1>1, RefusedIsExecuted DEF EscCommand
<1>2. CASE Has(2)
  <2>1. CASE Byte(1) = 64
    <3>1. EscCommand(p) = Done(2, Initialize(p), <<"initialize">>)
      BY <1>2, <2>1 DEF EscCommand
    <3>2. Quiet(p, Initialize(p), filed, committed)
      BY InitializeQuiet DEF Ready, Reading
    <3> QED BY <3>1, <3>2, QuietIsExecuted
  <2>2. CASE Byte(1) = 50
    <3>1. PICK spacing \in Nat : spacing = profile.lineSpacing
      BY ProfileNumbers
    <3>2. PICK q : q = [p EXCEPT !.lineSpacing = spacing]
      OBVIOUS
    <3>3. DOMAIN q = Fields /\ Settings(q) /\ SamePaper(p, q)
      BY <3>2 DEF Ready, Good, Settings, SamePaper, Fields
    <3>4. EscCommand(p) = Done(2, q, <<"default_line_spacing">>)
      BY <1>2, <2>2, <3>1, <3>2 DEF EscCommand
    <3> QED BY <3>3, <3>4, SettingIsExecuted
  <2>3. CASE Byte(1) \notin {64, 50}
    <3>1. EscCommand(p) \in {EscD(p), EscStar(p), EscMotion(p), EscParameter(p)}
      BY <1>2, <2>3 DEF EscCommand
    <3> QED BY <1>2, <3>1, EscDExecuted, EscStarExecuted, EscMotionExecuted, EscParameterExecuted
  <2> QED BY <2>1, <2>2, <2>3
<1> QED BY <1>1, <1>2

\* What `GS k` takes off the job has bytes.
LEMMA FramedLength ==
  ASSUME Reading, Has(3), NEW f \in FunctionA \union FunctionB
  PROVE  f.length \in Nat \ {0}
<1> DEFINE rest == Bytes(3, Len(job) - offset)
           counted == Bytes(4, 4 + Byte(3))
<1>1. offset \in Nat /\ Len(job) \in Nat
  BY DEF Reading
<1>2. CASE f \in FunctionA
  <2> DEFINE ends == {i \in DOMAIN rest : rest[i] = 0} \union
                     IF Byte(2) + 65 = 69 THEN Stops(rest) ELSE {}
  <2>1. PICK s : s = rest
    <3> HIDE DEF rest
    <3> QED OBVIOUS
  <2>2. s \in Seq(0..255)
    <3>1. PICK three \in Nat, to \in Nat : three = 3 /\ to = Len(job) - offset
      <4>1. Len(job) - offset \in Nat
        BY <1>1 DEF Has
      <4> HIDE DEF rest, ends, counted
      <4> QED BY <4>1
    <3>2. three <= to /\ Has(to)
      BY <1>1, <3>1 DEF Has
    <3>3. Bytes(three, to) \in Seq(0..255)
      BY <3>2, BytesAreSequence
    <3> HIDE DEF ends, counted
    <3> QED BY <2>1, <3>1, <3>3
  <2>3. ends \subseteq Nat
    <3>1. Len(s) \in Nat /\ DOMAIN s = 1..Len(s)
      BY <2>2
    <3>2. DOMAIN s \subseteq Nat /\ Stops(s) \subseteq Nat
      BY <3>1 DEF Stops
    <3> HIDE DEF rest
    <3> QED BY <2>1, <3>2
  <2>4. ends # {} /\ f.length = 3 + Min(ends)
    <3> HIDE DEF rest
    <3> QED BY <1>2 DEF FunctionA, rest
  <2>5. Min(ends) \in Nat
    <3> HIDE DEF ends
    <3>1. ends \in SUBSET Nat /\ ends # {}
      BY <2>3, <2>4
    <3> QED BY <3>1, MinOfNumbers
  <2> HIDE DEF ends
  <2> QED BY <2>4, <2>5
<1>3. CASE f \in FunctionB
  <2> DEFINE stops == IF Byte(2) = 69 THEN Stops(counted) ELSE {}
             payload == IF stops = {} THEN counted ELSE SubSeq(counted, 1, Min(stops))
  <2>1. Has(4) /\ Has(4 + Byte(3)) /\ f.length = 4 + Len(payload)
    <3>1. FunctionB = IF /\ Byte(2) \in profile.barcodesB /\ Has(4) /\ Byte(3) <= MaxPayload
                         /\ Has(4 + Byte(3))
                      THEN {[system |-> Byte(2), payload |-> payload, length |-> 4 + Len(payload)]}
                      ELSE {}
      BY DEF FunctionB
    <3> HIDE DEF payload
    <3> QED BY <1>3, <3>1
  <2>2. PICK n \in Nat : n = Byte(3)
    <3>1. PICK three \in Nat : three = 3 /\ Has(three + 1)
      BY <2>1
    <3>2. Byte(three) \in 0..255
      BY <3>1, ByteIsNumber
    <3> QED BY <3>1, <3>2
  <2>3. PICK s : s = counted
    <3> HIDE DEF counted
    <3> QED OBVIOUS
  <2>4. s \in Seq(0..255)
    <3>1. PICK four \in Nat, to \in Nat : four = 4 /\ to = 4 + n
      OBVIOUS
    <3>2. four <= to /\ Has(to)
      BY <2>1, <2>2, <3>1
    <3>3. Bytes(four, to) \in Seq(0..255)
      BY <3>2, BytesAreSequence
    <3> HIDE DEF stops, payload, rest
    <3> QED BY <2>2, <2>3, <3>1, <3>3
  <2>5. Len(s) \in Nat
    BY <2>4
  <2>6. stops \in SUBSET Nat
    <3>1. Stops(s) \subseteq Nat
      BY <2>5 DEF Stops
    <3> HIDE DEF counted
    <3> QED BY <2>3, <3>1
  <2>7. Len(payload) \in Nat
    <3> HIDE DEF counted, stops
    <3>1. CASE stops = {}
      BY <2>3, <2>5, <3>1
    <3>2. CASE stops # {}
      <4>1. PICK m \in Nat : m = Min(stops)
        BY <2>6, <3>2, MinOfNumbers
      <4>2. Len(SubSeq(s, 1, m)) = m
        BY PrefixLength
      <4> QED BY <2>3, <3>2, <4>1, <4>2
    <3> QED BY <3>1, <3>2
  <2> HIDE DEF payload
  <2> QED BY <2>1, <2>7
<1> QED BY <1>2, <1>3

LEMMA GsKExecuted ==
  ASSUME Reading, NEW p, NEW filed, NEW committed, Ready(p, filed, committed), Has(3)
  PROVE  Executed(p, GsK(p), filed, committed)
<1> DEFINE framed == CASE Byte(2) \in 0..6 -> FunctionA
                       [] Byte(2) \in 65..79 -> FunctionB
                       [] OTHER -> {}
           f == CHOOSE f \in framed : TRUE
           odd == Byte(2) = 5 /\ Len(f.payload) % 2 = 1
           payload == IF odd THEN Front(f.payload) ELSE f.payload
           symbols == EncodedBarcode(f.system, payload) \intersect BarcodeSymbol
           symbol == CHOOSE s \in symbols : TRUE
<1>1. framed \subseteq FunctionA \union FunctionB
  OBVIOUS
<1>2. GsK(p) = IF framed = {} \/ Len(f.payload) > MaxPayload \/ symbols = {} THEN Refused
               ELSE Done(f.length, PrintBarcode(p, symbol), <<"barcode", f.system, f.payload>>)
  BY DEF GsK
<1>3. framed # {} => f.length \in Nat \ {0}
  <2> HIDE DEF framed
  <2>1. framed # {} => f \in framed
    OBVIOUS
  <2>2. PICK g : g = f
    <3> HIDE DEF f
    <3> QED OBVIOUS
  <2>3. g \in FunctionA \union FunctionB => g.length \in Nat \ {0}
    BY FramedLength
  <2> HIDE DEF f
  <2> QED BY <1>1, <2>1, <2>2, <2>3
<1>4. symbols # {} => symbol \in BarcodeSymbol
  <2>1. symbols \subseteq BarcodeSymbol
    <3> HIDE DEF f, payload
    <3> QED OBVIOUS
  <2> HIDE DEF symbols
  <2> QED BY <2>1
<1> HIDE DEF framed, f, symbols, symbol
<1>5. symbols # {} => Result(p, PrintBarcode(p, symbol), filed, committed)
  <2>1. \A s \in BarcodeSymbol : Result(p, PrintBarcode(p, s), filed, committed)
    BY PrintBarcodeResult DEF Reading
  <2> QED BY <1>4, <2>1
<1>6. CASE framed = {} \/ Len(f.payload) > MaxPayload \/ symbols = {}
  <2>1. GsK(p) = Refused
    BY <1>2, <1>6
  <2> QED BY <2>1, RefusedIsExecuted
<1>7. CASE ~(framed = {} \/ Len(f.payload) > MaxPayload \/ symbols = {})
  <2>0. PICK length \in Nat \ {0} : length = f.length
    BY <1>3, <1>7
  <2>1. PICK q, c : q = PrintBarcode(p, symbol) /\ c = <<"barcode", f.system, f.payload>>
    OBVIOUS
  <2>2. GsK(p) = Done(length, q, c)
    BY <1>2, <1>7, <2>0, <2>1
  <2>3. Result(p, q, filed, committed)
    BY <1>5, <1>7, <2>1
  <2> QED BY <2>2, <2>3, DoneIsExecuted
<1> QED BY <1>6, <1>7

LEMMA GraphicsExecuted ==
  ASSUME Reading, NEW p, NEW filed, NEW committed, Ready(p, filed, committed),
         NEW header \in Nat \ {0}, NEW length \in Nat, NEW extended
  PROVE  Executed(p, GraphicsFunction(p, header, length, extended), filed, committed)
<1> DEFINE n == Bytes(header, header + length)
           width == n[7] + 256 * n[8]
           height == n[9] + 256 * n[10]
           stores == /\ length >= 10 /\ n[3] = 48 /\ {n[4], n[5]} \subseteq {1, 2} /\ n[6] = 49
                     /\ width > 0 /\ height > 0
                     /\ length - 10 = ((width + 7) \div 8) * height
           image == [width |-> width * n[4], height |-> height * n[5]]
           printed == Done(header + length, PrintBufferedGraphics(p), <<"print_graphics">>)
           stored == Done(header + length, StoreRasterGraphics(p, image),
                          <<"store_graphics", width, height>>)
<1>1. GraphicsFunction(p, header, length, extended) \in {Refused, printed}
        \/ (/\ GraphicsFunction(p, header, length, extended) = stored
            /\ Has(header + length) /\ stores)
  BY DEF GraphicsFunction
<1>2. header + length \in Nat \ {0}
  OBVIOUS
<1>3. Executed(p, printed, filed, committed)
  <2>1. Result(p, PrintBufferedGraphics(p), filed, committed)
    BY PrintBufferedGraphicsResult
  <2> QED BY <1>2, <2>1, DoneIsExecuted
<1>4. ASSUME Has(header + length), stores
      PROVE  Executed(p, stored, filed, committed)
  <2>1. PICK to \in Nat : to = header + length
    BY <1>2
  <2>2. \A i \in 1..length : n[i] \in 0..255
    <3>1. header \in Nat /\ header <= to /\ Has(to) /\ to - header = length
      BY <1>4, <2>1
    <3>2. \A i \in 1..(to - header) : Bytes(header, to)[i] \in 0..255
      BY <3>1, BytesAreSequence
    <3> QED BY <2>1, <3>1, <3>2
  <2>3. length >= 10 /\ {n[4], n[5]} \subseteq {1, 2} /\ width > 0 /\ height > 0
    <3> HIDE DEF n
    <3> QED BY <1>4
  <2> HIDE DEF n
  <2>4. n[7] \in Nat /\ n[8] \in Nat /\ n[9] \in Nat /\ n[10] \in Nat
    <3>1. 7 \in 1..length /\ 8 \in 1..length /\ 9 \in 1..length /\ 10 \in 1..length
      BY <2>3
    <3>2. 0..255 \subseteq Nat
      OBVIOUS
    <3> QED BY <2>2, <3>1, <3>2, Zenon
  <2>5. width \in Nat \ {0} /\ height \in Nat \ {0}
    BY <2>3, <2>4
  <2>6. image \in Image
    <3>1. n[4] \in {1, 2} /\ n[5] \in {1, 2}
      BY <2>3
    <3>2. \A a \in Nat \ {0}, b \in {1, 2} : a * b \in Nat \ {0}
      OBVIOUS
    <3> HIDE DEF width, height
    <3>3. width * n[4] \in Nat \ {0} /\ height * n[5] \in Nat \ {0}
      BY <2>5, <3>1, <3>2
    <3> QED BY <3>3 DEF Image
  <2> HIDE DEF image, width, height
  <2>7. Quiet(p, StoreRasterGraphics(p, image), filed, committed)
    BY <2>6, StoreRasterGraphicsQuiet DEF Ready
  <2> QED BY <1>2, <2>7, QuietIsExecuted
<1> HIDE DEF printed, stored, stores
<1> QED BY <1>1, <1>3, <1>4, RefusedIsExecuted

LEMMA QrExecuted ==
  ASSUME Reading, NEW p, NEW filed, NEW committed, Ready(p, filed, committed), Has(5)
  PROVE  Executed(p, QrFunction(p), filed, committed)
<1>1. PICK length \in Nat : length = Word(3)
  <2>1. PICK three \in Nat : three = 3 /\ Has(three + 2)
    OBVIOUS
  <2> QED BY <2>1, WordIsNumber
<1> DEFINE n == Bytes(5, 5 + length)
           matrix == QrModules(p.qrLevel, p.qrData) \intersect QrSizes
           modules == CHOOSE m \in matrix : TRUE
           Qr(q, command) == Done(5 + length, SetQr(p, q), command)
           answers ==
             { Refused, Qr(p, <<"qr_model", 2>>),
               Qr([p EXCEPT !.qrLevel = QrLevels[n[3] - 47]], <<"qr_level", n[3] - 48>>),
               Qr(StoreQrData(p, SubSeq(n, 4, length)), <<"store_qr", length - 3>>) }
           sized == Qr([p EXCEPT !.qrModule = n[3]], <<"qr_module", n[3]>>)
           printed == Qr(PrintQr(p, modules), <<"qr", p.qrData>>)
<1>2. \/ QrFunction(p) \in answers
      \/ QrFunction(p) = sized /\ n[3] \in 1..16
      \/ QrFunction(p) = printed /\ matrix # {}
  BY <1>1 DEF QrFunction
<1>3. PICK whole \in Nat \ {0} : whole = 5 + length
  OBVIOUS
<1>4. \A q, command : Result(p, q, filed, committed)
                        => Executed(p, Done(whole, SetQr(p, q), command), filed, committed)
  BY SetQrResult, DoneIsExecuted
<1>5. \A done \in answers : Executed(p, done, filed, committed)
  <2>1. Result(p, p, filed, committed)
    BY NothingIsQuiet, QuietIsResult DEF Ready
  <2>2. PICK level : level = QrLevels[n[3] - 47]
    <3> HIDE DEF n
    <3> QED OBVIOUS
  <2>3. Result(p, [p EXCEPT !.qrLevel = level], filed, committed)
    <3>1. PICK q : q = [p EXCEPT !.qrLevel = level]
      OBVIOUS
    <3>2. DOMAIN q = Fields /\ Settings(q) /\ SamePaper(p, q)
      BY <3>1 DEF Ready, Good, Settings, SamePaper, Fields
    <3> QED BY <3>1, <3>2, SettingsResult
  <2>4. PICK data : data = SubSeq(n, 4, length)
    <3> HIDE DEF n
    <3> QED OBVIOUS
  <2>5. Result(p, StoreQrData(p, data), filed, committed)
    BY StoreQrDataQuiet, QuietIsResult DEF Ready
  <2> HIDE DEF n, matrix, modules
  <2> QED BY <1>3, <1>4, <2>1, <2>2, <2>3, <2>4, <2>5, RefusedIsExecuted
<1>6. ASSUME n[3] \in 1..16 PROVE Executed(p, sized, filed, committed)
  <2>1. PICK module \in Nat \ {0} : module = n[3]
    <3> HIDE DEF n
    <3> QED BY <1>6
  <2>2. PICK q : q = [p EXCEPT !.qrModule = module]
    OBVIOUS
  <2>3. DOMAIN q = Fields /\ Settings(q) /\ SamePaper(p, q)
    BY <2>2 DEF Ready, Good, Settings, SamePaper, Fields
  <2>4. Result(p, q, filed, committed)
    BY <2>3, SettingsResult
  <2> HIDE DEF n, answers
  <2> QED BY <1>3, <1>4, <2>1, <2>2, <2>4
<1>7. ASSUME matrix # {} PROVE Executed(p, printed, filed, committed)
  <2>1. modules \in matrix /\ matrix \subseteq QrSizes
    <3>1. matrix \subseteq QrSizes
      OBVIOUS
    <3> HIDE DEF matrix
    <3> QED BY <1>7, <3>1
  <2> HIDE DEF matrix, modules, n, answers
  <2>2. PICK m \in QrSizes : m = modules
    BY <2>1
  <2>3. Result(p, PrintQr(p, m), filed, committed)
    BY PrintQrResult
  <2> QED BY <1>3, <1>4, <2>2, <2>3
<1> HIDE DEF answers, sized, printed, n, matrix
<1> QED BY <1>2, <1>5, <1>6, <1>7

LEMMA GraphicsHeaders ==
  ASSUME Reading, NEW p, NEW filed, NEW committed, Ready(p, filed, committed)
  PROVE  /\ Executed(p, GsParenthesis(p), filed, committed)
         /\ Executed(p, Gs8L(p), filed, committed)
<1>1. PICK three \in Nat, five \in Nat \ {0}, seven \in Nat \ {0} :
        three = 3 /\ five = 5 /\ seven = 7
  OBVIOUS
<1>2. Has(5) \/ Has(7) => Word(three) \in Nat
  <2>1. Has(7) => Has(5)
    BY DEF Has, Reading
  <2>2. Has(5) => Has(three + 2)
    BY <1>1
  <2> QED BY <2>1, <2>2, WordIsNumber
<1>3. \A extended : \A header \in Nat \ {0}, length \in Nat :
        Executed(p, GraphicsFunction(p, header, length, extended), filed, committed)
  BY GraphicsExecuted
<1>4. Has(5) => Executed(p, GraphicsFunction(p, 5, Word(3), FALSE), filed, committed)
  BY <1>1, <1>2, <1>3
<1>5. Has(7) => Executed(p, GraphicsFunction(p, 7, Word(3), TRUE), filed, committed)
  BY <1>1, <1>2, <1>3
<1>6. GsParenthesis(p) = Refused
      \/ (Has(5) /\ GsParenthesis(p) \in {GraphicsFunction(p, 5, Word(3), FALSE), QrFunction(p)})
  BY DEF GsParenthesis
<1>7. Gs8L(p) = Refused \/ (Has(7) /\ Gs8L(p) = GraphicsFunction(p, 7, Word(3), TRUE))
  BY DEF Gs8L
<1>8. Executed(p, GsParenthesis(p), filed, committed)
  BY <1>4, <1>6, QrExecuted, RefusedIsExecuted
<1> QED BY <1>5, <1>7, <1>8, RefusedIsExecuted

LEMMA GsVExecuted ==
  ASSUME Reading, NEW p, NEW filed, NEW committed, Ready(p, filed, committed)
  PROVE  Executed(p, GsV(p), filed, committed)
<1> DEFINE mode == Byte(2)
           kind == IF mode \in {0, 48, 65} THEN "full" ELSE "partial"
           cut == Done(3, Cut(p, kind), <<"cut", kind>>)
           fed == Done(4, FeedToCutPositionAndCut(p, kind, Byte(3)), <<"cut", kind, Byte(3)>>)
<1>1. GsV(p) \in {Refused, cut} \/ (Has(4) /\ GsV(p) = fed)
  BY DEF GsV
<1>2. Executed(p, cut, filed, committed)
  <2> HIDE DEF kind
  <2>1. Quiet(p, Cut(p, kind), filed, committed)
    BY CutQuiet DEF Ready
  <2> QED BY <2>1, QuietIsExecuted
<1>3. ASSUME Has(4) PROVE Executed(p, fed, filed, committed)
  <2>1. PICK n \in Nat : n = Byte(3)
    <3>1. PICK three \in Nat : three = 3 /\ Has(three + 1)
      BY <1>3
    <3>2. Byte(three) \in 0..255
      BY <3>1, ByteIsNumber
    <3> QED BY <3>1, <3>2
  <2> HIDE DEF kind
  <2>2. Quiet(p, FeedToCutPositionAndCut(p, kind, n), filed, committed)
    BY FeedToCutQuiet DEF Ready, Reading
  <2> QED BY <2>1, <2>2, QuietIsExecuted
<1> HIDE DEF cut, fed
<1> QED BY <1>1, <1>2, <1>3, RefusedIsExecuted

LEMMA GsV0Executed ==
  ASSUME Reading, NEW p, NEW filed, NEW committed, Ready(p, filed, committed)
  PROVE  Executed(p, GsV0(p), filed, committed)
<1> DEFINE mode == Byte(3)
           length == Word(4) * Word(6)
           scaleX == 1 + (Chosen(mode) % 2)
           scaleY == 1 + (Chosen(mode) \div 2)
           printed == PrintRasterImage(p, Word(4) * 8 * scaleX, Word(6) * scaleY)
           image == Done(8 + length, [printed EXCEPT !.pendingLf = TRUE],
                         <<"raster_image", Word(4) * 8, Word(6), scaleX, scaleY>>)
<1>1. \/ GsV0(p) \in {Refused, Done(3, p, <<"skipped_raster_image">>)}
      \/ /\ p.atBeginning /\ Has(8) /\ length > 0
         /\ GsV0(p) = image
  BY DEF GsV0, Whole
<1>2. Executed(p, Done(3, p, <<"skipped_raster_image">>), filed, committed)
  BY NothingIsQuiet, QuietIsExecuted DEF Ready
<1>3. ASSUME p.atBeginning, Has(8), length > 0
      PROVE  Executed(p, image, filed, committed)
  <2>1. PICK n \in Nat : n = Byte(3)
    <3>1. PICK three \in Nat : three = 3 /\ Has(three + 1)
      BY <1>3 DEF Has, Reading
    <3>2. Byte(three) \in 0..255
      BY <3>1, ByteIsNumber
    <3> QED BY <3>1, <3>2
  <2>2. PICK bytes \in Nat, rows \in Nat : bytes = Word(4) /\ rows = Word(6)
    <3>1. PICK four \in Nat, six \in Nat : four = 4 /\ six = 6
      OBVIOUS
    <3>2. Has(four + 2) /\ Has(six + 2)
      BY <1>3, <3>1 DEF Has, Reading
    <3>3. Word(four) \in Nat /\ Word(six) \in Nat
      BY <3>2, WordIsNumber
    <3> QED BY <3>1, <3>3
  <2>3. PICK total \in Nat : total = bytes * rows
    OBVIOUS
  <2>4. length = total /\ total > 0
    BY <1>3, <2>2, <2>3
  <2>5. rows # 0
    <3>1. bytes * 0 = 0
      OBVIOUS
    <3> QED BY <2>3, <2>4, <3>1
  <2>6. PICK timesX \in Nat, timesY \in Nat \ {0} : timesX = scaleX /\ timesY = scaleY
    <3>1. n % 48 \in Nat /\ 1 + ((n % 48) % 2) \in Nat /\ 1 + ((n % 48) \div 2) \in Nat \ {0}
      OBVIOUS
    <3>2. scaleX \in Nat /\ scaleY \in Nat \ {0}
      BY <2>1, <3>1 DEF Chosen
    <3> HIDE DEF scaleX, scaleY
    <3> QED BY <3>2
  <2>7. PICK width \in Nat, height \in Nat \ {0} : width = bytes * 8 * timesX /\ height = rows * timesY
    <3>1. \A a, b \in Nat \ {0} : a * b \in Nat \ {0}
      OBVIOUS
    <3>2. rows * timesY \in Nat \ {0}
      BY <2>5, <3>1
    <3>3. bytes * 8 * timesX \in Nat
      OBVIOUS
    <3> QED BY <3>2, <3>3
  <2>8. PICK r : r = PrintRasterImage(p, width, height)
    OBVIOUS
  <2>9. Result(p, r, filed, committed)
    BY <1>3, <2>8, PrintRasterImageResult
  <2>10. PICK q : q = [r EXCEPT !.pendingLf = TRUE]
    OBVIOUS
  <2>11. DOMAIN q = Fields /\ Settings(q) /\ SamePaper(r, q)
    BY <2>9, <2>10 DEF Result, Good, Settings, SamePaper, Fields
  <2>12. Result(p, q, filed, committed)
    BY <2>9, <2>11, ResultWithSettings
  <2>13. 8 + total \in Nat \ {0}
    OBVIOUS
  <2>14. image = Done(8 + total, q, <<"raster_image", Word(4) * 8, Word(6), scaleX, scaleY>>)
    <3>1. printed = r
      <4> HIDE DEF scaleX, scaleY
      <4> QED BY <2>2, <2>6, <2>7, <2>8
    <3> HIDE DEF printed, length, scaleX, scaleY
    <3> QED BY <2>4, <2>10, <3>1
  <2> HIDE DEF image, length, scaleX, scaleY, mode
  <2> QED BY <2>12, <2>13, <2>14, DoneIsExecuted
<1> HIDE DEF image, length
<1> QED BY <1>1, <1>2, <1>3, RefusedIsExecuted

LEMMA GsCommandExecuted ==
  ASSUME Reading, NEW p, NEW filed, NEW committed, Ready(p, filed, committed)
  PROVE  Executed(p, GsCommand(p), filed, committed)
<1>1. CASE ~Has(3)
  BY <1>1, RefusedIsExecuted DEF GsCommand
<1>2. CASE Has(3)
  <2> DEFINE code == Byte(1)
             Sets(q) == DOMAIN q = Fields /\ Settings(q) /\ SamePaper(p, q)
  <2>1. PICK n \in Nat : n = Byte(2)
    <3>1. PICK two \in Nat : two = 2 /\ Has(two + 1)
      BY <1>2
    <3>2. Byte(two) \in 0..255
      BY <3>1, ByteIsNumber
    <3> QED BY <3>1, <3>2
  <2>2. Good(p, filed, committed)
    BY DEF Ready
  <2>3. Has(4) => Word(2) \in Nat
    <3>1. PICK two \in Nat : two = 2 /\ (Has(4) => Has(two + 2))
      BY DEF Has
    <3> QED BY <3>1, WordIsNumber
  <2>4. CASE code \in {40, 56, 107, 86, 118}
    <3>1. GsCommand(p) \in {GsParenthesis(p), Gs8L(p), GsK(p), GsV(p), GsV0(p)}
      BY <1>2, <2>4 DEF GsCommand
    <3> QED BY <1>2, <3>1, GraphicsHeaders, GsKExecuted, GsVExecuted, GsV0Executed
  <2>5. CASE code = 33
    <3>1. PICK tall \in Nat, wide \in Nat :
            tall = 1 + (n % 8) /\ wide = 1 + ((n \div 16) % 8)
      OBVIOUS
    <3>2. PICK q : q = [p EXCEPT !.tall = tall, !.wide = wide]
      OBVIOUS
    <3>3. Sets(q)
      BY <2>2, <3>2 DEF Good, Settings, SamePaper, Fields
    <3>4. GsCommand(p) = Done(3, q, <<"character_size", n>>)
      BY <1>2, <2>1, <2>5, <3>1, <3>2 DEF GsCommand, SetCharacterSize
    <3> QED BY <3>3, <3>4, SettingIsExecuted
  <2>6. CASE code = 66
    <3>1. PICK q : q = [p EXCEPT !.reversed = n % 2 = 1]
      OBVIOUS
    <3>2. Sets(q)
      BY <2>2, <3>1 DEF Good, Settings, SamePaper, Fields
    <3>3. GsCommand(p) = Done(3, q, <<"reverse", n % 2 = 1>>)
      BY <1>2, <2>1, <2>6, <3>1 DEF GsCommand
    <3> QED BY <3>2, <3>3, SettingIsExecuted
  <2>7. CASE code = 72
    <3>1. PICK position : position = HriPositions[1 + Chosen(n)]
      OBVIOUS
    <3>2. PICK q : q = [p EXCEPT !.hri = position]
      OBVIOUS
    <3>3. Sets(q)
      BY <2>2, <3>2 DEF Good, Settings, SamePaper, Fields
    <3>4. GsCommand(p) \in {Refused, Done(3, q, <<"hri", Chosen(n)>>)}
      BY <1>2, <2>1, <2>7, <3>1, <3>2 DEF GsCommand, Choice
    <3> QED BY <3>3, <3>4, SettingIsExecuted, RefusedIsExecuted
  <2>8. CASE code = 102
    <3>1. CASE ~IsDigitOf(n, 1)
      BY <1>2, <2>1, <2>8, <3>1, RefusedIsExecuted DEF GsCommand, Choice
    <3>2. CASE IsDigitOf(n, 1)
      <4>1. Chosen(n) \in 0..1
        <5>1. PICK last \in 0..9 : last = 1
          OBVIOUS
        <5> QED BY <3>2, <5>1, ChosenDigit
      <4>2. PICK font \in FontNames : font = <<"A", "B">>[1 + Chosen(n)]
        BY <4>1 DEF FontNames
      <4>3. PICK q : q = [p EXCEPT !.hriFont = font]
        OBVIOUS
      <4>4. Sets(q)
        BY <2>2, <4>3 DEF Good, Settings, SamePaper, Fields
      <4>5. GsCommand(p) = Done(3, q, <<"hri_font", Chosen(n)>>)
        BY <1>2, <2>1, <2>8, <3>2, <4>2, <4>3 DEF GsCommand, Choice
      <4> QED BY <4>4, <4>5, SettingIsExecuted
    <3> QED BY <3>1, <3>2
  <2>9. CASE code = 104
    <3>1. PICK q : q = [p EXCEPT !.barHeight = n]
      OBVIOUS
    <3>2. Sets(q)
      BY <2>2, <3>1 DEF Good, Settings, SamePaper, Fields
    <3>3. GsCommand(p) \in {Refused, Done(3, q, <<"bar_height", n>>)}
      BY <1>2, <2>1, <2>9, <3>1 DEF GsCommand
    <3> QED BY <3>2, <3>3, SettingIsExecuted, RefusedIsExecuted
  <2>10. CASE code = 119
    <3>1. CASE n \notin 2..6
      BY <1>2, <2>1, <2>10, <3>1, RefusedIsExecuted DEF GsCommand
    <3>2. CASE n \in 2..6
      <4>1. PICK q : q = [p EXCEPT !.barModule = n]
        OBVIOUS
      <4>2. Sets(q)
        BY <2>2, <3>2, <4>1 DEF Good, Settings, SamePaper, Fields
      <4>3. GsCommand(p) = Done(3, q, <<"bar_width", n>>)
        BY <1>2, <2>1, <2>10, <3>2, <4>1 DEF GsCommand
      <4> QED BY <4>2, <4>3, SettingIsExecuted
    <3> QED BY <3>1, <3>2
  <2>11. CASE code = 76 /\ Has(4)
    <3>1. GsCommand(p) = Done(4, SetLeftMargin(p, Word(2)), <<"left_margin", Word(2)>>)
      BY <1>2, <2>11 DEF GsCommand
    <3>2. PICK units \in Nat : units = Word(2)
      BY <2>3, <2>11
    <3>3. Quiet(p, SetLeftMargin(p, units), filed, committed)
      BY <2>2, SetLeftMarginQuiet DEF Reading
    <3> QED BY <3>1, <3>2, <3>3, QuietIsExecuted
  <2>12. CASE code = 80 /\ Has(4)
    <3>1. PICK m \in Nat : m = Byte(3)
      <4>1. PICK three \in Nat : three = 3 /\ Has(three + 1)
        BY <2>12
      <4>2. Byte(three) \in 0..255
        BY <4>1, ByteIsNumber
      <4> QED BY <4>1, <4>2
    <3>2. PICK across \in Nat \ {0}, down \in Nat \ {0} :
            /\ across = IF n = 0 THEN profile.unitsX ELSE n
            /\ down = IF m = 0 THEN profile.unitsY ELSE m
      BY ProfileNumbers
    <3>3. PICK q : q = [p EXCEPT !.unitsX = across, !.unitsY = down]
      OBVIOUS
    <3>4. Sets(q)
      BY <2>2, <3>3 DEF Good, Settings, SamePaper, Fields
    <3>5. GsCommand(p) = Done(4, q, <<"motion_units", n, Byte(3)>>)
      BY <1>2, <2>1, <2>12, <3>1, <3>2, <3>3 DEF GsCommand, SetMotionUnits
    <3> QED BY <3>4, <3>5, SettingIsExecuted
  <2>13. CASE code = 87 /\ Has(4)
    <3>1. GsCommand(p) = Done(4, SetPrintAreaWidth(p, Word(2)), <<"area_width", Word(2)>>)
      BY <1>2, <2>13 DEF GsCommand
    <3>2. PICK units \in Nat : units = Word(2)
      BY <2>3, <2>13
    <3>3. Quiet(p, SetPrintAreaWidth(p, units), filed, committed)
      BY <2>2, SetPrintAreaWidthQuiet DEF Reading
    <3> QED BY <3>1, <3>2, <3>3, QuietIsExecuted
  <2>14. CASE ~(code \in {40, 56, 107, 86, 118, 33, 66, 72, 102, 104, 119}
                 \/ (code \in {76, 80, 87} /\ Has(4)))
    <3>1. GsCommand(p) = Refused
      BY <1>2, <2>14 DEF GsCommand
    <3> QED BY <3>1, RefusedIsExecuted
  <2> HIDE DEF code
  <2> QED BY <2>4, <2>5, <2>6, <2>7, <2>8, <2>9, <2>10, <2>11, <2>12, <2>13, <2>14
<1> QED BY <1>1, <1>2

\* Whatever the next command is.
LEMMA ByteExecuted ==
  ASSUME Reading, NEW p, NEW filed, NEW committed, Ready(p, filed, committed)
  PROVE  /\ Executed(p, Done(1, PrintByte(p, Byte(0)), <<"text", Byte(0)>>), filed, committed)
         /\ Executed(p, Done(1, HorizontalTab(p), <<"tab">>), filed, committed)
         /\ Executed(p, Done(1, LineFeed(p), <<"line_feed">>), filed, committed)
         /\ Executed(p, Done(1, CarriageReturn(p), <<"carriage_return">>), filed, committed)
<1>1. PICK byte : byte = Byte(0)
  OBVIOUS
<1>2. Result(p, PrintByte(p, byte), filed, committed)
  BY PrintByteResult DEF Reading
<1>3. /\ Quiet(p, HorizontalTab(p), filed, committed)
      /\ Quiet(p, LineFeed(p), filed, committed)
      /\ Quiet(p, CarriageReturn(p), filed, committed)
  BY HorizontalTabQuiet, LineFeedQuiet, CarriageReturnQuiet DEF Ready
<1> QED BY <1>1, <1>2, <1>3, DoneIsExecuted, QuietIsExecuted

-----------------------------------------------------------------------------
(* The invariant of the rendering.                                         *)

\* The commands a trace files, under which sheet, and those it tells committed.
FiledBy(entries) == {<<entries[i].from, entries[i].sheet>> : i \in DOMAIN entries}
CommittedBy(entries) ==
  {<<entries[i].from, entries[i].sheet>> : i \in {i \in DOMAIN entries : entries[i].lifecycle = "committed"}}

\* HeldStyle of a trace.
StyleOf(entries) ==
  LET changes == {i \in DOMAIN entries : entries[i].style # {}}
  IN  IF changes = {} THEN {} ELSE entries[Max(changes)].style

EntryFields == {"sheet", "from", "to", "executed", "shown", "lifecycle", "style", "paint"}

\* Every command of the job so far is filed once, and none is bounded yet.
Numbered(entries, end) ==
  /\ entries \in Seq(ToSet(entries))
  /\ \A i \in DOMAIN entries :
       /\ DOMAIN entries[i] = EntryFields
       /\ entries[i].from \in Nat /\ entries[i].from < end /\ entries[i].sheet \in Nat
       /\ entries[i].paint = {}
  /\ \A i, j \in DOMAIN entries : entries[i].from = entries[j].from => i = j

RenderingInv ==
  /\ profile \in Profiles /\ job \in Inputs /\ offset \in Nat
  /\ PaperTypes(printer) /\ (printer.atBeginning => EmptyLine(printer)) /\ Limits(printer)
  /\ outcome # "rendered" => /\ Good(printer, FiledBy(trace), CommittedBy(trace))
                             /\ Numbered(trace, offset)
                             /\ StyleOf(trace) \in {{}, {TextStyle(printer)}}
  /\ TraceTellsPaper

LEMMA HeldStyleIsStyleOf == HeldStyle = StyleOf(trace)
BY DEF HeldStyle, StyleOf

\* An entry tells the style of its command unless a reader holds that style.
TellsStyle(entry, held, style) == entry.style = IF held = {style} THEN {} ELSE {style}

\* A reader of the trace holds the style a command was executed in.
LEMMA StyleAfterEntry ==
  ASSUME NEW S, NEW entries \in Seq(S), NEW entry \in S, NEW style,
         TellsStyle(entry, StyleOf(entries), style)
  PROVE  StyleOf(Append(entries, entry)) = {style}
<1>1. PICK more : more = Append(entries, entry)
  OBVIOUS
<1>2. PICK n \in Nat : n = Len(entries)
  OBVIOUS
<1>3. more = Append(entries, entry) /\ n = Len(entries)
  BY <1>1, <1>2
<1>4. /\ more \in Seq(S) /\ DOMAIN entries = 1..n /\ DOMAIN more = 1..(n + 1)
      /\ more[n + 1] = entry /\ \A i \in 1..n : more[i] = entries[i]
  BY <1>3
<1> DEFINE changes == {i \in DOMAIN entries : entries[i].style # {}}
           changed == {i \in DOMAIN more : more[i].style # {}}
<1>5. PICK bound \in Nat : bound = n + 1
  OBVIOUS
<1>6. changes \in SUBSET Nat /\ \A i \in changes : i <= bound
  BY <1>4, <1>5
<1>7. changed \in SUBSET Nat /\ \A i \in changed : i <= bound
  BY <1>4, <1>5
<1>8. /\ StyleOf(entries) = IF changes = {} THEN {} ELSE entries[Max(changes)].style
      /\ StyleOf(more) = IF changed = {} THEN {} ELSE more[Max(changed)].style
  BY DEF StyleOf
<1>9. CASE StyleOf(entries) = {style}
  <2>1. entry.style = {}
    BY <1>9 DEF TellsStyle
  <2>2. changed = changes
    BY <1>4, <2>1
  <2> HIDE DEF changes, changed
  <2>3. changes # {}
    BY <1>8, <1>9
  <2>4. Max(changes) \in changes
    BY <1>6, <2>3, MaxOfNumbers
  <2>5. Max(changes) \in 1..n
    BY <1>4, <2>4 DEF changes
  <2> QED BY <1>3, <1>4, <1>8, <1>9, <2>2, <2>3, <2>5
<1>10. CASE StyleOf(entries) # {style}
  <2>1. entry.style = {style}
    BY <1>10 DEF TellsStyle
  <2>2. n + 1 \in changed
    BY <1>4, <2>1
  <2> HIDE DEF changes, changed
  <2>3. Max(changed) \in changed /\ \A i \in changed : i <= Max(changed)
    BY <1>7, <2>2, MaxOfNumbers
  <2>4. Max(changed) = n + 1
    <3>1. PICK last : last = Max(changed)
      OBVIOUS
    <3>2. last \in changed /\ n + 1 <= last
      BY <2>2, <2>3, <3>1
    <3>3. last \in Nat /\ last <= n + 1
      BY <1>7, <1>5, <3>2
    <3> QED BY <3>1, <3>2, <3>3
  <2> QED BY <1>3, <1>4, <1>8, <2>1, <2>2, <2>4
<1> QED BY <1>9, <1>10

\* A good printer is good for more filed commands.
LEMMA MoreFiled ==
  ASSUME NEW p, NEW filed, NEW more, NEW committed, Good(p, filed, committed), filed \subseteq more
  PROVE  Good(p, more, committed)
BY DEF Good, Filed

LEMMA EntryIsFiled ==
  ASSUME NEW entries, entries \in Seq(ToSet(entries)), NEW entry
  PROVE  /\ FiledBy(Append(entries, entry)) = FiledBy(entries) \union {<<entry.from, entry.sheet>>}
         /\ CommittedBy(Append(entries, entry))
              = CommittedBy(entries) \union
                IF entry.lifecycle = "committed" THEN {<<entry.from, entry.sheet>>} ELSE {}
<1>1. PICK more : more = Append(entries, entry)
  OBVIOUS
<1>2. PICK n \in Nat : n = Len(entries)
  OBVIOUS
<1>3. more = Append(entries, entry) /\ n = Len(entries)
  BY <1>1, <1>2
<1>4. /\ DOMAIN entries = 1..n /\ DOMAIN more = 1..(n + 1)
      /\ more[n + 1] = entry /\ \A i \in 1..n : more[i] = entries[i]
  <2>1. PICK S : S = ToSet(entries) \union {entry}
    OBVIOUS
  <2>2. entries \in Seq(S) /\ entry \in S
    <3>1. ToSet(entries) \subseteq S
      BY <2>1
    <3> QED BY <2>1, <3>1
  <2> QED BY <1>3, <2>2
<1>5. FiledBy(more) = FiledBy(entries) \union {<<entry.from, entry.sheet>>}
  BY <1>4 DEF FiledBy
<1>6. CommittedBy(more)
        = CommittedBy(entries) \union
          IF entry.lifecycle = "committed" THEN {<<entry.from, entry.sheet>>} ELSE {}
  BY <1>4 DEF CommittedBy
<1> QED BY <1>3, <1>5, <1>6

LEMMA EntryIsNumbered ==
  ASSUME NEW entries, NEW from \in Nat, Numbered(entries, from), NEW entry, NEW length \in Nat \ {0},
         DOMAIN entry = EntryFields, entry.from = from, entry.sheet \in Nat, entry.paint = {}
  PROVE  Numbered(Append(entries, entry), from + length)
<1>1. PICK more : more = Append(entries, entry)
  OBVIOUS
<1>2. PICK n \in Nat : n = Len(entries)
  BY DEF Numbered
<1>3. more = Append(entries, entry) /\ n = Len(entries)
  BY <1>1, <1>2
<1>4. PICK S : S = ToSet(entries) \union {entry}
  OBVIOUS
<1>5. entries \in Seq(S) /\ entry \in S
  <2>1. ToSet(entries) \subseteq S
    BY <1>4
  <2> QED BY <1>4, <2>1 DEF Numbered
<1>6. /\ more \in Seq(S) /\ Len(more) = n + 1
      /\ DOMAIN entries = 1..n /\ DOMAIN more = 1..(n + 1)
      /\ more[n + 1] = entry /\ \A i \in 1..n : more[i] = entries[i]
  BY <1>3, <1>5
<1>7. more \in Seq(ToSet(more))
  <2>1. more \in [1..(n + 1) -> ToSet(more)]
    BY <1>6 DEF ToSet
  <2> QED BY <2>1
<1>8. \A i \in DOMAIN more :
        /\ DOMAIN more[i] = EntryFields
        /\ more[i].from \in Nat /\ more[i].from < from + length /\ more[i].sheet \in Nat
        /\ more[i].paint = {}
  <2> TAKE i \in DOMAIN more
  <2>1. CASE i = n + 1
    BY <1>6, <2>1
  <2>2. CASE i \in 1..n
    <3>1. /\ DOMAIN entries[i] = EntryFields
          /\ entries[i].from \in Nat /\ entries[i].from < from /\ entries[i].sheet \in Nat
          /\ entries[i].paint = {}
      BY <1>6, <2>2 DEF Numbered
    <3> QED BY <1>6, <2>2, <3>1
  <2> QED BY <1>6, <2>1, <2>2
<1>9. \A i, j \in DOMAIN more : more[i].from = more[j].from => i = j
  <2>1. \A i \in 1..n : more[i].from \in Nat /\ more[i].from < from
    BY <1>6 DEF Numbered
  <2>2. \A i, j \in 1..n : more[i].from = more[j].from => i = j
    BY <1>6 DEF Numbered
  <2>3. more[n + 1].from = from
    BY <1>6
  <2>4. \A i \in DOMAIN more : i \in 1..n \/ i = n + 1
    BY <1>6
  <2> QED BY <2>1, <2>2, <2>3, <2>4
<1> QED BY <1>3, <1>7, <1>8, <1>9 DEF Numbered

-----------------------------------------------------------------------------
(* A command keeps the invariant.                                          *)

\* With the command at hand, which is filed under the current sheet.
FiledNow == FiledBy(trace) \union {<<offset, Len(printer.sheets)>>}

LEMMA MoreKept ==
  ASSUME NEW p, NEW filed, NEW committed, NEW more, Good(p, filed, committed), Kept(p, more)
  PROVE  Good(p, filed, committed \union more)
BY DEF Good, Kept

LEMMA AddressedIsReady ==
  ASSUME RenderingInv, outcome = "rendering", offset < Len(job)
  PROVE  Reading /\ Ready(Addressed, FiledNow, CommittedBy(trace))
<1>1. Reading
  BY ProfilesAssumption, InputsAssumption DEF RenderingInv, Reading
<1>2. PICK filed, committed : filed = FiledBy(trace) /\ committed = CommittedBy(trace)
  OBVIOUS
<1>3. Good(printer, filed, committed) /\ Numbered(trace, offset) /\ offset \in Nat
  BY <1>2 DEF RenderingInv
<1>4. PICK pending : pending = (printer.pendingLf /\ Byte(0) = 10)
  OBVIOUS
<1>5. PICK p : p = [printer EXCEPT !.command = offset, !.pendingLf = pending]
  OBVIOUS
<1>6. Addressed = p
  <2>1. Addressed = [printer EXCEPT !.command = offset,
                                    !.pendingLf = (printer.pendingLf /\ Byte(0) = 10)]
    BY Zenon DEF Addressed
  <2> QED BY <1>4, <1>5, <2>1, Zenon
<1>7. /\ DOMAIN p = Fields /\ Settings(p) /\ p.command = offset
      /\ p.sheets = printer.sheets /\ p.roll = printer.roll /\ p.top = printer.top
      /\ p.left = printer.left /\ p.line = printer.line /\ p.x = printer.x
      /\ p.used = printer.used /\ p.lineHeight = printer.lineHeight
      /\ p.hasData = printer.hasData /\ p.atBeginning = printer.atBeginning
  BY <1>3, <1>5 DEF Good, Settings, Fields
<1>8. Good(p, filed, committed)
  <2>1. PaperTypes(p) /\ (p.atBeginning => EmptyLine(p)) /\ Limits(p)
    BY <1>3, <1>7 DEF Good, PaperTypes, EmptyLine, Limits
  <2>2. Filed(p, filed) /\ Kept(p, committed)
    BY <1>3, <1>7 DEF Good, Filed, Kept
  <2> QED BY <1>7, <2>1, <2>2 DEF Good
<1>9. Clean(p)
  <2>1. \A r \in p.roll.regions \union p.line.regions : <<r.command, Len(p.sheets)>> \in filed
    BY <1>8 DEF Good, Filed
  <2>2. \A from, sheet : <<from, sheet>> \in filed => from \in Nat /\ from < offset
    BY <1>2, <1>3 DEF FiledBy, Numbered
  <2>3. \A r \in p.roll.regions \union p.line.regions : r.command \in Nat /\ r.command < offset
    BY <2>1, <2>2
  <2> QED BY <1>3, <1>7, <2>3 DEF Clean
<1>10. filed \subseteq FiledNow /\ <<p.command, Len(p.sheets)>> \in FiledNow
  BY <1>2, <1>7 DEF FiledNow
<1>11. Ready(p, FiledNow, committed)
  BY <1>8, <1>9, <1>10, MoreFiled DEF Ready
<1> QED BY <1>1, <1>2, <1>6, <1>11

\* The new entry of the trace, and what it tells of paper.
IsEntryOf(entry, q) ==
  /\ DOMAIN entry = EntryFields /\ entry.from = offset /\ entry.sheet = Len(printer.sheets)
  /\ entry.paint = {}
  /\ TellsStyle(entry, HeldStyle, TextStyle(q))
  /\ entry.lifecycle = "committed" => Marked(q.roll, offset) # {}

LEMMA EntryOfCommand ==
  ASSUME NEW q, NEW length, NEW command, NEW entry, entry = TraceEntry(q, length, command)
  PROVE  IsEntryOf(entry, q)
<1>1. PICK life : life = Lifecycle(q, offset)
  OBVIOUS
<1>2. life = "committed" => Marked(q.roll, offset) # {}
  <2>1. CASE Marked(q.roll, offset) # {}
    BY <2>1
  <2>2. CASE Marked(q.roll, offset) = {} /\ Marked(q.line, offset) # {}
    BY <1>1, <2>2 DEF Lifecycle
  <2>3. CASE Marked(q.roll, offset) = {} /\ Marked(q.line, offset) = {}
    BY <1>1, <2>3 DEF Lifecycle
  <2> QED BY <2>1, <2>2, <2>3
<1>3. PICK style : style = IF HeldStyle = {TextStyle(q)} THEN {} ELSE {TextStyle(q)}
  OBVIOUS
<1>4. PICK shown : shown = Description(command, Bytes(0, length))
  OBVIOUS
<1>5. entry = [ sheet |-> Len(printer.sheets), from |-> offset, to |-> offset + length,
                executed |-> command, shown |-> shown, lifecycle |-> life, style |-> style,
                paint |-> {} ]
  BY <1>1, <1>3, <1>4 DEF TraceEntry
<1>6. /\ DOMAIN entry = EntryFields /\ entry.from = offset /\ entry.sheet = Len(printer.sheets)
      /\ entry.paint = {} /\ entry.style = style /\ entry.lifecycle = life
  BY <1>5 DEF EntryFields
<1>7. TellsStyle(entry, HeldStyle, TextStyle(q))
  BY <1>3, <1>6 DEF TellsStyle
<1> QED BY <1>1, <1>2, <1>6, <1>7 DEF IsEntryOf

LEMMA StepsKeepInv ==
  ASSUME RenderingInv, outcome = "rendering", offset < Len(job),
         NEW done, Executed(Addressed, done, FiledNow, CommittedBy(trace)), Steps(done)
  PROVE  RenderingInv'
<1>1. profile' = profile /\ job' = job
  BY DEF Steps
<1>2. CASE done.printer.failed
  <2>1. outcome' = "failed" /\ offset' = offset /\ printer' = printer /\ trace' = trace
    BY <1>2 DEF Steps, Fails
  <2>2. TraceTellsPaper'
    BY <2>1 DEF TraceTellsPaper
  <2> QED BY <1>1, <2>1, <2>2 DEF RenderingInv
<1>3. CASE ~done.printer.failed
  <2>1. PICK q, length, command, entry :
          /\ q = done.printer /\ length = done.length /\ command = done.command
          /\ entry = TraceEntry(q, length, command)
    OBVIOUS
  <2>2. /\ offset' = offset + length /\ printer' = q /\ trace' = Append(trace, entry)
        /\ outcome' = outcome
    BY <1>3, <2>1 DEF Steps
  <2>3. PICK p : p = Addressed
    OBVIOUS
  <2>4. PICK filed, committed, more : /\ filed = FiledNow /\ committed = CommittedBy(trace)
                                      /\ more = IF entry.lifecycle = "committed"
                                                THEN {<<entry.from, entry.sheet>>} ELSE {}
    OBVIOUS
  <2>5. length \in Nat \ {0} /\ Result(p, q, filed, committed)
    BY <1>3, <2>1, <2>3, <2>4 DEF Executed
  <2>6. p.command = offset /\ p.sheets = printer.sheets
    <3>1. Good(printer, FiledBy(trace), CommittedBy(trace))
      BY DEF RenderingInv
    <3> QED BY <2>3, <3>1 DEF Addressed, Good, Fields
  <2>7. /\ DOMAIN entry = EntryFields /\ entry.from = offset /\ entry.sheet = Len(printer.sheets)
        /\ entry.paint = {}
        /\ TellsStyle(entry, HeldStyle, TextStyle(q))
        /\ entry.lifecycle = "committed" => Marked(q.roll, offset) # {}
    BY <2>1, EntryOfCommand DEF IsEntryOf
  <2>8. Numbered(trace, offset) /\ trace \in Seq(ToSet(trace)) /\ offset \in Nat
    BY DEF RenderingInv, Numbered
  <2>9. FiledBy(trace') = filed /\ CommittedBy(trace') = committed \union more
    BY <2>2, <2>4, <2>7, <2>8, EntryIsFiled DEF FiledNow
  <2>10. Good(q, filed, committed \union more)
    <3>1. Kept(q, more)
      <4>1. CASE entry.lifecycle = "committed"
        <5>1. Marked(q.roll, offset) # {} /\ q.command = offset
          BY <2>5, <2>6, <2>7, <4>1 DEF Result
        <5>2. q.roll.height > 0 /\ q.sheets = printer.sheets
          BY <2>5, <2>6, <5>1 DEF Result
        <5> QED BY <2>4, <2>7, <5>1, <5>2 DEF Kept
      <4>2. CASE entry.lifecycle # "committed"
        BY <2>4, <4>2 DEF Kept
      <4> QED BY <4>1, <4>2
    <3> QED BY <2>5, <3>1, MoreKept DEF Result
  <2>11. Numbered(trace, offset)'
    <3>1. entry.sheet \in Nat
      <4>1. printer.sheets \in Sheets
        BY DEF RenderingInv, PaperTypes
      <4> QED BY <2>7, <4>1 DEF Sheets
    <3>2. Numbered(Append(trace, entry), offset + length)
      BY <2>5, <2>7, <2>8, <3>1, EntryIsNumbered
    <3> QED BY <2>2, <3>2
  <2>12. StyleOf(trace') = {TextStyle(q)}
    <3>1. PICK style, held : style = TextStyle(q) /\ held = HeldStyle
      OBVIOUS
    <3>2. PICK S : S = ToSet(trace) \union {entry}
      OBVIOUS
    <3>3. trace \in Seq(S) /\ entry \in S
      <4>1. ToSet(trace) \subseteq S
        BY <3>2
      <4> QED BY <2>8, <3>2, <4>1
    <3>4. TellsStyle(entry, StyleOf(trace), style)
      BY <2>7, <3>1, HeldStyleIsStyleOf
    <3>5. StyleOf(Append(trace, entry)) = {style}
      BY <3>3, <3>4, StyleAfterEntry
    <3> QED BY <2>2, <3>1, <3>5
  <2>13. TraceTellsPaper'
    BY <2>2 DEF TraceTellsPaper
  <2>14. PaperTypes(q) /\ (q.atBeginning => EmptyLine(q)) /\ Limits(q)
    BY <2>10 DEF Good
  <2>15. offset' \in Nat /\ profile \in Profiles /\ job \in Inputs
    BY <2>2, <2>5, <2>8 DEF RenderingInv
  <2>16. Good(printer', FiledBy(trace'), CommittedBy(trace'))
    BY <2>2, <2>9, <2>10
  <2>17. StyleOf(trace') \in {{}, {TextStyle(printer')}}
    BY <2>2, <2>12
  <2> QED BY <1>1, <2>2, <2>11, <2>13, <2>14, <2>15, <2>16, <2>17 DEF RenderingInv
<1> QED BY <1>2, <1>3

-----------------------------------------------------------------------------
(* The trace of a finished job tells its paper.                            *)

LEMMA ImageIsFinite ==
  ASSUME NEW S, IsFiniteSet(S), NEW f, DOMAIN f = S
  PROVE  IsFiniteSet({f[s] : s \in S})
<1>1. PICK image : image = {f[s] : s \in S}
  OBVIOUS
<1>2. PICK g \in Surjection(S, image) : TRUE
  <2>1. [s \in S |-> f[s]] \in Surjection(S, image)
    BY <1>1 DEF Surjection
  <2> QED BY <2>1
<1> QED BY <1>1, <1>2, FS_Surjection

LEMMA BoundsHold ==
  ASSUME NEW regions \in SUBSET Region, IsFiniteSet(regions), regions # {}
  PROVE  \A r \in regions : r.y >= Bounds(regions).top /\ r.x + r.width <= Bounds(regions).right
<1>1. \A r \in regions : r.x \in Int /\ r.y \in Int /\ r.width \in Int
  BY DEF Region
<1>2. PICK f, g : f = [r \in regions |-> r.y] /\ g = [r \in regions |-> r.x + r.width]
  OBVIOUS
<1>3. PICK tops, rights : /\ tops = {f[r] : r \in regions}
                          /\ rights = {g[r] : r \in regions}
  OBVIOUS
<1>4. IsFiniteSet(tops) /\ IsFiniteSet(rights)
  <2>1. DOMAIN f = regions /\ DOMAIN g = regions
    BY <1>2
  <2> QED BY <1>3, <2>1, ImageIsFinite
<1>5. tops = {r.y : r \in regions} /\ rights = {r.x + r.width : r \in regions}
  BY <1>2, <1>3
<1>6. tops \in SUBSET Int /\ rights \in SUBSET Int /\ tops # {} /\ rights # {}
  BY <1>1, <1>5
<1>7. /\ Min(tops) \in Int /\ \A k \in tops : Min(tops) <= k
      /\ \A k \in rights : k <= Max(rights)
  BY <1>4, <1>6, LowestAndHighest
<1>8. PICK left, bottom, top, right :
        /\ left = Min({r.x : r \in regions}) /\ bottom = Max({r.y + r.height : r \in regions})
        /\ top = Min(tops) /\ right = Max(rights)
  OBVIOUS
<1>9. Bounds(regions) = [left |-> left, right |-> right, top |-> top, bottom |-> bottom]
  BY <1>5, <1>8 DEF Bounds
<1>10. \A r \in regions : r.y >= top /\ r.x + r.width <= right
  <2> TAKE r \in regions
  <2>1. r.y \in tops /\ r.x + r.width \in rights
    BY <1>5
  <2>2. Min(tops) <= r.y /\ r.x + r.width <= Max(rights)
    BY <1>7, <2>1
  <2>3. PICK y \in Int, low \in Int : y = r.y /\ low = top
    BY <1>1, <1>7, <1>8
  <2> QED BY <1>8, <2>2, <2>3
<1> QED BY <1>9, <1>10

\* What a command marked is on the sheet its entry is filed under.
OnPaper(entry, surfaces) ==
  entry.sheet + 1 \in DOMAIN surfaces /\ Marked(surfaces[entry.sheet + 1], entry.from) # {}

LEMMA FinishedEntry ==
  ASSUME NEW surfaces \in Sheets, NEW entry, DOMAIN entry = EntryFields, entry.sheet \in Nat,
         entry.paint = {}, NEW f, f = Finished(entry, surfaces)
  PROVE  /\ f.from = entry.from /\ f.sheet = entry.sheet /\ f.style = entry.style
         /\ OnPaper(entry, surfaces) => f.lifecycle = "committed"
         /\ ~OnPaper(entry, surfaces) => f.lifecycle = entry.lifecycle
         /\ OnPaper(entry, surfaces) =>
              \A b \in f.paint : \A r \in Marked(surfaces[entry.sheet + 1], entry.from) :
                r.y >= b.top /\ r.x + r.width <= b.right
<1>1. entry.sheet + 1 \in DOMAIN surfaces <=> entry.sheet < Len(surfaces)
  BY DEF Sheets
<1>2. CASE ~OnPaper(entry, surfaces)
  <2>1. f = entry
    <3>1. CASE entry.sheet < Len(surfaces)
      <4>1. Marked(surfaces[entry.sheet + 1], entry.from) = {}
        BY <1>1, <1>2, <3>1 DEF OnPaper
      <4> QED BY <3>1, <4>1 DEF Finished
    <3>2. CASE ~(entry.sheet < Len(surfaces))
      BY <3>2 DEF Finished
    <3> QED BY <3>1, <3>2
  <2> QED BY <1>2, <2>1
<1>3. CASE OnPaper(entry, surfaces)
  <2>1. PICK marked : marked = Marked(surfaces[entry.sheet + 1], entry.from)
    OBVIOUS
  <2>2. entry.sheet < Len(surfaces) /\ marked # {}
    BY <1>1, <1>3, <2>1 DEF OnPaper
  <2>3. PICK bounds : bounds = Bounds(marked)
    OBVIOUS
  <2>4. f = [entry EXCEPT !.lifecycle = "committed", !.paint = {bounds}]
    BY <2>1, <2>2, <2>3 DEF Finished
  <2>5. /\ f.from = entry.from /\ f.sheet = entry.sheet /\ f.style = entry.style
        /\ f.lifecycle = "committed" /\ f.paint = {bounds}
    BY <2>4 DEF EntryFields
  <2>6. PICK s \in SurfaceSet : s = surfaces[entry.sheet + 1]
    BY <1>3 DEF OnPaper, Sheets
  <2>7. IsFiniteSet(s.regions) /\ s.regions \in SUBSET Region
    BY SurfaceFields
  <2>8. marked \subseteq s.regions
    BY <2>1, <2>6 DEF Marked
  <2>9. IsFiniteSet(marked) /\ marked \in SUBSET Region
    <3>1. PICK regions : regions = s.regions
      OBVIOUS
    <3> QED BY <2>7, <2>8, <3>1, FS_Subset
  <2>10. \A r \in marked : r.y >= bounds.top /\ r.x + r.width <= bounds.right
    BY <2>2, <2>3, <2>9, BoundsHold
  <2> QED BY <1>3, <2>1, <2>5, <2>10
<1> QED BY <1>2, <1>3

\* A trace that tells the paper: what was marked, and only that, is committed.
Tells(entries, surfaces) ==
  /\ \A i \in DOMAIN entries :
       (entries[i].lifecycle = "committed")
         <=> (\E s \in DOMAIN surfaces : Marked(surfaces[s], entries[i].from) # {})
  /\ \A s \in DOMAIN surfaces : \A r \in surfaces[s].regions :
       \E i \in DOMAIN entries :
         /\ entries[i].from = r.command /\ entries[i].sheet = s - 1
         /\ \A b \in entries[i].paint : r.y >= b.top /\ r.x + r.width <= b.right

LEMMA SurfacesOfGood ==
  ASSUME NEW p, NEW filed, NEW committed, Good(p, filed, committed),
         \A c \in committed : c[2] \in Nat,
         NEW surfaces, surfaces = Surfaces(p)
  PROVE  /\ surfaces \in Sheets
         /\ \A k \in DOMAIN surfaces : \A r \in surfaces[k].regions : <<r.command, k - 1>> \in filed
         /\ \A c \in committed : /\ c[2] + 1 \in DOMAIN surfaces
                                 /\ Marked(surfaces[c[2] + 1], c[1]) # {}
<1>1. PICK sheets \in Sheets, roll \in SurfaceSet : sheets = p.sheets /\ roll = p.roll
  BY DEF Good, PaperTypes
<1>2. PICK n \in Nat : n = Len(sheets)
  BY DEF Sheets
<1>3. /\ \A i \in DOMAIN sheets : \A r \in sheets[i].regions : <<r.command, i - 1>> \in filed
      /\ \A r \in roll.regions : <<r.command, n>> \in filed
      /\ \A c \in committed :
           \/ c[2] + 1 \in DOMAIN sheets /\ Marked(sheets[c[2] + 1], c[1]) # {}
           \/ c[2] = n /\ Marked(roll, c[1]) # {} /\ roll.height > 0
  BY <1>1, <1>2 DEF Good, Filed, Kept
<1>4. CASE roll.height > 0
  <2>1. surfaces = Append(sheets, roll)
    BY <1>1, <1>4 DEF Surfaces
  <2>2. surfaces \in Sheets
    BY <2>1 DEF Sheets
  <2>3. /\ DOMAIN sheets = 1..n /\ DOMAIN surfaces = 1..(n + 1)
        /\ surfaces[n + 1] = roll /\ \A i \in 1..n : surfaces[i] = sheets[i]
    BY <1>2, <2>1 DEF Sheets
  <2>4. \A k \in DOMAIN surfaces : \A r \in surfaces[k].regions : <<r.command, k - 1>> \in filed
    <3> TAKE k \in DOMAIN surfaces
    <3>1. CASE k \in 1..n
      BY <1>3, <2>3, <3>1
    <3>2. CASE k = n + 1
      <4>1. k - 1 = n
        BY <3>2
      <4> QED BY <1>3, <2>3, <3>2, <4>1
    <3> QED BY <2>3, <3>1, <3>2
  <2>5. \A c \in committed : /\ c[2] + 1 \in DOMAIN surfaces
                              /\ Marked(surfaces[c[2] + 1], c[1]) # {}
    BY <1>3, <2>3
  <2> QED BY <2>2, <2>4, <2>5
<1>5. CASE ~(roll.height > 0)
  <2>1. surfaces = sheets
    BY <1>1, <1>5 DEF Surfaces
  <2> QED BY <1>3, <1>5, <2>1
<1> QED BY <1>4, <1>5

LEMMA FinishedTells ==
  ASSUME NEW p, NEW entries, NEW end, Good(p, FiledBy(entries), CommittedBy(entries)),
         Numbered(entries, end), NEW surfaces, surfaces = Surfaces(p),
         NEW told, told = [i \in DOMAIN entries |-> Finished(entries[i], surfaces)]
  PROVE  Tells(told, surfaces)
<1>1. /\ surfaces \in Sheets
      /\ \A k \in DOMAIN surfaces : \A r \in surfaces[k].regions :
           <<r.command, k - 1>> \in FiledBy(entries)
      /\ \A c \in CommittedBy(entries) : /\ c[2] + 1 \in DOMAIN surfaces
                                         /\ Marked(surfaces[c[2] + 1], c[1]) # {}
  <2>1. \A c \in CommittedBy(entries) : c[2] \in Nat
    BY DEF CommittedBy, Numbered
  <2> QED BY <2>1, SurfacesOfGood
<1>2. \A i \in DOMAIN entries : entries[i].lifecycle = "committed" => OnPaper(entries[i], surfaces)
  <2> SUFFICES ASSUME NEW i \in DOMAIN entries, entries[i].lifecycle = "committed"
               PROVE  OnPaper(entries[i], surfaces)
    OBVIOUS
  <2>1. <<entries[i].from, entries[i].sheet>> \in CommittedBy(entries)
    BY DEF CommittedBy
  <2> QED BY <1>1, <2>1 DEF OnPaper
<1>3. \A s \in DOMAIN surfaces : \A r \in surfaces[s].regions :
        \E i \in DOMAIN entries : entries[i].from = r.command /\ entries[i].sheet = s - 1
  BY <1>1 DEF FiledBy
<1>4. \A i \in DOMAIN entries :
        /\ told[i].from = entries[i].from /\ told[i].sheet = entries[i].sheet
        /\ OnPaper(entries[i], surfaces) => told[i].lifecycle = "committed"
        /\ ~OnPaper(entries[i], surfaces) => told[i].lifecycle = entries[i].lifecycle
        /\ OnPaper(entries[i], surfaces) =>
             \A b \in told[i].paint :
               \A r \in Marked(surfaces[entries[i].sheet + 1], entries[i].from) :
                 r.y >= b.top /\ r.x + r.width <= b.right
  <2> TAKE i \in DOMAIN entries
  <2>1. PICK entry, f : entry = entries[i] /\ f = told[i]
    OBVIOUS
  <2>2. DOMAIN entry = EntryFields /\ entry.sheet \in Nat /\ entry.paint = {}
    BY <2>1 DEF Numbered
  <2>3. f = Finished(entry, surfaces)
    BY <2>1
  <2>4. /\ f.from = entry.from /\ f.sheet = entry.sheet
        /\ OnPaper(entry, surfaces) => f.lifecycle = "committed"
        /\ ~OnPaper(entry, surfaces) => f.lifecycle = entry.lifecycle
        /\ OnPaper(entry, surfaces) =>
             \A b \in f.paint : \A r \in Marked(surfaces[entry.sheet + 1], entry.from) :
               r.y >= b.top /\ r.x + r.width <= b.right
    BY <1>1, <2>2, <2>3, FinishedEntry
  <2> QED BY <2>1, <2>4
<1>5. DOMAIN told = DOMAIN entries
  OBVIOUS
<1>6. \A i \in DOMAIN entries :
        OnPaper(entries[i], surfaces)
          <=> \E s \in DOMAIN surfaces : Marked(surfaces[s], entries[i].from) # {}
  <2> TAKE i \in DOMAIN entries
  <2>1. ASSUME NEW s \in DOMAIN surfaces, Marked(surfaces[s], entries[i].from) # {}
        PROVE  OnPaper(entries[i], surfaces)
    <3>1. PICK r \in surfaces[s].regions : r.command = entries[i].from
      BY <2>1 DEF Marked
    <3>2. PICK j \in DOMAIN entries : entries[j].from = r.command /\ entries[j].sheet = s - 1
      BY <1>3, <3>1
    <3>3. j = i
      BY <3>1, <3>2 DEF Numbered
    <3>4. entries[i].sheet + 1 = s
      BY <1>1, <3>2, <3>3 DEF Sheets
    <3> QED BY <2>1, <3>4 DEF OnPaper
  <2>2. ASSUME OnPaper(entries[i], surfaces)
        PROVE  \E s \in DOMAIN surfaces : Marked(surfaces[s], entries[i].from) # {}
    BY <2>2 DEF OnPaper
  <2> QED BY <2>1, <2>2
<1>7. \A i \in DOMAIN told :
        (told[i].lifecycle = "committed")
          <=> (\E s \in DOMAIN surfaces : Marked(surfaces[s], told[i].from) # {})
  BY <1>2, <1>4, <1>5, <1>6
<1>8. \A s \in DOMAIN surfaces : \A r \in surfaces[s].regions :
        \E i \in DOMAIN told :
          /\ told[i].from = r.command /\ told[i].sheet = s - 1
          /\ \A b \in told[i].paint : r.y >= b.top /\ r.x + r.width <= b.right
  <2> TAKE s \in DOMAIN surfaces
  <2> TAKE r \in surfaces[s].regions
  <2>1. PICK i \in DOMAIN entries : entries[i].from = r.command /\ entries[i].sheet = s - 1
    BY <1>3
  <2>2. entries[i].sheet + 1 = s
    BY <1>1, <2>1 DEF Sheets
  <2>3. r \in Marked(surfaces[s], entries[i].from)
    BY <2>1 DEF Marked
  <2>4. OnPaper(entries[i], surfaces)
    BY <2>2, <2>3 DEF OnPaper
  <2>5. \A b \in told[i].paint : r.y >= b.top /\ r.x + r.width <= b.right
    BY <1>4, <2>2, <2>3, <2>4
  <2> QED BY <1>4, <1>5, <2>1, <2>5
<1> QED BY <1>7, <1>8 DEF Tells

LEMMA StyleOfFinished ==
  ASSUME NEW entries, NEW end, Numbered(entries, end), NEW surfaces \in Sheets,
         NEW told, told = [i \in DOMAIN entries |-> Finished(entries[i], surfaces)]
  PROVE  StyleOf(told) = StyleOf(entries)
<1>1. PICK n \in Nat : n = Len(entries) /\ DOMAIN entries = 1..n
  BY DEF Numbered
<1>2. \A i \in DOMAIN entries : told[i].style = entries[i].style
  <2> TAKE i \in DOMAIN entries
  <2>1. PICK entry, f : entry = entries[i] /\ f = told[i]
    OBVIOUS
  <2>2. DOMAIN entry = EntryFields /\ entry.sheet \in Nat /\ entry.paint = {}
    BY <2>1 DEF Numbered
  <2>3. f = Finished(entry, surfaces)
    BY <2>1
  <2>4. f.style = entry.style
    BY <2>2, <2>3, FinishedEntry
  <2> QED BY <2>1, <2>4
<1>3. PICK changes : changes = {i \in DOMAIN entries : entries[i].style # {}}
  OBVIOUS
<1>4. changes = {i \in DOMAIN told : told[i].style # {}}
  BY <1>2, <1>3
<1>5. changes # {} => Max(changes) \in DOMAIN entries
  <2> SUFFICES ASSUME changes # {}
               PROVE  Max(changes) \in changes
    BY <1>3
  <2>1. changes \in SUBSET Nat /\ \A i \in changes : i <= n
    BY <1>1, <1>3
  <2> QED BY <2>1, MaxOfNumbers
<1>6. /\ StyleOf(entries) = IF changes = {} THEN {} ELSE entries[Max(changes)].style
      /\ StyleOf(told) = IF changes = {} THEN {} ELSE told[Max(changes)].style
  <2>1. ASSUME NEW e, changes = {i \in DOMAIN e : e[i].style # {}}
        PROVE  StyleOf(e) = IF changes = {} THEN {} ELSE e[Max(changes)].style
    BY <2>1, Zenon DEF StyleOf
  <2>2. StyleOf(entries) = IF changes = {} THEN {} ELSE entries[Max(changes)].style
    BY <1>3, <2>1
  <2>3. StyleOf(told) = IF changes = {} THEN {} ELSE told[Max(changes)].style
    BY <1>4, <2>1
  <2> QED BY <2>2, <2>3
<1>7. CASE changes = {}
  BY <1>6, <1>7
<1>8. CASE changes # {}
  <2>1. told[Max(changes)].style = entries[Max(changes)].style
    BY <1>2, <1>5, <1>8
  <2> QED BY <1>6, <1>8, <2>1
<1> QED BY <1>7, <1>8

LEMMA FinishKeepsInv == RenderingInv /\ FinishJob => RenderingInv'
<1> SUFFICES ASSUME RenderingInv, FinishJob
             PROVE  RenderingInv'
  OBVIOUS
<1>1. PICK surfaces : surfaces = Surfaces(printer)
  OBVIOUS
<1>2. outcome = "rendering" /\ UNCHANGED <<profile, job, offset, printer>>
  BY DEF FinishJob, Fails
<1>3. \/ outcome' = "failed" /\ trace' = trace
      \/ /\ outcome' = "rendered" /\ paper' = surfaces
         /\ trace' = [i \in DOMAIN trace |-> Finished(trace[i], surfaces)]
  BY <1>1 DEF FinishJob, Fails
<1>4. CASE outcome' = "failed" /\ trace' = trace
  <2>1. TraceTellsPaper'
    BY <1>4 DEF TraceTellsPaper
  <2> QED BY <1>2, <1>4, <2>1 DEF RenderingInv
<1>5. CASE /\ outcome' = "rendered" /\ paper' = surfaces
           /\ trace' = [i \in DOMAIN trace |-> Finished(trace[i], surfaces)]
  <2>1. PICK entries, p, told : /\ entries = trace /\ p = printer
                                /\ told = [i \in DOMAIN trace |-> Finished(trace[i], surfaces)]
    OBVIOUS
  <2>2. /\ Good(p, FiledBy(entries), CommittedBy(entries)) /\ Numbered(entries, offset)
        /\ StyleOf(entries) \in {{}, {TextStyle(p)}}
    BY <1>2, <2>1 DEF RenderingInv
  <2>3. told = [i \in DOMAIN entries |-> Finished(entries[i], surfaces)]
    BY <2>1
  <2>4. Tells(told, surfaces)
    <3>1. PICK end : end = offset
      OBVIOUS
    <3> QED BY <1>1, <2>1, <2>2, <2>3, <3>1, FinishedTells
  <2>5. surfaces \in Sheets
    <3>1. \A c \in CommittedBy(entries) : c[2] \in Nat
      BY <2>2 DEF CommittedBy, Numbered
    <3>2. PICK filed, committed : filed = FiledBy(entries) /\ committed = CommittedBy(entries)
      OBVIOUS
    <3> QED BY <1>1, <2>1, <2>2, <3>1, <3>2, SurfacesOfGood
  <2>6. StyleOf(told) = StyleOf(entries)
    <3>1. PICK end : end = offset
      OBVIOUS
    <3> QED BY <2>2, <2>3, <2>5, <3>1, StyleOfFinished
  <2>7. trace' = told /\ paper' = surfaces /\ printer' = p
    BY <1>2, <1>5, <2>1
  <2>8. HeldStyle' \in {{}, {TextStyle(printer')}}
    <3>1. HeldStyle' = StyleOf(trace')
      BY DEF HeldStyle, StyleOf
    <3> QED BY <2>2, <2>6, <2>7, <3>1
  <2>9. TraceTellsPaper'
    BY <2>4, <2>7, <2>8 DEF TraceTellsPaper, Tells
  <2> QED BY <1>2, <1>5, <2>9 DEF RenderingInv
<1> QED BY <1>3, <1>4, <1>5

-----------------------------------------------------------------------------
(* The theorems.                                                           *)

LEMMA InterpreterInitInv == InterpreterInit => RenderingInv
<1> SUFFICES ASSUME InterpreterInit
             PROVE  RenderingInv
  OBVIOUS
<1>1. /\ profile \in Profiles /\ job \in Inputs /\ offset = 0
      /\ trace = <<>> /\ outcome # "rendered"
  BY DEF InterpreterInit
<1>2. IsProfile(profile)
  BY <1>1, ProfilesAssumption
<1>3. PICK p : p = PowerOn /\ p = printer
  BY DEF InterpreterInit
<1>4. DOMAIN p = Fields /\ Settings(p) /\ EmptyLine(p)
  BY <1>2, <1>3, PowerOnSettings
<1>5. /\ p.line \in SurfaceSet /\ p.x \in Nat /\ p.used \in Nat /\ p.lineHeight \in Nat
      /\ p.left = 0 /\ p.hasData \in BOOLEAN /\ p.atBeginning \in BOOLEAN
  BY <1>2, <1>3, PowerOnLine
<1>6. PICK width \in Nat : width = profile.width
  BY <1>2 DEF IsProfile
<1>7. PICK roll : roll = Surface(width)
  OBVIOUS
<1>8. roll \in SurfaceSet /\ roll.width = width /\ roll.height = 0 /\ roll.regions = {}
  BY <1>7, NewSurface
<1>9. p.command = 0 /\ p.top = 0 /\ p.sheets = <<>> /\ p.roll = roll
  BY <1>3, <1>6, <1>7 DEF PowerOn
<1>10. PaperTypes(p)
  <2>1. <<>> \in Sheets
    BY DEF Sheets
  <2> QED BY <1>5, <1>8, <1>9, <2>1 DEF PaperTypes
<1>11. Limits(p)
  <2>1. Area(roll) = 0
    BY <1>8 DEF Area
  <2>2. SheetDots(p.sheets) = 0
    BY <1>9, NoSheetsNoDots
  <2>3. Len(p.sheets) = 0 /\ DOMAIN p.sheets = {}
    BY <1>9
  <2>4. p.roll.height = 0 /\ Area(p.roll) = 0
    BY <1>8, <1>9, <2>1
  <2> QED BY <2>2, <2>3, <2>4, LimitsAreNumbers DEF Limits
<1>12. FiledBy(trace) = {} /\ CommittedBy(trace) = {} /\ StyleOf(trace) = {}
  BY <1>1 DEF FiledBy, CommittedBy, StyleOf
<1>13. Good(p, {}, {})
  <2>1. p.line.regions = {} /\ p.roll.regions = {} /\ DOMAIN p.sheets = {}
    BY <1>4, <1>8, <1>9 DEF EmptyLine
  <2>2. Filed(p, {}) /\ Kept(p, {})
    BY <2>1 DEF Filed, Kept
  <2> QED BY <1>4, <1>10, <1>11, <2>2 DEF Good
<1>14. Numbered(trace, offset)
  <2>1. DOMAIN trace = {} /\ trace \in Seq(ToSet(trace))
    BY <1>1
  <2> QED BY <2>1 DEF Numbered
<1>15. TraceTellsPaper
  BY <1>1 DEF TraceTellsPaper
<1> QED BY <1>1, <1>3, <1>4, <1>10, <1>11, <1>12, <1>13, <1>14, <1>15 DEF RenderingInv

LEMMA InterpreterNextInv == RenderingInv /\ [InterpreterNext]_interpreterVars => RenderingInv'
<1> SUFFICES ASSUME RenderingInv, [InterpreterNext]_interpreterVars
             PROVE  RenderingInv'
  OBVIOUS
<1>1. PICK p, filed, committed : /\ p = Addressed /\ filed = FiledNow
                                 /\ committed = CommittedBy(trace)
  OBVIOUS
<1> DEFINE Ends(done) == /\ outcome = "rendering" /\ offset < Len(job)
                         /\ Executed(p, done, filed, committed) /\ Steps(done)
<1>2. outcome = "rendering" /\ offset < Len(job) => Reading /\ Ready(p, filed, committed)
  BY <1>1, AddressedIsReady
<1>3. ASSUME NEW done, Ends(done)
      PROVE  RenderingInv'
  BY <1>1, <1>3, StepsKeepInv
<1> HIDE DEF Ends
<1>4. CASE ExecuteTextByte
  <2>1. outcome = "rendering" /\ offset < Len(job)
    BY <1>4 DEF ExecuteTextByte, Reads
  <2>2. PICK done : done = Done(1, PrintByte(Addressed, Byte(0)), <<"text", Byte(0)>>)
    OBVIOUS
  <2>3. Executed(p, done, filed, committed)
    BY <1>1, <1>2, <2>1, <2>2, ByteExecuted
  <2>4. Steps(done)
    BY <1>4, <2>2 DEF ExecuteTextByte
  <2> QED BY <1>3, <2>1, <2>3, <2>4 DEF Ends
<1>5. CASE ExecuteTab
  <2>1. outcome = "rendering" /\ offset < Len(job)
    BY <1>5 DEF ExecuteTab, Reads
  <2>2. PICK done : done = Done(1, HorizontalTab(Addressed), <<"tab">>)
    OBVIOUS
  <2>3. Executed(p, done, filed, committed)
    BY <1>1, <1>2, <2>1, <2>2, ByteExecuted
  <2>4. Steps(done)
    BY <1>5, <2>2 DEF ExecuteTab
  <2> QED BY <1>3, <2>1, <2>3, <2>4 DEF Ends
<1>6. CASE ExecuteLineFeed
  <2>1. outcome = "rendering" /\ offset < Len(job)
    BY <1>6 DEF ExecuteLineFeed, Reads
  <2>2. PICK done : done = Done(1, LineFeed(Addressed), <<"line_feed">>)
    OBVIOUS
  <2>3. Executed(p, done, filed, committed)
    BY <1>1, <1>2, <2>1, <2>2, ByteExecuted
  <2>4. Steps(done)
    BY <1>6, <2>2 DEF ExecuteLineFeed
  <2> QED BY <1>3, <2>1, <2>3, <2>4 DEF Ends
<1>7. CASE ExecuteCarriageReturn
  <2>1. outcome = "rendering" /\ offset < Len(job)
    BY <1>7 DEF ExecuteCarriageReturn, Reads
  <2>2. PICK done : done = Done(1, CarriageReturn(Addressed), <<"carriage_return">>)
    OBVIOUS
  <2>3. Executed(p, done, filed, committed)
    BY <1>1, <1>2, <2>1, <2>2, ByteExecuted
  <2>4. Steps(done)
    BY <1>7, <2>2 DEF ExecuteCarriageReturn
  <2> QED BY <1>3, <2>1, <2>3, <2>4 DEF Ends
<1>8. CASE ExecuteEscCommand
  <2>1. outcome = "rendering" /\ offset < Len(job)
    BY <1>8 DEF ExecuteEscCommand, Reads
  <2>2. PICK done : done = EscCommand(Addressed)
    OBVIOUS
  <2>3. Executed(p, done, filed, committed)
    BY <1>1, <1>2, <2>1, <2>2, EscCommandExecuted
  <2>4. Steps(done)
    BY <1>8, <2>2 DEF ExecuteEscCommand
  <2> QED BY <1>3, <2>1, <2>3, <2>4 DEF Ends
<1>9. CASE ExecuteGsCommand
  <2>1. outcome = "rendering" /\ offset < Len(job)
    BY <1>9 DEF ExecuteGsCommand, Reads
  <2>2. PICK done : done = GsCommand(Addressed)
    OBVIOUS
  <2>3. Executed(p, done, filed, committed)
    BY <1>1, <1>2, <2>1, <2>2, GsCommandExecuted
  <2>4. Steps(done)
    BY <1>9, <2>2 DEF ExecuteGsCommand
  <2> QED BY <1>3, <2>1, <2>3, <2>4 DEF Ends
<1>10. CASE ExecuteUnsupported
  <2>1. outcome = "rendering" /\ offset < Len(job)
    BY <1>10 DEF ExecuteUnsupported, Reads
  <2>2. PICK done : done = Refused
    OBVIOUS
  <2>3. Executed(p, done, filed, committed)
    BY <1>1, <1>2, <2>1, <2>2, RefusedIsExecuted
  <2>4. Steps(done)
    BY <1>10, <2>2 DEF ExecuteUnsupported
  <2> QED BY <1>3, <2>1, <2>3, <2>4 DEF Ends
<1>11. CASE FinishJob
  BY <1>11, FinishKeepsInv
<1>12. CASE UNCHANGED interpreterVars
  <2>1. /\ profile' = profile /\ job' = job /\ offset' = offset /\ printer' = printer
        /\ trace' = trace /\ outcome' = outcome /\ paper' = paper
    BY <1>12 DEF interpreterVars
  <2>2. TraceTellsPaper' <=> TraceTellsPaper
    BY <2>1 DEF TraceTellsPaper, HeldStyle
  <2> QED BY <2>1, <2>2 DEF RenderingInv
<1> QED BY <1>4, <1>5, <1>6, <1>7, <1>8, <1>9, <1>10, <1>11, <1>12 DEF InterpreterNext

\* Every state of a rendering satisfies its invariant.
THEOREM RenderingIsSound == InterpreterSpec => []RenderingInv
<1>1. InterpreterInit => RenderingInv
  BY InterpreterInitInv
<1>2. RenderingInv /\ [InterpreterNext]_interpreterVars => RenderingInv'
  BY InterpreterNextInv
<1> QED BY <1>1, <1>2, PTL DEF InterpreterSpec

\* While a command may take the line for unbegun and rebuild its buffer, cut the
\* paper or print an image over it (state.rs), nothing is in it.
THEOREM NothingIsLostAtLineStart == InterpreterSpec => []LineStartIsEmpty
<1>1. RenderingInv => LineStartIsEmpty
  BY DEF RenderingInv, LineStartIsEmpty, EmptyLine
<1> QED BY <1>1, RenderingIsSound, PTL

\* Whatever a job composes, feeds, cuts and prints, no sheet is higher and all of
\* them are not larger than the limits of the rendering, nor are there more of
\* them: each operation checks before it grows the roll (state.rs, graphics.rs).
THEOREM PaperIsBounded == InterpreterSpec => []SheetsStayWithinLimits
<1>1. RenderingInv => SheetsStayWithinLimits
  <2> SUFFICES ASSUME RenderingInv
               PROVE  SheetsStayWithinLimits
    OBVIOUS
  <2>1. PICK sheets \in Sheets, roll \in SurfaceSet : sheets = printer.sheets /\ roll = printer.roll
    BY DEF RenderingInv, PaperTypes
  <2>2. /\ roll.height <= MaxHeight /\ \A i \in DOMAIN sheets : sheets[i].height <= MaxHeight
        /\ SheetDots(sheets) + Area(roll) <= MaxDots /\ Len(sheets) <= MaxSheets
    BY <2>1 DEF RenderingInv, Limits
  <2>3. PICK surfaces : surfaces = Surfaces(printer)
    OBVIOUS
  <2>4. CASE roll.height > 0
    <3>1. surfaces = Append(sheets, roll)
      BY <2>1, <2>3, <2>4 DEF Surfaces
    <3>2. SheetDots(surfaces) = SheetDots(sheets) + Area(roll)
      BY <3>1, DotsOfSheets
    <3>3. \A i \in DOMAIN surfaces : surfaces[i].height <= MaxHeight
      BY <2>2, <3>1 DEF Sheets
    <3> QED BY <2>1, <2>2, <2>3, <3>2, <3>3 DEF SheetsStayWithinLimits
  <2>5. CASE ~(roll.height > 0)
    <3>1. surfaces = sheets
      BY <2>1, <2>3, <2>5 DEF Surfaces
    <3>2. SheetDots(sheets) \in Nat /\ Area(roll) \in Nat
      BY AreaIsNumber, DotsOfSheets
    <3>3. SheetDots(surfaces) <= MaxDots
      BY <2>2, <3>1, <3>2, LimitsAreNumbers
    <3> QED BY <2>1, <2>2, <2>3, <3>1, <3>3 DEF SheetsStayWithinLimits
  <2> QED BY <2>4, <2>5
<1> QED BY <1>1, RenderingIsSound, PTL

\* The trace of a rendered job (trace.rs) tells a command as committed exactly if
\* something it marked is on paper, on the sheet and within the bounds it tells,
\* and a reader ends with the style the printer has.
THEOREM PaperIsTold == InterpreterSpec => []TraceTellsPaper
<1>1. RenderingInv => TraceTellsPaper
  BY DEF RenderingInv
<1> QED BY <1>1, RenderingIsSound, PTL

-----------------------------------------------------------------------------
(* The two readings of a command agree.                                    *)

\* The bytes of the job from one place of the command at hand to another.
IsSlice(bytes, from, to) ==
  /\ bytes \in Seq(0..255) /\ Len(bytes) = to - from
  /\ \A i \in 1..(to - from) : bytes[i] = job[offset + from + i]

\* What is shown is what was executed.
Named(done) ==
  done.printer.failed \/ Description(done.command, Bytes(0, done.length)) = done.command

LEMMA SliceOfJob ==
  ASSUME Reading, NEW from \in Nat, NEW to \in Nat, from <= to, Has(to)
  PROVE  IsSlice(Bytes(from, to), from, to)
<1>1. PICK bytes : bytes = Bytes(from, to)
  OBVIOUS
<1>2. bytes \in Seq(0..255) /\ Len(bytes) = to - from
  BY <1>1, BytesAreSequence
<1>3. \A i \in 1..(to - from) : bytes[i] = job[offset + from + i]
  <2>1. PICK first \in Int, last \in Int : first = offset + 1 + from /\ last = offset + to
    BY DEF Reading
  <2>2. PICK s : s = job
    OBVIOUS
  <2>3. \A i \in first..last : s[i] \in 0..255
    <3> TAKE i \in first..last
    <3>1. i \in 1..Len(job)
      BY <2>1 DEF Reading, Has
    <3> QED BY <2>2, <3>1, ElementOfJob
  <2>4. PICK S : S = 0..255
    OBVIOUS
  <2>5. bytes = SubSeq(s, first, last)
    BY <1>1, <2>1, <2>2 DEF Bytes
  <2>6. \A i \in 1..(last - first + 1) : bytes[i] = s[first + i - 1]
    BY <2>3, <2>4, <2>5, SubSeqProperties
  <2>7. last - first + 1 = to - from /\ \A i \in Nat : first + i - 1 = offset + from + i
    BY <2>1 DEF Reading
  <2> QED BY <2>2, <2>6, <2>7
<1> QED BY <1>1, <1>2, <1>3 DEF IsSlice

LEMMA SliceOfSlice ==
  ASSUME NEW from \in Nat, NEW to \in Nat, from <= to, NEW s, IsSlice(s, from, to), offset \in Nat,
         NEW first \in Nat \ {0}, NEW last \in Nat, first <= last + 1, last <= to - from
  PROVE  IsSlice(SubSeq(s, first, last), from + first - 1, from + last)
<1>1. PICK S : S = 0..255
  OBVIOUS
<1>2. \A i \in first..last : s[i] \in S
  <2>1. s \in Seq(S) /\ Len(s) = to - from
    BY <1>1 DEF IsSlice
  <2>2. \A i \in 1..Len(s) : s[i] \in S
    BY <2>1
  <2>3. \A i \in first..last : i \in 1..Len(s)
    BY <2>1
  <2> QED BY <2>2, <2>3
<1>3. PICK part : part = SubSeq(s, first, last)
  OBVIOUS
<1>4. PICK a \in Int, b \in Int : a = first /\ b = last
  OBVIOUS
<1>5. /\ part \in Seq(S)
      /\ Len(part) = IF a <= b THEN b - a + 1 ELSE 0
      /\ \A i \in 1..(b - a + 1) : part[i] = s[a + i - 1]
  BY <1>2, <1>3, <1>4, SubSeqProperties
<1>6. Len(part) = last - first + 1
  BY <1>4, <1>5
<1>7. \A i \in 1..(last - first + 1) : part[i] = job[offset + (from + first - 1) + i]
  <2> TAKE i \in 1..(last - first + 1)
  <2>1. PICK k \in 1..(to - from) : k = first + i - 1
    OBVIOUS
  <2>2. part[i] = s[k]
    BY <1>4, <1>5, <2>1
  <2>3. s[k] = job[offset + from + k]
    BY DEF IsSlice
  <2>4. offset + from + k = offset + (from + first - 1) + i
    BY <2>1
  <2> QED BY <2>2, <2>3, <2>4
<1>8. (from + last) - (from + first - 1) = last - first + 1
  OBVIOUS
<1> QED BY <1>1, <1>3, <1>5, <1>6, <1>7, <1>8 DEF IsSlice

LEMMA SlicesAreEqual ==
  ASSUME NEW from \in Nat, NEW to \in Nat, from <= to, NEW s, NEW t,
         IsSlice(s, from, to), IsSlice(t, from, to)
  PROVE  s = t
<1>1. PICK n \in Nat : n = to - from
  OBVIOUS
<1>2. /\ s \in Seq(0..255) /\ t \in Seq(0..255) /\ Len(s) = n /\ Len(t) = n
      /\ \A i \in 1..n : s[i] = t[i]
  BY <1>1 DEF IsSlice
<1> QED BY <1>2

\* The bytes of the command at hand, as the trace reads them again.
Again(bytes, length) == IsSlice(bytes, 0, length)

LEMMA BytesAgain ==
  ASSUME Reading, NEW length \in Nat, Has(length)
  PROVE  Again(Bytes(0, length), length)
<1>1. PICK zero \in Nat : zero = 0
  OBVIOUS
<1>2. PICK bytes : bytes = Bytes(0, length)
  OBVIOUS
<1>3. bytes = Bytes(zero, length)
  BY <1>1, <1>2
<1>4. IsSlice(bytes, zero, length)
  BY <1>1, <1>3, SliceOfJob
<1> QED BY <1>1, <1>2, <1>4 DEF Again

LEMMA NamedByBytes ==
  ASSUME Reading, NEW length \in Nat, Has(length), NEW q, NEW command,
         command[1] \notin SelfDescribing,
         \A bytes : Again(bytes, length) => Described(bytes) = command
  PROVE  Named(Done(length, q, command))
<1>1. PICK bytes : bytes = Bytes(0, length)
  OBVIOUS
<1>2. Described(bytes) = command
  BY <1>1, BytesAgain
<1>3. Description(command, bytes) = command
  BY <1>2 DEF Description
<1>4. Done(length, q, command).length = length /\ Done(length, q, command).command = command
  BY DEF Done
<1> QED BY <1>1, <1>3, <1>4 DEF Named

LEMMA NamesItself ==
  ASSUME NEW length, NEW q, NEW command, command[1] \in SelfDescribing
  PROVE  Named(Done(length, q, command))
BY DEF Named, Description, Done

LEMMA RefusedIsNamed == Named(Refused)
BY DEF Named, Refused, Done

LEMMA FirstBytes ==
  ASSUME NEW length \in Nat, NEW bytes, Again(bytes, length), offset \in Nat
  PROVE  /\ length >= 1 => bytes[1] = Byte(0)
         /\ length >= 2 => bytes[2] = Byte(1)
         /\ length >= 3 => bytes[3] = Byte(2)
         /\ length >= 4 => bytes[4] = Byte(3)
         /\ length >= 5 => bytes[5] = Byte(4)
         /\ length >= 6 => bytes[6] = Byte(5)
         /\ length >= 7 => bytes[7] = Byte(6)
         /\ length >= 8 => bytes[8] = Byte(7)
BY DEF Again, IsSlice, Byte

LEMMA SameDigit ==
  ASSUME NEW n \in Nat, NEW last \in 0..9, IsDigitOf(n, last)
  PROVE  Digit(n) = Chosen(n)
BY DEF Digit, Chosen, IsDigitOf

\* The parameters of a command: bytes after the two that name it.
Parameters(bytes, length) ==
  /\ bytes[2] = Byte(1)
  /\ length >= 3 => bytes[3] = Byte(2)
  /\ length >= 4 => bytes[4] = Byte(3)
  /\ length >= 5 => bytes[5] = Byte(4)

LEMMA NamedByEsc ==
  ASSUME Reading, Byte(0) = 27, NEW length \in Nat, length >= 2, Has(length), NEW q, NEW command,
         command[1] \notin SelfDescribing,
         \A bytes : Parameters(bytes, length) => DescribedEsc(bytes) = command
  PROVE  Named(Done(length, q, command))
<1>1. ASSUME NEW bytes, Again(bytes, length)
      PROVE  Described(bytes) = command
  <2>1. bytes[1] = 27 /\ Parameters(bytes, length)
    BY <1>1, FirstBytes DEF Reading, Parameters
  <2> QED BY <2>1 DEF Described
<1> QED BY <1>1, NamedByBytes

LEMMA EscParameterNamed ==
  ASSUME Reading, Byte(0) = 27, NEW p
  PROVE  Named(EscParameter(p))
<1>1. CASE ~Has(3)
  BY <1>1, RefusedIsNamed DEF EscParameter
<1>2. CASE Has(3)
  <2> DEFINE code == Byte(1)
  <2>1. PICK n \in Nat : n = Byte(2)
    <3>1. PICK two \in Nat : two = 2 /\ Has(two + 1)
      BY <1>2
    <3>2. Byte(two) \in 0..255
      BY <3>1, ByteIsNumber
    <3> QED BY <3>1, <3>2
  <2>2. PICK three \in Nat : three = 3 /\ three >= 2 /\ Has(three)
    BY <1>2
  <2>3. CASE code = 32
    <3>1. PICK q, command : q = [p EXCEPT !.spacing = DotsX(p, n)] /\ command = <<"character_spacing", n>>
      OBVIOUS
    <3>2. EscParameter(p) = Done(three, q, command)
      BY <1>2, <2>1, <2>2, <2>3, <3>1 DEF EscParameter
    <3>3. \A bytes : Parameters(bytes, three) => DescribedEsc(bytes) = command
      BY <2>1, <2>2, <2>3, <3>1 DEF Parameters, DescribedEsc
    <3>4. command[1] \notin SelfDescribing
      BY <3>1 DEF SelfDescribing
    <3> QED BY <2>2, <3>2, <3>3, <3>4, NamedByEsc
  <2>4. CASE code = 33
    <3>1. PICK q, command : q = SetPrintMode(p, n) /\ command = <<"print_mode", n>>
      OBVIOUS
    <3>2. EscParameter(p) = Done(three, q, command)
      BY <1>2, <2>1, <2>2, <2>4, <3>1 DEF EscParameter
    <3>3. \A bytes : Parameters(bytes, three) => DescribedEsc(bytes) = command
      BY <2>1, <2>2, <2>4, <3>1 DEF Parameters, DescribedEsc
    <3>4. command[1] \notin SelfDescribing
      BY <3>1 DEF SelfDescribing
    <3> QED BY <2>2, <3>2, <3>3, <3>4, NamedByEsc
  <2>5. CASE code = 45
    <3>1. CASE ~IsDigitOf(n, 2)
      BY <1>2, <2>1, <2>5, <3>1, RefusedIsNamed DEF EscParameter, Choice
    <3>2. CASE IsDigitOf(n, 2)
      <4>1. PICK q, command : q = [p EXCEPT !.underline = Chosen(n)] /\ command = <<"underline", Chosen(n)>>
        OBVIOUS
      <4>2. EscParameter(p) = Done(three, q, command)
        BY <1>2, <2>1, <2>2, <2>5, <3>2, <4>1 DEF EscParameter, Choice
      <4>3. Digit(n) = Chosen(n)
        <5>1. PICK last \in 0..9 : last = 2
          OBVIOUS
        <5> QED BY <3>2, <5>1, SameDigit
      <4>4. \A bytes : Parameters(bytes, three) => DescribedEsc(bytes) = command
        BY <2>1, <2>2, <2>5, <4>1, <4>3 DEF Parameters, DescribedEsc
      <4>5. command[1] \notin SelfDescribing
        BY <4>1 DEF SelfDescribing
      <4> QED BY <2>2, <4>2, <4>4, <4>5, NamedByEsc
    <3> QED BY <3>1, <3>2
  <2>6. CASE code = 51
    <3>1. PICK q, command : q = [p EXCEPT !.lineSpacing = DotsY(p, n)] /\ command = <<"line_spacing", n>>
      OBVIOUS
    <3>2. EscParameter(p) = Done(three, q, command)
      BY <1>2, <2>1, <2>2, <2>6, <3>1 DEF EscParameter
    <3>3. \A bytes : Parameters(bytes, three) => DescribedEsc(bytes) = command
      BY <2>1, <2>2, <2>6, <3>1 DEF Parameters, DescribedEsc
    <3>4. command[1] \notin SelfDescribing
      BY <3>1 DEF SelfDescribing
    <3> QED BY <2>2, <3>2, <3>3, <3>4, NamedByEsc
  <2>7. CASE code = 69
    <3>1. PICK q, command : q = [p EXCEPT !.emphasized = n % 2 = 1] /\ command = <<"emphasis", n % 2 = 1>>
      OBVIOUS
    <3>2. EscParameter(p) = Done(three, q, command)
      BY <1>2, <2>1, <2>2, <2>7, <3>1 DEF EscParameter
    <3>3. \A bytes : Parameters(bytes, three) => DescribedEsc(bytes) = command
      BY <2>1, <2>2, <2>7, <3>1 DEF Parameters, DescribedEsc
    <3>4. command[1] \notin SelfDescribing
      BY <3>1 DEF SelfDescribing
    <3> QED BY <2>2, <3>2, <3>3, <3>4, NamedByEsc
  <2>8. CASE code = 74
    <3>1. PICK q, command : q = ExecuteEscJ(p, n) /\ command = <<"feed_paper", n>>
      OBVIOUS
    <3>2. EscParameter(p) = Done(three, q, command)
      BY <1>2, <2>1, <2>2, <2>8, <3>1 DEF EscParameter
    <3>3. \A bytes : Parameters(bytes, three) => DescribedEsc(bytes) = command
      BY <2>1, <2>2, <2>8, <3>1 DEF Parameters, DescribedEsc
    <3>4. command[1] \notin SelfDescribing
      BY <3>1 DEF SelfDescribing
    <3> QED BY <2>2, <3>2, <3>3, <3>4, NamedByEsc
  <2>9. CASE code = 77
    <3>1. CASE ~IsDigitOf(n, 1)
      BY <1>2, <2>1, <2>9, <3>1, RefusedIsNamed DEF EscParameter, Choice
    <3>2. CASE IsDigitOf(n, 1)
      <4>1. PICK q, command : q = [p EXCEPT !.font = <<"A", "B">>[1 + Chosen(n)]] /\ command = <<"font", Chosen(n)>>
        OBVIOUS
      <4>2. EscParameter(p) = Done(three, q, command)
        BY <1>2, <2>1, <2>2, <2>9, <3>2, <4>1 DEF EscParameter, Choice
      <4>3. Digit(n) = Chosen(n)
        <5>1. PICK last \in 0..9 : last = 1
          OBVIOUS
        <5> QED BY <3>2, <5>1, SameDigit
      <4>4. \A bytes : Parameters(bytes, three) => DescribedEsc(bytes) = command
        BY <2>1, <2>2, <2>9, <4>1, <4>3 DEF Parameters, DescribedEsc
      <4>5. command[1] \notin SelfDescribing
        BY <4>1 DEF SelfDescribing
      <4> QED BY <2>2, <4>2, <4>4, <4>5, NamedByEsc
    <3> QED BY <3>1, <3>2
  <2>10. CASE code = 82
    <3>1. PICK q, command : q = [p EXCEPT !.charset = n] /\ command = <<"charset", n>>
      OBVIOUS
    <3>2. EscParameter(p) \in {Refused, Done(three, q, command)}
      BY <1>2, <2>1, <2>2, <2>10, <3>1 DEF EscParameter, Choice
    <3>3. \A bytes : Parameters(bytes, three) => DescribedEsc(bytes) = command
      BY <2>1, <2>2, <2>10, <3>1 DEF Parameters, DescribedEsc
    <3>4. command[1] \notin SelfDescribing
      BY <3>1 DEF SelfDescribing
    <3> QED BY <2>2, <3>2, <3>3, <3>4, NamedByEsc, RefusedIsNamed
  <2>11. CASE code = 36 /\ Has(4)
    <3>1. PICK q, command : q = SetAbsolutePrintPosition(p, Word(2)) /\ command = <<"position", Word(2)>>
      OBVIOUS
    <3>2. PICK four \in Nat : four = 4 /\ four >= 2 /\ Has(four)
      BY <2>11
    <3>3. EscParameter(p) = Done(four, q, command)
      BY <1>2, <2>1, <2>11, <3>1, <3>2 DEF EscParameter
    <3>4. \A bytes : Parameters(bytes, four) => DescribedEsc(bytes) = command
      BY <2>1, <2>11, <3>1, <3>2 DEF Parameters, DescribedEsc, DWord, Word
    <3>5. command[1] \notin SelfDescribing
      BY <3>1 DEF SelfDescribing
    <3> QED BY <3>2, <3>3, <3>4, <3>5, NamedByEsc
  <2>12. CASE ~(code \in {32, 33, 45, 51, 69, 74, 77, 82} \/ (code = 36 /\ Has(4)))
    <3>1. EscParameter(p) = Refused
      BY <1>2, <2>12 DEF EscParameter
    <3> QED BY <3>1, RefusedIsNamed
  <2> HIDE DEF code
  <2> QED BY <2>3, <2>4, <2>5, <2>6, <2>7, <2>8, <2>9, <2>10, <2>11, <2>12
<1> QED BY <1>1, <1>2

LEMMA EscMotionNamed ==
  ASSUME Reading, Byte(0) = 27, NEW p, DOMAIN p = Fields
  PROVE  Named(EscMotion(p))
<1>1. CASE ~Has(3)
  BY <1>1, RefusedIsNamed DEF EscMotion
<1>2. CASE Has(3)
  <2> DEFINE code == Byte(1)
  <2>1. PICK n \in Nat : n = Byte(2)
    <3>1. PICK two \in Nat : two = 2 /\ Has(two + 1)
      BY <1>2
    <3>2. Byte(two) \in 0..255
      BY <3>1, ByteIsNumber
    <3> QED BY <3>1, <3>2
  <2>2. PICK three \in Nat : three = 3 /\ three >= 2 /\ Has(three)
    BY <1>2
  <2>3. Has(4) => \E four \in Nat : four = 4 /\ four >= 2 /\ Has(four)
    OBVIOUS
  <2>4. CASE code = 100
    <3>1. PICK q, command : q = FeedLines(p, n) /\ command = <<"feed_lines", n>>
      OBVIOUS
    <3>2. EscMotion(p) = Done(three, q, command)
      BY <1>2, <2>1, <2>2, <2>4, <3>1 DEF EscMotion
    <3>3. \A bytes : Parameters(bytes, three) => DescribedEsc(bytes) = command
      BY <2>1, <2>2, <2>4, <3>1 DEF Parameters, DescribedEsc
    <3>4. command[1] \notin SelfDescribing
      BY <3>1 DEF SelfDescribing
    <3> QED BY <2>2, <3>2, <3>3, <3>4, NamedByEsc
  <2>5. CASE code = 97
    <3>1. PICK side, q, command : /\ side = Justifications[1 + Chosen(n)] /\ q = SetJustification(p, side)
                                  /\ command = <<"justification", side>>
      OBVIOUS
    <3>2. EscMotion(p) \in {Refused, Done(three, q, command)}
      BY <1>2, <2>1, <2>2, <2>5, <3>1 DEF EscMotion, Choice
    <3>3. command[1] \in SelfDescribing
      BY <3>1 DEF SelfDescribing
    <3> QED BY <3>2, <3>3, NamesItself, RefusedIsNamed
  <2>6. CASE code = 116
    <3>1. PICK q, command : q = [p EXCEPT !.codePage = n] /\ command = <<"code_table", n>>
      OBVIOUS
    <3>2. EscMotion(p) \in {Refused, Done(three, q, command)}
      BY <1>2, <2>1, <2>2, <2>6, <3>1 DEF EscMotion
    <3>3. command[1] \in SelfDescribing
      BY <3>1 DEF SelfDescribing
    <3> QED BY <3>2, <3>3, NamesItself, RefusedIsNamed
  <2>7. CASE code = 92 /\ Has(4)
    <3>1. PICK q, command : /\ q = SetRelativePrintPosition(p, Signed(Word(2)))
                            /\ command = <<"relative_position", Word(2)>>
      OBVIOUS
    <3>2. PICK four \in Nat : four = 4 /\ four >= 2 /\ Has(four)
      BY <2>3, <2>7
    <3>3. EscMotion(p) = Done(four, q, command)
      BY <1>2, <2>1, <2>7, <3>1, <3>2 DEF EscMotion
    <3>4. \A bytes : Parameters(bytes, four) => DescribedEsc(bytes) = command
      BY <2>1, <2>7, <3>1, <3>2 DEF Parameters, DescribedEsc, DWord, Word
    <3>5. command[1] \notin SelfDescribing
      BY <3>1 DEF SelfDescribing
    <3> QED BY <3>2, <3>3, <3>4, <3>5, NamedByEsc
  <2>8. CASE code = 112 /\ Has(4)
    <3>1. PICK q, command : q = DrawerPulse(p, n) /\ command = <<"pulse", Chosen(n)>>
      OBVIOUS
    <3>2. EscMotion(p) = IF Has(5) THEN Done(5, q, command) ELSE Refused
      BY <1>2, <2>1, <2>8, <3>1 DEF EscMotion, Whole
    <3>3. CASE ~Has(5)
      BY <3>2, <3>3, RefusedIsNamed
    <3>4. CASE Has(5) /\ ~IsDigitOf(n, 1)
      <4>1. q = Failed(p)
        BY <3>1, <3>4 DEF DrawerPulse, IsDigitOf, Requires
      <4>2. q.failed
        BY <4>1, Zenon DEF Failed, Fields
      <4> QED BY <3>2, <3>4, <4>2 DEF Named, Done
    <3>5. CASE Has(5) /\ IsDigitOf(n, 1)
      <4>1. PICK five \in Nat : five = 5 /\ five >= 2 /\ Has(five)
        BY <3>5
      <4>2. Digit(n) = Chosen(n)
        <5>1. PICK last \in 0..9 : last = 1
          OBVIOUS
        <5> QED BY <3>5, <5>1, SameDigit
      <4>3. \A bytes : Parameters(bytes, five) => DescribedEsc(bytes) = command
        BY <2>1, <2>8, <3>1, <4>1, <4>2 DEF Parameters, DescribedEsc
      <4>4. command[1] \notin SelfDescribing
        BY <3>1 DEF SelfDescribing
      <4> QED BY <3>2, <3>5, <4>1, <4>3, <4>4, NamedByEsc
    <3> QED BY <3>3, <3>4, <3>5
  <2>9. CASE ~(code \in {97, 100, 116} \/ (code \in {92, 112} /\ Has(4)))
    <3>1. EscMotion(p) = Refused
      BY <1>2, <2>9 DEF EscMotion
    <3> QED BY <3>1, RefusedIsNamed
  <2> HIDE DEF code
  <2> QED BY <2>4, <2>5, <2>6, <2>7, <2>8, <2>9
<1> QED BY <1>1, <1>2

LEMMA EscStarNamed ==
  ASSUME Reading, Byte(0) = 27, Byte(1) = 42, NEW p
  PROVE  Named(EscStar(p))
<1> DEFINE size == IF Byte(2) \in {0, 1} THEN 1 ELSE 3
<1>1. PICK columns, scale, pitch :
        /\ columns = [c \in 1..Word(3) |-> Bytes(5 + (c - 1) * size, 5 + c * size)]
        /\ scale = IF Byte(2) \in {0, 32} THEN 2 ELSE 1
        /\ pitch = IF size = 1 THEN profile.columnPitch ELSE 1
  OBVIOUS
<1>2. PICK q, command : /\ q = PaintBitImage(p, columns, scale, pitch)
                        /\ command = <<"bit_image", Byte(2), Word(3)>>
  OBVIOUS
<1>3. CASE EscStar(p) = Refused
  BY <1>3, RefusedIsNamed
<1>4. CASE EscStar(p) # Refused
  <2>1. Has(5)
    BY <1>4 DEF EscStar
  <2>2. Word(3) \in Nat
    <3>1. PICK three \in Nat : three = 3 /\ Has(three + 2)
      BY <2>1
    <3> QED BY <3>1, WordIsNumber
  <2>3. PICK length \in Nat : length = 5 + Word(3) * size
    <3>1. size \in Nat
      OBVIOUS
    <3> QED BY <2>2, <3>1
  <2>4. EscStar(p) = Done(length, q, command) /\ Has(length)
    BY <1>1, <1>2, <1>4, <2>3 DEF EscStar, Whole
  <2>5. length >= 5
    <3>1. PICK a \in Nat : a = Word(3)
      BY <2>2
    <3>2. size \in Nat
      OBVIOUS
    <3>3. a * size \in Nat
      BY <3>2
    <3> QED BY <2>3, <3>1, <3>3
  <2>6. \A bytes : Parameters(bytes, length) => DescribedEsc(bytes) = command
    BY <1>2, <2>5 DEF Parameters, DescribedEsc, DWord, Word
  <2>7. command[1] \notin SelfDescribing
    BY <1>2 DEF SelfDescribing
  <2> QED BY <2>4, <2>5, <2>6, <2>7, NamedByEsc
<1> QED BY <1>3, <1>4

LEMMA EscDNamed ==
  ASSUME Reading, Byte(0) = 27, Byte(1) = 68, Has(2), NEW p
  PROVE  Named(EscD(p))
<1> DEFINE left == Len(job) - offset - 2
           Ends(n) == \/ n = 32 \/ Byte(2 + n) = 0
                      \/ n > 0 /\ Byte(2 + n) <= Byte(1 + n)
           ends == {n \in 0..Min({left - 1, 32}) : Ends(n)}
<1>1. CASE ends = {}
  BY <1>1, RefusedIsNamed DEF EscD
<1>2. CASE ends # {}
  <2>1. PICK most \in Int : most = Min({left - 1, 32}) /\ most <= left - 1
    <3>1. PICK rest \in Int : rest = left - 1
      <4>1. Len(job) \in Int /\ offset \in Int
        BY DEF Reading
      <4>2. left - 1 \in Int
        BY <4>1
      <4> HIDE DEF left, Ends, ends
      <4> QED BY <4>2
    <3>2. 32 \in Int
      OBVIOUS
    <3>3. Min({rest, 32}) \in {rest, 32} /\ Min({rest, 32}) <= rest
      BY <3>1, <3>2, MinOfTwo, Zenon
    <3> QED BY <3>1, <3>3
  <2>2. PICK n \in Nat : /\ n = Min(ends) /\ n <= left - 1 /\ n <= most
                         /\ \A k \in ends : n <= k
    <3>1. ends \in SUBSET Nat /\ \A k \in ends : k <= left - 1 /\ k <= most
      <4>1. left \in Int
        BY DEF Reading
      <4> HIDE DEF Ends, left
      <4> QED BY <2>1, <4>1
    <3> HIDE DEF ends
    <3>2. Min(ends) \in ends /\ \A k \in ends : Min(ends) <= k
      BY <1>2, <3>1, MinOfNumbers
    <3> QED BY <3>1, <3>2
  <2>3. \A k \in Nat : k < n => Byte(2 + k) # 0
    <3> SUFFICES ASSUME NEW k \in Nat, k < n, Byte(2 + k) = 0
                 PROVE  FALSE
      OBVIOUS
    <3>1. k \in 0..Min({left - 1, 32})
      BY <2>1, <2>2
    <3>2. k \in ends
      BY <3>1
    <3> HIDE DEF ends
    <3> QED BY <2>2, <3>2
  <2> HIDE DEF ends, Ends
  <2>4. PICK two \in Nat, last \in Nat : two = 2 /\ last = 2 + n
    OBVIOUS
  <2>5. last + 1 \in Nat /\ Has(last + 1) /\ Has(last)
    BY <2>2, <2>4 DEF Reading, Has
  <2>6. PICK columns : columns = Bytes(2, 2 + n)
    OBVIOUS
  <2>7. IsSlice(columns, two, last)
    <3>1. columns = Bytes(two, last)
      BY <2>4, <2>6
    <3> QED BY <2>4, <2>5, <3>1, SliceOfJob
  <2>8. Len(columns) = n
    BY <2>4, <2>7 DEF IsSlice
  <2>9. PICK q, command : q = SetTabPositions(p, columns) /\ command = <<"tab_positions", columns>>
    OBVIOUS
  <2>10. EscD(p) = Done(2 + Len(columns) + IF Byte(2 + Len(columns)) = 0 THEN 1 ELSE 0, q, command)
    BY <1>2, <2>2, <2>6, <2>9 DEF EscD, ends, Ends
  <2>11. Byte(2 + n) = job[offset + last + 1]
    BY <2>4 DEF Byte, Reading
  <2>12. command[1] \notin SelfDescribing
    BY <2>9 DEF SelfDescribing
  <2>13. CASE Byte(2 + n) = 0
    <3>1. PICK length \in Nat : length = last + 1
      OBVIOUS
    <3>2. EscD(p) = Done(length, q, command) /\ Has(length) /\ length >= 2
      BY <2>4, <2>5, <2>8, <2>10, <2>13, <3>1
    <3>3. ASSUME NEW bytes, Again(bytes, length)
          PROVE  Described(bytes) = command
      <4>1. PICK part : part = SubSeq(bytes, 3, Len(bytes))
        OBVIOUS
      <4>2. Len(bytes) = length /\ bytes \in Seq(0..255)
        BY <3>3 DEF Again, IsSlice
      <4>3. IsSlice(part, two, length)
        <5>1. PICK zero \in Nat, three \in Nat \ {0} : zero = 0 /\ three = 3
          OBVIOUS
        <5>2. IsSlice(bytes, zero, length)
          BY <3>3, <5>1 DEF Again
        <5>3. part = SubSeq(bytes, three, length)
          BY <4>1, <4>2, <5>1
        <5>4. IsSlice(part, zero + three - 1, zero + length)
          BY <2>4, <3>1, <5>1, <5>2, <5>3, SliceOfSlice DEF Reading
        <5>5. zero + three - 1 = two /\ zero + length = length
          BY <2>4, <5>1
        <5> QED BY <5>4, <5>5
      <4>4. part \in Seq(0..255) /\ Len(part) = n + 1 /\ part[n + 1] = job[offset + two + (n + 1)]
        BY <2>4, <3>1, <4>3 DEF IsSlice
      <4>5. part # <<>> /\ Last(part) = 0
        <5>1. offset + two + (n + 1) = offset + last + 1
          BY <2>4 DEF Reading
        <5> QED BY <2>11, <2>13, <4>4, <5>1 DEF Last
      <4>6. Front(part) = columns
        <5>1. Front(part) = SubSeq(part, 1, n)
          BY <4>4 DEF Front
        <5>2. PICK one \in Nat \ {0} : one = 1
          OBVIOUS
        <5>3. IsSlice(SubSeq(part, one, n), two + one - 1, two + n)
          BY <2>4, <3>1, <4>3, <5>2, SliceOfSlice DEF Reading
        <5>4. two + one - 1 = two /\ two + n = last
          BY <2>4, <5>2
        <5>5. IsSlice(Front(part), two, last)
          BY <5>1, <5>2, <5>3, <5>4
        <5> QED BY <2>4, <2>7, <5>5, SlicesAreEqual
      <4>7. DescribedTabs(bytes) = columns
        BY <4>1, <4>5, <4>6 DEF DescribedTabs
      <4>8. bytes[1] = 27 /\ bytes[2] = 68
        BY <3>2, <3>3, FirstBytes DEF Reading
      <4> QED BY <2>9, <4>7, <4>8 DEF Described, DescribedEsc
    <3> QED BY <2>12, <3>2, <3>3, NamedByBytes
  <2>14. CASE Byte(2 + n) # 0
    <3>1. EscD(p) = Done(last, q, command) /\ Has(last) /\ last >= 2
      BY <2>4, <2>5, <2>8, <2>10, <2>14
    <3>2. ASSUME NEW bytes, Again(bytes, last)
          PROVE  Described(bytes) = command
      <4>1. PICK part : part = SubSeq(bytes, 3, Len(bytes))
        OBVIOUS
      <4>2. Len(bytes) = last /\ bytes \in Seq(0..255)
        BY <3>2 DEF Again, IsSlice
      <4>3. IsSlice(part, two, last)
        <5>1. PICK zero \in Nat, three \in Nat \ {0} : zero = 0 /\ three = 3
          OBVIOUS
        <5>2. IsSlice(bytes, zero, last)
          BY <3>2, <5>1 DEF Again
        <5>3. part = SubSeq(bytes, three, last)
          BY <4>1, <4>2, <5>1
        <5>4. IsSlice(part, zero + three - 1, zero + last)
          BY <2>4, <5>1, <5>2, <5>3, SliceOfSlice DEF Reading
        <5>5. zero + three - 1 = two /\ zero + last = last
          BY <2>4, <5>1
        <5> QED BY <5>4, <5>5
      <4>4. part = columns
        BY <2>4, <2>7, <4>3, SlicesAreEqual
      <4>5. columns # <<>> => Last(columns) # 0
        <5> SUFFICES ASSUME columns # <<>>
                     PROVE  Last(columns) # 0
          OBVIOUS
        <5>1. columns \in Seq(0..255)
          BY <2>7 DEF IsSlice
        <5>2. PICK k \in Nat : n = k + 1
          BY <2>8, <5>1
        <5>3. columns[n] = job[offset + two + n]
          BY <2>4, <2>7, <5>2 DEF IsSlice
        <5>4. Byte(2 + k) = job[offset + two + n]
          BY <2>4, <5>2 DEF Byte, Reading
        <5>5. Byte(2 + k) # 0
          BY <2>3, <5>2
        <5> QED BY <2>8, <5>3, <5>4, <5>5 DEF Last
      <4>6. DescribedTabs(bytes) = columns
        BY <4>1, <4>4, <4>5 DEF DescribedTabs
      <4>7. bytes[1] = 27 /\ bytes[2] = 68
        BY <3>1, <3>2, FirstBytes DEF Reading
      <4> QED BY <2>9, <4>6, <4>7 DEF Described, DescribedEsc
    <3> QED BY <2>12, <3>1, <3>2, NamedByBytes
  <2> QED BY <2>13, <2>14
<1> QED BY <1>1, <1>2

LEMMA EscCommandNamed ==
  ASSUME Reading, Byte(0) = 27, NEW p, DOMAIN p = Fields
  PROVE  Named(EscCommand(p))
<1>1. CASE ~Has(2)
  BY <1>1, RefusedIsNamed DEF EscCommand
<1>2. CASE Has(2)
  <2> DEFINE code == Byte(1)
  <2>1. PICK two \in Nat : two = 2 /\ two >= 2 /\ Has(two)
    BY <1>2
  <2>2. CASE code = 64
    <3>1. PICK q, command : q = Initialize(p) /\ command = <<"initialize">>
      OBVIOUS
    <3>2. EscCommand(p) = Done(two, q, command)
      BY <1>2, <2>1, <2>2, <3>1 DEF EscCommand
    <3>3. \A bytes : Parameters(bytes, two) => DescribedEsc(bytes) = command
      BY <2>2, <3>1 DEF Parameters, DescribedEsc
    <3>4. command[1] \notin SelfDescribing
      BY <3>1 DEF SelfDescribing
    <3> QED BY <2>1, <3>2, <3>3, <3>4, NamedByEsc
  <2>3. CASE code = 50
    <3>1. PICK q, command : /\ q = [p EXCEPT !.lineSpacing = profile.lineSpacing]
                            /\ command = <<"default_line_spacing">>
      OBVIOUS
    <3>2. EscCommand(p) = Done(two, q, command)
      BY <1>2, <2>1, <2>3, <3>1 DEF EscCommand
    <3>3. \A bytes : Parameters(bytes, two) => DescribedEsc(bytes) = command
      BY <2>3, <3>1 DEF Parameters, DescribedEsc
    <3>4. command[1] \notin SelfDescribing
      BY <3>1 DEF SelfDescribing
    <3> QED BY <2>1, <3>2, <3>3, <3>4, NamedByEsc
  <2>4. CASE code = 68
    <3>1. EscCommand(p) = EscD(p)
      BY <1>2, <2>4 DEF EscCommand
    <3> QED BY <1>2, <2>4, <3>1, EscDNamed
  <2>5. CASE code = 42
    <3>1. EscCommand(p) = EscStar(p)
      BY <1>2, <2>5 DEF EscCommand
    <3> QED BY <2>5, <3>1, EscStarNamed
  <2>6. CASE code \notin {64, 50, 68, 42}
    <3>1. EscCommand(p) \in {EscMotion(p), EscParameter(p)}
      BY <1>2, <2>6 DEF EscCommand
    <3> QED BY <3>1, EscMotionNamed, EscParameterNamed
  <2> HIDE DEF code
  <2> QED BY <2>2, <2>3, <2>4, <2>5, <2>6
<1> QED BY <1>1, <1>2

LEMMA NamedByGs ==
  ASSUME Reading, Byte(0) = 29, NEW length \in Nat, length >= 2, Has(length), NEW q, NEW command,
         command[1] \notin SelfDescribing,
         \A bytes : Again(bytes, length) /\ Parameters(bytes, length) => DescribedGs(bytes) = command
  PROVE  Named(Done(length, q, command))
<1>1. ASSUME NEW bytes, Again(bytes, length)
      PROVE  Described(bytes) = command
  <2>1. bytes[1] = 29 /\ Parameters(bytes, length)
    BY <1>1, FirstBytes DEF Reading, Parameters
  <2> QED BY <1>1, <2>1 DEF Described
<1> QED BY <1>1, NamedByBytes

LEMMA GsSettingNamed ==
  ASSUME Reading, Byte(0) = 29, Has(3), NEW p, Byte(1) \in {33, 66, 72, 76, 80, 87, 102, 104, 119}
  PROVE  Named(GsCommand(p))
<1> DEFINE code == Byte(1)
<1>1. PICK n \in Nat : n = Byte(2)
  <2>1. PICK two \in Nat : two = 2 /\ Has(two + 1)
    OBVIOUS
  <2>2. Byte(two) \in 0..255
    BY <2>1, ByteIsNumber
  <2> QED BY <2>1, <2>2
<1>2. PICK three \in Nat : three = 3 /\ three >= 2 /\ Has(three)
  OBVIOUS
<1>3. CASE code = 33
  <2>1. PICK q, command : q = SetCharacterSize(p, n) /\ command = <<"character_size", n>>
    OBVIOUS
  <2>2. GsCommand(p) = Done(three, q, command)
    BY <1>1, <1>2, <1>3, <2>1 DEF GsCommand
  <2>3. \A bytes : Parameters(bytes, three) => DescribedGs(bytes) = command
    <3> SUFFICES ASSUME NEW bytes, Parameters(bytes, three)
                 PROVE  DescribedGs(bytes) = command
      OBVIOUS
    <3>1. bytes[2] = 33 /\ bytes[3] = n
      BY <1>1, <1>2, <1>3 DEF Parameters
    <3> QED BY <2>1, <3>1 DEF DescribedGs
  <2>4. command[1] \notin SelfDescribing
    BY <2>1 DEF SelfDescribing
  <2> QED BY <1>2, <2>2, <2>3, <2>4, NamedByGs
<1>4. CASE code = 66
  <2>1. PICK q, command : q = [p EXCEPT !.reversed = n % 2 = 1] /\ command = <<"reverse", n % 2 = 1>>
    OBVIOUS
  <2>2. GsCommand(p) = Done(three, q, command)
    BY <1>1, <1>2, <1>4, <2>1 DEF GsCommand
  <2>3. \A bytes : Parameters(bytes, three) => DescribedGs(bytes) = command
    <3> SUFFICES ASSUME NEW bytes, Parameters(bytes, three)
                 PROVE  DescribedGs(bytes) = command
      OBVIOUS
    <3>1. bytes[2] = 66 /\ bytes[3] = n
      BY <1>1, <1>2, <1>4 DEF Parameters
    <3> QED BY <2>1, <3>1 DEF DescribedGs
  <2>4. command[1] \notin SelfDescribing
    BY <2>1 DEF SelfDescribing
  <2> QED BY <1>2, <2>2, <2>3, <2>4, NamedByGs
<1>5. CASE code = 72
  <2>1. CASE ~IsDigitOf(n, 3)
    BY <1>1, <1>5, <2>1, RefusedIsNamed DEF GsCommand, Choice
  <2>2. CASE IsDigitOf(n, 3)
    <3>1. PICK q, command : q = [p EXCEPT !.hri = HriPositions[1 + Chosen(n)]] /\ command = <<"hri", Chosen(n)>>
      OBVIOUS
    <3>2. GsCommand(p) = Done(three, q, command)
      BY <1>1, <1>2, <1>5, <2>2, <3>1 DEF GsCommand, Choice
    <3>3. Digit(n) = Chosen(n)
      <4>1. PICK last \in 0..9 : last = 3
        OBVIOUS
      <4> QED BY <2>2, <4>1, SameDigit
    <3>4. \A bytes : Parameters(bytes, three) => DescribedGs(bytes) = command
      BY <1>1, <1>2, <1>5, <3>1, <3>3 DEF Parameters, DescribedGs
    <3>5. command[1] \notin SelfDescribing
      BY <3>1 DEF SelfDescribing
    <3> QED BY <1>2, <3>2, <3>4, <3>5, NamedByGs
  <2> QED BY <2>1, <2>2
<1>6. CASE code = 76
  <2>1. PICK q, command : q = SetLeftMargin(p, Word(2)) /\ command = <<"left_margin", Word(2)>>
    OBVIOUS
  <2>2. CASE ~Has(4)
    BY <1>6, <2>2, RefusedIsNamed DEF GsCommand
  <2>3. CASE Has(4)
    <3>1. PICK four \in Nat : four = 4 /\ four >= 2 /\ Has(four)
      BY <2>3
    <3>2. GsCommand(p) = Done(four, q, command)
      BY <1>1, <1>6, <2>1, <2>3, <3>1 DEF GsCommand
    <3>3. \A bytes : Parameters(bytes, four) => DescribedGs(bytes) = command
      BY <1>1, <1>6, <2>1, <3>1 DEF Parameters, DescribedGs, DWord, Word
    <3>4. command[1] \notin SelfDescribing
      BY <2>1 DEF SelfDescribing
    <3> QED BY <3>1, <3>2, <3>3, <3>4, NamedByGs
  <2> QED BY <2>2, <2>3
<1>7. CASE code = 80
  <2>1. PICK q, command : q = SetMotionUnits(p, n, Byte(3)) /\ command = <<"motion_units", n, Byte(3)>>
    OBVIOUS
  <2>2. CASE ~Has(4)
    BY <1>7, <2>2, RefusedIsNamed DEF GsCommand
  <2>3. CASE Has(4)
    <3>1. PICK four \in Nat : four = 4 /\ four >= 2 /\ Has(four)
      BY <2>3
    <3>2. GsCommand(p) = Done(four, q, command)
      BY <1>1, <1>7, <2>1, <2>3, <3>1 DEF GsCommand
    <3>3. \A bytes : Parameters(bytes, four) => DescribedGs(bytes) = command
      BY <1>1, <1>7, <2>1, <3>1 DEF Parameters, DescribedGs
    <3>4. command[1] \notin SelfDescribing
      BY <2>1 DEF SelfDescribing
    <3> QED BY <3>1, <3>2, <3>3, <3>4, NamedByGs
  <2> QED BY <2>2, <2>3
<1>8. CASE code = 87
  <2>1. PICK q, command : q = SetPrintAreaWidth(p, Word(2)) /\ command = <<"area_width", Word(2)>>
    OBVIOUS
  <2>2. CASE ~Has(4)
    BY <1>8, <2>2, RefusedIsNamed DEF GsCommand
  <2>3. CASE Has(4)
    <3>1. PICK four \in Nat : four = 4 /\ four >= 2 /\ Has(four)
      BY <2>3
    <3>2. GsCommand(p) = Done(four, q, command)
      BY <1>1, <1>8, <2>1, <2>3, <3>1 DEF GsCommand
    <3>3. \A bytes : Parameters(bytes, four) => DescribedGs(bytes) = command
      BY <1>1, <1>8, <2>1, <3>1 DEF Parameters, DescribedGs, DWord, Word
    <3>4. command[1] \notin SelfDescribing
      BY <2>1 DEF SelfDescribing
    <3> QED BY <3>1, <3>2, <3>3, <3>4, NamedByGs
  <2> QED BY <2>2, <2>3
<1>9. CASE code = 102
  <2>1. CASE ~IsDigitOf(n, 1)
    BY <1>1, <1>9, <2>1, RefusedIsNamed DEF GsCommand, Choice
  <2>2. CASE IsDigitOf(n, 1)
    <3>1. PICK q, command : q = [p EXCEPT !.hriFont = <<"A", "B">>[1 + Chosen(n)]] /\ command = <<"hri_font", Chosen(n)>>
      OBVIOUS
    <3>2. GsCommand(p) = Done(three, q, command)
      BY <1>1, <1>2, <1>9, <2>2, <3>1 DEF GsCommand, Choice
    <3>3. Digit(n) = Chosen(n)
      <4>1. PICK last \in 0..9 : last = 1
        OBVIOUS
      <4> QED BY <2>2, <4>1, SameDigit
    <3>4. \A bytes : Parameters(bytes, three) => DescribedGs(bytes) = command
      BY <1>1, <1>2, <1>9, <3>1, <3>3 DEF Parameters, DescribedGs
    <3>5. command[1] \notin SelfDescribing
      BY <3>1 DEF SelfDescribing
    <3> QED BY <1>2, <3>2, <3>4, <3>5, NamedByGs
  <2> QED BY <2>1, <2>2
<1>10. CASE code = 104
  <2>1. PICK q, command : q = [p EXCEPT !.barHeight = n] /\ command = <<"bar_height", n>>
    OBVIOUS
  <2>2. GsCommand(p) \in {Refused, Done(three, q, command)}
    BY <1>1, <1>2, <1>10, <2>1 DEF GsCommand
  <2>3. \A bytes : Parameters(bytes, three) => DescribedGs(bytes) = command
    <3> SUFFICES ASSUME NEW bytes, Parameters(bytes, three)
                 PROVE  DescribedGs(bytes) = command
      OBVIOUS
    <3>1. bytes[2] = 104 /\ bytes[3] = n
      BY <1>1, <1>2, <1>10 DEF Parameters
    <3> QED BY <2>1, <3>1 DEF DescribedGs
  <2>4. command[1] \notin SelfDescribing
    BY <2>1 DEF SelfDescribing
  <2> QED BY <1>2, <2>2, <2>3, <2>4, NamedByGs, RefusedIsNamed
<1>11. CASE code = 119
  <2>1. PICK q, command : q = [p EXCEPT !.barModule = n] /\ command = <<"bar_width", n>>
    OBVIOUS
  <2>2. GsCommand(p) \in {Refused, Done(three, q, command)}
    BY <1>1, <1>2, <1>11, <2>1 DEF GsCommand
  <2>3. \A bytes : Parameters(bytes, three) => DescribedGs(bytes) = command
    <3> SUFFICES ASSUME NEW bytes, Parameters(bytes, three)
                 PROVE  DescribedGs(bytes) = command
      OBVIOUS
    <3>1. bytes[2] = 119 /\ bytes[3] = n
      BY <1>1, <1>2, <1>11 DEF Parameters
    <3> QED BY <2>1, <3>1 DEF DescribedGs
  <2>4. command[1] \notin SelfDescribing
    BY <2>1 DEF SelfDescribing
  <2> QED BY <1>2, <2>2, <2>3, <2>4, NamedByGs, RefusedIsNamed
<1> HIDE DEF code
<1> QED BY <1>3, <1>4, <1>5, <1>6, <1>7, <1>8, <1>9, <1>10, <1>11 DEF code

LEMMA GsVNamed ==
  ASSUME Reading, Byte(0) = 29, Byte(1) = 86, Has(3), NEW p
  PROVE  Named(GsV(p))
<1> DEFINE mode == Byte(2)
<1>1. PICK three \in Nat : three = 3 /\ three >= 2 /\ Has(three)
  OBVIOUS
<1>2. ASSUME NEW kind, \/ kind = "full" /\ mode \in {0, 48}
                       \/ kind = "partial" /\ mode \in {1, 49}
      PROVE  Named(GsV(p))
  <2>1. PICK q, command : q = Cut(p, kind) /\ command = <<"cut", kind>>
    OBVIOUS
  <2>2. GsV(p) = Done(three, q, command)
    BY <1>1, <1>2, <2>1 DEF GsV
  <2>3. \A bytes : Parameters(bytes, three) => DescribedGs(bytes) = command
    <3> SUFFICES ASSUME NEW bytes, Parameters(bytes, three)
                 PROVE  DescribedGs(bytes) = command
      OBVIOUS
    <3>1. bytes[2] = 86 /\ bytes[3] = mode
      BY <1>1 DEF Parameters
    <3>2. DescribedGs(bytes) = DescribedCut(bytes)
      BY <3>1 DEF DescribedGs
    <3> QED BY <1>2, <2>1, <3>1, <3>2 DEF DescribedCut
  <2>4. command[1] \notin SelfDescribing
    BY <2>1 DEF SelfDescribing
  <2> QED BY <1>1, <2>2, <2>3, <2>4, NamedByGs
<1>3. ASSUME Has(4), NEW kind, \/ kind = "full" /\ mode = 65
                               \/ kind = "partial" /\ mode = 66
      PROVE  Named(GsV(p))
  <2>1. PICK q, command : /\ q = FeedToCutPositionAndCut(p, kind, Byte(3))
                          /\ command = <<"cut", kind, Byte(3)>>
    OBVIOUS
  <2>2. PICK four \in Nat : four = 4 /\ four >= 2 /\ Has(four)
    BY <1>3
  <2>3. GsV(p) = Done(four, q, command)
    BY <1>3, <2>1, <2>2 DEF GsV
  <2>4. \A bytes : Parameters(bytes, four) => DescribedGs(bytes) = command
    <3> SUFFICES ASSUME NEW bytes, Parameters(bytes, four)
                 PROVE  DescribedGs(bytes) = command
      OBVIOUS
    <3>1. bytes[2] = 86 /\ bytes[3] = mode /\ bytes[4] = Byte(3)
      BY <2>2 DEF Parameters
    <3>2. DescribedGs(bytes) = DescribedCut(bytes)
      BY <3>1 DEF DescribedGs
    <3> QED BY <1>3, <2>1, <3>1, <3>2 DEF DescribedCut
  <2>5. command[1] \notin SelfDescribing
    BY <2>1 DEF SelfDescribing
  <2> QED BY <2>2, <2>3, <2>4, <2>5, NamedByGs
<1>4. CASE ~(mode \in {0, 1, 48, 49} \/ (mode \in {65, 66} /\ Has(4)))
  <2>1. GsV(p) = Refused
    BY <1>4 DEF GsV
  <2> QED BY <2>1, RefusedIsNamed
<1>5. \E full, partial : full = "full" /\ partial = "partial"
  OBVIOUS
<1> HIDE DEF mode
<1> QED BY <1>2, <1>3, <1>4, <1>5

LEMMA ThreeAndTwo ==
  ASSUME NEW a, NEW b, NEW c, NEW x, NEW y
  PROVE  <<a, b, c>> \o <<x, y>> = <<a, b, c, x, y>>
<1>1. PICK S : a \in S /\ b \in S /\ c \in S /\ x \in S /\ y \in S
  <2>1. \E S : S = {a, b, c, x, y}
    OBVIOUS
  <2> QED BY <2>1
<1>2. PICK s, t : s = <<a, b, c>> /\ t = <<x, y>>
  OBVIOUS
<1>3. /\ s \in Seq(S) /\ Len(s) = 3 /\ s[1] = a /\ s[2] = b /\ s[3] = c
      /\ t \in Seq(S) /\ Len(t) = 2 /\ t[1] = x /\ t[2] = y
  BY <1>1, <1>2
<1>4. PICK whole : whole = s \o t
  OBVIOUS
<1>5. /\ whole \in Seq(S) /\ Len(whole) = 5 /\ whole[1] = a /\ whole[2] = b /\ whole[3] = c
      /\ whole[4] = x /\ whole[5] = y
  <2>1. /\ whole \in Seq(S) /\ Len(whole) = 5
        /\ \A i \in 1..5 : whole[i] = IF i <= 3 THEN s[i] ELSE t[i - 3]
    <3>1. s \in Seq(S) /\ t \in Seq(S) /\ Len(s) = 3 /\ Len(t) = 2
      BY <1>3
    <3>2. /\ whole \in Seq(S) /\ Len(whole) = Len(s) + Len(t)
          /\ \A i \in 1..Len(s) + Len(t) : whole[i] = IF i <= Len(s) THEN s[i] ELSE t[i - Len(s)]
      BY <1>4, <3>1, ConcatProperties, Zenon
    <3> QED BY <3>1, <3>2
  <2>2. /\ whole[1] = s[1] /\ whole[2] = s[2] /\ whole[3] = s[3]
        /\ whole[4] = t[1] /\ whole[5] = t[2]
    BY <2>1
  <2> QED BY <1>3, <2>1, <2>2
<1>6. whole = <<a, b, c, x, y>>
  BY <1>1, <1>5
<1> QED BY <1>2, <1>4, <1>6

LEMMA GsV0Named ==
  ASSUME Reading, Byte(0) = 29, Byte(1) = 118, Has(3), NEW p
  PROVE  Named(GsV0(p))
<1>1. PICK mode : mode = Byte(3)
  OBVIOUS
<1>2. PICK scaleX, scaleY : scaleX = 1 + (Chosen(mode) % 2) /\ scaleY = 1 + (Chosen(mode) \div 2)
  OBVIOUS
<1>3. PICK printed : printed = PrintRasterImage(p, Word(4) * 8 * scaleX, Word(6) * scaleY)
  OBVIOUS
<1>4. PICK q, command : /\ q = [printed EXCEPT !.pendingLf = TRUE]
                        /\ command = <<"raster_image", Word(4) * 8, Word(6), scaleX, scaleY>>
  OBVIOUS
<1>5. CASE GsV0(p) = Refused
  BY <1>5, RefusedIsNamed
<1>6. CASE Byte(2) = 48 /\ GsV0(p) = Done(3, p, <<"skipped_raster_image">>)
  <2>1. PICK three \in Nat : three = 3 /\ three >= 2 /\ Has(three)
    OBVIOUS
  <2>5. PICK command1 : command1 = <<"skipped_raster_image">>
    OBVIOUS
  <2>2. GsV0(p) = Done(three, p, command1)
    BY <1>6, <2>1, <2>5
  <2>3. \A bytes : Again(bytes, three) /\ Parameters(bytes, three) => DescribedGs(bytes) = command1
    <3> SUFFICES ASSUME NEW bytes, Again(bytes, three), Parameters(bytes, three)
                 PROVE  DescribedGs(bytes) = command1
      OBVIOUS
    <3>1. bytes[2] = 118 /\ bytes[3] = 48 /\ Len(bytes) = 3
      BY <1>6, <2>1 DEF Parameters, Again, IsSlice
    <3>2. DescribedGs(bytes) = DescribedRasterImage(bytes)
      BY <3>1 DEF DescribedGs
    <3> QED BY <2>5, <3>1, <3>2 DEF DescribedRasterImage
  <2>4. command1[1] \notin SelfDescribing
    BY <2>5 DEF SelfDescribing
  <2> QED BY <2>1, <2>2, <2>3, <2>4, NamedByGs
<1>7. CASE GsV0(p) \notin {Refused, Done(3, p, <<"skipped_raster_image">>)}
  <2>1. /\ Byte(2) = 48 /\ Has(8) /\ IsDigitOf(mode, 3) /\ Has(8 + Word(4) * Word(6))
        /\ Word(4) * Word(6) > 0
        /\ GsV0(p) = Done(8 + Word(4) * Word(6), q, command)
    BY <1>1, <1>2, <1>3, <1>4, <1>7 DEF GsV0, Whole
  <2>2. Word(4) \in Nat /\ Word(6) \in Nat
    <3>1. PICK four \in Nat, six \in Nat : four = 4 /\ six = 6 /\ Has(four + 2) /\ Has(six + 2)
      BY <2>1 DEF Has, Reading
    <3> QED BY <3>1, WordIsNumber
  <2>3. PICK length \in Nat : length = 8 + Word(4) * Word(6) /\ length > 8 /\ Has(length)
    <3>1. PICK a \in Nat, b \in Nat : a = Word(4) /\ b = Word(6)
      BY <2>2
    <3>2. a * b \in Nat
      OBVIOUS
    <3>3. PICK c \in Nat : c = Word(4) * Word(6)
      BY <3>1, <3>2
    <3> QED BY <2>1, <3>3
  <2>4. mode \in Nat
    <3>1. PICK three \in Nat : three = 3 /\ Has(three + 1)
      BY <2>1 DEF Has, Reading
    <3>2. Byte(three) \in 0..255
      BY <3>1, ByteIsNumber
    <3> QED BY <1>1, <3>1, <3>2
  <2>5. ASSUME NEW bytes, Again(bytes, length)
        PROVE  DescribedGs(bytes) = command
    <3>1. /\ bytes[2] = 118 /\ bytes[3] = 48 /\ bytes[4] = mode /\ Len(bytes) > 3
          /\ bytes[5] = Byte(4) /\ bytes[6] = Byte(5) /\ bytes[7] = Byte(6) /\ bytes[8] = Byte(7)
      <4>1. Len(bytes) > 3
        BY <2>3, <2>5 DEF Again, IsSlice
      <4>2. /\ bytes[2] = Byte(1) /\ bytes[3] = Byte(2) /\ bytes[4] = Byte(3)
            /\ bytes[5] = Byte(4) /\ bytes[6] = Byte(5) /\ bytes[7] = Byte(6) /\ bytes[8] = Byte(7)
        <5>1. offset \in Nat
          BY DEF Reading
        <5> QED BY <2>3, <2>5, <5>1, FirstBytes
      <4> QED BY <1>1, <2>1, <4>1, <4>2
    <3>2. DescribedGs(bytes) = DescribedRasterImage(bytes)
      BY <3>1 DEF DescribedGs
    <3>3. DWord(bytes, 4) = Word(4) /\ DWord(bytes, 6) = Word(6)
      BY <3>1 DEF DWord, Word
    <3>4. Digit(mode) = Chosen(mode) /\ Digit(mode) \in 0..3
      BY <2>1, <2>4 DEF Digit, Chosen, IsDigitOf
    <3>5. RasterScales[1 + Digit(mode)] = <<scaleX, scaleY>>
      <4>1. PICK d \in 0..3 : d = Digit(mode) /\ d = Chosen(mode)
        BY <3>4
      <4>2. scaleX = 1 + (d % 2) /\ scaleY = 1 + (d \div 2)
        BY <1>2, <4>1
      <4>3. \/ d = 0 /\ scaleX = 1 /\ scaleY = 1
            \/ d = 1 /\ scaleX = 2 /\ scaleY = 1
            \/ d = 2 /\ scaleX = 1 /\ scaleY = 2
            \/ d = 3 /\ scaleX = 2 /\ scaleY = 2
        BY <4>2
      <4>4. RasterScales[1 + d] = <<scaleX, scaleY>>
        BY <4>3 DEF RasterScales
      <4> QED BY <4>1, <4>4
    <3>6. DescribedRasterImage(bytes)
            = <<"raster_image", Word(4) * 8, Word(6)>> \o <<scaleX, scaleY>>
      <4>1. DescribedRasterImage(bytes)
              = <<"raster_image", DWord(bytes, 4) * 8, DWord(bytes, 6)>> \o RasterScales[1 + Digit(bytes[4])]
        BY <3>1, <3>4 DEF DescribedRasterImage
      <4> QED BY <3>1, <3>3, <3>5, <4>1
    <3>7. PICK name, across, down : name = "raster_image" /\ across = Word(4) * 8 /\ down = Word(6)
      OBVIOUS
    <3>8. <<name, across, down>> \o <<scaleX, scaleY>> = <<name, across, down, scaleX, scaleY>>
      BY ThreeAndTwo
    <3> QED BY <1>4, <3>2, <3>6, <3>7, <3>8
  <2>6. command[1] \notin SelfDescribing
    BY <1>4 DEF SelfDescribing
  <2>7. length >= 2 /\ GsV0(p) = Done(length, q, command)
    BY <2>1, <2>3
  <2> QED BY <2>3, <2>5, <2>6, <2>7, NamedByGs
<1>8. GsV0(p) = Done(3, p, <<"skipped_raster_image">>) => GsV0(p) = Refused \/ Byte(2) = 48
  BY DEF GsV0
<1> QED BY <1>5, <1>6, <1>7, <1>8

LEMMA RestOfCommand ==
  ASSUME Reading, NEW from \in Nat, NEW length \in Nat, from <= length,
         NEW bytes, Again(bytes, length)
  PROVE  IsSlice(SubSeq(bytes, from + 1, Len(bytes)), from, length)
<1>1. PICK zero \in Nat, first \in Nat \ {0} : zero = 0 /\ first = from + 1
  OBVIOUS
<1>2. IsSlice(bytes, zero, length)
  BY <1>1 DEF Again
<1>3. Len(bytes) = length
  BY <1>1, <1>2 DEF IsSlice
<1>4. IsSlice(SubSeq(bytes, first, length), zero + first - 1, zero + length)
  <2>1. offset \in Nat /\ zero <= length /\ first <= length + 1 /\ length <= length - zero
    BY <1>1 DEF Reading
  <2> QED BY <1>2, <2>1, SliceOfSlice
<1>5. zero + first - 1 = from /\ zero + length = length
  BY <1>1
<1> QED BY <1>1, <1>3, <1>4, <1>5

LEMMA AfterHeader ==
  ASSUME Reading, NEW header \in Nat, NEW length \in Nat, Has(header + length),
         NEW bytes, Again(bytes, header + length)
  PROVE  SubSeq(bytes, header + 1, Len(bytes)) = Bytes(header, header + length)
<1>1. PICK last \in Nat : last = header + length /\ header <= last
  OBVIOUS
<1>2. IsSlice(SubSeq(bytes, header + 1, Len(bytes)), header, last)
  BY <1>1, RestOfCommand
<1>3. IsSlice(Bytes(header, last), header, last)
  BY <1>1, SliceOfJob
<1> QED BY <1>1, <1>2, <1>3, SlicesAreEqual

\* The graphics function that the trace finds behind a header of this length.
ReadsGraphics(bytes, header, extended) ==
  DescribedGs(bytes) = DescribedGraphics(SubSeq(bytes, header + 1, Len(bytes)), extended)

LEMMA GraphicsNamed ==
  ASSUME Reading, Byte(0) = 29, NEW p, NEW header \in {5, 7}, NEW length \in Nat,
         NEW extended,
         \A bytes : Parameters(bytes, header + length) => ReadsGraphics(bytes, header, extended)
  PROVE  Named(GraphicsFunction(p, header, length, extended))
<1>1. PICK n : n = Bytes(header, header + length)
  OBVIOUS
<1>2. PICK width, height : width = n[7] + 256 * n[8] /\ height = n[9] + 256 * n[10]
  OBVIOUS
<1>3. PICK stored : stored = StoreRasterGraphics(p, [width |-> width * n[4], height |-> height * n[5]])
  OBVIOUS
<1>4. PICK print, store : /\ print = <<"print_graphics">>
                          /\ store = <<"store_graphics", width, height>>
  OBVIOUS
<1>5. PICK done : done = GraphicsFunction(p, header, length, extended)
  OBVIOUS
<1>6. CASE done = Refused
  BY <1>5, <1>6, RefusedIsNamed
<1>7. CASE done # Refused
  <2>1. PICK whole \in Nat : whole = header + length /\ whole >= 2
    OBVIOUS
  <2>2. Has(whole)
    BY <1>5, <1>7, <2>1 DEF GraphicsFunction
  <2>3. \/ n[2] \in {2, 50} /\ ~extended /\ done = Done(whole, PrintBufferedGraphics(p), print)
        \/ n[2] = 112 /\ done = Done(whole, stored, store)
    BY <1>1, <1>2, <1>3, <1>4, <1>5, <1>7, <2>1 DEF GraphicsFunction
  <2>4. ASSUME NEW bytes, Again(bytes, whole), Parameters(bytes, whole)
        PROVE  DescribedGs(bytes) = DescribedGraphics(n, extended)
    <3>1. header \in Nat
      OBVIOUS
    <3>2. SubSeq(bytes, header + 1, Len(bytes)) = n
      BY <1>1, <2>1, <2>2, <2>4, <3>1, AfterHeader
    <3> QED BY <2>1, <2>4, <3>2 DEF ReadsGraphics
  <2>5. CASE n[2] \in {2, 50} /\ ~extended /\ done = Done(whole, PrintBufferedGraphics(p), print)
    <3>1. DescribedGraphics(n, extended) = print
      BY <1>4, <2>5 DEF DescribedGraphics
    <3>2. print[1] \notin SelfDescribing
      BY <1>4 DEF SelfDescribing
    <3>3. PICK q : q = PrintBufferedGraphics(p)
      OBVIOUS
    <3>4. Named(Done(whole, q, print))
      BY <2>1, <2>2, <2>4, <3>1, <3>2, NamedByGs
    <3> QED BY <1>5, <2>5, <3>3, <3>4
  <2>6. CASE n[2] = 112 /\ done = Done(whole, stored, store)
    <3>1. DescribedGraphics(n, extended) = store
      BY <1>2, <1>4, <2>6 DEF DescribedGraphics, DWord
    <3>2. store[1] \notin SelfDescribing
      BY <1>4 DEF SelfDescribing
    <3>3. Named(Done(whole, stored, store))
      BY <2>1, <2>2, <2>4, <3>1, <3>2, NamedByGs
    <3> QED BY <1>5, <2>6, <3>3
  <2> QED BY <2>3, <2>5, <2>6
<1> QED BY <1>6, <1>7

LEMMA Gs8LNamed ==
  ASSUME Reading, Byte(0) = 29, Byte(1) = 56, Has(3), NEW p
  PROVE  Named(Gs8L(p))
<1>1. CASE Gs8L(p) = Refused
  BY <1>1, RefusedIsNamed
<1>2. CASE Gs8L(p) # Refused
  <2>1. Has(7) /\ Byte(2) = 76 /\ Gs8L(p) = GraphicsFunction(p, 7, Word(3), TRUE)
    BY <1>2 DEF Gs8L
  <2>2. PICK header \in {5, 7}, length \in Nat : header = 7 /\ length = Word(3)
    <3>1. PICK three \in Nat : three = 3 /\ Has(three + 2)
      BY <2>1 DEF Has, Reading
    <3> QED BY <3>1, WordIsNumber
  <2>3. PICK extended : extended = TRUE
    OBVIOUS
  <2>4. \A bytes : Parameters(bytes, header + length) => ReadsGraphics(bytes, header, extended)
    <3> SUFFICES ASSUME NEW bytes, Parameters(bytes, header + length)
                 PROVE  ReadsGraphics(bytes, header, extended)
      OBVIOUS
    <3>1. bytes[2] = 56 /\ bytes[3] = 76
      BY <2>1, <2>2 DEF Parameters
    <3>2. DescribedGs(bytes) = DescribedGraphics(SubSeq(bytes, 7 + 1, Len(bytes)), TRUE)
      BY <3>1 DEF DescribedGs
    <3> QED BY <2>2, <2>3, <3>2 DEF ReadsGraphics
  <2>5. Named(GraphicsFunction(p, header, length, extended))
    BY <2>4, GraphicsNamed
  <2> QED BY <2>1, <2>2, <2>3, <2>5
<1> QED BY <1>1, <1>2

LEMMA QrNamed ==
  ASSUME Reading, Byte(0) = 29, Byte(1) = 40, Byte(2) = 107, Has(5), NEW p
  PROVE  Named(QrFunction(p))
<1>1. PICK length \in Nat : length = Word(3)
  <2>1. PICK three \in Nat : three = 3 /\ Has(three + 2)
    OBVIOUS
  <2> QED BY <2>1, WordIsNumber
<1>2. PICK n : n = Bytes(5, 5 + length)
  OBVIOUS
<1>3. PICK matrix : matrix = QrModules(p.qrLevel, p.qrData) \intersect QrSizes
  OBVIOUS
<1>4. PICK done : done = QrFunction(p)
  OBVIOUS
<1>5. CASE done = Refused
  BY <1>4, <1>5, RefusedIsNamed
<1>6. CASE done # Refused
  <2>1. PICK whole \in Nat : whole = 5 + length /\ whole >= 5
    OBVIOUS
  <2>2. Has(whole) /\ length >= 3 /\ n[1] = 49
    BY <1>1, <1>2, <1>4, <1>6, <2>1 DEF QrFunction
  <2>3. ASSUME NEW bytes, Again(bytes, whole), Parameters(bytes, whole)
        PROVE  DescribedGs(bytes) = DescribedQr(n)
    <3>1. bytes[2] = 40 /\ bytes[3] = 107
      BY <2>1, <2>3 DEF Parameters
    <3>2. DescribedGs(bytes) = DescribedQr(SubSeq(bytes, 5 + 1, Len(bytes)))
      BY <3>1 DEF DescribedGs
    <3>3. PICK header \in Nat : header = 5
      OBVIOUS
    <3>4. SubSeq(bytes, header + 1, Len(bytes)) = Bytes(header, header + length)
      BY <2>1, <2>2, <2>3, <3>3, AfterHeader
    <3> QED BY <1>2, <3>2, <3>3, <3>4
  <2>4. ASSUME NEW q, NEW command, done = Done(whole, SetQr(p, q), command),
               command[1] \notin SelfDescribing, DescribedQr(n) = command
        PROVE  Named(done)
    <3>1. PICK r : r = SetQr(p, q)
      OBVIOUS
    <3>2. Named(Done(whole, r, command))
      BY <2>1, <2>2, <2>3, <2>4, NamedByGs
    <3> QED BY <2>4, <3>1, <3>2
  <2>5. PICK model, module, level, store, qr :
          /\ model = <<"qr_model", 2>> /\ module = <<"qr_module", n[3]>>
          /\ level = <<"qr_level", n[3] - 48>> /\ store = <<"store_qr", length - 3>>
          /\ qr = <<"qr", p.qrData>>
    OBVIOUS
  <2>6. PICK q1, q2, q3, q4 :
          /\ q1 = [p EXCEPT !.qrModule = n[3]]
          /\ q2 = [p EXCEPT !.qrLevel = QrLevels[n[3] - 47]]
          /\ q3 = StoreQrData(p, SubSeq(n, 4, length))
          /\ q4 = PrintQr(p, CHOOSE m \in matrix : TRUE)
    OBVIOUS
  <2>7. \/ n[2] = 65 /\ n[3] = 50 /\ done = Done(whole, SetQr(p, p), model)
        \/ n[2] = 67 /\ done = Done(whole, SetQr(p, q1), module)
        \/ n[2] = 69 /\ n[3] \in 48..51 /\ done = Done(whole, SetQr(p, q2), level)
        \/ n[2] = 80 /\ done = Done(whole, SetQr(p, q3), store)
        \/ n[2] = 81 /\ done = Done(whole, SetQr(p, q4), qr)
    BY <1>1, <1>2, <1>3, <1>4, <1>6, <2>1, <2>5, <2>6 DEF QrFunction
  <2>8. CASE n[2] = 65 /\ n[3] = 50 /\ done = Done(whole, SetQr(p, p), model)
    <3>1. DescribedQr(n) = model
      BY <2>2, <2>5, <2>8 DEF DescribedQr
    <3>2. model[1] \notin SelfDescribing
      BY <2>5 DEF SelfDescribing
    <3> QED BY <1>4, <2>4, <2>8, <3>1, <3>2, Zenon
  <2>9. CASE n[2] = 67 /\ done = Done(whole, SetQr(p, q1), module)
    <3>1. DescribedQr(n) = module
      BY <2>2, <2>5, <2>9 DEF DescribedQr
    <3>2. module[1] \notin SelfDescribing
      BY <2>5 DEF SelfDescribing
    <3> QED BY <1>4, <2>4, <2>9, <3>1, <3>2, Zenon
  <2>10. CASE n[2] = 69 /\ n[3] \in 48..51 /\ done = Done(whole, SetQr(p, q2), level)
    <3>1. DescribedQr(n) = level
      BY <2>2, <2>5, <2>10 DEF DescribedQr, Digit
    <3>2. level[1] \notin SelfDescribing
      BY <2>5 DEF SelfDescribing
    <3> QED BY <1>4, <2>4, <2>10, <3>1, <3>2, Zenon
  <2>11. CASE n[2] = 80 /\ done = Done(whole, SetQr(p, q3), store)
    <3>1. Len(n) = length
      <4>1. PICK header \in Nat : header = 5 /\ header <= whole /\ whole - header = length
        BY <2>1
      <4>2. IsSlice(Bytes(header, whole), header, whole)
        BY <2>2, <4>1, SliceOfJob
      <4> QED BY <1>2, <2>1, <4>1, <4>2 DEF IsSlice
    <3>2. DescribedQr(n) = store
      BY <2>2, <2>5, <2>11, <3>1 DEF DescribedQr
    <3>3. store[1] \notin SelfDescribing
      BY <2>5 DEF SelfDescribing
    <3> QED BY <1>4, <2>4, <2>11, <3>2, <3>3, Zenon
  <2>12. CASE n[2] = 81 /\ done = Done(whole, SetQr(p, q4), qr)
    <3>1. qr[1] \in SelfDescribing
      BY <2>5 DEF SelfDescribing
    <3>2. PICK q : q = SetQr(p, q4)
      OBVIOUS
    <3>3. Named(Done(whole, q, qr))
      BY <3>1, NamesItself
    <3> QED BY <1>4, <2>12, <3>2, <3>3, Zenon
  <2> QED BY <2>7, <2>8, <2>9, <2>10, <2>11, <2>12
<1> QED BY <1>4, <1>5, <1>6

LEMMA GsParenthesisNamed ==
  ASSUME Reading, Byte(0) = 29, Byte(1) = 40, Has(3), NEW p
  PROVE  Named(GsParenthesis(p))
<1>1. CASE Has(5) /\ Byte(2) = 76
  <2>1. GsParenthesis(p) = GraphicsFunction(p, 5, Word(3), FALSE)
    <3>1. Byte(2) # 107
      BY <1>1
    <3> QED BY <1>1, <3>1, Zenon DEF GsParenthesis
  <2>2. PICK header \in {5, 7}, length \in Nat : header = 5 /\ length = Word(3)
    <3>1. PICK three \in Nat : three = 3 /\ Has(three + 2)
      BY <1>1
    <3> QED BY <3>1, WordIsNumber
  <2>3. PICK extended : extended = FALSE
    OBVIOUS
  <2>4. \A bytes : Parameters(bytes, header + length) => ReadsGraphics(bytes, header, extended)
    <3> SUFFICES ASSUME NEW bytes, Parameters(bytes, header + length)
                 PROVE  ReadsGraphics(bytes, header, extended)
      OBVIOUS
    <3>1. bytes[2] = 40 /\ bytes[3] = 76
      BY <1>1, <2>2 DEF Parameters
    <3>2. DescribedGs(bytes) = DescribedGraphics(SubSeq(bytes, 5 + 1, Len(bytes)), FALSE)
      BY <3>1 DEF DescribedGs
    <3> QED BY <2>2, <2>3, <3>2 DEF ReadsGraphics
  <2>5. Named(GraphicsFunction(p, header, length, extended))
    BY <2>4, GraphicsNamed
  <2> QED BY <2>1, <2>2, <2>3, <2>5
<1>2. CASE Has(5) /\ Byte(2) = 107
  <2>1. GsParenthesis(p) = QrFunction(p)
    <3>1. Byte(2) # 76
      BY <1>2
    <3> QED BY <1>2, <3>1, Zenon DEF GsParenthesis
  <2> QED BY <1>2, <2>1, QrNamed
<1>3. CASE ~(Has(5) /\ Byte(2) \in {76, 107})
  <2>1. GsParenthesis(p) = Refused
    BY <1>3 DEF GsParenthesis
  <2> QED BY <2>1, RefusedIsNamed
<1> QED BY <1>1, <1>2, <1>3

LEMMA PartOfJob ==
  ASSUME Reading, NEW from \in Nat, NEW to \in Nat, from <= to, NEW s, IsSlice(s, from, to),
         NEW n \in Nat, n <= to - from
  PROVE  IsSlice(SubSeq(s, 1, n), from, from + n)
<1>1. PICK one \in Nat \ {0} : one = 1 /\ one <= n + 1
  OBVIOUS
<1>2. offset \in Nat
  BY DEF Reading
<1>3. IsSlice(SubSeq(s, one, n), from + one - 1, from + n)
  BY <1>1, <1>2, SliceOfSlice
<1>4. from + one - 1 = from
  BY <1>1
<1> QED BY <1>1, <1>3, <1>4

\* What a barcode's frame says of the bytes it takes.
IsFrame(f) ==
  /\ f.length \in Nat /\ f.length >= 4 /\ Has(f.length)
  /\ \A bytes : Again(bytes, f.length) /\ Parameters(bytes, f.length)
                => DescribedBarcode(bytes) = <<"barcode", f.system, f.payload>>

LEMMA FunctionANamed ==
  ASSUME Reading, Has(3), Byte(2) \in 0..6, NEW f \in FunctionA
  PROVE  IsFrame(f)
<1>1. PICK left \in Nat, three \in Nat : /\ left = Len(job) - offset /\ Has(left)
                                         /\ three = 3 /\ three <= left
  <2>1. PICK n \in Nat : n = Len(job) - offset /\ Has(n) /\ 3 <= n
    <3>1. Len(job) \in Nat /\ offset \in Nat
      BY DEF Reading
    <3>2. PICK n \in Int : n = Len(job) - offset /\ 3 <= n /\ Has(n)
      BY <3>1 DEF Has
    <3>3. n \in Nat
      BY <3>2
    <3> QED BY <3>2, <3>3
  <2> QED BY <2>1
<1>2. PICK rest : rest = Bytes(3, Len(job) - offset)
  OBVIOUS
<1>3. PICK ends : ends = {i \in DOMAIN rest : rest[i] = 0} \union
                         IF Byte(2) + 65 = 69 THEN Stops(rest) ELSE {}
  OBVIOUS
<1>4. PICK payload : payload = SubSeq(rest, 1, Min(ends) - IF rest[Min(ends)] = 0 THEN 1 ELSE 0)
  OBVIOUS
<1>5. /\ ends # {} /\ f.system = Byte(2) + 65 /\ f.payload = payload /\ f.length = 3 + Min(ends)
  BY <1>2, <1>3, <1>4 DEF FunctionA
<1>6. IsSlice(rest, three, left)
  BY <1>1, <1>2, SliceOfJob
<1>7. PICK m \in Nat \ {0} : /\ m = Min(ends) /\ m <= left - 3
                             /\ \A i \in ends : m <= i
  <2>1. Len(rest) = left - 3 /\ rest \in Seq(0..255)
    BY <1>1, <1>6 DEF IsSlice
  <2>2. ends \in SUBSET (1..(left - 3))
    BY <1>3, <2>1 DEF Stops
  <2>3. ends \in SUBSET Nat
    BY <2>2
  <2>4. Min(ends) \in ends /\ \A i \in ends : Min(ends) <= i
    BY <1>5, <2>3, MinOfNumbers
  <2>5. PICK least : least = Min(ends)
    OBVIOUS
  <2>6. least \in 1..(left - 3) /\ \A i \in ends : least <= i
    BY <2>2, <2>4, <2>5
  <2>7. least \in Nat \ {0} /\ least <= left - 3
    BY <2>6
  <2> QED BY <2>5, <2>6, <2>7
<1>8. \A i \in Nat \ {0} : i < m => rest[i] # 0
  <2> SUFFICES ASSUME NEW i \in Nat \ {0}, i < m, rest[i] = 0
               PROVE  FALSE
    OBVIOUS
  <2>1. i \in DOMAIN rest
    BY <1>1, <1>6, <1>7 DEF IsSlice
  <2>2. i \in ends
    BY <1>3, <2>1
  <2> QED BY <1>7, <2>2
<1>9. PICK length \in Nat : length = 3 + m /\ length >= 4 /\ three <= length /\ Has(length)
  BY <1>1, <1>7 DEF Has, Reading
<1>10. PICK taken : taken = SubSeq(rest, 1, m)
  OBVIOUS
<1>11. IsSlice(taken, three, length)
  <2>1. m <= left - three /\ three + m = length
    BY <1>1, <1>7, <1>9
  <2> QED BY <1>1, <1>6, <1>10, <2>1, PartOfJob
<1>12. /\ taken \in Seq(0..255) /\ Len(taken) = m /\ DOMAIN taken = 1..m
       /\ \A i \in 1..m : taken[i] = rest[i]
  <2>1. taken \in Seq(0..255) /\ Len(taken) = m /\ \A i \in 1..m : taken[i] = job[offset + three + i]
    BY <1>1, <1>9, <1>11 DEF IsSlice
  <2>2. \A i \in 1..m : rest[i] = job[offset + three + i]
    BY <1>1, <1>6, <1>7 DEF IsSlice
  <2>3. DOMAIN taken = 1..m
    BY <2>1
  <2> QED BY <2>1, <2>2, <2>3
<1>13. PICK nuls : nuls = {i \in DOMAIN taken : taken[i] = 0}
  OBVIOUS
<1>14. payload = IF nuls = {} THEN taken ELSE SubSeq(taken, 1, Min(nuls) - 1)
  <2>1. CASE rest[m] = 0
    <3>1. m \in nuls /\ \A i \in nuls : m <= i
      BY <1>8, <1>12, <1>13, <2>1
    <3>2. nuls \in SUBSET Nat
      BY <1>12, <1>13
    <3>3. Min(nuls) \in nuls /\ \A i \in nuls : Min(nuls) <= i
      BY <3>1, <3>2, MinOfNumbers
    <3>4. Min(nuls) = m
      <4>1. PICK least : least = Min(nuls)
        OBVIOUS
      <4>2. least \in nuls /\ least <= m
        BY <3>1, <3>3, <4>1
      <4>3. least \in Nat /\ m <= least
        BY <3>1, <3>2, <4>2
      <4> QED BY <4>1, <4>2, <4>3
    <3>5. PICK k \in Nat : k = m - 1 /\ k <= left - three
      BY <1>1, <1>7
    <3>6. payload = SubSeq(rest, 1, k)
      BY <1>4, <1>7, <2>1, <3>5
    <3>7. IsSlice(SubSeq(rest, 1, k), three, three + k)
      BY <1>1, <1>6, <3>5, PartOfJob
    <3>8. IsSlice(SubSeq(taken, 1, k), three, three + k)
      <4>1. k <= length - three
        BY <1>1, <1>9, <3>5
      <4> QED BY <1>9, <1>11, <4>1, PartOfJob
    <3>9. PICK last \in Nat : last = three + k /\ three <= last
      OBVIOUS
    <3>10. SubSeq(rest, 1, k) = SubSeq(taken, 1, k)
      BY <3>7, <3>8, <3>9, SlicesAreEqual
    <3> QED BY <3>1, <3>4, <3>5, <3>6, <3>10
  <2>2. CASE rest[m] # 0
    <3>1. nuls = {}
      BY <1>8, <1>12, <1>13, <2>2
    <3>2. payload = taken
      BY <1>4, <1>7, <1>10, <2>2
    <3> QED BY <3>1, <3>2
  <2> QED BY <2>1, <2>2
<1>15. ASSUME NEW bytes, Again(bytes, length), Parameters(bytes, length)
       PROVE  DescribedBarcode(bytes) = <<"barcode", f.system, f.payload>>
  <2>1. SubSeq(bytes, 4, Len(bytes)) = taken
    <3>1. IsSlice(SubSeq(bytes, three + 1, Len(bytes)), three, length)
      BY <1>9, <1>15, RestOfCommand
    <3>2. three + 1 = 4
      BY <1>1
    <3> QED BY <1>9, <1>11, <3>1, <3>2, SlicesAreEqual
  <2>2. bytes[3] = Byte(2)
    BY <1>9, <1>15 DEF Parameters
  <2>3. PICK shown : shown = IF nuls = {} THEN taken ELSE SubSeq(taken, 1, Min(nuls) - 1)
    OBVIOUS
  <2>4. DescribedBarcode(bytes) = <<"barcode", Byte(2) + 65, shown>>
    <3>1. PICK data : data = SubSeq(bytes, 4, Len(bytes))
      OBVIOUS
    <3>2. PICK n : n = {i \in DOMAIN data : data[i] = 0}
      OBVIOUS
    <3>3. DescribedBarcode(bytes)
            = <<"barcode", bytes[3] + 65, IF n = {} THEN data ELSE SubSeq(data, 1, Min(n) - 1)>>
      <4>1. bytes[3] \in 0..6 /\ bytes[3] \notin 65..79
        BY <2>2
      <4> QED BY <3>1, <3>2, <4>1, Zenon DEF DescribedBarcode
    <3>4. data = taken /\ n = nuls
      BY <1>13, <2>1, <3>1, <3>2
    <3> QED BY <2>2, <2>3, <3>3, <3>4
  <2> QED BY <1>5, <1>14, <2>3, <2>4
<1> QED BY <1>5, <1>7, <1>9, <1>15 DEF IsFrame

LEMMA FunctionBNamed ==
  ASSUME Reading, Byte(2) \in 65..79, NEW f \in FunctionB
  PROVE  IsFrame(f)
<1>1. Has(4) /\ Has(4 + Byte(3))
  BY DEF FunctionB
<1>2. PICK count \in Nat, four \in Nat : count = Byte(3) /\ four = 4
  <2>1. PICK three \in Nat : three = 3 /\ Has(three + 1)
    BY <1>1
  <2>2. Byte(three) \in 0..255
    BY <2>1, ByteIsNumber
  <2> QED BY <2>1, <2>2
<1>3. PICK last \in Nat : last = four + count /\ Has(last) /\ four <= last
  BY <1>1, <1>2
<1>4. PICK counted : counted = Bytes(4, 4 + Byte(3))
  OBVIOUS
<1>5. IsSlice(counted, four, last)
  BY <1>2, <1>3, <1>4, SliceOfJob
<1>6. PICK stops : stops = IF Byte(2) = 69 THEN Stops(counted) ELSE {}
  OBVIOUS
<1>7. PICK payload : payload = IF stops = {} THEN counted ELSE SubSeq(counted, 1, Min(stops))
  OBVIOUS
<1>8. f.system = Byte(2) /\ f.payload = payload /\ f.length = 4 + Len(payload)
  <2>1. f \in {[system |-> Byte(2), payload |-> payload, length |-> 4 + Len(payload)]}
    BY <1>4, <1>6, <1>7, Zenon DEF FunctionB
  <2> QED BY <2>1
<1>9. PICK n \in Nat : IsSlice(payload, four, four + n) /\ n <= count
  <2>1. CASE stops = {}
    BY <1>3, <1>5, <1>7, <2>1
  <2>2. CASE stops # {}
    <3>1. Len(counted) = count /\ counted \in Seq(0..255)
      BY <1>2, <1>3, <1>5 DEF IsSlice
    <3>2. stops \in SUBSET (1..count)
      BY <1>6, <3>1 DEF Stops
    <3>3. stops \in SUBSET Nat
      BY <3>2
    <3>4. Min(stops) \in stops
      BY <2>2, <3>3, MinOfNumbers
    <3>5. PICK m \in Nat : m = Min(stops) /\ m <= count /\ m <= last - four
      <4>1. PICK least : least = Min(stops)
        OBVIOUS
      <4>2. least \in 1..count
        BY <3>2, <3>4, <4>1
      <4>3. least \in Nat /\ least <= count /\ least <= last - four
        BY <1>2, <1>3, <4>2
      <4> QED BY <4>1, <4>3
    <3>6. payload = SubSeq(counted, 1, m)
      BY <1>7, <2>2, <3>5
    <3>7. IsSlice(payload, four, four + m)
      BY <1>3, <1>5, <3>5, <3>6, PartOfJob
    <3> QED BY <3>5, <3>7
  <2> QED BY <2>1, <2>2
<1>10. PICK length \in Nat : length = four + n /\ four <= length /\ length >= 4 /\ Has(length)
  BY <1>2, <1>3, <1>9 DEF Has, Reading
<1>11. Len(payload) = n /\ IsSlice(payload, four, length)
  BY <1>2, <1>9, <1>10 DEF IsSlice
<1>12. ASSUME NEW bytes, Again(bytes, length), Parameters(bytes, length)
       PROVE  DescribedBarcode(bytes) = <<"barcode", f.system, f.payload>>
  <2>1. bytes[3] = Byte(2)
    BY <1>10, <1>12 DEF Parameters
  <2>2. PICK data : data = SubSeq(bytes, 4, Len(bytes))
    OBVIOUS
  <2>3. PICK three \in Nat : three = 3 /\ three <= length
    BY <1>10
  <2>4. IsSlice(data, three, length)
    <3>1. IsSlice(SubSeq(bytes, three + 1, Len(bytes)), three, length)
      BY <1>12, <2>3, RestOfCommand
    <3> QED BY <2>2, <2>3, <3>1
  <2>5. Tail(data) = payload
    <3>1. PICK two \in Nat \ {0} : two = 2
      OBVIOUS
    <3>2. PICK k \in Nat : k = length - three
      BY <2>3
    <3>3. Len(data) = k /\ data \in Seq(0..255)
      BY <2>4, <3>2 DEF IsSlice
    <3>4. Tail(data) = SubSeq(data, two, k)
      BY <3>1, <3>3
    <3>5. IsSlice(SubSeq(data, two, k), three + two - 1, three + k)
      <4>1. offset \in Nat /\ two <= k + 1 /\ k <= length - three
        BY <1>2, <1>10, <2>3, <3>1, <3>2 DEF Reading
      <4> QED BY <2>3, <2>4, <4>1, SliceOfSlice
    <3>6. three + two - 1 = four /\ three + k = length
      BY <1>2, <2>3, <3>1, <3>2
    <3>7. IsSlice(Tail(data), four, length)
      BY <3>4, <3>5, <3>6
    <3> QED BY <1>10, <1>11, <3>7, SlicesAreEqual
  <2>6. DescribedBarcode(bytes) = <<"barcode", Byte(2), Tail(data)>>
    <3>1. bytes[3] \in 65..79 /\ bytes[3] \notin 0..6
      BY <2>1
    <3>2. DescribedBarcode(bytes) = <<"barcode", bytes[3], Tail(data)>>
      BY <2>2, <3>1, Zenon DEF DescribedBarcode
    <3> QED BY <2>1, <3>2
  <2> QED BY <1>8, <2>5, <2>6
<1> QED BY <1>2, <1>8, <1>10, <1>11, <1>12 DEF IsFrame

LEMMA GsKNamed ==
  ASSUME Reading, Byte(0) = 29, Byte(1) = 107, Has(3), NEW p
  PROVE  Named(GsK(p))
<1>1. CASE GsK(p) = Refused
  BY <1>1, RefusedIsNamed
<1>2. CASE GsK(p) # Refused
  <2> DEFINE framed == CASE Byte(2) \in 0..6 -> FunctionA
                         [] Byte(2) \in 65..79 -> FunctionB
                         [] OTHER -> {}
             frame == CHOOSE f \in framed : TRUE
             odd == Byte(2) = 5 /\ Len(frame.payload) % 2 = 1
             payload == IF odd THEN Front(frame.payload) ELSE frame.payload
             symbols == EncodedBarcode(frame.system, payload) \intersect BarcodeSymbol
             printed == PrintBarcode(p, CHOOSE s \in symbols : TRUE)
  <2>1. \/ framed = FunctionA /\ Byte(2) \in 0..6
        \/ framed = FunctionB /\ Byte(2) \in 65..79
        \/ framed = {}
    OBVIOUS
  <2>2. GsK(p) = IF framed = {} \/ Len(frame.payload) > MaxPayload \/ symbols = {} THEN Refused
                 ELSE Done(frame.length, printed, <<"barcode", frame.system, frame.payload>>)
    BY Zenon DEF GsK
  <2>9. framed # {} => frame \in framed
    OBVIOUS
  <2> HIDE DEF framed, frame, symbols, printed
  <2>3. PICK q, command : /\ command = <<"barcode", frame.system, frame.payload>>
                          /\ GsK(p) = Done(frame.length, q, command)
                          /\ framed # {}
    BY <1>2, <2>2
  <2>4. frame \in framed
    BY <2>3, <2>9
  <2>5. IsFrame(frame)
    <3>1. CASE frame \in FunctionA /\ Byte(2) \in 0..6
      BY <3>1, FunctionANamed
    <3>2. CASE frame \in FunctionB /\ Byte(2) \in 65..79
      BY <3>2, FunctionBNamed
    <3> QED BY <2>1, <2>3, <2>4, <3>1, <3>2
  <2>6. PICK length \in Nat : length = frame.length /\ length >= 4 /\ Has(length)
    BY <2>5 DEF IsFrame
  <2>7. ASSUME NEW bytes, Again(bytes, length), Parameters(bytes, length)
        PROVE  DescribedGs(bytes) = command
    <3>1. bytes[2] = 107
      BY <2>6, <2>7 DEF Parameters
    <3>2. DescribedGs(bytes) = DescribedBarcode(bytes)
      BY <3>1 DEF DescribedGs
    <3>3. DescribedBarcode(bytes) = <<"barcode", frame.system, frame.payload>>
      BY <2>5, <2>6, <2>7 DEF IsFrame
    <3> QED BY <2>3, <3>2, <3>3
  <2>8. command[1] \notin SelfDescribing
    BY <2>3 DEF SelfDescribing
  <2> QED BY <2>3, <2>6, <2>7, <2>8, NamedByGs
<1> QED BY <1>1, <1>2

LEMMA GsCommandNamed ==
  ASSUME Reading, Byte(0) = 29, NEW p
  PROVE  Named(GsCommand(p))
<1>1. CASE ~Has(3)
  BY <1>1, RefusedIsNamed DEF GsCommand
<1>2. CASE Has(3)
  <2> DEFINE code == Byte(1)
  <2>1. CASE code = 40
    <3>1. GsCommand(p) = GsParenthesis(p)
      BY <1>2, <2>1 DEF GsCommand
    <3> QED BY <1>2, <2>1, <3>1, GsParenthesisNamed
  <2>2. CASE code = 56
    <3>1. GsCommand(p) = Gs8L(p)
      BY <1>2, <2>2 DEF GsCommand
    <3> QED BY <1>2, <2>2, <3>1, Gs8LNamed
  <2>3. CASE code = 107
    <3>1. GsCommand(p) = GsK(p)
      BY <1>2, <2>3 DEF GsCommand
    <3> QED BY <1>2, <2>3, <3>1, GsKNamed
  <2>4. CASE code = 86
    <3>1. GsCommand(p) = GsV(p)
      BY <1>2, <2>4 DEF GsCommand
    <3> QED BY <1>2, <2>4, <3>1, GsVNamed
  <2>5. CASE code = 118
    <3>1. GsCommand(p) = GsV0(p)
      BY <1>2, <2>5 DEF GsCommand
    <3> QED BY <1>2, <2>5, <3>1, GsV0Named
  <2>6. CASE code \in {33, 66, 72, 76, 80, 87, 102, 104, 119}
    BY <1>2, <2>6, GsSettingNamed
  <2>7. CASE code \notin {33, 40, 56, 66, 72, 76, 80, 86, 87, 102, 104, 107, 118, 119}
    <3>1. GsCommand(p) = Refused
      BY <1>2, <2>7 DEF GsCommand
    <3> QED BY <3>1, RefusedIsNamed
  <2> HIDE DEF code
  <2> QED BY <2>1, <2>2, <2>3, <2>4, <2>5, <2>6, <2>7
<1> QED BY <1>1, <1>2

LEMMA SingleByteNamed ==
  ASSUME Reading, NEW code \in {9, 13}, Byte(0) = code, NEW q, NEW command,
         command = IF code = 9 THEN <<"tab">> ELSE <<"carriage_return">>
  PROVE  Named(Done(1, q, command))
<1>1. PICK one \in Nat : one = 1 /\ Has(one)
  BY DEF Reading, Has
<1>2. ASSUME NEW bytes, Again(bytes, one)
      PROVE  Described(bytes) = command
  <2>1. offset \in Nat
    BY DEF Reading
  <2>2. bytes[1] = code
    BY <1>1, <1>2, <2>1, FirstBytes
  <2> QED BY <2>2 DEF Described
<1>3. command[1] \notin SelfDescribing
  BY DEF SelfDescribing
<1>4. Named(Done(one, q, command))
  BY <1>1, <1>2, <1>3, NamedByBytes
<1> QED BY <1>1, <1>4

LEMMA EntryNames ==
  ASSUME NEW done, Named(done), ~done.printer.failed,
         NEW entry, entry = TraceEntry(done.printer, done.length, done.command)
  PROVE  entry.shown = entry.executed
<1>1. PICK q, length, command : q = done.printer /\ length = done.length /\ command = done.command
  OBVIOUS
<1>2. Description(command, Bytes(0, length)) = command
  BY <1>1 DEF Named
<1>3. PICK life, style : /\ life = Lifecycle(q, offset)
                         /\ style = IF HeldStyle = {TextStyle(q)} THEN {} ELSE {TextStyle(q)}
  OBVIOUS
<1>4. entry = [ sheet |-> Len(printer.sheets), from |-> offset, to |-> offset + length,
                executed |-> command, shown |-> command, lifecycle |-> life, style |-> style,
                paint |-> {} ]
  BY <1>1, <1>2, <1>3 DEF TraceEntry
<1> QED BY <1>4

LEMMA StepsKeepNames ==
  ASSUME RenderingInv, TraceNamesCommands, outcome = "rendering", NEW done, Named(done), Steps(done)
  PROVE  TraceNamesCommands'
<1>1. CASE done.printer.failed
  BY <1>1 DEF Steps, Fails, TraceNamesCommands
<1>2. CASE ~done.printer.failed
  <2>1. PICK entry : entry = TraceEntry(done.printer, done.length, done.command)
    OBVIOUS
  <2>2. trace' = Append(trace, entry)
    BY <1>2, <2>1 DEF Steps
  <2>3. entry.shown = entry.executed
    BY <1>2, <2>1, EntryNames
  <2>4. PICK n \in Nat : n = Len(trace) /\ DOMAIN trace = 1..n
    <3>1. trace \in Seq(ToSet(trace))
      BY DEF RenderingInv, Numbered
    <3> QED BY <3>1
  <2>5. /\ DOMAIN Append(trace, entry) = 1..(n + 1)
        /\ \A i \in 1..(n + 1) : Append(trace, entry)[i] = IF i = n + 1 THEN entry ELSE trace[i]
    <3>1. trace \in Seq(ToSet(trace))
      BY DEF RenderingInv, Numbered
    <3>2. PICK S : trace \in Seq(S) /\ entry \in S
      <4>1. PICK T : T = ToSet(trace)
        OBVIOUS
      <4>2. PICK S : S = T \union {entry}
        OBVIOUS
      <4>3. trace \in Seq(S)
        BY <3>1, <4>1, <4>2
      <4> QED BY <4>2, <4>3
    <3> QED BY <2>4, <3>2
  <2>6. \A i \in 1..(n + 1) : Append(trace, entry)[i].shown = Append(trace, entry)[i].executed
    BY <2>3, <2>4, <2>5 DEF TraceNamesCommands
  <2> QED BY <2>2, <2>5, <2>6 DEF TraceNamesCommands
<1> QED BY <1>1, <1>2

LEMMA FinishKeepsNames == RenderingInv /\ TraceNamesCommands /\ FinishJob => TraceNamesCommands'
<1> SUFFICES ASSUME RenderingInv, TraceNamesCommands, FinishJob
             PROVE  TraceNamesCommands'
  OBVIOUS
<1>1. PICK surfaces : surfaces = Surfaces(printer)
  OBVIOUS
<1>2. \/ trace' = trace
      \/ trace' = [i \in DOMAIN trace |-> Finished(trace[i], surfaces)]
  BY <1>1 DEF FinishJob, Fails
<1>3. \A i \in DOMAIN trace : DOMAIN trace[i] = EntryFields
  <2>1. outcome = "rendering"
    BY DEF FinishJob
  <2> QED BY <2>1 DEF RenderingInv, Numbered
<1>4. ASSUME NEW entry, DOMAIN entry = EntryFields, entry.shown = entry.executed
      PROVE  Finished(entry, surfaces).shown = Finished(entry, surfaces).executed
  <2>1. PICK marked : marked = IF entry.sheet < Len(surfaces)
                               THEN Marked(surfaces[entry.sheet + 1], entry.from) ELSE {}
    OBVIOUS
  <2>2. PICK bounds : bounds = Bounds(marked)
    OBVIOUS
  <2>3. \/ Finished(entry, surfaces) = entry
        \/ Finished(entry, surfaces) = [entry EXCEPT !.lifecycle = "committed", !.paint = {bounds}]
    BY <2>1, <2>2 DEF Finished
  <2> QED BY <1>4, <2>3 DEF EntryFields
<1> QED BY <1>2, <1>3, <1>4 DEF TraceNamesCommands

LEMMA NextKeepsNames ==
  RenderingInv /\ TraceNamesCommands /\ [InterpreterNext]_interpreterVars => TraceNamesCommands'
<1> SUFFICES ASSUME RenderingInv, TraceNamesCommands, [InterpreterNext]_interpreterVars
             PROVE  TraceNamesCommands'
  OBVIOUS
<1>1. PICK p : p = Addressed
  OBVIOUS
<1>2. outcome = "rendering" /\ offset < Len(job) => Reading /\ DOMAIN p = Fields
  BY <1>1, AddressedIsReady DEF Ready, Good
<1>3. ASSUME outcome = "rendering", NEW done, Named(done), Steps(done)
      PROVE  TraceNamesCommands'
  BY <1>3, StepsKeepNames
<1>4. CASE ExecuteTextByte
  <2>1. PICK q, command : q = PrintByte(Addressed, Byte(0)) /\ command = <<"text", Byte(0)>>
    OBVIOUS
  <2>2. command[1] \in SelfDescribing
    BY <2>1 DEF SelfDescribing
  <2>3. PICK done : done = Done(1, q, command)
    OBVIOUS
  <2>4. outcome = "rendering" /\ Named(done) /\ Steps(done)
    BY <1>4, <2>1, <2>2, <2>3, NamesItself DEF ExecuteTextByte, Reads
  <2> QED BY <1>3, <2>4
<1>5. CASE ExecuteTab
  <2>1. PICK q, command : q = HorizontalTab(Addressed) /\ command = <<"tab">>
    OBVIOUS
  <2>2. PICK done : done = Done(1, q, command)
    OBVIOUS
  <2>3. outcome = "rendering" /\ offset < Len(job) /\ Byte(0) = 9 /\ Steps(done)
    BY <1>5, <2>1, <2>2 DEF ExecuteTab, Reads
  <2>4. PICK code \in {9, 13} : code = 9
    OBVIOUS
  <2>5. Named(done)
    BY <1>2, <2>1, <2>2, <2>3, <2>4, SingleByteNamed
  <2> QED BY <1>3, <2>3, <2>5
<1>6. CASE ExecuteLineFeed
  <2>1. PICK q, command : q = LineFeed(Addressed) /\ command = <<"line_feed">>
    OBVIOUS
  <2>2. command[1] \in SelfDescribing
    BY <2>1 DEF SelfDescribing
  <2>3. PICK done : done = Done(1, q, command)
    OBVIOUS
  <2>4. outcome = "rendering" /\ Named(done) /\ Steps(done)
    BY <1>6, <2>1, <2>2, <2>3, NamesItself DEF ExecuteLineFeed, Reads
  <2> QED BY <1>3, <2>4
<1>7. CASE ExecuteCarriageReturn
  <2>1. PICK q, command : q = CarriageReturn(Addressed) /\ command = <<"carriage_return">>
    OBVIOUS
  <2>2. PICK done : done = Done(1, q, command)
    OBVIOUS
  <2>3. outcome = "rendering" /\ offset < Len(job) /\ Byte(0) = 13 /\ Steps(done)
    BY <1>7, <2>1, <2>2 DEF ExecuteCarriageReturn, Reads
  <2>4. PICK code \in {9, 13} : code = 13
    OBVIOUS
  <2>5. Named(done)
    BY <1>2, <2>1, <2>2, <2>3, <2>4, SingleByteNamed
  <2> QED BY <1>3, <2>3, <2>5
<1>8. CASE ExecuteEscCommand
  <2>1. outcome = "rendering" /\ offset < Len(job) /\ Byte(0) = 27
    BY <1>8 DEF ExecuteEscCommand, Reads
  <2>2. PICK done : done = EscCommand(p)
    OBVIOUS
  <2>3. Steps(done)
    BY <1>1, <1>8, <2>2 DEF ExecuteEscCommand
  <2>4. Named(done)
    BY <1>2, <2>1, <2>2, EscCommandNamed
  <2> QED BY <1>3, <2>1, <2>3, <2>4
<1>9. CASE ExecuteGsCommand
  <2>1. outcome = "rendering" /\ offset < Len(job) /\ Byte(0) = 29
    BY <1>9 DEF ExecuteGsCommand, Reads
  <2>2. PICK done : done = GsCommand(p)
    OBVIOUS
  <2>3. Steps(done)
    BY <1>1, <1>9, <2>2 DEF ExecuteGsCommand
  <2>4. Named(done)
    BY <1>2, <2>1, <2>2, GsCommandNamed
  <2> QED BY <1>3, <2>1, <2>3, <2>4
<1>10. CASE ExecuteUnsupported
  <2>1. PICK done : done = Refused
    OBVIOUS
  <2>2. outcome = "rendering" /\ Steps(done) /\ Named(done)
    BY <1>10, <2>1, RefusedIsNamed DEF ExecuteUnsupported, Reads
  <2> QED BY <1>3, <2>2
<1>11. CASE FinishJob
  BY <1>11, FinishKeepsNames
<1>12. CASE UNCHANGED interpreterVars
  BY <1>12 DEF interpreterVars, TraceNamesCommands
<1> QED BY <1>4, <1>5, <1>6, <1>7, <1>8, <1>9, <1>10, <1>11, <1>12 DEF InterpreterNext

\* Whatever a job holds, the trace shows every command as what was executed: the
\* reading that executes it (command.rs) and the one of its bytes alone (trace.rs)
\* find the same command and the same parameters, whatever its length and form.
\* Text, line feeds, justifications, code tables and printed QR codes are told
\* from the executed command itself.
THEOREM CommandsAreNamed == InterpreterSpec => []TraceNamesCommands
<1>1. InterpreterInit => TraceNamesCommands
  BY DEF InterpreterInit, TraceNamesCommands
<1>2. RenderingInv /\ TraceNamesCommands /\ [InterpreterNext]_interpreterVars => TraceNamesCommands'
  BY NextKeepsNames
<1> QED BY <1>1, <1>2, RenderingIsSound, PTL DEF InterpreterSpec
=============================================================================
