--------------------------- MODULE ReceiptPrinter ---------------------------
(* The state of the printer the renderer imitates, and what each operation of *)
(* state.rs, text.rs, graphics.rs and symbols.rs does to it.  Operations      *)
(* compose (a character may first feed a line), so each is a function from a  *)
(* printer to a printer; an operation that returns an error marks the printer *)
(* as failed, and the interpreter gives up there.                             *)
(*                                                                            *)
(* Dots are not drawn: a surface keeps its height and the regions a command   *)
(* marked on it.  Sums of dots stay far below 2^32, where the code saturates. *)
EXTENDS Integers, Sequences, FiniteSetsExt, SequencesExt

CONSTANTS
  Profiles,   \* the printer profiles a job may be rendered for
  MaxSheets, MaxHeight, MaxDots   \* limits of a rendering

\* What a profile is checked for before it may be rendered for.
IsProfile(p) ==
  /\ {p.width, p.dpiX, p.dpiY, p.unitsX, p.unitsY, p.columnPitch} \subseteq Nat \ {0}
  /\ p.lineSpacing \in Nat /\ p.cutter \subseteq Nat \ {0}
  /\ \A font \in {"A", "B"} : {p.fonts[font].width, p.fonts[font].height} \subseteq Nat \ {0}

ASSUME ProfilesAssumption == \A p \in Profiles : IsProfile(p)
ASSUME LimitsAssumption == {MaxSheets, MaxHeight, MaxDots} \subseteq Nat

VARIABLE profile

LeftEdge == "left"   \* Justification

Surface(width) == [width |-> width, height |-> 0, regions |-> {}]
Taller(surface, height) ==
  [surface EXCEPT !.height = Max({@, height})]

\* Everything but the paper and what left the printer is as `ESC @` leaves it.
PowerOn ==
  [ failed |-> FALSE, command |-> 0,
    sheets |-> <<>>, roll |-> Surface(profile.width), top |-> 0,
    events |-> 0, warnings |-> 0,
    line |-> Surface(profile.width), left |-> 0, x |-> 0, used |-> 0,
    hasData |-> FALSE, atBeginning |-> TRUE, lineHeight |-> 0,
    lineSpacing |-> profile.lineSpacing,
    unitsX |-> profile.unitsX, unitsY |-> profile.unitsY,
    font |-> "A", codePage |-> profile.codePage, charset |-> profile.charset,
    spacing |-> 0, tabs |-> [i \in 1..31 |-> i * 8 * profile.fonts.A.width],
    wide |-> 1, tall |-> 1, emphasized |-> FALSE, underline |-> 0,
    reversed |-> FALSE, justification |-> LeftEdge,
    graphics |-> {}, pendingLf |-> FALSE, qrData |-> <<>>,
    qrModule |-> 3, qrLevel |-> "L", barHeight |-> 162, barModule |-> 3,
    hri |-> "none", hriFont |-> "A" ]

\* Committed rows are fed paper and stay.
Initialize(p) ==
  [PowerOn EXCEPT !.command = p.command, !.sheets = p.sheets, !.roll = p.roll,
                  !.top = p.top, !.events = p.events, !.warnings = p.warnings]

Failed(p) == [p EXCEPT !.failed = TRUE]
Requires(p, condition, result) == IF condition THEN result ELSE Failed(p)

MarkRegion(p, surface, x, y, width, height) ==
  [surface EXCEPT !.regions =
     @ \union {[command |-> p.command, x |-> x, y |-> y,
                width |-> width, height |-> height]}]

CompositeAt(roll, line, left, top) ==
  LET moved == {[r EXCEPT !.x = @ + left, !.y = @ + top] : r \in line.regions}
  IN  [Taller(roll, IF line.height = 0 THEN 0 ELSE top + line.height)
         EXCEPT !.regions = @ \union moved]

DotsX(p, units) == (units * profile.dpiX) \div p.unitsX
DotsY(p, units) == (units * profile.dpiY) \div p.unitsY

Font(p) == profile.fonts[p.font]
Advance(p) == (Font(p).width + p.spacing) * p.wide

\* Where content of this width starts in an area of that width.
Justified(p, area, width) ==
  LET remaining == Max({0, area - width})
  IN  CASE p.justification = "left" -> 0
        [] p.justification = "center" -> remaining \div 2
        [] p.justification = "right" -> remaining

----------------------------------------------------------------------------
(* Feeding paper *)

SheetDots(sheets) ==
  LET dots[n \in 0..Len(sheets)] ==
        IF n = 0 THEN 0 ELSE dots[n - 1] + sheets[n].width * sheets[n].height
  IN  dots[Len(sheets)]

ValidSheetHeight(p, height) == height <= MaxHeight /\ p.roll.width * height <= MaxDots
ValidRollHeight(p, height) ==
  /\ height <= MaxHeight
  /\ SheetDots(p.sheets) + p.roll.width * height <= MaxDots

\* The state every printing command leaves the line in.
StartLine(p) ==
  [p EXCEPT !.x = 0, !.used = 0, !.hasData = FALSE, !.atBeginning = TRUE]

FeedLines(p, lines) ==
  LET feed == IF lines = 0 THEN 0
              ELSE Max({p.lineSpacing, p.lineHeight}) + p.lineSpacing * (lines - 1)
      required == p.top + Max({feed, p.line.height, p.lineHeight})
      left == p.left + Justified(p, p.line.width, p.used)
  IN  Requires(p, ValidRollHeight(p, required),
        [StartLine(p) EXCEPT
           !.roll = Taller(CompositeAt(@, p.line, left, p.top), p.top + feed),
           !.top = @ + feed, !.line = Surface(@.width), !.lineHeight = 0])

PrintAndFeedDots(p, dots) ==
  [FeedLines([p EXCEPT !.lineSpacing = dots], 1) EXCEPT !.lineSpacing = p.lineSpacing]

PrintAndFeedMotionUnits(p, units) == PrintAndFeedDots(p, DotsY(p, units))

ExecuteEscJ(p, units) ==
  IF profile.escJ = "feed" THEN PrintAndFeedMotionUnits(p, units) ELSE p

LineFeed(p) ==
  LET q == [p EXCEPT !.pendingLf = FALSE]
  IN  IF p.pendingLf /\ profile.rasterLf = "ignored" THEN q ELSE FeedLines(q, 1)

CarriageReturn(p) == IF profile.carriageReturn = "ignored" THEN p ELSE LineFeed(p)

----------------------------------------------------------------------------
(* Cutting *)

CutAnywhere(p, kind) ==
  LET supported == (IF kind = "partial" THEN "partial_cut" ELSE "full_cut") \in profile.features
  IN  Requires(p, Len(p.sheets) < MaxSheets,
        [p EXCEPT !.warnings = IF supported THEN @ ELSE @ + 1,
                  !.sheets = Append(@, p.roll), !.roll = Surface(@.width), !.top = 0])
Cut(p, kind) == IF p.atBeginning THEN CutAnywhere(p, kind) ELSE p

FeedToCutPositionAndCut(p, kind, feed) ==
  LET behavior == IF kind = "partial" THEN profile.partialCutFeed ELSE profile.fullCutFeed
      uncuttable == {"full_cut", "partial_cut"} \intersect profile.features = {}
      fed == IF uncuttable THEN PrintAndFeedMotionUnits(p, feed)
             ELSE PrintAndFeedDots(p, (CHOOSE dots \in profile.cutter : TRUE) + DotsY(p, feed))
  IN  IF ~p.atBeginning \/ behavior = "ignored" THEN p
      ELSE Requires(p, uncuttable \/ profile.cutter # {},
             IF fed.failed THEN fed ELSE Cut(fed, kind))

\* What is on the last roll is a sheet only if anything is.
Surfaces(p) == IF p.roll.height > 0 THEN Append(p.sheets, p.roll) ELSE p.sheets

----------------------------------------------------------------------------
(* Where the line starts, and where on it *)

\* A new line buffer of the print area, which is why both commands below are
\* ignored once the line has begun.
NewArea(p, left, width) ==
  [p EXCEPT !.left = left, !.line = Surface(width), !.x = 0, !.used = 0, !.hasData = FALSE]

SetLeftMargin(p, units) ==
  LET margin == Min({DotsX(p, units), p.roll.width})
  IN  IF p.atBeginning
      THEN NewArea(p, margin, Min({p.line.width, p.roll.width - margin}))
      ELSE p

SetPrintAreaWidth(p, units) ==
  IF p.atBeginning
  THEN NewArea(p, p.left, Min({DotsX(p, units), p.roll.width - p.left}))
  ELSE p

MoveAlone(p, position) == [p EXCEPT !.x = IF position \in 0..p.line.width THEN position ELSE @]

\* Positions outside the area are ignored, but the line has begun.
MoveTo(p, position) ==
  [p EXCEPT !.x = IF position \in 0..p.line.width THEN position ELSE @,
            !.atBeginning = FALSE]

SetAbsolutePrintPosition(p, units) ==
  MoveTo(p, IF p.hasData /\ profile.dollarAfterData = "ignored"
            THEN p.x ELSE DotsX(p, units))

SetRelativePrintPosition(p, units) ==
  MoveTo(p, CASE units >= 0 -> p.x + DotsX(p, units)
              [] units < 0 /\ profile.negativeBackslash = "ignored" -> p.x
              [] OTHER -> p.x - DotsX(p, -units))

\* A tab beyond the area prints the line and is tried again on the next one.
TabsWithin(p, first, last) == {t \in ToSet(p.tabs) : t \in first..last}
TabTo(p, position) == [p EXCEPT !.x = position, !.used = Max({@, position})]
HorizontalTab(p) ==
  LET ahead == {t \in ToSet(p.tabs) : t > p.x}
      fed == LineFeed(p)
      again == TabsWithin(fed, 0, fed.line.width)
      tabbed == CASE ahead = {} -> p
                  [] ahead # {} /\ Min(ahead) <= p.line.width -> TabTo(p, Min(ahead))
                  [] OTHER -> IF again = {} THEN fed ELSE TabTo(fed, Min(again))
  IN  [tabbed EXCEPT !.atBeginning = FALSE]

SetTabPositions(p, columns) ==
  [p EXCEPT !.tabs = [i \in DOMAIN columns |-> columns[i] * Advance(p)]]

\* A motion unit of zero is the default one.
SetMotionUnits(p, horizontal, vertical) ==
  [p EXCEPT !.unitsX = IF horizontal = 0 THEN profile.unitsX ELSE horizontal,
            !.unitsY = IF vertical = 0 THEN profile.unitsY ELSE vertical]

SetJustification(p, justification) ==
  IF p.atBeginning THEN [p EXCEPT !.justification = justification] ELSE p

Bit(n, place) == (n \div 2^place) % 2
SetPrintMode(p, mode) ==
  [p EXCEPT !.font = IF Bit(mode, 0) = 1 THEN "B" ELSE "A",
            !.tall = 1 + Bit(mode, 4), !.wide = 1 + Bit(mode, 5),
            !.emphasized = Bit(mode, 3) = 1, !.underline = Bit(mode, 7)]
SetCharacterSize(p, size) ==
  [p EXCEPT !.tall = 1 + (size % 8), !.wide = 1 + ((size \div 16) % 8)]

----------------------------------------------------------------------------
(* Printing on the line *)

Space == 32
\* Printable ASCII is common to every table; of the other bytes a table has
\* those the profile's slot assigns.
IsDecoded(p, byte) == byte < 128 \/ byte \in profile.codePages[p.codePage]

PrintCharacter(p, byte) ==
  LET q == IF p.x + Advance(p) > p.line.width THEN LineFeed(p) ELSE p
      height == Font(p).height * p.tall
      fills == (p.reversed \/ p.underline > 0) /\ q.x < q.line.width
      inked == IF byte # Space \/ fills THEN height ELSE 0
  IN  IF q.failed THEN q
      ELSE [q EXCEPT
              !.line = MarkRegion(q, Taller(@, inked), q.x, 0, Advance(p), height),
              !.lineHeight = Max({@, height}), !.x = @ + Advance(p),
              !.used = Max({@, q.x + Advance(p)}), !.hasData = TRUE, !.atBeginning = FALSE]

PrintByte(p, byte) == Requires(p, IsDecoded(p, byte), PrintCharacter(p, byte))

\* Bit k of a column's byte is k rows below its first; source rows are `pitch`
\* apart.  Column graphics mark no region.
ImageRows(column) ==
  {8 * (k - 1) + row : k \in DOMAIN column, row \in 0..7} \intersect
  {y \in 0..23 : y \div 8 + 1 \in DOMAIN column /\ Bit(column[y \div 8 + 1], 7 - (y % 8)) = 1}
PaintBitImage(p, columns, scale, pitch) ==
  LET rows == UNION {ImageRows(columns[c]) : c \in
                     {c \in DOMAIN columns : p.x + (c - 1) * scale < p.line.width}}
      right == p.x + Len(columns) * scale
      data == columns # <<>>
  IN  [p EXCEPT !.line = Taller(@, Max({0} \union {y * pitch + 1 : y \in rows})),
                !.x = right, !.used = Max({@, right}),
                !.hasData = @ \/ data, !.atBeginning = @ /\ ~data]

----------------------------------------------------------------------------
(* Printing on the roll at once: images and symbols *)

\* Advances the paper by exactly what was printed.
PrintDirectly(p, roll, nextTop) ==
  Requires(p, ValidRollHeight(p, nextTop),
    [StartLine(p) EXCEPT !.roll = Taller(roll, nextTop), !.top = nextTop])

\* The image's dots beyond the print area are dropped.
PrintRasterImage(p, width, height) ==
  LET left == p.left + Justified(p, p.line.width, width)
      kept == Min({width, p.left + p.line.width - left})
  IN  PrintDirectly(p, MarkRegion(p, p.roll, left, p.top, kept, height), p.top + height)

StoreRasterGraphics(p, image) ==
  Requires(p, "graphics" \in profile.features /\ p.atBeginning,
           [p EXCEPT !.graphics = {image}])

\* Printing consumes the stored image.
PrintBufferedGraphics(p) ==
  Requires(p, "graphics" \in profile.features /\ p.atBeginning /\ p.graphics # {},
           LET image == CHOOSE g \in p.graphics : TRUE
           IN  [PrintRasterImage(p, image.width, image.height) EXCEPT !.graphics = {}])

\* What the encoders answer.
BarcodeSymbol == [modules : Nat, wide : Nat, minimumHeight : Nat]
QrSizes == Nat \ {0}

\* A barcode of modules, or of narrow and wide elements; it marks no region.
WideDots == <<0, 5, 8, 10, 13, 16>>
HriLabels(p) ==
  profile.fonts[p.hriFont].height *
    CASE p.hri = "none" -> 0 [] p.hri = "both" -> 2 [] OTHER -> 1
PrintBarcode(p, symbol) ==
  LET width == symbol.modules * p.barModule + symbol.wide * WideDots[p.barModule]
      height == Max({p.barHeight, symbol.minimumHeight * p.barModule})
  IN  Requires(p, p.atBeginning /\ width <= p.line.width,
        PrintDirectly(p, p.roll, p.top + height + HriLabels(p)))

SetQr(p, result) == Requires(p, "qr" \in profile.features, result)
StoreQrData(p, qrData) == SetQr(p, Requires(p, qrData # <<>>, [p EXCEPT !.qrData = qrData]))

\* The stored data stays for another print.
PrintQr(p, modules) ==
  LET size == modules * p.qrModule
      left == p.left + Justified(p, p.line.width, size)
  IN  SetQr(p, Requires(p, p.atBeginning /\ p.qrData # <<>> /\ size <= p.line.width,
        PrintDirectly(p, MarkRegion(p, p.roll, left, p.top, size, size), p.top + size)))

DrawerPulse(p, connector) ==
  Requires(p, connector \in {0, 1, 48, 49} /\ "pulse" \in profile.features,
           [p EXCEPT !.events = @ + 1])
=============================================================================
