------------------------- MODULE EscPosInterpreter --------------------------
(* The rendering of one print job: the bytes are taken apart command by       *)
(* command (command.rs), each command changes the printer, and a trace of     *)
(* them is kept (lib.rs, trace.rs).  Any error ends the rendering.            *)
EXTENDS ReceiptPrinter, CommandDescriptions

CONSTANTS
  Inputs,         \* the byte strings a job may be
  MaxPayload,     \* bytes of one command's payload
  MaxInput, MaxWidth,
  EncodedBarcode(_, _),  \* (system, payload): {} or the one symbol it encodes to
  QrModules(_, _)        \* (level, data): {} or the modules on the side of the matrix

ASSUME InputsAssumption == \A input \in Inputs : input \in Seq(0..255)
ASSUME PayloadAssumption == MaxPayload \in Nat

VARIABLES
  job, offset, printer, trace,
  outcome,   \* "rendering", "rendered" or "failed"
  paper      \* the rendered sheets

interpreterVars == <<profile, job, offset, printer, trace, outcome, paper>>

----------------------------------------------------------------------------
(* Taking one command apart: Done(n, q, c) is the command c of n bytes that   *)
(* leaves the printer q.                                                      *)

Byte(i) == job[offset + 1 + i]
Word(i) == Byte(i) + 256 * Byte(i + 1)
Has(n) == offset + n <= Len(job)
Bytes(from, to) == SubSeq(job, offset + 1 + from, offset + to)

Done(length, q, command) == [length |-> length, printer |-> q, command |-> command]
Refused == Done(1, [failed |-> TRUE], <<"refused">>)
\* A command that ends within the job.
Whole(length, q, command) == IF Has(length) THEN Done(length, q, command) ELSE Refused

\* A parameter given as a number or as its ASCII digit.
IsDigitOf(n, last) == n \in 0..last \union 48..(48 + last)
Chosen(n) == n % 48
Choice(n, last, q, command) ==
  IF IsDigitOf(n, last) THEN Done(3, q, command) ELSE Refused

Justifications == <<"left", "center", "right">>
HriPositions == <<"none", "above", "below", "both">>

\* Bound: a signed word is far from -2^15.
Signed(word) == IF word < 2^15 THEN word ELSE word - 2^16

\* Columns end at a NUL, which is consumed, or before the first one that is in
\* excess or not ascending, which is left to the stream.
EscD(p) ==
  LET left == Len(job) - offset - 2
      Ends(n) == \/ n = 32 \/ Byte(2 + n) = 0
                 \/ n > 0 /\ Byte(2 + n) <= Byte(1 + n)
      ends == {n \in 0..Min({left - 1, 32}) : Ends(n)}
      columns == Bytes(2, 2 + Min(ends))
  IN  IF ends = {} THEN Refused
      ELSE Done(2 + Len(columns) + IF Byte(2 + Len(columns)) = 0 THEN 1 ELSE 0,
                SetTabPositions(p, columns), <<"tab_positions", columns>>)

EscStar(p) ==
  LET mode == Byte(2)
      size == IF mode \in {0, 1} THEN 1 ELSE 3
      columns == [c \in 1..Word(3) |-> Bytes(5 + (c - 1) * size, 5 + c * size)]
      pitch == IF size = 1 THEN profile.columnPitch ELSE 1
  IN  IF /\ Has(5) /\ "column" \in profile.features /\ mode \in {0, 1, 32, 33}
         /\ Word(3) * size <= MaxPayload
      THEN Whole(5 + Word(3) * size,
                 PaintBitImage(p, columns, IF mode \in {0, 32} THEN 2 ELSE 1, pitch),
                 <<"bit_image", mode, Word(3)>>)
      ELSE Refused

\* The commands that move, feed, pulse or select a table.
EscMotion(p) ==
  LET code == Byte(1)
      n == Byte(2)
  IN  IF ~Has(3) THEN Refused
      ELSE
      CASE code = 97 -> LET j == Justifications[1 + Chosen(n)]
                        IN  Choice(n, 2, SetJustification(p, j), <<"justification", j>>)
        [] code = 100 -> Done(3, FeedLines(p, n), <<"feed_lines", n>>)
        [] code = 116 -> IF n \in DOMAIN profile.codePages
                         THEN Done(3, [p EXCEPT !.codePage = n], <<"code_table", n>>)
                         ELSE Refused
        [] code = 92 /\ Has(4) -> Done(4, SetRelativePrintPosition(p, Signed(Word(2))),
                                        <<"relative_position", Word(2)>>)
        [] code = 112 /\ Has(4) -> Whole(5, DrawerPulse(p, n), <<"pulse", Chosen(n)>>)
        [] OTHER -> Refused

\* The settings of one parameter.
EscParameter(p) ==
  LET code == Byte(1)
      n == Byte(2)
  IN  IF ~Has(3) THEN Refused
      ELSE
      CASE code = 32 -> Done(3, [p EXCEPT !.spacing = DotsX(p, n)], <<"character_spacing", n>>)
        [] code = 33 -> Done(3, SetPrintMode(p, n), <<"print_mode", n>>)
        [] code = 45 -> Choice(n, 2, [p EXCEPT !.underline = Chosen(n)], <<"underline", Chosen(n)>>)
        [] code = 51 -> Done(3, [p EXCEPT !.lineSpacing = DotsY(p, n)], <<"line_spacing", n>>)
        [] code = 69 -> Done(3, [p EXCEPT !.emphasized = n % 2 = 1], <<"emphasis", n % 2 = 1>>)
        [] code = 74 -> Done(3, ExecuteEscJ(p, n), <<"feed_paper", n>>)
        [] code = 77 -> Choice(n, 1, [p EXCEPT !.font = <<"A", "B">>[1 + Chosen(n)]],
                               <<"font", Chosen(n)>>)
        [] code = 82 -> IF n <= 17 THEN Done(3, [p EXCEPT !.charset = n], <<"charset", n>>)
                        ELSE Refused
        [] code = 36 /\ Has(4) ->
             Done(4, SetAbsolutePrintPosition(p, Word(2)), <<"position", Word(2)>>)
        [] OTHER -> Refused

EscCommand(p) ==
  LET code == Byte(1)
  IN  IF ~Has(2) THEN Refused
      ELSE
      CASE code = 64 -> Done(2, Initialize(p), <<"initialize">>)
        [] code = 50 -> Done(2, [p EXCEPT !.lineSpacing = profile.lineSpacing],
                             <<"default_line_spacing">>)
        [] code = 68 -> EscD(p)
        [] code = 42 -> EscStar(p)
        [] code > 82 -> EscMotion(p)
        [] OTHER -> EscParameter(p)

----------------------------------------------------------------------------
(* GS commands *)

Star == 42
CodeA(system) == system + 65
\* Where Code 39's stop character is: a leading one is its start character.
Stops(payload) == {i \in 2..Len(payload) : payload[i] = Star}

\* Function A ends at a NUL, Code 39 also at its stop character.
FunctionA ==
  LET system == Byte(2) + 65
      rest == Bytes(3, Len(job) - offset)
      ends == {i \in DOMAIN rest : rest[i] = 0} \union
              IF system = 69 THEN Stops(rest) ELSE {}
      payload == SubSeq(rest, 1, Min(ends) - IF rest[Min(ends)] = 0 THEN 1 ELSE 0)
  IN  IF system \in profile.barcodesA /\ ends # {}
      THEN {[system |-> system, payload |-> payload, length |-> 3 + Min(ends)]} ELSE {}

FunctionBWhole ==
  LET counted == Bytes(4, 4 + Byte(3))
      stops == IF Byte(2) = 69 THEN Stops(counted) ELSE {}
      payload == IF stops = {} THEN counted ELSE SubSeq(counted, 1, Min(stops))
  IN  IF Byte(2) \in profile.barcodesB /\ Has(4) /\ Byte(3) <= MaxPayload /\ Has(4 + Byte(3))
      THEN {[system |-> Byte(2), payload |-> payload, length |-> 4 + Len(counted)]} ELSE {}

\* Function B counts its bytes; those after a stop character go back to the stream.
FunctionB ==
  LET counted == Bytes(4, 4 + Byte(3))
      stops == IF Byte(2) = 69 THEN Stops(counted) ELSE {}
      payload == IF stops = {} THEN counted ELSE SubSeq(counted, 1, Min(stops))
  IN  IF Byte(2) \in profile.barcodesB /\ Has(4) /\ Byte(3) <= MaxPayload /\ Has(4 + Byte(3))
      THEN {[system |-> Byte(2), payload |-> payload, length |-> 4 + Len(payload)]} ELSE {}

\* Function A's ITF drops the last digit of an odd number of them.
GsK(p) ==
  LET framed == CASE Byte(2) \in 0..6 -> FunctionA
                  [] Byte(2) \in 65..79 -> FunctionB
                  [] OTHER -> {}
      f == CHOOSE f \in framed : TRUE
      odd == Byte(2) = 5 /\ Len(f.payload) % 2 = 1
      payload == IF odd THEN Front(f.payload) ELSE f.payload
      symbols == EncodedBarcode(f.system, payload) \intersect BarcodeSymbol
  IN  IF framed = {} \/ Len(f.payload) > MaxPayload \/ symbols = {} THEN Refused
      ELSE Done(f.length, PrintBarcode(p, CHOOSE s \in symbols : TRUE),
                <<"barcode", f.system, f.payload>>)

\* `GS ( L` and `GS 8 L`: a raster plane is stored, or the stored one printed.
GraphicsFunction(p, header, length, extended) ==
  LET n == Bytes(header, header + length)
      width == n[7] + 256 * n[8]
      height == n[9] + 256 * n[10]
      stores == /\ length >= 10 /\ n[3] = 48 /\ {n[4], n[5]} \subseteq {1, 2} /\ n[6] = 49
                /\ width > 0 /\ height > 0
                /\ length - 10 = ((width + 7) \div 8) * height
  IN  IF length > MaxPayload \/ ~Has(header + length) \/ length < 2 \/ n[1] # 48 THEN Refused
      ELSE
      CASE n[2] \in {2, 50} /\ ~extended /\ length = 2 ->
             Done(header + length, PrintBufferedGraphics(p), <<"print_graphics">>)
        [] n[2] = 112 /\ stores ->
             Done(header + length,
                  StoreRasterGraphics(p, [width |-> width * n[4], height |-> height * n[5]]),
                  <<"store_graphics", width, height>>)
        [] OTHER -> Refused

\* Bound: a `GS 8 L` shorter than 2^16 bytes.
Gs8L(p) ==
  IF Has(7) /\ Byte(2) = 76 /\ Word(5) = 0 THEN GraphicsFunction(p, 7, Word(3), TRUE) ELSE Refused

QrLevels == <<"L", "M", "Q", "H">>
MaxQrStore == 7092

QrFunction(p) ==
  LET length == Word(3)
      n == Bytes(5, 5 + length)
      matrix == QrModules(p.qrLevel, p.qrData) \intersect QrSizes
      Is(function, size) == length = size /\ n[2] = function
      Qr(q, command) == Done(5 + length, SetQr(p, q), command)
  IN  IF length > MaxPayload \/ ~Has(5 + length) \/ length < 3 \/ n[1] # 49 THEN Refused
      ELSE
      CASE Is(65, 4) /\ n[3] = 50 /\ n[4] = 0 -> Qr(p, <<"qr_model", 2>>)
        [] Is(67, 3) /\ n[3] \in 1..16 -> Qr([p EXCEPT !.qrModule = n[3]], <<"qr_module", n[3]>>)
        [] Is(69, 3) /\ n[3] \in 48..51 ->
             Qr([p EXCEPT !.qrLevel = QrLevels[n[3] - 47]], <<"qr_level", n[3] - 48>>)
        [] n[2] = 80 /\ length <= MaxQrStore /\ n[3] = 48 ->
             Qr(StoreQrData(p, SubSeq(n, 4, length)), <<"store_qr", length - 3>>)
        [] Is(81, 3) /\ n[3] = 48 /\ matrix # {} ->
             Qr(PrintQr(p, CHOOSE m \in matrix : TRUE), <<"qr", p.qrData>>)
        [] OTHER -> Refused

GsParenthesis(p) ==
  CASE Has(5) /\ Byte(2) = 76 -> GraphicsFunction(p, 5, Word(3), FALSE)
    [] Has(5) /\ Byte(2) = 107 -> QrFunction(p)
    [] OTHER -> Refused

GsV(p) ==
  LET mode == Byte(2)
      kind == IF mode \in {0, 48, 65} THEN "full" ELSE "partial"
  IN  CASE mode \in {0, 1, 48, 49} -> Done(3, Cut(p, kind), <<"cut", kind>>)
        [] mode \in {65, 66} /\ Has(4) ->
             Done(4, FeedToCutPositionAndCut(p, kind, Byte(3)), <<"cut", kind, Byte(3)>>)
        [] OTHER -> Refused

\* Once the line has begun only the prefix is consumed, and the image's bytes
\* are ordinary input.
GsV0(p) ==
  LET mode == Byte(3)
      length == Word(4) * Word(6)
      scaleX == 1 + (Chosen(mode) % 2)
      scaleY == 1 + (Chosen(mode) \div 2)
      printed == PrintRasterImage(p, Word(4) * 8 * scaleX, Word(6) * scaleY)
  IN  CASE Byte(2) # 48 -> Refused
        [] Byte(2) = 48 /\ ~p.atBeginning -> Done(3, p, <<"skipped_raster_image">>)
        [] OTHER ->
             IF /\ "raster" \in profile.features /\ Has(8) /\ IsDigitOf(mode, 3)
                /\ length > 0 /\ length <= MaxPayload
             THEN Whole(8 + length, [printed EXCEPT !.pendingLf = TRUE],
                        <<"raster_image", Word(4) * 8, Word(6), scaleX, scaleY>>)
             ELSE Refused

GsCommand(p) ==
  LET code == Byte(1)
      n == Byte(2)
  IN  IF ~Has(3) THEN Refused
      ELSE
      CASE code = 40 -> GsParenthesis(p)
        [] code = 56 -> Gs8L(p)
        [] code = 107 -> GsK(p)
        [] code = 86 -> GsV(p)
        [] code = 118 -> GsV0(p)
        [] code = 33 -> Done(3, SetCharacterSize(p, n), <<"character_size", n>>)
        [] code = 66 -> Done(3, [p EXCEPT !.reversed = n % 2 = 1], <<"reverse", n % 2 = 1>>)
        [] code = 72 -> Choice(n, 3, [p EXCEPT !.hri = HriPositions[1 + Chosen(n)]],
                               <<"hri", Chosen(n)>>)
        [] code = 102 -> Choice(n, 1, [p EXCEPT !.hriFont = <<"A", "B">>[1 + Chosen(n)]],
                                <<"hri_font", Chosen(n)>>)
        [] code = 104 -> IF n > 0 THEN Done(3, [p EXCEPT !.barHeight = n], <<"bar_height", n>>)
                         ELSE Refused
        [] code = 119 -> IF n \in 2..6 THEN Done(3, [p EXCEPT !.barModule = n], <<"bar_width", n>>)
                         ELSE Refused
        [] code = 76 /\ Has(4) -> Done(4, SetLeftMargin(p, Word(2)), <<"left_margin", Word(2)>>)
        [] code = 80 /\ Has(4) -> Done(4, SetMotionUnits(p, n, Byte(3)), <<"motion_units", n, Byte(3)>>)
        [] code = 87 /\ Has(4) -> Done(4, SetPrintAreaWidth(p, Word(2)), <<"area_width", Word(2)>>)
        [] OTHER -> Refused

----------------------------------------------------------------------------
(* The loop over the job, and its trace *)

TextStyle(p) ==
  [ font |-> p.font, emphasized |-> p.emphasized, underline |-> p.underline,
    wide |-> p.wide, tall |-> p.tall, reversed |-> p.reversed,
    justification |-> p.justification, codePage |-> p.codePage, charset |-> p.charset,
    spacing |-> p.spacing, lineSpacing |-> p.lineSpacing ]

\* The style a reader of the trace so far holds.
HeldStyle ==
  LET changes == {i \in DOMAIN trace : trace[i].style # {}}
  IN  IF changes = {} THEN {} ELSE trace[Max(changes)].style

Marked(surface, from) == {r \in surface.regions : r.command = from}
Lifecycle(p, from) ==
  CASE Marked(p.roll, from) # {} -> "committed"
    [] Marked(p.roll, from) = {} /\ Marked(p.line, from) # {} -> "buffered"
    [] OTHER -> "no_paint"

\* The commands that describe themselves; the others are described by their bytes.
SelfDescribing == {"text", "line_feed", "justification", "code_table", "qr"}
Description(command, bytes) ==
  IF command[1] \in SelfDescribing THEN command ELSE Described(bytes)

TraceEntry(p, length, command) ==
  [ sheet |-> Len(printer.sheets), from |-> offset, to |-> offset + length,
    executed |-> command, shown |-> Description(command, Bytes(0, length)),
    lifecycle |-> Lifecycle(p, offset),
    style |-> IF HeldStyle = {TextStyle(p)} THEN {} ELSE {TextStyle(p)}, paint |-> {} ]

Fails ==
  /\ outcome' = "failed"
  /\ UNCHANGED <<offset, printer, trace, paper>>

Steps(done) ==
  /\ UNCHANGED <<profile, job>>
  /\ IF done.printer.failed THEN Fails
     ELSE /\ offset' = offset + done.length
          /\ printer' = done.printer
          /\ trace' = Append(trace, TraceEntry(done.printer, done.length, done.command))
          /\ UNCHANGED <<outcome, paper>>

\* The printer as a command finds it: marked regions are this command's, and a
\* line feed right after a raster image is still recognised.
Addressed == [printer EXCEPT !.command = offset, !.pendingLf = @ /\ Byte(0) = 10]

Reads(bytes) ==
  /\ outcome = "rendering"
  /\ offset < Len(job)
  /\ Byte(0) \in bytes

Text == 32..126 \union 128..255
ExecuteTextByte ==
  Reads(Text) /\ Steps(Done(1, PrintByte(Addressed, Byte(0)), <<"text", Byte(0)>>))
ExecuteTab == Reads({9}) /\ Steps(Done(1, HorizontalTab(Addressed), <<"tab">>))
ExecuteLineFeed == Reads({10}) /\ Steps(Done(1, LineFeed(Addressed), <<"line_feed">>))
ExecuteCarriageReturn ==
  Reads({13}) /\ Steps(Done(1, CarriageReturn(Addressed), <<"carriage_return">>))
ExecuteEscCommand == Reads({27}) /\ Steps(EscCommand(Addressed))
ExecuteGsCommand == Reads({29}) /\ Steps(GsCommand(Addressed))
ExecuteUnsupported == Reads((0..255) \ (Text \union {9, 10, 13, 27, 29})) /\ Steps(Refused)

\* Bounds of what a command marked on the sheet it was executed on.
Bounds(regions) ==
  [ left |-> Min({r.x : r \in regions}), right |-> Max({r.x + r.width : r \in regions}),
    top |-> Min({r.y : r \in regions}), bottom |-> Max({r.y + r.height : r \in regions}) ]
Finished(entry, surfaces) ==
  LET marked == IF entry.sheet < Len(surfaces)
                THEN Marked(surfaces[entry.sheet + 1], entry.from) ELSE {}
  IN  IF marked = {} THEN entry
      ELSE [entry EXCEPT !.lifecycle = "committed", !.paint = {Bounds(marked)}]

\* A PNG has at least one row and one column.
EncodePng(surfaces) == \A i \in DOMAIN surfaces : surfaces[i].height > 0 /\ surfaces[i].width > 0

FinishJob ==
  LET surfaces == Surfaces(printer)
  IN  /\ outcome = "rendering"
      /\ offset = Len(job)
      /\ UNCHANGED <<profile, job>>
      /\ IF Len(surfaces) <= MaxSheets /\ EncodePng(surfaces)
         THEN /\ outcome' = "rendered"
              /\ paper' = surfaces
              /\ trace' = [i \in DOMAIN trace |-> Finished(trace[i], surfaces)]
              /\ UNCHANGED <<offset, printer>>
         ELSE Fails

ValidInitialLimits == Len(job) <= MaxInput /\ profile.width <= MaxWidth

InterpreterInit ==
  /\ profile \in Profiles
  /\ job \in Inputs
  /\ offset = 0
  /\ printer = PowerOn
  /\ trace = <<>>
  /\ outcome = IF ValidInitialLimits THEN "rendering" ELSE "failed"
  /\ paper = <<>>

InterpreterNext ==
  \/ ExecuteTextByte
  \/ ExecuteTab
  \/ ExecuteLineFeed
  \/ ExecuteCarriageReturn
  \/ ExecuteEscCommand
  \/ ExecuteGsCommand
  \/ ExecuteUnsupported
  \/ FinishJob

InterpreterSpec == InterpreterInit /\ [][InterpreterNext]_interpreterVars

----------------------------------------------------------------------------
(* Properties *)

\* While a command may take the line for unbegun (rebuild its buffer, cut the
\* paper, print an image over it), nothing is in it: state.rs says of GS L that
\* rebuilding is safe because it is honored only there.
LineStartIsEmpty ==
  printer.atBeginning =>
    /\ printer.line.height = 0 /\ printer.line.regions = {}
    /\ printer.x = 0 /\ printer.used = 0 /\ printer.lineHeight = 0
    /\ ~printer.hasData

\* No sheet is higher, and all sheets together are not larger, than the limits,
\* whatever was composed, fed, cut and printed directly.
SheetsStayWithinLimits ==
  LET surfaces == Surfaces(printer)
  IN  /\ \A i \in DOMAIN surfaces : surfaces[i].height <= MaxHeight
      /\ SheetDots(surfaces) <= MaxDots
      /\ Len(printer.sheets) <= MaxSheets

\* Of a rendered job, a command is traced as committed exactly if something it
\* marked is on paper; what it marked is on the sheet the trace files it under,
\* within the bounds it gives.
TraceTellsPaper ==
  outcome = "rendered" =>
    /\ \A i \in DOMAIN trace :
         (trace[i].lifecycle = "committed") <=> (\E s \in DOMAIN paper : Marked(paper[s], trace[i].from) # {})
    /\ \A s \in DOMAIN paper : \A r \in paper[s].regions :
         \E i \in DOMAIN trace : /\ trace[i].from = r.command /\ trace[i].sheet = s - 1
                                 /\ \A b \in trace[i].paint : r.y >= b.top /\ r.x + r.width <= b.right
    /\ HeldStyle \in {{}, {TextStyle(printer)}}

\* The trace shows every command as what was executed, although it reads the
\* bytes on its own.
TraceNamesCommands == \A i \in DOMAIN trace : trace[i].shown = trace[i].executed
=============================================================================
