----------------------------- MODULE MCReceipts -----------------------------
(* Jobs put together from commands, for two printers that differ wherever a   *)
(* profile lets them.                                                         *)
EXTENDS EscPosInterpreter, MCCode128, MCLinear, TLC

MCFonts == [A |-> [width |-> 12, height |-> 24], B |-> [width |-> 9, height |-> 17]]
MCProfile ==
  [ width |-> 30, dpiX |-> 200, dpiY |-> 200, unitsX |-> 200, unitsY |-> 100,
    lineSpacing |-> 30, fonts |-> MCFonts, codePage |-> 0, charset |-> 0,
    carriageReturn |-> "ignored", columnPitch |-> 3, dollarAfterData |-> "ignored",
    negativeBackslash |-> "apply", escJ |-> "feed", rasterLf |-> "ignored",
    fullCutFeed |-> "feed", partialCutFeed |-> "feed", cutter |-> {20},
    codePages |-> (0 :> {128}) @@ (1 :> {}), barcodesA |-> {69, 70}, barcodesB |-> {69, 72},
    features |-> {"column", "raster", "graphics", "qr", "full_cut", "partial_cut", "pulse"} ]
MCProfiles ==
  { MCProfile,
    [MCProfile EXCEPT !.carriageReturn = "line_feed", !.columnPitch = 1,
       !.dollarAfterData = "apply", !.negativeBackslash = "ignored", !.escJ = "ignored",
       !.rasterLf = "feed", !.fullCutFeed = "ignored", !.cutter = {},
       !.features = {"column", "raster", "qr"}] }

\* Payloads of two or more bytes are encodable; one element in four is wide.
MCBarcode(system, payload) ==
  IF Len(payload) < 2 THEN {}
  ELSE {[modules |-> 2 * Len(payload), wide |-> Len(payload) \div 2, minimumHeight |-> 13]}
MCQrModules(level, stored) == IF stored = <<>> THEN {} ELSE {IF level = "H" THEN 6 ELSE 4}

Line ==
  { <<65, 32, 66>>, <<10>>, <<9>>, <<27, 36, 10, 0>>, <<27, 42, 33, 1, 0, 255, 0, 1>>,
    <<27, 97, 50>>, <<27, 100, 0>>, <<27, 64>> }
Paper ==
  { <<29, 76, 6, 0>>, <<29, 86, 0>>, <<29, 86, 66, 5>>, <<29, 107, 4, 42, 65, 42>>,
    <<29, 118, 48, 49, 1, 0, 2, 0, 255, 128>>, <<29, 40, 107, 3, 0, 49, 81, 48>> }
Positions ==
  { <<27, 36, 255, 0>>, <<27, 92, 246, 255>>, <<27, 92, 5, 0>>, <<27, 68, 1, 2, 0>>,
    <<27, 68, 50, 50>>, <<27, 68, 1>>, <<29, 87, 20, 0>>, <<29, 80, 0, 50>>, <<13>>,
    <<27, 74, 15>>, <<27, 100, 2>>, <<29, 118, 48>>, <<27, 42, 0, 0, 0>> }
Styles ==
  { <<27, 33, 177>>, <<29, 33, 17>>, <<27, 69, 1>>, <<27, 45, 49>>, <<27, 51, 9>>, <<27, 50>>,
    <<27, 77, 1>>, <<27, 82, 2>>, <<27, 82, 18>>, <<27, 116, 1, 128>>, <<128>>, <<27, 32, 3>>,
    <<29, 66, 1>>, <<27, 112, 0, 1, 1>>, <<27, 112, 2, 1, 1>>, <<7>> }
Symbols ==
  { <<29, 72, 51>>, <<29, 102, 49>>, <<29, 104, 40>>, <<29, 104, 0>>, <<29, 119, 2>>,
    <<29, 107, 5, 49, 50, 51, 0>>, <<29, 107, 69, 4, 65, 42, 66, 67>>, <<29, 107, 72, 1, 65>>,
    <<29, 40, 107, 4, 0, 49, 80, 48, 65>>, <<29, 40, 107, 4, 0, 49, 65, 50, 0>>,
    <<29, 40, 107, 3, 0, 49, 67, 1>>, <<29, 40, 107, 3, 0, 49, 69, 51>>,
    <<29, 40, 76, 11, 0, 48, 112, 48, 1, 2, 49, 8, 0, 1, 0, 170>>, <<29, 40, 76, 2, 0, 48, 50>>,
    <<29, 56, 76, 11, 0, 0, 0, 48, 112, 48, 1, 1, 49, 8, 0, 1, 0, 170>>, <<29, 86, 97>> }

\* Any two commands, and any three of those that print, move or cut.
Commands == Line \union Paper \union Positions \union Styles \union Symbols
Printing == Line \union Paper
StoreQr == <<29, 40, 107, 4, 0, 49, 80, 48, 65>>
MCJobSet ==
  {<<>>} \union {a \o b : a, b \in Commands}
    \union {a \o b \o c : a, b, c \in Printing}
    \union {StoreQr \o <<29, 40, 107, 3, 0, 49, 81, 48>> \o a \o <<29, 86, 1>> \o b : a, b \in Line}

\* A bar code of whatever system that is put on paper says to a scanner what the
\* job sent: the encoders of Code 128, of the linear systems and of DataBar never
\* lose, change or add data.
SymbolsScanBack == UnshiftedScansBack /\ LinearScansBack /\ DataBarScansBack
=============================================================================
