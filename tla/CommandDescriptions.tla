------------------------ MODULE CommandDescriptions -------------------------
(* What trace.rs says a command is, from nothing but its own bytes: a second  *)
(* reading of the protocol, beside the one that executes it.                  *)
EXTENDS Integers, FiniteSetsExt, SequencesExt

Unknown == <<"unknown">>

\* Zero-based parameters, as the bytes are written about.
DWord(bytes, i) == bytes[i + 1] + 256 * bytes[i + 2]
Digit(n) == IF n \in 48..57 THEN n - 48 ELSE n

DescribedTabs(bytes) ==
  LET columns == SubSeq(bytes, 3, Len(bytes))
  IN  IF columns # <<>> /\ Last(columns) = 0 THEN Front(columns) ELSE columns

DescribedEsc(bytes) ==
  LET n == bytes[3]
  IN  CASE bytes[2] = 64 -> <<"initialize">>
        [] bytes[2] = 32 -> <<"character_spacing", n>>
        [] bytes[2] = 36 -> <<"position", DWord(bytes, 2)>>
        [] bytes[2] = 33 -> <<"print_mode", n>>
        [] bytes[2] = 42 -> <<"bit_image", n, DWord(bytes, 3)>>
        [] bytes[2] = 45 -> <<"underline", Digit(n)>>
        [] bytes[2] = 50 -> <<"default_line_spacing">>
        [] bytes[2] = 51 -> <<"line_spacing", n>>
        [] bytes[2] = 68 -> <<"tab_positions", DescribedTabs(bytes)>>
        [] bytes[2] = 69 -> <<"emphasis", n % 2 = 1>>
        [] bytes[2] = 74 -> <<"feed_paper", n>>
        [] bytes[2] = 77 -> <<"font", Digit(n)>>
        [] bytes[2] = 82 -> <<"charset", n>>
        [] bytes[2] = 92 -> <<"relative_position", DWord(bytes, 2)>>
        [] bytes[2] = 97 /\ Digit(n) < 3 ->
             <<"justification", <<"left", "center", "right">>[1 + Digit(n)]>>
        [] bytes[2] = 100 -> <<"feed_lines", n>>
        [] bytes[2] = 112 -> <<"pulse", Digit(n)>>
        [] bytes[2] = 116 -> <<"code_table", n>>
        [] OTHER -> Unknown

\* `GS k` data ends with a byte count or with a NUL.
DescribedBarcode(bytes) ==
  LET data == SubSeq(bytes, 4, Len(bytes))
      nuls == {i \in DOMAIN data : data[i] = 0}
  IN  CASE bytes[3] \in 0..6 ->
             <<"barcode", bytes[3] + 65,
               IF nuls = {} THEN data ELSE SubSeq(data, 1, Min(nuls) - 1)>>
        [] bytes[3] \in 65..79 -> <<"barcode", bytes[3], Tail(data)>>
        [] OTHER -> Unknown

DescribedCut(bytes) ==
  CASE bytes[3] \in {0, 48} -> <<"cut", "full">>
    [] bytes[3] \in {1, 49} -> <<"cut", "partial">>
    [] bytes[3] \in {65, 103} -> <<"cut", "full", bytes[4]>>
    [] bytes[3] \in {66, 104} -> <<"cut", "partial", bytes[4]>>
    [] OTHER -> Unknown

RasterScales == <<<<1, 1>>, <<2, 1>>, <<1, 2>>, <<2, 2>>>>
DescribedRasterImage(bytes) ==
  CASE Len(bytes) = 3 -> <<"skipped_raster_image">>
    [] Len(bytes) > 3 /\ Digit(bytes[4]) \in 0..3 ->
         <<"raster_image", DWord(bytes, 4) * 8, DWord(bytes, 6)>>
           \o RasterScales[1 + Digit(bytes[4])]
    [] OTHER -> Unknown

\* The functions of `GS ( L` and `GS 8 L`, and of `GS ( k`.
DescribedGraphics(n, extended) ==
  CASE n[2] \in {2, 50} /\ ~extended -> <<"print_graphics">>
    [] n[2] = 112 -> <<"store_graphics", DWord(n, 6), DWord(n, 8)>>
    [] OTHER -> Unknown

DescribedQr(n) ==
  IF n[1] # 49 THEN Unknown
  ELSE
  CASE n[2] = 65 /\ n[3] \in 49..51 -> <<"qr_model", n[3] - 48>>
    [] n[2] = 67 -> <<"qr_module", n[3]>>
    [] n[2] = 69 -> <<"qr_level", Digit(n[3])>>
    [] n[2] = 80 -> <<"store_qr", Len(n) - 3>>
    [] n[2] = 81 -> <<"qr", <<>>>>
    [] OTHER -> Unknown

DescribedGs(bytes) ==
  LET n == bytes[3]
      After(header) == SubSeq(bytes, header + 1, Len(bytes))
  IN  CASE bytes[2] = 33 -> <<"character_size", n>>
        [] bytes[2] = 40 /\ n = 76 -> DescribedGraphics(After(5), FALSE)
        [] bytes[2] = 40 /\ n = 107 -> DescribedQr(After(5))
        [] bytes[2] = 56 /\ n = 76 -> DescribedGraphics(After(7), TRUE)
        [] bytes[2] = 66 -> <<"reverse", n % 2 = 1>>
        [] bytes[2] = 72 -> <<"hri", Digit(n)>>
        [] bytes[2] = 76 -> <<"left_margin", DWord(bytes, 2)>>
        [] bytes[2] = 80 -> <<"motion_units", n, bytes[4]>>
        [] bytes[2] = 87 -> <<"area_width", DWord(bytes, 2)>>
        [] bytes[2] = 102 -> <<"hri_font", Digit(n)>>
        [] bytes[2] = 104 -> <<"bar_height", n>>
        [] bytes[2] = 119 -> <<"bar_width", n>>
        [] bytes[2] = 107 -> DescribedBarcode(bytes)
        [] bytes[2] = 86 -> DescribedCut(bytes)
        [] bytes[2] = 118 /\ n = 48 -> DescribedRasterImage(bytes)
        [] OTHER -> Unknown

Described(bytes) ==
  CASE bytes[1] = 9 -> <<"tab">>
    [] bytes[1] = 10 -> <<"line_feed">>
    [] bytes[1] = 13 -> <<"carriage_return">>
    [] bytes[1] = 27 -> DescribedEsc(bytes)
    [] bytes[1] = 29 -> DescribedGs(bytes)
    [] OTHER -> Unknown
=============================================================================
