----------------------------- MODULE DemoText -----------------------------
(* Demo_text_draw (dm8168/demo_text.c) as operators: where each byte of a  *)
(* drawn text comes from.  A font is a bitmap of one line of characters:   *)
(* [format, charList, widthList, height, fontWidthPerLine, bytes], the     *)
(* last being the sizes of its two bitmaps.  A byte of a bitmap is named   *)
(* by its place there, <<"Y", n>> or <<"UV", n>>, a byte of the padding is  *)
(* <<"pad", k>> for padingColor[k].  Memory is a function from the         *)
(* addresses written so far (osdMem is address 0).                         *)
EXTENDS Integers, Sequences

CONSTANT ALIGN      \* ALG_LINK_OSD_WIN_WIDTH_ALIGN_MAX

ASSUME AlignAssumption == ALIGN \in Nat \ {0}

(* The sums of the first 0, 1, 2, ... of some widths.                      *)
Sums(widths) ==
    LET sum[n \in 0..Len(widths)] == IF n = 0 THEN 0 ELSE sum[n - 1] + widths[n]
    IN  sum

(* What is copied part by part.                                            *)
Joined(parts) ==
    LET upTo[n \in 0..Len(parts)] == IF n = 0 THEN << >> ELSE upTo[n - 1] \o parts[n]
    IN  upTo[Len(parts)]

Width(font, n) == font.widthList[n + 1]
WidthOfFirst(font, n) == Sums(font.widthList)[n]

ScaleX(font) == IF font.format = "YUV422I_YUYV" THEN 2 ELSE 1

(* What the drawing takes for granted of a font: a width for every         *)
(* character, none listed twice, and bitmaps of height lines that have all *)
(* of them side by side, so near that 16 bits hold their columns; in the   *)
(* planar format it asserts an even height.                                *)
IsFont(font) ==
    /\ font.format \in {"YUV422I_YUYV", "YUV420SP_UV"}
    /\ font.widthList \in Seq(Nat) \ {<< >>}
    /\ DOMAIN font.charList = DOMAIN font.widthList
    /\ \A j, k \in DOMAIN font.charList : font.charList[j] = font.charList[k] => j = k
    /\ font.height \in Nat \ {0} /\ font.fontWidthPerLine \in 0..(2^16 - 1)
    /\ Sums(font.widthList)[Len(font.widthList)] <= font.fontWidthPerLine
    /\ font.bytes \in [{"Y", "UV"} -> Nat]
    /\ font.height * font.fontWidthPerLine * ScaleX(font) <= font.bytes["Y"]
    /\ font.format = "YUV420SP_UV" =>
          /\ font.height % 2 = 0
          /\ (font.height \div 2) * font.fontWidthPerLine <= font.bytes["UV"]

(* Demo_text_get_index: where each character is in charList; the first     *)
(* character stands for those that are not.                                *)
GetIndex(font, text) ==
    [i \in DOMAIN text |->
       LET found == {j \in DOMAIN font.charList : font.charList[j] = text[i]}
       IN  IF found = {} THEN 0 ELSE (CHOOSE j \in found : \A k \in found : j <= k) - 1]

(* ... and the pixel column where each begins in the font's line.          *)
IndexPix(font, index) == [i \in DOMAIN index |-> WidthOfFirst(font, index[i])]

(* Demo_text_draw: pixels of a line of text, and of a line of the window.  *)
Widths(font, text) ==
    LET index == GetIndex(font, text)
    IN  [i \in DOMAIN index |-> Width(font, index[i])]
PixPerLine(font, text) == Sums(Widths(font, text))[Len(text)]
RoundUp(w) == ((w + ALIGN - 1) \div ALIGN) * ALIGN
LineOffset(font, text) == RoundUp(PixPerLine(font, text))

(* The memory a caller must provide.                                       *)
WindowBytes(font, text) ==
    LET pixels == LineOffset(font, text) * font.height
    IN  IF font.format = "YUV422I_YUYV" THEN pixels * 2 ELSE pixels + pixels \div 2

(* Demo_text_draw_osd_by_index: the memcpy's of line i of one plane.       *)
Glyph(font, plane, i, start, width) ==
    LET s == ScaleX(font)
    IN  [k \in 1..(width * s) |-> <<plane, start * s + i * font.fontWidthPerLine * s + k - 1>>]
Copied(font, text, plane, i) ==
    LET start == IndexPix(font, GetIndex(font, text))
        widths == Widths(font, text)
    IN  Joined([j \in DOMAIN text |-> Glyph(font, plane, i, start[j], widths[j])])

(* The loops that write padding, times is how often each goes round.       *)
Repeat(pattern, times) ==
    [k \in 1..(times * Len(pattern)) |-> pattern[((k - 1) % Len(pattern)) + 1]]
HalfOf(n) == (n + 1) \div 2
(* Slip: in the 422I format the loop goes round once for each pixel.       *)
PaddingByPixel(plane, format, padPix) ==
    IF format = "YUV422I_YUYV"
      THEN Repeat(<< <<"pad", 0>>, <<"pad", 1>>, <<"pad", 0>>, <<"pad", 2>> >>, padPix)
    ELSE IF plane = "Y"
      THEN Repeat(<< <<"pad", 0>> >>, padPix)
      ELSE Repeat(<< <<"pad", 1>>, <<"pad", 2>> >>, HalfOf(padPix))
Padding(plane, format, padPix) ==
    IF format = "YUV422I_YUYV"
      THEN Repeat(<< <<"pad", 0>>, <<"pad", 1>>, <<"pad", 0>>, <<"pad", 2>> >>, HalfOf(padPix))
    ELSE IF plane = "Y"
      THEN Repeat(<< <<"pad", 0>> >>, padPix)
      ELSE Repeat(<< <<"pad", 1>>, <<"pad", 2>> >>, HalfOf(padPix))

(* All lines in the order they are drawn: where each goes, and its bytes.  *)
Line(font, text, plane, from, i) ==
    LET width == LineOffset(font, text)
    IN  [at |-> from + i * width * ScaleX(font),
         bytes |-> Copied(font, text, plane, i)
                     \o Padding(plane, font.format, width - PixPerLine(font, text))]
Luma(font, text) == [i \in 1..font.height |-> Line(font, text, "Y", 0, i - 1)]
Chroma(font, text) ==
    [i \in 1..(font.height \div 2) |->
       Line(font, text, "UV", LineOffset(font, text) * font.height, i - 1)]
Lines(font, text) ==
    IF font.format = "YUV422I_YUYV" THEN Luma(font, text) ELSE Luma(font, text) \o Chroma(font, text)

DrawLine(mem, line) ==
    LET here == line.at..(line.at + Len(line.bytes) - 1)
    IN  [b \in DOMAIN mem \cup here |-> IF b \in here THEN line.bytes[b - line.at + 1] ELSE mem[b]]

Draw(mem, lines) ==
    LET drawn[n \in 0..Len(lines)] == IF n = 0 THEN mem ELSE DrawLine(drawn[n - 1], lines[n])
    IN  drawn[Len(lines)]

-----------------------------------------------------------------------------
(* What a drawn text should look like, from the pixels' side.              *)

(* A byte that is drawn is padding or inside the font's bitmap.            *)
InFont(font, cell) == cell[1] = "pad" \/ cell[2] \in 0..(font.bytes[cell[1]] - 1)

(* Column x of a line of the font's pixels is a column of character c.     *)
IsColumn(font, x, c, column) ==
    \E k \in DOMAIN font.charList :
       /\ font.charList[k] = c
       /\ column < font.widthList[k]
       /\ x = Sums(font.widthList)[k - 1] + column

(* The character list as Demo_text_draw's documentation reads it.          *)
IsListed(font, c) == \E k \in DOMAIN font.charList : font.charList[k] = c
Drawn(font, c) == IF IsListed(font, c) THEN c ELSE font.charList[1]
WidthOf(font, c) == font.widthList[CHOOSE k \in DOMAIN font.charList : font.charList[k] = c]

(* A byte of line y of a plane is the one of a column of a character.      *)
ShowsColumn(font, plane, cell, y, c, column, byte) ==
    LET pixel == cell[2] \div ScaleX(font)
    IN  /\ cell[1] = plane /\ cell[2] % ScaleX(font) = byte
        /\ pixel \div font.fontWidthPerLine = y
        /\ IsColumn(font, pixel % font.fontWidthPerLine, c, column)

(* Every pixel shows the right column of the right line of the right       *)
(* character, or padding.                                                  *)
Shows(font, text, mem) ==
    LET chars == [i \in DOMAIN text |-> Drawn(font, text[i])]
        widths == [i \in DOMAIN text |-> WidthOf(font, chars[i])]
        start == Sums(widths)
        s == ScaleX(font)
        lineOffset == LineOffset(font, text)
        ShowsPlane(plane, from, height) ==
            \A y \in 0..(height - 1), byte \in 0..(s - 1) :
               LET Cell(x) == mem[from + (y * lineOffset + x) * s + byte]
               IN  /\ \A i \in DOMAIN text : \A column \in 0..(widths[i] - 1) :
                         ShowsColumn(font, plane, Cell(start[i - 1] + column), y, chars[i], column, byte)
                   /\ \A x \in start[Len(text)]..(lineOffset - 1) : Cell(x)[1] = "pad"
    IN  /\ 0..(WindowBytes(font, text) - 1) \subseteq DOMAIN mem
        /\ ShowsPlane("Y", 0, font.height)
        /\ font.format = "YUV420SP_UV" => ShowsPlane("UV", lineOffset * font.height, font.height \div 2)
=============================================================================
