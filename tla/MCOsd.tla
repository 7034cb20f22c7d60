------------------------------- MODULE MCOsd -------------------------------
(* Small instances of Osd for TLC.                                         *)
EXTENDS Osd, Fonts

(* Two fonts of three and two characters, one of each format; the title's  *)
(* "x" is in neither.                                                      *)
Packed == [format |-> "YUV422I_YUYV", charList |-> <<"a", "0", "1">>,
           widthList |-> <<4, 2, 2>>, height |-> 2, fontWidthPerLine |-> 8,
           bytes |-> [Y |-> 32, UV |-> 0]]
Planar == [format |-> "YUV420SP_UV", charList |-> <<"0", "1">>,
           widthList |-> <<2, 2>>, height |-> 2, fontWidthPerLine |-> 5,
           bytes |-> [Y |-> 10, UV |-> 5]]
BothFormats == {Packed, Planar}
ShortTitle == <<"1", "x">>
ShortMidnight == <<"0", "0">>
ShortTimes == {<<"0", "1">>, <<"1", "0">>, <<"1", "1">>}

(* The font and the texts logo.c draws.                                    *)
OnlyAscii422 == {ascii_422i_1078_28}
ChinaTV == <<"C", "h", "i", "n", "a", " ", "T", "V">>
ZeroOClock == <<"0", "0", ":", "0", "0", ":", "0", "0">>
OneTime == {<<"1", "2", ":", "0", "0", ":", "0", "0">>}
=============================================================================
