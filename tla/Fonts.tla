------------------------------- MODULE Fonts -------------------------------
(* The fonts of dm8168/font: of each file what Demo_text_draw goes by, and *)
(* how many bytes its bitmaps have.  What the bytes are is left out.       *)
EXTENDS DemoText

Ascii == <<"A","B","C","D","E","F","G","H","I","J","K","L","M","N","O","P","Q","R","S",
           "T","U","V","W","X","Y","Z","a","b","c","d","e","f","g","h","i","j","k","l",
           "m","n","o","p","q","r","s","t","u","v","w","x","y","z",":",";"," ","'","/",
           "\\","+","-","_","(",")","&","$","#",".","0","1","2","3","4","5","6","7","8","9">>

(* The two characters of "channel" end the list of the Chinese fonts.      *)
Chinese == <<"0","1","2","3","4","5","6","7","8","9","-",":","tong","dao">>

ascii_422i_1078_28 ==
    [format |-> "YUV422I_YUYV", charList |-> Ascii, widthList |-> [n \in 1..77 |-> 14],
     height |-> 28, fontWidthPerLine |-> 1078, bytes |-> [Y |-> 60368, UV |-> 0]]

ascii_420sp_1078_28 ==
    [format |-> "YUV420SP_UV", charList |-> Ascii, widthList |-> [n \in 1..77 |-> 14],
     height |-> 28, fontWidthPerLine |-> 1078, bytes |-> [Y |-> 30184, UV |-> 15092]]

cn_422i_420_30 ==
    [format |-> "YUV422I_YUYV", charList |-> Chinese, widthList |-> [n \in 1..14 |-> 30],
     height |-> 30, fontWidthPerLine |-> 420, bytes |-> [Y |-> 25200, UV |-> 0]]

cn_420sp_420_30 ==
    [format |-> "YUV420SP_UV", charList |-> Chinese, widthList |-> [n \in 1..14 |-> 30],
     height |-> 30, fontWidthPerLine |-> 420, bytes |-> [Y |-> 12600, UV |-> 6300]]

AllFonts == {ascii_422i_1078_28, ascii_420sp_1078_28, cn_422i_420_30, cn_420sp_420_30}

(* Each has what the drawing takes for granted.                            *)
ASSUME FontsAssumption == \A font \in AllFonts : IsFont(font)
=============================================================================
