-------------------------------- MODULE Osd --------------------------------
(* What is in the text windows of dm8168/logo.c while Logo_add draws them, *)
(* once for every channel, and updateTime, the SIGALRM handler, redraws    *)
(* the clock at any time once the first channel's timer is set.  A handler *)
(* runs to its end before Logo_add goes on; Logo_add's own drawing is one  *)
(* step per line.  (Logo.tla has the life of buffers, handler and timer.)  *)
EXTENDS DemoText

CONSTANTS ch_num,
          Fonts,        \* fonts the texts may be drawn with
          Title,        \* "China TV"
          Midnight,     \* "00:00:00"
          Times,        \* what the clock may show
          OSD_BUF_SIZE  \* bytes in each buffer

Texts == Times \cup {Title, Midnight}

(* Demo_text_draw draws 256 characters at most.                            *)
ASSUME OsdAssumption ==
    /\ ch_num \in Nat \ {0} /\ OSD_BUF_SIZE \in Nat
    /\ \A font \in Fonts : IsFont(font)
    /\ \A t \in Texts : Len(t) \in 0..256 /\ DOMAIN t = 1..Len(t)

(* The clock does not change its width: digits and colon are equally wide. *)
ASSUME ClockAssumption ==
    \A font \in Fonts, t \in Times : PixPerLine(font, t) = PixPerLine(font, Midnight)

(* Demo_text_draw_osd_by_index asserts an even number of padding pixels.   *)
ASSUME PaddingAssumption ==
    \A font \in Fonts, t \in Texts : (LineOffset(font, t) - PixPerLine(font, t)) % 2 = 0

VARIABLES
    font,
    pc,        \* where Logo_add is
    chId,
    line,      \* the next line it draws
    osdText, osdTime,   \* the two buffers, apart and as large as need be
    timer      \* the handler is set and the timer armed

vars == <<font, pc, chId, line, osdText, osdTime, timer>>

Blank == [b \in {} |-> << >>]

Init == /\ font \in Fonts
        /\ pc = "init" /\ chId = 0 /\ line = 1
        /\ osdText = Blank /\ osdTime = Blank
        /\ timer = FALSE

(* Logo_init's buffers are there: Logo_add draws the title.                *)
LogoAdd == /\ pc = "init"
           /\ pc' = "drawText"
           /\ UNCHANGED <<font, chId, line, osdText, osdTime, timer>>

(* One line is drawn; after the last the function goes on.                 *)
AfterLine(text, here, next) ==
    IF line < Len(Lines(font, text)) THEN line' = line + 1 /\ pc' = here
                                     ELSE line' = 1 /\ pc' = next

DrawText == /\ pc = "drawText"
            /\ osdText' = DrawLine(osdText, Lines(font, Title)[line])
            /\ AfterLine(Title, "drawText", "drawTime")
            /\ UNCHANGED <<font, chId, osdTime, timer>>

DrawTime == /\ pc = "drawTime"
            /\ osdTime' = DrawLine(osdTime, Lines(font, Midnight)[line])
            /\ AfterLine(Midnight, "drawTime", "setTimer")
            /\ UNCHANGED <<font, chId, osdText, timer>>

(* signal, setitimer, and on to the next channel.                          *)
SetTimer == /\ pc = "setTimer"
            /\ timer' = TRUE
            /\ chId' = chId + 1
            /\ pc' = IF chId + 1 < ch_num THEN "drawText" ELSE "added"
            /\ UNCHANGED <<font, line, osdText, osdTime>>

(* The lines of what the clock may show.                                   *)
ClockLines == {Lines(font, t) : t \in Times}

(* Slip: the clock is drawn without its last line.                         *)
UpdateTimeShort ==
    /\ timer
    /\ \E lines \in ClockLines : osdTime' = Draw(osdTime, SubSeq(lines, 1, Len(lines) - 1))
    /\ UNCHANGED <<font, pc, chId, line, osdText, timer>>
UpdateTime ==
    /\ timer
    /\ \E lines \in ClockLines : osdTime' = Draw(osdTime, lines)
    /\ UNCHANGED <<font, pc, chId, line, osdText, timer>>

Next == LogoAdd \/ DrawText \/ DrawTime \/ SetTimer \/ UpdateTime

(* The program runs, and the timer goes off every second.                  *)
Fairness == WF_vars(LogoAdd \/ DrawText \/ DrawTime \/ SetTimer) /\ WF_vars(UpdateTime)

Spec == Init /\ [][Next]_vars /\ Fairness

-----------------------------------------------------------------------------
(* Properties.                                                             *)

Steps == {"init", "drawText", "drawTime", "setTimer", "added"}

TypeOK == /\ font \in Fonts /\ pc \in Steps /\ chId \in 0..ch_num
          /\ line \in 1..Len(Lines(font, IF pc = "drawTime" THEN Midnight ELSE Title))
          /\ timer \in BOOLEAN

(* Once drawn, the title stays readable, also while later channels draw it *)
(* again: every pixel of the window is the right one of the right          *)
(* character, the first character standing in for one the font does not    *)
(* have, and the rest of the line is padding.  Nothing is drawn beyond the *)
(* window, nor from beyond the font: the padding loops, whose bounds are   *)
(* in pixels while they write bytes, come out even (demo_text.c:5-157).    *)
(* This is about the drawing: osdText and osdTime do not overlap and are   *)
(* large enough here, which demo_text.c:173 asks for and MemoryIsEnough,   *)
(* below, finds violated.                                                  *)
WithinBounds(text, mem) ==
    /\ DOMAIN mem \subseteq 0..(WindowBytes(font, text) - 1)
    /\ \A b \in DOMAIN mem : InFont(font, mem[b])
TitleIsShown ==
    /\ TypeOK
    /\ WithinBounds(Title, osdText) /\ WithinBounds(Midnight, osdTime)
    /\ chId > 0 \/ pc \in {"drawTime", "setTimer"} => Shows(font, Title, osdText)

(* An alarm in the middle of drawing leaves a clock with lines of two      *)
(* times, but not for good: in the end the window always shows one time    *)
(* (logo.c:121-140, 170-191), in a buffer of its own that is large enough. *)
ClockHeals == <>[](\E t \in Times : Shows(font, t, osdTime))

(* demo_text.c:173: "osdMem: this is the memory contain the bitmap, the    *)
(* caller should make sure the memory is enouth for the font."             *)
MemoryIsEnough ==
    /\ pc = "drawText" => WindowBytes(font, Title) <= OSD_BUF_SIZE
    /\ pc = "drawTime" => WindowBytes(font, Midnight) <= OSD_BUF_SIZE
=============================================================================
