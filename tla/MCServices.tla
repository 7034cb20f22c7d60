----------------------------- MODULE MCServices -----------------------------
(* Small instance of Services for TLC.                                     *)
EXTENDS Services, TLC

(* Main's lines have one character, the other thread's two.                *)
Lengths == "main" :> 1 @@ "task" :> 2

(* The PHY's registers, as an earlier set-up or the line may have left     *)
(* them: both speeds at once, one of the delays, and bits that are nobody's *)
(* business.                                                                *)
OneState == {Timing :> {0, 1} @@ Control :> {8} @@ Speed :> {0, 6, 13} @@ Status :> {}
             @@ [r \in ChipId |-> {}]}

(* Data of no byte, of less than 32 bits, of just 32 and of more.          *)
FiveChunks == {<<>>, <<0>>, <<128, 1>>, <<255, 255, 255, 255>>, <<71, 31, 2, 16, 90>>}
=============================================================================
