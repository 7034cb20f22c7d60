----------------------------- MODULE MCTsInput -----------------------------
(* Small instances of TsInput for TLC.                                     *)
EXTENDS TsInput, TLC

(* A program with a data, an audio and a video stream; a second video      *)
(* stream (3) appears after the input was opened.  The kernel gives three  *)
(* eventfds in a row the descriptors 3, 4, 5.                              *)
KindOAV == 0 :> "other" @@ 1 :> "audio" @@ 2 :> "video" @@ 3 :> "video"
FdOAV   == 0 :> 3 @@ 1 :> 4 @@ 2 :> 5

(* The common program: video and audio, on consecutive descriptors, and    *)
(* with another descriptor between them.                                   *)
KindVA     == 0 :> "video" @@ 1 :> "audio"
FdVA       == 0 :> 3 @@ 1 :> 4
FdVASpread == 0 :> 3 @@ 1 :> 5

(* An audio-only program.                                                  *)
KindA == 0 :> "audio"
FdA   == 0 :> 3
=============================================================================
