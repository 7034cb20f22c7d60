---------------------------- MODULE MCTranscode ----------------------------
(* Small instance of Transcode for TLC: a header file of three frames, and *)
(* a data file with all of them or without the end of the last.            *)
EXTENDS Transcode

ThreeFrames == <<2, 1, 2>>
OneChannel == {0}
=============================================================================
