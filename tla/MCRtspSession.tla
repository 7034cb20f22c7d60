--------------------------- MODULE MCRtspSession ---------------------------
(* Small instance of RtspSession for TLC.                                  *)
EXTENDS RtspSession
=============================================================================
