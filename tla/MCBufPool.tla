----------------------------- MODULE MCBufPool -----------------------------
(* Small instances of BufPool for TLC.                                     *)
EXTENDS BufPool
=============================================================================
