----------------------------- MODULE MCAppLink -----------------------------
(* Small instance of AppLink for TLC.                                      *)
EXTENDS AppLink
=============================================================================
