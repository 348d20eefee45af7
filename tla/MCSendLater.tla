----------------------------- MODULE MCSendLater -----------------------------
(* Values of the constants of SendLater for TLC. *)
EXTENDS SendLater

CONSTANTS m1, m2, m3
=============================================================================
