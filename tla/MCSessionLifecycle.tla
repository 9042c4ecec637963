--------------------------- MODULE MCSessionLifecycle ---------------------------
(* Instances of SessionLifecycle for TLC.                                        *)
EXTENDS SessionLifecycle
CONSTANTS s1, s2, d1, d2
===============================================================================
