------------------------------- MODULE MCBridge -------------------------------
(* One bridge, for TLC.                                                          *)
EXTENDS Bridge, TLC
===============================================================================
