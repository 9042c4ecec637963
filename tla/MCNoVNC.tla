-------------------------------- MODULE MCNoVNC --------------------------------
(* One connection through the noVNC proxy, for TLC.                              *)
EXTENDS NoVNC, TLC
===============================================================================
