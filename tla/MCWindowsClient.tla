----------------------------- MODULE MCWindowsClient -----------------------------
(* Instance of WindowsClient for TLC.                                            *)
EXTENDS WindowsClient
===============================================================================
