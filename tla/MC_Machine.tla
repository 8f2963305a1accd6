------------------------------ MODULE MC_Machine -----------------------------
(* One machine over sessions and restarts; joins one host again and again.      *)
EXTENDS Machine
=============================================================================
