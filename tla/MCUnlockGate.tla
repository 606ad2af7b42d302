---------------------------- MODULE MCUnlockGate ----------------------------
(* UnlockGate on small sets of model values.                               *)
EXTENDS UnlockGate
=============================================================================
