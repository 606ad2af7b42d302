---------------------------- MODULE MCVaultFile ----------------------------
(* VaultFile on small sets of model values.  The specification treats all  *)
(* members of each set alike, and no liveness is checked, so permuting     *)
(* them is sound.                                                          *)
EXTENDS VaultFile, TLC

Symmetry ==
    Permutations(Inodes) \cup Permutations(Docs) \cup Permutations(Serial)
=============================================================================
