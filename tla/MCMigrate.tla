------------------------------ MODULE MCMigrate ------------------------------
(* Migrate on small sets of model values. *)
EXTENDS Migrate
=============================================================================
