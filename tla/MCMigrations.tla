---------------------------- MODULE MCMigrations ----------------------------
(* Migrations for TLC: sessions are interchangeable. *)
EXTENDS Migrations, TLC

Symmetry == Permutations(Sessions)
=============================================================================
