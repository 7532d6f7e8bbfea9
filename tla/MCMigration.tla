----------------------------- MODULE MCMigration -----------------------------
(* Migration on a small instance.  The addresses other than Home are alike, *)
(* and no property that uses the symmetry is a liveness property.           *)
EXTENDS Migration, TLC

CONSTANTS a, b, c

Symmetry == Permutations({b, c})
=============================================================================
