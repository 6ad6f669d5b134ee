---------------------------- MODULE MCMigrations ----------------------------
(* Instance of Migrations for TLC: a release with two migrations, and a     *)
(* branch that edited the first one and lacks the second.                   *)
EXTENDS Migrations

CONSTANTS a, b, p, q

Releases == {<<a, a>>, <<b, NoRow>>}
=============================================================================
