---------------------------- MODULE MCMigrations ----------------------------
(* Two targets in one database and two deployers, each with its checkout. *)
EXTENDS Migrations

CONSTANTS main, gis, sql, outside, refused, broken, d1, d2, x1, x2

TwoTargets == <<main, gis>>
\* The targets share a database: with tables of their own, or (rejected) with one table.
OneDatabase == {[t \in {main, gis} |-> <<"db", t>>], [t \in {main, gis} |-> <<"db", "migrations">>]}
OneName == [i \in {"db"} |-> i]
OwnCheckout == [d \in {d1, d2} |-> IF d = d1 THEN x1 ELSE x2]
\* One file that needs no transaction, and one later file, in the first target.
InBoth == {[x \in Checkouts |->
             [t \in {main, gis} |-> [n \in Names |-> IF t = gis THEN Absent ELSE IF n = 1 THEN outside ELSE sql]]]}
=============================================================================
