----------------------------- MODULE MCMigrate -----------------------------
\* Migrate with two runners of a new build and one of an old one, for TLC.
EXTENDS Migrate

ThreeFiles == 1..3
OldAndNew == [r \in Runners |-> IF r = "old" THEN 2 ELSE 3]
LastFile == {3}
=============================================================================
