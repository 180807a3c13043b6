------------------------- MODULE MCDevelopmentTask -------------------------
(* Small instances of DevelopmentTask for TLC.                             *)
EXTENDS DevelopmentTask, TLC

\* No property names an actor: people are interchangeable.
People == Permutations(Actors)
=============================================================================
