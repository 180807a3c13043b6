---------------------------- MODULE MCOnboarding ----------------------------
(* Small instances of Onboarding for TLC.                                  *)
EXTENDS Onboarding, TLC

\* No property names a person or a process: they are interchangeable.
Interchangeable == Permutations(Actors) \cup Permutations(Processes)
=============================================================================
