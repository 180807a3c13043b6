-------------------------- MODULE AtomicMutations --------------------------
(***************************************************************************)
(* What the lifecycle lock promises the operations behind it: one at a     *)
(* time owns the runtime directory, only the owner saves, and every save   *)
(* builds on all the saves before it.                                      *)
(***************************************************************************)
EXTENDS Sequences

CONSTANTS Processes, Nobody

VARIABLES
    owner,  \* the process that may change the runtime directory
    saves   \* who saved the record, from the first save to the last

Init == owner = Nobody /\ saves = <<>>

Enter(p) == owner = Nobody /\ owner' = p /\ UNCHANGED saves
Save(p) == owner = p /\ saves' = Append(saves, p) /\ UNCHANGED owner
Leave(p) == owner = p /\ owner' = Nobody /\ UNCHANGED saves

Next == \E p \in Processes : Enter(p) \/ Save(p) \/ Leave(p)

Spec == Init /\ [][Next]_<<owner, saves>>
=============================================================================
