-------------------------- MODULE ReleaseLifecycle --------------------------
(***************************************************************************)
(* What a governed development task promises to whoever reads its result:  *)
(* a change is released by decisions of four different people, all of them *)
(* about one content, which nothing changes from its review to its merge.  *)
(* How it is produced, tested, repaired or cancelled is left open.         *)
(***************************************************************************)

CONSTANTS
    Actors, NoActor,
    Acceptable,  \* contents a review may pass
    Nothing      \* no content

VARIABLES
    phase,     \* how far the change has come
    decision,  \* who decided, and on what content
    branch     \* what is on the task branch and who pushed it

vars == <<phase, decision, branch>>

Undecided == [coder |-> NoActor, test_runner |-> NoActor, reviewer |-> NoActor,
              publish_approval |-> NoActor, content |-> Nothing]

Init ==
    /\ phase = "open"
    /\ decision = Undecided
    /\ branch = [by |-> "nobody", tree |-> Nothing]

PassReview ==
    /\ phase = "open"
    /\ phase' = "reviewed"
    /\ \E coder, tester, reviewer \in Actors, x \in Acceptable :
          /\ coder # tester
          /\ reviewer \notin {coder, tester}
          /\ decision' = [coder |-> coder, test_runner |-> tester,
                          reviewer |-> reviewer, publish_approval |-> NoActor,
                          content |-> x]
    /\ UNCHANGED branch

Approve ==
    /\ phase = "reviewed"
    /\ phase' = "approved"
    /\ \E a \in Actors :
          /\ a \notin {decision.coder, decision.test_runner, decision.reviewer}
          /\ decision' = [decision EXCEPT !.publish_approval = a]
    /\ UNCHANGED branch

\* A change that is not approved yet can be given up.
Cancel ==
    /\ phase \in {"open", "reviewed"}
    /\ phase' = "cancelled"
    /\ decision' = Undecided
    /\ UNCHANGED branch

Push ==
    /\ phase = "approved"
    /\ branch' = [by |-> "controller", tree |-> decision.content]
    /\ UNCHANGED <<phase, decision>>

Publish ==
    /\ phase = "approved"
    /\ branch.by # "nobody"
    /\ phase' = "published"
    /\ UNCHANGED <<decision, branch>>

\* Others may push to the branch of an approved change until it is merged.
OthersPush ==
    /\ phase \in {"approved", "published"}
    /\ branch.by # "nobody"
    /\ branch'.by = "other"
    /\ UNCHANGED <<phase, decision>>

VerifyMerge ==
    /\ phase = "published"
    /\ branch = [by |-> "controller", tree |-> decision.content]
    /\ phase' = "merged"
    /\ UNCHANGED <<decision, branch>>

Next ==
    PassReview \/ Approve \/ Cancel \/ Push \/ Publish \/ OthersPush \/ VerifyMerge

Spec == Init /\ [][Next]_vars
=============================================================================
