------------------------- MODULE MCGovernedWorkflow -------------------------
(* Small instances of GovernedWorkflow for TLC.                            *)
EXTENDS GovernedWorkflow, TLC

\* No property names a person or a process: they are interchangeable.
Interchangeable == Permutations(Actors) \cup Permutations(Processes)

\* The beginnings of what ClosureIsLogged asks of the events: who approved which
\* executor's execution, and whose approval led to a validated one;
\* <<>> once the closure has been approved too.
Begun ==
    LET executed == {<<h, i>> \in Saying("execution_approval")
                                    \X Saying("execution_recorded") :
                        h < i /\ events[h].actor # events[i].actor}
        validated == {<<c, j>> \in executed \X Saying("validation_completed") :
                        c[2] < j /\ events[c[2]].actor # events[j].actor}
        closed == {<<c, k>> \in validated \X Saying("closure_approval") :
                        c[2] < k /\ events[c[1][1]].actor # events[k].actor}
    IN  IF closed # {} THEN <<>> ELSE
        <<{<<events[c[1]].actor, events[c[2]].actor>> : c \in executed},
          {events[c[1][1]].actor : c \in validated}>>

\* Nothing an operation does depends on the events.  An event that is appended
\* takes Begun, with the approvals, to its next value, and ClosureIsLogged holds
\* of a closed item exactly when Begun is <<>>.
WithBegun ==
    <<item, planner, approvals, executions, artifacts, Begun,
      [p \in Processes |-> [op[p] EXCEPT !.previous = 0]], runs, faults>>
=============================================================================
