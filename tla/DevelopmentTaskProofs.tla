----------------------- MODULE DevelopmentTaskProofs -----------------------
(* Theorems about DevelopmentTask, for every value of its constants.       *)
EXTENDS DevelopmentTask, TLAPS

\* Which states of the task the operation in progress may find.
RunOK ==
    /\ run.pc = "create" => task.state = "directory"
    /\ run.pc \notin {"idle", "create"} => task.state \in TASK_STATES
    /\ run.pc = "handover" \/ run.next = "handover" =>
          task.state = "review_passed"
    /\ run.pc \in {"check_base", "stage", "commit", "push", "open_pr",
                   "record_pr"} => task.state = "publish_approved"
    /\ run.pc # "append" => run.next = "idle"

TypeInv == TypeOK /\ RunOK

\* A pair of TRANSITIONS joins two states, and never enters "created".
LEMMA TransitionStates ==
    ASSUME NEW from, NEW to, <<from, to>> \in TRANSITIONS
    PROVE  from \in TASK_STATES /\ to \in TASK_STATES
BY DEF TRANSITIONS, Open, TASK_STATES

\* The diff of a clone against its index is a diff.
LEMMA DiffType ==
    ASSUME NEW w \in Workspaces
    PROVE  ChangeDiff(w) \in Diffs
BY DEF ChangeDiff, Diffs, EmptyDiff, Workspaces, Trees

\* A fresh clone, and what there is without one, are workspaces.
LEMMA CloneType ==
    /\ \A r \in Nat : Clone(r) \in Workspaces
    /\ \A g \in {"absent", "incomplete"} : NoClone(g) \in Workspaces
BY DEF Clone, NoClone, Workspaces, Trees

\* An operation that has an event to append is an operation in progress.
LEMMA AppendingType ==
    ASSUME NEW e \in Events, NEW n \in {"idle", "handover", "package"}
    PROVE  /\ Appending(e, n) \in [pc : Steps, event : Events,
                             next : {"idle", "handover", "package"}]
           /\ Appending(e, n).pc = "append"
           /\ Appending(e, n).next = n
BY DEF Appending, Steps

\* An operation that stands before a step is an operation in progress.
LEMMA AtType ==
    ASSUME NEW pc \in Steps
    PROVE  /\ At(pc) \in [pc : Steps, event : Events,
                          next : {"idle", "handover", "package"}]
           /\ At(pc).pc = pc
           /\ At(pc).next = "idle"
BY DEF At, Idle, Steps, Events, NoEvent, Event

\* The state of every variable's type follows from the transition helper.
LEMMA TransitionType ==
    ASSUME NEW from, NEW to, NEW updated \in Tasks,
           NEW next \in {"idle", "handover", "package"},
           TransitionFrom(from, to, updated, next)
    PROVE  /\ task' \in Tasks
           /\ task'.state = to
           /\ to \in TASK_STATES
           /\ run' \in [pc : Steps, event : Events,
                        next : {"idle", "handover", "package"}]
           /\ run'.pc = "append"
           /\ run'.next = next
<1>1. from \in TASK_STATES /\ to \in TASK_STATES
  BY TransitionStates DEF TransitionFrom
<1>2. Moved(from, to) \in Events
  BY <1>1 DEF Moved, Event, Events
<1>3. run' = Appending(Moved(from, to), next)
  BY DEF TransitionFrom
<1>4. task' = [updated EXCEPT !.state = to]
  BY DEF TransitionFrom
<1>5. task' \in Tasks /\ task'.state = to
  BY <1>1, <1>4 DEF Tasks
<1> QED
  BY <1>1, <1>2, <1>3, <1>5, AppendingType

\* A step that only makes a transition, and maybe changes the workspace,
\* preserves the invariant if the task it records has the type of a task.
LEMMA TransitionStep ==
    ASSUME TypeInv, NEW from, NEW to, NEW updated \in Tasks,
           NEW next \in {"idle", "handover", "package"},
           TransitionFrom(from, to, updated, next),
           next = "handover" => to = "review_passed",
           ws' \in Workspaces, UNCHANGED <<log, remote, packages, faults>>
    PROVE  TypeInv'
<1>1. /\ task' \in Tasks
      /\ task'.state = to
      /\ to \in TASK_STATES
      /\ run' \in [pc : Steps, event : Events,
                   next : {"idle", "handover", "package"}]
      /\ run'.pc = "append"
      /\ run'.next = next
  BY TransitionType
<1> QED
  BY <1>1 DEF TypeInv, TypeOK, RunOK

\* A step that goes on with a publication, or starts it.
LEMMA ContinueStep ==
    ASSUME TypeInv, NEW pc \in Steps, run' = At(pc),
           pc # "idle" => task.state = "publish_approved",
           pc \notin {"create", "append", "handover"},
           ws' \in Workspaces,
           remote' \in [base : Nat, branch : Commits,
                       pr : {"none", "open", "merged"},
                       checks : {"pending", "failed", "success"}],
           UNCHANGED <<task, log, packages, faults>>
    PROVE  TypeInv'
<1>1. /\ run' \in [pc : Steps, event : Events,
                   next : {"idle", "handover", "package"}]
      /\ run'.pc = pc
      /\ run'.next = "idle"
  BY AtType
<1> QED
  BY <1>1 DEF TypeInv, TypeOK, RunOK, TASK_STATES

\* A step of people or GitHub, and a handler that stops before it recorded
\* anything, touch the workspace, the remote and the fault count only.
LEMMA OutsideStep ==
    ASSUME TypeInv,
           ws' \in Workspaces,
           remote' \in [base : Nat, branch : Commits,
                       pr : {"none", "open", "merged"},
                       checks : {"pending", "failed", "success"}],
           faults' \in Nat,
           UNCHANGED <<task, log, packages, run>>
    PROVE  TypeInv'
BY DEF TypeInv, TypeOK, RunOK

\* The tasks that create starts from and writes.
LEMMA TaskType ==
    /\ NoTask \in Tasks
    /\ \A c \in BOOLEAN :
          [NoTask EXCEPT !.state = "created", !.commands = c] \in Tasks
    /\ \A t \in Tasks :
          [t EXCEPT !.state = "directory"] \in Tasks
<1>1. EmptyDiff \in Diffs /\ NoCommit \in Commits
  BY DEF Diffs, Trees, EmptyDiff, Commits, NoCommit
<1>2. NoTask \in Tasks
  BY <1>1 DEF NoTask, Tasks
<1>3. ASSUME NEW t \in Tasks, NEW c \in BOOLEAN
      PROVE  /\ [t EXCEPT !.state = "created", !.commands = c] \in Tasks
             /\ [t EXCEPT !.state = "directory"] \in Tasks
  BY DEF Tasks, TASK_STATES
<1> QED
  BY <1>2, <1>3

\* TypeInv holds initially and is preserved by every step.
LEMMA TypeInit == Init => TypeInv
<1> SUFFICES ASSUME Init PROVE TypeInv
  OBVIOUS
<1>1. task \in Tasks
  BY TaskType DEF Init
<1>2. log \in Seq(Events) /\ packages = {} /\ faults \in Nat
  BY DEF Init
<1>3. ws \in Workspaces
  BY CloneType DEF Init
<1>4. remote \in [base : Nat, branch : Commits,
                 pr : {"none", "open", "merged"},
                 checks : {"pending", "failed", "success"}]
  BY DEF Init, Commits, NoCommit, Trees
<1>5. /\ run \in [pc : Steps, event : Events,
                  next : {"idle", "handover", "package"}]
      /\ run.pc = "idle" /\ run.next = "idle"
  BY DEF Init, Idle, Steps, Events, NoEvent, Event
<1> QED
  BY <1>1, <1>2, <1>3, <1>4, <1>5 DEF TypeInv, TypeOK, RunOK

\* Every step keeps the types, and what the operation in progress relies on.
LEMMA TypeNext == TypeInv /\ [Next]_vars => TypeInv'
<1> SUFFICES ASSUME TypeInv, [Next]_vars PROVE TypeInv'
  OBVIOUS
<1> USE DEF TypeInv
<1>1. CASE Start
  <2>1. task' \in Tasks
    BY <1>1, TaskType DEF Start, TypeOK
  <2>2. task'.state = "directory"
    BY <1>1 DEF Start, TypeOK, Tasks
  <2>3. run' = At("create")
    BY <1>1 DEF Start
  <2> QED
    BY <1>1, <2>1, <2>2, <2>3, AtType DEF Start, TypeOK, RunOK, Steps
<1>2. CASE WriteState
  <2>1. task' \in Tasks /\ task'.state = "created"
    BY <1>2, TaskType DEF WriteState, NoTask
  <2>2. Event("task_created", "none", "created") \in Events
    BY DEF Event, Events, TASK_STATES
  <2> QED
    BY <1>2, <2>1, <2>2, AppendingType
    DEF WriteState, TypeOK, RunOK, TASK_STATES
<1>3. CASE AppendEvent
  <2>1. log' \in Seq(Events)
    BY <1>3 DEF AppendEvent, TypeOK
  <2>2. run' = At(run.next) /\ run.next \in {"idle", "handover", "package"}
    BY <1>3 DEF AppendEvent, TypeOK
  <2>3. run.next \in Steps
    BY <2>2 DEF Steps
  <2> QED
    BY <1>3, <2>1, <2>2, <2>3, AtType DEF AppendEvent, TypeOK, RunOK
<1>4. CASE Plan
  BY <1>4, TransitionStep DEF Plan, Transition, TypeOK
<1>5. CASE Cancel
  BY <1>5, TransitionStep DEF Cancel, Transition, TypeOK
<1>6. CASE Prepare
  <2>1. [task EXCEPT !.source_sha = remote.base] \in Tasks
    BY DEF TypeOK, Tasks
  <2>2. ws' \in Workspaces
    BY <1>6, CloneType DEF Prepare, TypeOK
  <2> QED
    BY <1>6, <2>1, <2>2, TransitionStep DEF Prepare, Transition
<1>7. CASE PrepareRefused
  <2>1. ws' \in Workspaces
    BY <1>7, CloneType DEF PrepareRefused, TypeOK
  <2> QED
    BY <1>7, <2>1, OutsideStep DEF PrepareRefused, TypeOK
<1>8. CASE CloneFails
  <2>1. ws' \in Workspaces
    BY <1>8, CloneType DEF CloneFails, TypeOK
  <2> QED
    BY <1>8, <2>1, OutsideStep DEF CloneFails, TypeOK
<1>9. CASE PrepareInterrupted
  <2>1. ws' \in Workspaces
    BY <1>9, CloneType DEF PrepareInterrupted, TypeOK
  <2> QED
    BY <1>9, <2>1, OutsideStep DEF PrepareInterrupted, TypeOK
<1>10. ASSUME NEW a \in Actors, NEW t \in Trees, ApplyChanges(a, t)
      PROVE  TypeInv'
  <2>1. Applied(a) \in Tasks
    <3> DEFINE n == task.repair_attempts + 1
    <3>1. n \in Nat
      BY DEF TypeOK, Tasks
    <3>2. [task EXCEPT !.coder = a, !.repair_attempts = n] \in Tasks
      <4> HIDE DEF n
      <4> QED
        BY <3>1 DEF TypeOK, Tasks
    <3> QED
      BY <3>2 DEF Applied
  <2>2. ws' \in Workspaces
    BY <1>10 DEF ApplyChanges, TypeOK, Workspaces
  <2> QED
    BY <1>10, <2>1, <2>2, TransitionStep DEF ApplyChanges
<1>11. ASSUME NEW a \in Actors, NEW t \in Trees, ApplyStops(a, t)
      PROVE  TypeInv'
  <2>1. ws' \in Workspaces
    BY <1>11 DEF ApplyStops, TypeOK, Workspaces
  <2> QED
    BY <1>11, <2>1, OutsideStep DEF ApplyStops, TypeOK
<1>12. ASSUME NEW a \in Actors, RepairBudgetExhausted(a)
      PROVE  TypeInv'
  BY <1>12, TransitionStep DEF RepairBudgetExhausted, Transition, TypeOK
<1>13. ASSUME NEW a \in Actors, Test(a)
      PROVE  TypeInv'
  <2>1. PICK result \in {"passed", "failed"} :
           Transition(IF result = "passed" THEN "tests_passed"
                                           ELSE "tests_failed",
                      [task EXCEPT !.test_runner = a, !.test_results = result],
                      "idle")
    BY <1>13 DEF Test
  <2>2. [task EXCEPT !.test_runner = a, !.test_results = result] \in Tasks
    BY DEF TypeOK, Tasks
  <2> QED
    BY <1>13, <2>1, <2>2, TransitionStep DEF Test, Transition, TypeOK
<1>14. ASSUME NEW a \in Actors, NoTestContract(a)
      PROVE  TypeInv'
  BY <1>14, TransitionStep DEF NoTestContract, Transition, TypeOK
<1>15. ASSUME NEW a \in Actors, NEW verified \in BOOLEAN, Review(a, verified)
      PROVE  TypeInv'
  <2> DEFINE reviewed == [task EXCEPT !.reviewer = a,
                                      !.change_sha256 = ChangeDiff(ws)]
  <2>1. reviewed \in Tasks
    BY DiffType DEF TypeOK, Tasks
  <2>2. \/ Transition("review_failed", reviewed, "idle")
        \/ Transition("review_passed", reviewed, "handover")
    BY <1>15 DEF Review
  <2> QED
    BY <1>15, <2>1, <2>2, TransitionStep DEF Review, Transition, TypeOK
<1>16. CASE Handover
  BY <1>16, TransitionStep DEF Handover, Transition, TypeOK
<1>17. ASSUME NEW a \in Actors, ApprovePublish(a)
      PROVE  TypeInv'
  <2>1. [task EXCEPT !.publish_approval = a] \in Tasks
    BY DEF TypeOK, Tasks
  <2> QED
    BY <1>17, <2>1, TransitionStep DEF ApprovePublish, Transition, TypeOK
<1>18. CASE Publish
  BY <1>18, ContinueStep DEF Publish, TypeOK, Steps
<1>19. CASE CheckBase
  BY <1>19, ContinueStep DEF CheckBase, PublishStep, TypeOK, RunOK, Steps
<1>20. CASE Stage
  <2>1. ws' \in Workspaces
    BY <1>20 DEF Stage, TypeOK, Workspaces
  <2> QED
    BY <1>20, <2>1, ContinueStep DEF Stage, PublishStep, TypeOK, RunOK, Steps
<1>21. CASE Commit
  <2>1. ws' \in Workspaces
    BY <1>21 DEF Commit, TypeOK, Workspaces
  <2> QED
    BY <1>21, <2>1, ContinueStep DEF Commit, PublishStep, TypeOK, RunOK, Steps
<1>22. CASE Push
  <2>1. HeadCommit \in Commits
    BY DEF HeadCommit, Commits, TypeOK, Workspaces
  <2>2. remote' \in [base : Nat, branch : Commits,
                    pr : {"none", "open", "merged"},
                    checks : {"pending", "failed", "success"}]
    BY <1>22, <2>1 DEF Push, TypeOK
  <2> QED
    BY <1>22, <2>2, ContinueStep DEF Push, PublishStep, TypeOK, RunOK, Steps
<1>23. CASE OpenPullRequest
  <2>1. remote' \in [base : Nat, branch : Commits,
                    pr : {"none", "open", "merged"},
                    checks : {"pending", "failed", "success"}]
    BY <1>23 DEF OpenPullRequest, TypeOK
  <2> QED
    BY <1>23, <2>1, ContinueStep
    DEF OpenPullRequest, PublishStep, TypeOK, RunOK, Steps
<1>24. CASE RecordPullRequest
  <2>1. HeadCommit \in Commits
    BY DEF HeadCommit, Commits, TypeOK, Workspaces
  <2>2. [task EXCEPT !.pull_request = HeadCommit] \in Tasks
    BY <2>1 DEF TypeOK, Tasks
  <2> QED
    BY <1>24, <2>2, TransitionStep DEF RecordPullRequest, Transition, TypeOK
<1>25. CASE VerifyMerge
  BY <1>25, TransitionStep DEF VerifyMerge, Transition, TypeOK
<1>26. CASE BuildEvidence
  BY <1>26, AtType DEF BuildEvidence, Loaded, TypeOK, RunOK, Steps
<1>27. CASE Package
  <2>1. [state |-> task.state, events |-> Len(log)]
          \in [state : TASK_STATES, events : Nat]
    BY <1>27 DEF Package, TypeOK, RunOK
  <2>2. Event("evidence_manifest_created", "none", "none") \in Events
    BY DEF Event, Events
  <2> QED
    BY <1>27, <2>1, <2>2, AppendingType DEF Package, TypeOK, RunOK
<1>28. CASE Abort
  <2>1. run' = At("idle")
    BY <1>28 DEF Abort, At, Idle
  <2> QED
    BY <1>28, <2>1, AtType DEF Abort, TypeOK, RunOK, Steps
<1>29. ASSUME NEW t \in Trees, EditWorkspace(t)
      PROVE  TypeInv'
  <2>1. ws' \in Workspaces
    BY <1>29 DEF EditWorkspace, TypeOK, Workspaces
  <2> QED
    BY <1>29, <2>1, OutsideStep DEF EditWorkspace, TypeOK
<1>30. ASSUME NEW t \in Trees, BranchMoves(t)
      PROVE  TypeInv'
  <2>1. remote' \in [base : Nat, branch : Commits,
                    pr : {"none", "open", "merged"},
                    checks : {"pending", "failed", "success"}]
    BY <1>30 DEF BranchMoves, TypeOK, Commits
  <2> QED
    BY <1>30, <2>1, OutsideStep DEF BranchMoves, TypeOK
<1>31. CASE BaseMoves
  <2>1. remote' \in [base : Nat, branch : Commits,
                    pr : {"none", "open", "merged"},
                    checks : {"pending", "failed", "success"}]
    BY <1>31 DEF BaseMoves, TypeOK
  <2> QED
    BY <1>31, <2>1, OutsideStep DEF BaseMoves, TypeOK
<1>32. CASE PullRequestMerges
  <2>1. remote' \in [base : Nat, branch : Commits,
                    pr : {"none", "open", "merged"},
                    checks : {"pending", "failed", "success"}]
    BY <1>32 DEF PullRequestMerges, TypeOK
  <2> QED
    BY <1>32, <2>1, OutsideStep DEF PullRequestMerges, TypeOK
<1>33. CASE ChecksReport
  <2>1. remote' \in [base : Nat, branch : Commits,
                    pr : {"none", "open", "merged"},
                    checks : {"pending", "failed", "success"}]
    BY <1>33 DEF ChecksReport, TypeOK
  <2> QED
    BY <1>33, <2>1, OutsideStep DEF ChecksReport, TypeOK
<1>34. CASE UNCHANGED vars
  BY <1>34 DEF vars, TypeOK, RunOK
<1> QED
  BY <1>1, <1>2, <1>3, <1>4, <1>5, <1>6, <1>7, <1>8, <1>9, <1>10, <1>11,
     <1>12, <1>13, <1>14, <1>15, <1>16, <1>17, <1>18, <1>19, <1>20, <1>21,
     <1>22, <1>23, <1>24, <1>25, <1>26, <1>27, <1>28, <1>29, <1>30, <1>31,
     <1>32, <1>33, <1>34
  DEF Next, Operation, Continue, Environment

\* Every variable keeps the shape of the record, file or directory it models,
\* and every operation in progress finds the task in a state its handler has
\* checked: the store never shows a handler a task it cannot interpret.
THEOREM TypeCorrect == Spec => []TypeOK
<1>1. TypeInv => TypeOK
  BY DEF TypeInv
<1> QED
  BY <1>1, TypeInit, TypeNext, PTL DEF Spec

-----------------------------------------------------------------------------
(* Separation of duties                                                    *)

\* The gates are passed one after the other, so each role must already be
\* taken, by the right people, in the states that lead to the gates.
DutiesInv ==
    /\ TypeInv
    /\ task.state \in {"changes_applied", "tests_passed", "tests_failed",
                      "review_failed"} \cup Reviewed => task.coder \in Actors
    /\ task.state = "tests_passed" =>
          task.test_runner \in Actors /\ task.test_runner # task.coder
    /\ SeparationOfDuties

\* Reaching a state outside `Reviewed` by a transition that leaves the roles
\* alone keeps the invariant when nobody is needed there.
LEMMA DutiesElsewhere ==
    ASSUME DutiesInv, TypeInv',
           task'.state \notin {"changes_applied", "tests_passed",
                              "tests_failed", "review_failed"} \cup Reviewed
    PROVE  DutiesInv'
BY DEF DutiesInv, SeparationOfDuties, Reviewed, Approved

\* A step that leaves the task alone leaves the duties alone.
LEMMA DutiesKept ==
    ASSUME DutiesInv, TypeInv', UNCHANGED task
    PROVE  DutiesInv'
BY DEF DutiesInv, SeparationOfDuties

\* There are no duties to separate before there is a task.
LEMMA DutiesInit == Init => DutiesInv
<1> SUFFICES ASSUME Init PROVE DutiesInv
  OBVIOUS
<1>1. task.state = "absent"
  BY DEF Init, NoTask
<1> QED
  BY <1>1, TypeInit DEF DutiesInv, SeparationOfDuties, Reviewed, Approved

\* No step of an operation lets one person take two of the duties that are
\* behind the gates the task has passed.
LEMMA DutiesNext == DutiesInv /\ [Next]_vars => DutiesInv'
<1> SUFFICES ASSUME DutiesInv, [Next]_vars PROVE DutiesInv'
  OBVIOUS
<1> USE DEF DutiesInv
<1>0. TypeInv'
  BY TypeNext
<1>t. task \in Tasks
  BY DEF TypeInv, TypeOK
<1>1. CASE Start
  BY <1>1, <1>0, <1>t, DutiesElsewhere DEF Start, Tasks, Reviewed, Approved
<1>2. CASE WriteState
  BY <1>2, <1>0, DutiesElsewhere DEF WriteState, NoTask, Reviewed, Approved
<1>3. CASE Plan
  BY <1>3, <1>0, <1>t, DutiesElsewhere
  DEF Plan, Transition, TransitionFrom, Tasks, Reviewed, Approved
<1>4. CASE Cancel
  BY <1>4, <1>0, <1>t, DutiesElsewhere
  DEF Cancel, Transition, TransitionFrom, Tasks, Reviewed, Approved
<1>5. CASE Prepare
  BY <1>5, <1>0, <1>t, DutiesElsewhere
  DEF Prepare, Transition, TransitionFrom, Tasks, Reviewed, Approved
<1>6. ASSUME NEW a \in Actors, NEW t \in Trees, ApplyChanges(a, t)
      PROVE  DutiesInv'
  <2>1. task' = [Applied(a) EXCEPT !.state = "changes_applied"]
    BY <1>6 DEF ApplyChanges, TransitionFrom
  <2>2. task'.state = "changes_applied" /\ task'.coder = a
    BY <2>1, <1>t DEF Applied, Tasks
  <2> QED
    BY <1>0, <2>2 DEF SeparationOfDuties, Reviewed, Approved
<1>7. ASSUME NEW a \in Actors, RepairBudgetExhausted(a)
      PROVE  DutiesInv'
  BY <1>7, <1>0, <1>t, DutiesElsewhere
    DEF RepairBudgetExhausted, Transition, TransitionFrom, Tasks, Reviewed,
    Approved
<1>8. ASSUME NEW a \in Actors, NoTestContract(a)
      PROVE  DutiesInv'
  BY <1>8, <1>0, <1>t, DutiesElsewhere
  DEF NoTestContract, Transition, TransitionFrom, Tasks, Reviewed, Approved
<1>9. ASSUME NEW a \in Actors, Test(a)
      PROVE  DutiesInv'
  <2>1. /\ task'.state \in {"tests_passed", "tests_failed"}
        /\ task'.test_runner = a
        /\ task'.coder = task.coder
    BY <1>9, <1>t DEF Test, Transition, TransitionFrom, Tasks
  <2>2. a # task.coder /\ task.coder \in Actors
    BY <1>9 DEF Test, CanTest
  <2> QED
    BY <1>0, <2>1, <2>2 DEF SeparationOfDuties, Reviewed, Approved
<1>10. ASSUME NEW a \in Actors, NEW verified \in BOOLEAN, Review(a, verified)
      PROVE  DutiesInv'
  <2>1. /\ task'.state \in {"review_passed", "review_failed"}
        /\ task'.reviewer = a
        /\ task'.coder = task.coder
        /\ task'.test_runner = task.test_runner
    BY <1>10, <1>t DEF Review, Transition, TransitionFrom, Tasks
  <2>2. /\ task.state = "tests_passed"
        /\ a \notin {task.coder, task.test_runner}
    BY <1>10 DEF Review
  <2> QED
    BY <1>0, <2>1, <2>2 DEF SeparationOfDuties, Reviewed, Approved
<1>11. CASE Handover
  <2>1. task.state = "review_passed"
    BY <1>11 DEF Handover, TypeInv, RunOK
  <2>2. task' = [task EXCEPT !.state = "awaiting_publish_approval"]
    BY <1>11 DEF Handover, Transition, TransitionFrom
  <2> QED
    BY <1>0, <1>t, <2>1, <2>2
    DEF SeparationOfDuties, Reviewed, Approved, Tasks
<1>12. ASSUME NEW a \in Actors, ApprovePublish(a)
      PROVE  DutiesInv'
  <2>1. <<task.state, "publish_approved">> \in TRANSITIONS
    BY <1>12 DEF ApprovePublish, Transition, TransitionFrom
  <2>2. task.state = "awaiting_publish_approval"
    BY <2>1 DEF TRANSITIONS
  <2>3. /\ task'.state = "publish_approved"
        /\ task'.publish_approval = a
        /\ task'.coder = task.coder
        /\ task'.test_runner = task.test_runner
        /\ task'.reviewer = task.reviewer
    BY <1>12, <1>t DEF ApprovePublish, Transition, TransitionFrom, Tasks
  <2>4. a \notin {task.coder, task.test_runner, task.reviewer}
    BY <1>12 DEF ApprovePublish
  <2> QED
    BY <1>0, <2>2, <2>3, <2>4 DEF SeparationOfDuties, Reviewed, Approved
<1>13. CASE RecordPullRequest
  <2>1. task.state = "publish_approved"
    BY <1>13 DEF RecordPullRequest, TypeInv, RunOK
  <2>2. /\ task'.state = "published"
        /\ task'.coder = task.coder
        /\ task'.test_runner = task.test_runner
        /\ task'.reviewer = task.reviewer
        /\ task'.publish_approval = task.publish_approval
    BY <1>13, <1>t DEF RecordPullRequest, Transition, TransitionFrom, Tasks
  <2> QED
    BY <1>0, <2>1, <2>2 DEF SeparationOfDuties, Reviewed, Approved
<1>14. CASE VerifyMerge
  <2>1. task.state = "published"
    BY <1>14 DEF VerifyMerge, TypeInv, RunOK
  <2>2. /\ task'.state = "merged_verified"
        /\ task'.coder = task.coder
        /\ task'.test_runner = task.test_runner
        /\ task'.reviewer = task.reviewer
        /\ task'.publish_approval = task.publish_approval
    BY <1>14, <1>t DEF VerifyMerge, Transition, TransitionFrom, Tasks
  <2> QED
    BY <1>0, <2>1, <2>2 DEF SeparationOfDuties, Reviewed, Approved
<1>15. CASE AppendEvent \/ PrepareRefused \/ CloneFails \/ PrepareInterrupted
  \/ Publish \/ CheckBase \/ Stage \/ Commit \/ Push \/ OpenPullRequest \/
  BuildEvidence \/ Package \/ Abort \/ BaseMoves \/ PullRequestMerges \/
  ChecksReport
  BY <1>15, <1>0, DutiesKept
    DEF AppendEvent, PrepareRefused, CloneFails, PrepareInterrupted, Publish,
    CheckBase, Stage, Commit, Push, OpenPullRequest, BuildEvidence, Package,
    Abort, BaseMoves, PullRequestMerges, ChecksReport
<1>16. ASSUME NEW a \in Actors, NEW t \in Trees,
             ApplyStops(a, t)
      PROVE  DutiesInv'
  BY <1>16, <1>0, DutiesKept DEF ApplyStops
<1>17. ASSUME NEW t \in Trees, EditWorkspace(t) \/ BranchMoves(t)
      PROVE  DutiesInv'
  BY <1>17, <1>0, DutiesKept DEF EditWorkspace, BranchMoves
<1>18. CASE UNCHANGED vars
  BY <1>18, <1>0, DutiesKept DEF vars
<1> QED
  BY <1>1, <1>2, <1>3, <1>4, <1>5, <1>6, <1>7, <1>8, <1>9, <1>10, <1>11,
    <1>12, <1>13, <1>14, <1>15, <1>16, <1>17, <1>18
  DEF Next, Operation, Continue, Environment

\* Behind the gates the coder, the test runner, the reviewer and the publish
\* approver are four different actors, for any number of actors, repairs,
\* failures and hand edits.
THEOREM DutiesSeparated == Spec => []SeparationOfDuties
<1>1. DutiesInv => SeparationOfDuties
  BY DEF DutiesInv
<1> QED
  BY <1>1, DutiesInit, DutiesNext, PTL DEF Spec

-----------------------------------------------------------------------------
(* The reviewed change is the published change                             *)

\* States in which the clone of the recorded base revision is there.
Prepared == {"workspace_ready", "changes_applied", "tests_passed",
             "tests_failed", "review_failed", "manual_review"} \cup Reviewed

\* Nothing is staged or committed before the publication, whose steps carry
\* the reviewed content from the working tree to the index, the head, the
\* task branch and the recorded pull request.
ContentInv ==
    /\ task.state \notin Approved =>
          ws.index = Pristine /\ ws.head = Pristine
    /\ task.state \in Prepared =>
          ws.git = "cloned" /\ ws.rev = task.source_sha
    /\ task.state \in Reviewed =>
          /\ task.change_sha256.old = Pristine
          /\ task.change_sha256.new
                \notin OverBudget \cup Secrets \cup {Pristine}
    /\ run.pc \in {"check_base", "stage"} =>
          ws.tree = task.change_sha256.new
    /\ run.pc = "commit" => ws.index = task.change_sha256.new
    /\ run.pc \in {"push", "open_pr", "record_pr"} =>
          ws.head = task.change_sha256.new
    /\ task.state \in {"published", "merged_verified"} =>
          task.pull_request = [rev |-> task.source_sha,
                               tree |-> task.change_sha256.new,
                               by |-> "controller"]
    /\ task.state = "merged_verified" =>
          remote.pr = "merged" /\ remote.branch = task.pull_request
    /\ PublishedWasReviewed

ReleaseInv == TypeInv /\ ContentInv

\* Nothing is released before there is a task.
LEMMA ReleaseInit == Init => ReleaseInv
<1> SUFFICES ASSUME Init PROVE ReleaseInv
  OBVIOUS
<1>1. task.state = "absent" /\ run.pc = "idle"
  BY DEF Init, NoTask, Idle
<1>2. ws.index = Pristine /\ ws.head = Pristine
  BY DEF Init, NoClone
<1>3. remote.branch.by = "nobody"
  BY DEF Init, NoCommit
<1> QED
  BY <1>1, <1>2, <1>3, TypeInit
  DEF ReleaseInv, ContentInv, PublishedWasReviewed, Prepared, Reviewed,
      Approved

\* Every step keeps the reviewed content on its way from the tree to the branch,
\* if nobody edits the clone while an operation runs.
LEMMA ReleaseNext ==
    ASSUME "running" \notin EditPhases
    PROVE  ReleaseInv /\ [Next]_vars => ReleaseInv'
<1> SUFFICES ASSUME ReleaseInv, [Next]_vars PROVE ReleaseInv'
  OBVIOUS
<1> USE DEF ReleaseInv
<1>0. TypeInv'
  BY TypeNext
<1>t. task \in Tasks /\ ws \in Workspaces
  BY DEF TypeInv, TypeOK
<1>c. ContentInv /\ RunOK
  BY DEF TypeInv
<1> HIDE DEF ReleaseInv
<1> SUFFICES ContentInv'
  BY <1>0 DEF ReleaseInv
<1>1. CASE Start
    <2>1. task.state = "absent" /\ task'.state = "directory" /\ run'.pc =
    "create"
    BY <1>1, <1>t DEF Start, Tasks, At, Idle
  <2> QED
    BY <1>1, <1>c, <2>1 DEF Start, ContentInv, PublishedWasReviewed,
      Prepared, Reviewed, Approved
<1>2. CASE WriteState
  <2>1. /\ task.state = "directory"
        /\ task'.state = "created"
        /\ run'.pc = "append"
    BY <1>2, <1>c DEF WriteState, NoTask, Appending, RunOK
  <2> QED
    BY <1>2, <1>c, <2>1 DEF WriteState, ContentInv, PublishedWasReviewed,
      Prepared, Reviewed, Approved
<1>3. CASE AppendEvent
  <2>1. run'.pc \in {"idle", "handover", "package"}
    BY <1>3 DEF AppendEvent, TypeInv, TypeOK, At, Idle, ReleaseInv
  <2> QED
    BY <1>3, <1>c, <2>1 DEF AppendEvent, ContentInv, PublishedWasReviewed,
      Prepared, Reviewed, Approved
<1>4. CASE Plan
  <2>1. <<task.state, "planned">> \in TRANSITIONS
    BY <1>4 DEF Plan, Transition, TransitionFrom
  <2>2. task.state \notin Approved
    BY <2>1 DEF TRANSITIONS, Open, Approved
  <2>3. task'.state = "planned" /\ run'.pc = "append"
    BY <1>4, <1>t DEF Plan, Transition, TransitionFrom, Tasks, Appending
  <2> QED
    BY <1>4, <1>c, <2>2, <2>3 DEF Plan, ContentInv, PublishedWasReviewed,
      Prepared, Reviewed, Approved
<1>5. CASE Cancel
  <2>1. <<task.state, "cancelled">> \in TRANSITIONS
    BY <1>5 DEF Cancel, Transition, TransitionFrom
  <2>2. task.state \notin Approved
    BY <2>1 DEF TRANSITIONS, Open, Approved
  <2>3. task'.state = "cancelled" /\ run'.pc = "append"
    BY <1>5, <1>t DEF Cancel, Transition, TransitionFrom, Tasks, Appending
  <2> QED
    BY <1>5, <1>c, <2>2, <2>3 DEF Cancel, ContentInv,
      PublishedWasReviewed, Prepared, Reviewed, Approved
<1>6. CASE Prepare
  <2>1. <<task.state, "workspace_ready">> \in TRANSITIONS
    BY <1>6 DEF Prepare, Transition, TransitionFrom
  <2>2. task.state \notin Approved
    BY <2>1 DEF TRANSITIONS, Open, Approved
  <2>3. /\ task'.state = "workspace_ready"
        /\ task'.source_sha = remote.base
        /\ run'.pc = "append"
    BY <1>6, <1>t DEF Prepare, Transition, TransitionFrom, Tasks, Appending
  <2>4. /\ ws'.git = "cloned"
        /\ ws'.rev = remote.base
        /\ ws'.index = Pristine
        /\ ws'.head = Pristine
    BY <1>6 DEF Prepare, Clone
  <2> QED
    BY <1>6, <1>c, <2>2, <2>3, <2>4 DEF Prepare, ContentInv,
      PublishedWasReviewed, Prepared, Reviewed, Approved
<1>7. CASE PrepareRefused \/ CloneFails \/ PrepareInterrupted
  <2>1. task.state \notin Prepared /\ run.pc = "idle"
    BY <1>7, <1>c
        DEF PrepareRefused, CloneFails, PrepareInterrupted, CanClone, Loaded,
      ContentInv
  <2>2. ws'.index = Pristine /\ ws'.head = Pristine
    BY <1>7 DEF PrepareRefused, CloneFails, PrepareInterrupted, Clone, NoClone
  <2> QED
    BY <1>7, <1>c, <2>1, <2>2
        DEF PrepareRefused, CloneFails, PrepareInterrupted, ContentInv,
      PublishedWasReviewed, Prepared, Reviewed, Approved
<1>8. ASSUME NEW a \in Actors, NEW t \in Trees, ApplyChanges(a, t)
      PROVE  ContentInv'
  <2>1. task' = [Applied(a) EXCEPT !.state = "changes_applied"]
    BY <1>8 DEF ApplyChanges, TransitionFrom
  <2>2. /\ task'.state = "changes_applied"
        /\ task'.source_sha = task.source_sha
        /\ run'.pc = "append"
        BY <1>8, <2>1, <1>t DEF Applied, Tasks, ApplyChanges, TransitionFrom,
      Appending
  <2>3. task.state \in Prepared \ Approved
    BY <1>8 DEF ApplyChanges, CanApply, Prepared, Reviewed, Approved
  <2>4. /\ ws'.git = ws.git
        /\ ws'.rev = ws.rev
        /\ ws'.index = ws.index
        /\ ws'.head = ws.head
    BY <1>8, <1>t DEF ApplyChanges, Workspaces
  <2> QED
    BY <1>8, <1>c, <2>2, <2>3, <2>4 DEF ApplyChanges, ContentInv,
      PublishedWasReviewed, Prepared, Reviewed, Approved
<1>9. ASSUME NEW a \in Actors, NEW t \in Trees, ApplyStops(a, t)
      PROVE  ContentInv'
  <2>1. /\ ws'.git = ws.git
        /\ ws'.rev = ws.rev
        /\ ws'.index = ws.index
        /\ ws'.head = ws.head
    BY <1>9, <1>t DEF ApplyStops, Workspaces
  <2>2. run.pc = "idle"
    BY <1>9 DEF ApplyStops, CanApply, Loaded
  <2> QED
    BY <1>9, <1>c, <2>1, <2>2 DEF ApplyStops, ContentInv,
      PublishedWasReviewed, Prepared, Reviewed, Approved
<1>10. ASSUME NEW a \in Actors, RepairBudgetExhausted(a)
      PROVE  ContentInv'
  <2>1. /\ task'.state = "manual_review"
        /\ task'.source_sha = task.source_sha
        /\ run'.pc = "append"
        BY <1>10, <1>t DEF RepairBudgetExhausted, Transition, TransitionFrom,
      Tasks, Appending
  <2>2. task.state \in Prepared \ Approved
    BY <1>10 DEF RepairBudgetExhausted, CanApply, Prepared, Reviewed, Approved
  <2> QED
    BY <1>10, <1>c, <2>1, <2>2 DEF RepairBudgetExhausted, ContentInv,
      PublishedWasReviewed, Prepared, Reviewed, Approved
<1>11. ASSUME NEW a \in Actors, NoTestContract(a)
      PROVE  ContentInv'
  <2>1. /\ task'.state = "manual_review"
        /\ task'.source_sha = task.source_sha
        /\ run'.pc = "append"
        BY <1>11, <1>t DEF NoTestContract, Transition, TransitionFrom, Tasks,
      Appending
  <2>2. task.state \in Prepared \ Approved
    BY <1>11 DEF NoTestContract, CanTest, Prepared, Reviewed, Approved
  <2> QED
    BY <1>11, <1>c, <2>1, <2>2 DEF NoTestContract, ContentInv,
      PublishedWasReviewed, Prepared, Reviewed, Approved
<1>12. ASSUME NEW a \in Actors, Test(a)
      PROVE  ContentInv'
  <2>1. /\ task'.state \in {"tests_passed", "tests_failed"}
        /\ task'.source_sha = task.source_sha
        /\ run'.pc = "append"
    BY <1>12, <1>t DEF Test, Transition, TransitionFrom, Tasks, Appending
  <2>2. task.state = "changes_applied"
    BY <1>12 DEF Test, CanTest
  <2> QED
    BY <1>12, <1>c, <2>1, <2>2 DEF Test, ContentInv, PublishedWasReviewed,
      Prepared, Reviewed, Approved
<1>13. ASSUME NEW a \in Actors, NEW verified \in BOOLEAN, Review(a, verified)
      PROVE  ContentInv'
  <2>1. /\ task.state = "tests_passed"
        /\ InBudget(ChangeDiff(ws))
        /\ UNCHANGED <<log, ws, remote, packages, faults>>
    BY <1>13 DEF Review
  <2>2. ws.index = Pristine /\ ws.head = Pristine
    BY <1>c, <2>1 DEF ContentInv, Approved
  <2> DEFINE reviewed == [task EXCEPT !.reviewer = a,
                                      !.change_sha256 = ChangeDiff(ws)]
  <2>r. /\ reviewed \in Tasks
        /\ reviewed.source_sha = task.source_sha
        /\ reviewed.change_sha256 = ChangeDiff(ws)
    BY <1>t, DiffType DEF Tasks
  <2>3. /\ task'.state \in {"review_passed", "review_failed"}
        /\ task'.source_sha = task.source_sha
        /\ task'.change_sha256 = ChangeDiff(ws)
        /\ run'.pc = "append"
    <3>1. \/ Transition("review_failed", reviewed, "idle")
          \/ Transition("review_passed", reviewed, "handover")
      BY <1>13 DEF Review
    <3> HIDE DEF reviewed
    <3> QED
      BY <2>r, <3>1 DEF Transition, TransitionFrom, Tasks, Appending
  <2>4. task'.state = "review_passed" => ~ReviewFails(verified)
    BY <1>13, <1>t DEF Review, Transition, TransitionFrom, Tasks
  <2>5. ASSUME task'.state = "review_passed"
        PROVE  /\ ChangeDiff(ws).old = Pristine
               /\ ChangeDiff(ws).new
                     \notin OverBudget \cup Secrets \cup {Pristine}
    <3>1. ChangeDiff(ws) # EmptyDiff /\ ~HasSecret(ChangeDiff(ws))
      BY <2>4, <2>5 DEF ReviewFails
    <3>2. ws.tree # ws.index
      BY <3>1 DEF ChangeDiff
    <3>3. ChangeDiff(ws) = [old |-> Pristine, new |-> ws.tree]
      BY <2>2, <3>2 DEF ChangeDiff
    <3> QED
      BY <2>1, <2>2, <3>1, <3>2, <3>3 DEF InBudget, HasSecret
  <2> QED
    BY <1>c, <2>1, <2>2, <2>3, <2>5 DEF ContentInv, PublishedWasReviewed,
      Prepared, Reviewed, Approved
<1>14. CASE Handover
  <2>1. task.state = "review_passed"
    BY <1>14, <1>c DEF Handover, RunOK
  <2>2. /\ task'.state = "awaiting_publish_approval"
        /\ task'.source_sha = task.source_sha
        /\ task'.change_sha256 = task.change_sha256
        /\ run'.pc = "append"
    BY <1>14, <1>t DEF Handover, Transition, TransitionFrom, Tasks, Appending
  <2> QED
    BY <1>14, <1>c, <2>1, <2>2 DEF Handover, ContentInv,
      PublishedWasReviewed, Prepared, Reviewed, Approved
<1>15. ASSUME NEW a \in Actors, ApprovePublish(a)
      PROVE  ContentInv'
  <2>1. <<task.state, "publish_approved">> \in TRANSITIONS
    BY <1>15 DEF ApprovePublish, Transition, TransitionFrom
  <2>2. task.state = "awaiting_publish_approval"
    BY <2>1 DEF TRANSITIONS
  <2>3. /\ task'.state = "publish_approved"
        /\ task'.source_sha = task.source_sha
        /\ task'.change_sha256 = task.change_sha256
        /\ run'.pc = "append"
    BY <1>15, <1>t
    DEF ApprovePublish, Transition, TransitionFrom, Tasks, Appending
  <2> QED
    BY <1>15, <1>c, <2>2, <2>3 DEF ApprovePublish, ContentInv,
      PublishedWasReviewed, Prepared, Reviewed, Approved
<1>16. CASE Publish
  <2>1. /\ task.state = "publish_approved"
        /\ ChangeDiff(ws) = task.change_sha256
        /\ run'.pc = "check_base"
        /\ UNCHANGED <<task, ws, remote>>
    BY <1>16 DEF Publish, At, Idle
  <2>2. ws.tree = task.change_sha256.new
    <3>1. task.change_sha256.new # Pristine
      BY <1>c, <2>1 DEF ContentInv, Reviewed
    <3>2. ws.tree # ws.index
      BY <2>1, <3>1 DEF ChangeDiff, EmptyDiff
    <3> QED
      BY <2>1, <3>2 DEF ChangeDiff
  <2> QED
    BY <1>c, <2>1, <2>2 DEF ContentInv, PublishedWasReviewed, Prepared,
      Reviewed, Approved
<1>17. CASE CheckBase
  <2>1. run'.pc \in {"idle", "stage"} /\ run.pc = "check_base"
    BY <1>17 DEF CheckBase, PublishStep, At, Idle
  <2> QED
    BY <1>17, <1>c, <2>1 DEF CheckBase, ContentInv, PublishedWasReviewed,
      Prepared, Reviewed, Approved
<1>18. CASE Stage
  <2>1. /\ run.pc = "stage"
        /\ \/ run'.pc = "commit"
           \/ run'.pc = "push" /\ ws.tree = ws.head
    BY <1>18 DEF Stage, PublishStep, At, Idle
  <2>2. task.state = "publish_approved"
    BY <1>c, <2>1 DEF RunOK
  <2>3. /\ ws'.git = ws.git
        /\ ws'.rev = ws.rev
        /\ ws'.index = ws.tree
        /\ ws'.head = ws.head
    BY <1>18, <1>t DEF Stage, Workspaces
  <2> QED
    BY <1>18, <1>c, <2>1, <2>2, <2>3 DEF Stage, ContentInv,
      PublishedWasReviewed, Prepared, Reviewed, Approved
<1>19. CASE Commit
  <2>1. run.pc = "commit" /\ run'.pc \in {"push", "idle"}
    BY <1>19 DEF Commit, PublishStep, At, Idle
  <2>2. task.state = "publish_approved"
    BY <1>c, <2>1 DEF RunOK
  <2>3. /\ ws'.git = ws.git
        /\ ws'.rev = ws.rev
        /\ ws'.head = ws.index
    BY <1>19, <1>t DEF Commit, Workspaces
  <2> QED
    BY <1>19, <1>c, <2>1, <2>2, <2>3 DEF Commit, ContentInv,
      PublishedWasReviewed, Prepared, Reviewed, Approved
<1>20. CASE Push
  <2>1. run.pc = "push"
    BY <1>20 DEF Push, PublishStep
  <2>2. task.state = "publish_approved"
    BY <1>c, <2>1 DEF RunOK
  <2>3. ws.head # Pristine
    BY <1>c, <2>1, <2>2 DEF ContentInv, Reviewed
  <2>4. run'.pc = "open_pr"
    BY <1>20, <2>3 DEF Push, PublishStep, At, Idle
  <2>5. /\ remote'.branch.rev = ws.rev
        /\ remote'.branch.tree = ws.head
    BY <1>20, <2>3 DEF Push, HeadCommit, TypeInv, TypeOK, ReleaseInv
  <2>6. task.change_sha256 = [old |-> Pristine, new |-> ws.head]
    <3>1. task.change_sha256 \in Diffs
      BY <1>t DEF Tasks
    <3>2. /\ task.change_sha256.old = Pristine
          /\ task.change_sha256.new = ws.head
      BY <1>c, <2>1, <2>2 DEF ContentInv, Reviewed
    <3> QED
      BY <3>1, <3>2 DEF Diffs
  <2> QED
    BY <1>20, <1>c, <2>1, <2>2, <2>4, <2>5, <2>6
    DEF Push, ContentInv, PublishedWasReviewed, Prepared, Reviewed, Approved
<1>21. CASE OpenPullRequest
  <2>1. run.pc = "open_pr" /\ run'.pc = "record_pr"
    BY <1>21 DEF OpenPullRequest, PublishStep, At, Idle
  <2>2. task.state = "publish_approved"
    BY <1>c, <2>1 DEF RunOK
  <2>3. remote'.branch = remote.branch
    BY <1>21 DEF OpenPullRequest, TypeInv, TypeOK, ReleaseInv
  <2> QED
    BY <1>21, <1>c, <2>1, <2>2, <2>3 DEF OpenPullRequest, ContentInv,
      PublishedWasReviewed, Prepared, Reviewed, Approved
<1>22. CASE RecordPullRequest
  <2>1. task.state = "publish_approved"
    BY <1>22, <1>c DEF RecordPullRequest, RunOK
  <2>2. /\ task'.state = "published"
        /\ task'.pull_request = HeadCommit
        /\ task'.source_sha = task.source_sha
        /\ task'.change_sha256 = task.change_sha256
        /\ run'.pc = "append"
    BY <1>22, <1>t
    DEF RecordPullRequest, Transition, TransitionFrom, Tasks, Appending
  <2>3. HeadCommit = [rev |-> task.source_sha,
                      tree |-> task.change_sha256.new, by |-> "controller"]
    BY <1>22, <1>c, <2>1
    DEF RecordPullRequest, HeadCommit, ContentInv, Prepared, Reviewed
  <2> QED
    BY <1>22, <1>c, <2>1, <2>2, <2>3 DEF RecordPullRequest, ContentInv,
      PublishedWasReviewed, Prepared, Reviewed, Approved
<1>23. CASE VerifyMerge
  <2>1. /\ task.state = "published"
        /\ remote.pr = "merged"
        /\ remote.branch = task.pull_request
        /\ UNCHANGED <<ws, remote>>
    BY <1>23 DEF VerifyMerge
  <2>2. /\ task'.state = "merged_verified"
        /\ task'.pull_request = task.pull_request
        /\ task'.source_sha = task.source_sha
        /\ task'.change_sha256 = task.change_sha256
        /\ run'.pc = "append"
    BY <1>23, <1>t
    DEF VerifyMerge, Transition, TransitionFrom, Tasks, Appending
  <2> QED
    BY <1>c, <2>1, <2>2 DEF ContentInv, PublishedWasReviewed, Prepared,
      Reviewed, Approved
<1>24. CASE BuildEvidence \/ Package \/ Abort
  <2>1. run'.pc \in {"package", "append", "idle"}
    BY <1>24 DEF BuildEvidence, Package, Abort, At, Appending, Idle
  <2> QED
    BY <1>24, <1>c, <2>1 DEF BuildEvidence, Package, Abort, ContentInv,
      PublishedWasReviewed, Prepared, Reviewed, Approved
<1>25. ASSUME NEW t \in Trees, EditWorkspace(t)
      PROVE  ContentInv'
  <2>1. /\ ws'.git = ws.git
        /\ ws'.rev = ws.rev
        /\ ws'.index = ws.index
        /\ ws'.head = ws.head
    BY <1>25, <1>t DEF EditWorkspace, Workspaces
  <2>2. run.pc = "idle"
    BY <1>25 DEF EditWorkspace
  <2> QED
    BY <1>25, <1>c, <2>1, <2>2 DEF EditWorkspace, ContentInv,
      PublishedWasReviewed, Prepared, Reviewed, Approved
<1>26. ASSUME NEW t \in Trees, BranchMoves(t)
      PROVE  ContentInv'
  <2>1. /\ remote'.branch.by = "other"
        /\ remote.pr # "merged"
        /\ UNCHANGED <<task, ws, run>>
    BY <1>26 DEF BranchMoves, TypeInv, TypeOK, ReleaseInv
  <2> QED
    BY <1>c, <2>1 DEF ContentInv, PublishedWasReviewed, Prepared,
      Reviewed, Approved
<1>27. CASE BaseMoves \/ PullRequestMerges \/ ChecksReport
  <2>1. /\ remote'.branch = remote.branch
        /\ remote.pr = "merged" => remote'.pr = "merged"
        /\ UNCHANGED <<task, ws, run>>
    BY <1>27
    DEF BaseMoves, PullRequestMerges, ChecksReport, TypeInv, TypeOK, ReleaseInv
  <2> QED
    BY <1>c, <2>1 DEF ContentInv, PublishedWasReviewed, Prepared,
      Reviewed, Approved
<1>28. CASE UNCHANGED vars
    BY <1>28, <1>c DEF vars, ContentInv, PublishedWasReviewed, Prepared,
    Reviewed, Approved
<1> QED
  BY <1>1, <1>2, <1>3, <1>4, <1>5, <1>6, <1>7, <1>8, <1>9, <1>10, <1>11,
    <1>12, <1>13, <1>14, <1>15, <1>16, <1>17, <1>18, <1>19, <1>20, <1>21,
    <1>22, <1>23, <1>24, <1>25, <1>26, <1>27, <1>28
  DEF Next, Operation, Continue, Environment

\* If hand edits wait for the operation in progress, whatever the controller
\* has pushed is what the reviewer recorded, clean, within the budget, on the
\* captured base and approved.
THEOREM PublishedIsReviewed ==
    ASSUME "running" \notin EditPhases
    PROVE  Spec => []PublishedWasReviewed
<1>1. ReleaseInv => PublishedWasReviewed
  BY DEF ReleaseInv, ContentInv
<1> QED
  BY <1>1, ReleaseInit, ReleaseNext, PTL DEF Spec

\* Under the same condition a task is closed as merged only if GitHub merged
\* the reviewed commit, whoever pushed to the branch in between.
THEOREM MergedIsPublished ==
    ASSUME "running" \notin EditPhases
    PROVE  Spec => []MergedWasPublished
<1>1. ReleaseInv => MergedWasPublished
  <2> SUFFICES ASSUME ReleaseInv, task.state = "merged_verified"
               PROVE  /\ remote.pr = "merged"
                      /\ remote.branch.by = "controller"
                      /\ remote.branch.tree = task.change_sha256.new
    BY DEF MergedWasPublished
  <2> QED
    BY DEF ReleaseInv, ContentInv
<1> QED
  BY <1>1, ReleaseInit, ReleaseNext, PTL DEF Spec
=============================================================================
