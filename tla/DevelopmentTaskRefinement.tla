--------------------- MODULE DevelopmentTaskRefinement ---------------------
(***************************************************************************)
(* DevelopmentTask implements ReleaseLifecycle, for every value of its     *)
(* constants, as long as nobody edits the clone while an operation runs.   *)
(*                                                                         *)
(* The steps of a task are sorted by what they do to the record (Move); a  *)
(* move that passes a gate is a step of the abstract specification, and    *)
(* the rest of them stutter.                                               *)
(***************************************************************************)
EXTENDS DevelopmentTaskProofs

\* Before the review gate.
Early(t) == t.state \notin Reviewed \cup {"cancelled"}

SameReview ==
    /\ task'.coder = task.coder
    /\ task'.test_runner = task.test_runner
    /\ task'.reviewer = task.reviewer
    /\ task'.change_sha256 = task.change_sha256

Works ==
    /\ Early(task) /\ Early(task')
    /\ task.coder # NoActor => task'.coder = task.coder
    /\ task'.state \in {"absent", "directory"} =>
          task.state = "absent" /\ task'.coder = task.coder
GivesUp ==
    /\ task.state \notin Approved \cup {"cancelled"}
    /\ task'.state = "cancelled"
    /\ task'.coder = task.coder
PassesReview ==
    /\ Early(task)
    /\ task'.state = "review_passed"
    /\ task'.coder = task.coder
HandsOver ==
    /\ task.state = "review_passed"
    /\ task'.state = "awaiting_publish_approval"
    /\ SameReview
GetsApproval ==
    /\ task.state = "awaiting_publish_approval"
    /\ task'.state = "publish_approved"
    /\ SameReview
IsPublished ==
    /\ run.pc = "record_pr"
    /\ task.state = "publish_approved"
    /\ task'.state = "published"
    /\ SameReview
    /\ task'.publish_approval = task.publish_approval
IsMerged ==
    /\ task.state = "published"
    /\ remote.branch = task.pull_request
    /\ task'.state = "merged_verified"
    /\ SameReview
    /\ task'.publish_approval = task.publish_approval

\* A step that writes the record.
Move ==
    /\ UNCHANGED remote
    /\ Works \/ GivesUp \/ PassesReview \/ HandsOver \/ GetsApproval
         \/ IsPublished \/ IsMerged

\* What a step does to the task branch when it leaves the record alone.
Pushes ==
    /\ run.pc = "push" /\ run'.pc = "open_pr"
    /\ remote'.branch = HeadCommit
OthersPush ==
    /\ remote.branch # NoCommit
    /\ remote.pr # "merged"
    /\ remote'.branch.by = "other"
    /\ run' = run
LeavesBranch ==
    /\ remote'.branch = remote.branch
    /\ run'.pc = "record_pr" => run.pc \in {"open_pr", "record_pr"}
    /\ run'.pc = "open_pr" => run.pc = "open_pr"

\* Nobody has a role in a task that does not exist; only an approved task has a
\* branch, and it has one once the pull request is due.
BranchInv ==
    /\ task.state \in {"absent", "directory"} => task.coder = NoActor
    /\ remote.branch.by = "nobody" => remote.branch = NoCommit
    /\ remote.branch.by # "nobody" => task.state \in Approved
    /\ run.pc \in {"open_pr", "record_pr"} => remote.branch.by # "nobody"

RefineInv == ReleaseInv /\ DutiesInv /\ BranchInv

-----------------------------------------------------------------------------
(* The moves of a task                                                     *)

\* A transition writes the record it was given, with the new state, and leaves
\* the operation before AppendEvent.
LEMMA Transits ==
    ASSUME NEW from, NEW to, NEW updated \in Tasks, NEW next,
           TransitionFrom(from, to, updated, next)
    PROVE  /\ <<from, to>> \in TRANSITIONS
           /\ task'.state = to
           /\ task'.coder = updated.coder
           /\ task'.test_runner = updated.test_runner
           /\ task'.reviewer = updated.reviewer
           /\ task'.publish_approval = updated.publish_approval
           /\ task'.change_sha256 = updated.change_sha256
           /\ run'.pc = "append"
BY DEF TransitionFrom, Tasks, Appending

\* The table enters the states before the gate from states before the gate.
LEMMA EarlyPairs ==
    ASSUME NEW from, NEW to, <<from, to>> \in TRANSITIONS
    PROVE  /\ to \in {"planned", "workspace_ready", "changes_applied",
                      "tests_passed", "tests_failed", "review_failed"} =>
                 from \notin Reviewed \cup {"cancelled"}
           /\ to = "cancelled" => from \notin Approved \cup {"cancelled"}
           /\ to = "publish_approved" => from = "awaiting_publish_approval"
BY DEF TRANSITIONS, Open, Reviewed, Approved

\* Every step that writes the record makes one of the moves.
LEMMA RecordMoves ==
    ASSUME TypeInv, BranchInv, Next
    PROVE  UNCHANGED task \/ (Move /\ run'.pc \in {"create", "append"})
<1>t. task \in Tasks /\ RunOK
  BY DEF TypeInv, TypeOK
<1>1. CASE Start
  <2>1. task.state = "absent" /\ task' = [task EXCEPT !.state = "directory"]
    BY <1>1 DEF Start
  <2>2. task'.state = "directory" /\ task'.coder = task.coder
    BY <2>1, <1>t DEF Tasks
  <2>3. run'.pc = "create" /\ UNCHANGED remote
    BY <1>1 DEF Start, At, Idle
  <2> QED
    BY <2>1, <2>2, <2>3 DEF Move, Works, Early, Reviewed
<1>2. CASE WriteState
  <2>1. task.state = "directory" /\ task'.state = "created"
    BY <1>2, <1>t DEF WriteState, RunOK, NoTask
  <2>2. task.coder = NoActor
    BY <2>1 DEF BranchInv
  <2>3. run'.pc = "append" /\ UNCHANGED remote
    BY <1>2 DEF WriteState, Appending
  <2> QED
    BY <2>1, <2>2, <2>3 DEF Move, Works, Early, Reviewed
<1>3. CASE Plan
  <2>1. TransitionFrom(task.state, "planned", task, "idle") /\ UNCHANGED remote
    BY <1>3 DEF Plan, Transition
  <2>2. /\ <<task.state, "planned">> \in TRANSITIONS
        /\ task'.state = "planned"
        /\ task'.coder = task.coder
        /\ run'.pc = "append"
    BY <1>t, <2>1, Transits
  <2> QED
    BY <2>1, <2>2, EarlyPairs DEF Move, Works, Early, Reviewed
<1>4. CASE Cancel
  <2>1. /\ TransitionFrom(task.state, "cancelled", task, "idle")
        /\ UNCHANGED remote
    BY <1>4 DEF Cancel, Transition
  <2>2. /\ <<task.state, "cancelled">> \in TRANSITIONS
        /\ task'.state = "cancelled"
        /\ task'.coder = task.coder
        /\ run'.pc = "append"
    BY <1>t, <2>1, Transits
  <2> QED
    BY <2>1, <2>2, EarlyPairs DEF Move, GivesUp
<1>5. CASE Prepare
  <2> DEFINE cloned == [task EXCEPT !.source_sha = remote.base]
  <2>1. cloned \in Tasks /\ cloned.coder = task.coder
    BY <1>t DEF Tasks, TypeInv, TypeOK
  <2>2. /\ TransitionFrom(task.state, "workspace_ready", cloned, "idle")
        /\ UNCHANGED remote
    BY <1>5 DEF Prepare, Transition
  <2> HIDE DEF cloned
  <2>3. /\ <<task.state, "workspace_ready">> \in TRANSITIONS
        /\ task'.state = "workspace_ready"
        /\ task'.coder = task.coder
        /\ run'.pc = "append"
    BY <2>1, <2>2, Transits
  <2> QED
    BY <2>2, <2>3, EarlyPairs DEF Move, Works, Early, Reviewed
<1>6. ASSUME NEW a \in Actors, NEW t \in Trees, ApplyChanges(a, t)
      PROVE  Move /\ run'.pc = "append"
  <2>1. /\ task.coder \in {NoActor, a} /\ Early(task)
        /\ UNCHANGED remote
    BY <1>6 DEF ApplyChanges, CanApply, Early, Reviewed
  <2>2. Applied(a) \in Tasks /\ Applied(a).coder = a
    <3> DEFINE n == task.repair_attempts + 1
    <3>1. n \in Nat
      BY <1>t DEF Tasks
    <3>2. /\ [task EXCEPT !.coder = a, !.repair_attempts = n] \in Tasks
          /\ [task EXCEPT !.coder = a, !.repair_attempts = n].coder = a
      <4> HIDE DEF n
      <4> QED
        BY <1>t, <3>1 DEF Tasks
    <3> QED
      BY <3>2 DEF Applied
  <2>3. PICK from : TransitionFrom(from, "changes_applied", Applied(a), "idle")
    BY <1>6 DEF ApplyChanges
  <2>4. /\ task'.state = "changes_applied"
        /\ task'.coder = a
        /\ run'.pc = "append"
    BY <2>2, <2>3, Transits
  <2> QED
    BY <2>1, <2>4 DEF Move, Works, Early, Reviewed
<1>7. ASSUME NEW a \in Actors,
             RepairBudgetExhausted(a) \/ NoTestContract(a)
      PROVE  Move /\ run'.pc = "append"
  <2>1. /\ Early(task)
        /\ TransitionFrom(task.state, "manual_review", task, "idle")
        /\ UNCHANGED remote
    BY <1>7 DEF RepairBudgetExhausted, NoTestContract, CanApply, CanTest,
                Transition, Early, Reviewed
  <2>2. /\ task'.state = "manual_review"
        /\ task'.coder = task.coder
        /\ run'.pc = "append"
    BY <1>t, <2>1, Transits
  <2> QED
    BY <2>1, <2>2 DEF Move, Works, Early, Reviewed
<1>8. ASSUME NEW a \in Actors, Test(a)
      PROVE  Move /\ run'.pc = "append"
  <2>1. PICK result \in {"passed", "failed"} :
           Transition(IF result = "passed" THEN "tests_passed"
                                           ELSE "tests_failed",
                      [task EXCEPT !.test_runner = a, !.test_results = result],
                      "idle")
    BY <1>8 DEF Test
  <2> DEFINE tested == [task EXCEPT !.test_runner = a,
                                    !.test_results = result]
  <2>2. tested \in Tasks /\ tested.coder = task.coder
    BY <1>t DEF Tasks
  <2>3. Early(task) /\ UNCHANGED remote
    BY <1>8 DEF Test, CanTest, Early, Reviewed
  <2>4. \/ TransitionFrom(task.state, "tests_passed", tested, "idle")
        \/ TransitionFrom(task.state, "tests_failed", tested, "idle")
    BY <2>1 DEF Transition
  <2> HIDE DEF tested
  <2>5. /\ task'.state \in {"tests_passed", "tests_failed"}
        /\ task'.coder = task.coder
        /\ run'.pc = "append"
    BY <2>2, <2>4, Transits
  <2> QED
    BY <2>3, <2>5 DEF Move, Works, Early, Reviewed
<1>9. ASSUME NEW a \in Actors, NEW verified \in BOOLEAN, Review(a, verified)
      PROVE  Move /\ run'.pc = "append"
  <2> DEFINE reviewed == [task EXCEPT !.reviewer = a,
                                      !.change_sha256 = ChangeDiff(ws)]
  <2>1. ws \in Workspaces
    BY DEF TypeInv, TypeOK
  <2>2. reviewed \in Tasks /\ reviewed.coder = task.coder
    BY <1>t, <2>1, DiffType DEF Tasks
  <2>3. Early(task) /\ UNCHANGED remote
    BY <1>9 DEF Review, Early, Reviewed
  <2>4. \/ TransitionFrom(task.state, "review_failed", reviewed, "idle")
        \/ TransitionFrom(task.state, "review_passed", reviewed, "handover")
    BY <1>9 DEF Review, Transition
  <2> HIDE DEF reviewed
  <2>5. /\ task'.state \in {"review_passed", "review_failed"}
        /\ task'.coder = task.coder
        /\ run'.pc = "append"
    BY <2>2, <2>4, Transits
  <2> QED
    BY <2>3, <2>5 DEF Move, Works, PassesReview, Early, Reviewed
<1>10. CASE Handover
  <2>1. task.state = "review_passed"
    BY <1>10, <1>t DEF Handover, RunOK
  <2>2. /\ TransitionFrom(task.state, "awaiting_publish_approval", task, "idle")
        /\ UNCHANGED remote
    BY <1>10 DEF Handover, Transition
  <2> QED
    BY <2>1, <2>2, <1>t, Transits DEF Move, HandsOver, SameReview
<1>11. ASSUME NEW a \in Actors, ApprovePublish(a)
       PROVE  Move /\ run'.pc = "append"
  <2> DEFINE approved == [task EXCEPT !.publish_approval = a]
  <2>1. /\ approved \in Tasks
        /\ approved.coder = task.coder
        /\ approved.test_runner = task.test_runner
        /\ approved.reviewer = task.reviewer
        /\ approved.change_sha256 = task.change_sha256
    BY <1>t DEF Tasks
  <2>2. /\ TransitionFrom(task.state, "publish_approved", approved, "idle")
        /\ UNCHANGED remote
    BY <1>11 DEF ApprovePublish, Transition
  <2> HIDE DEF approved
  <2>3. /\ <<task.state, "publish_approved">> \in TRANSITIONS
        /\ task'.state = "publish_approved"
        /\ task'.coder = approved.coder
        /\ task'.test_runner = approved.test_runner
        /\ task'.reviewer = approved.reviewer
        /\ task'.change_sha256 = approved.change_sha256
        /\ run'.pc = "append"
    BY <2>1, <2>2, Transits
  <2>4. task.state = "awaiting_publish_approval"
    BY <2>3, EarlyPairs
  <2> QED
    BY <2>1, <2>2, <2>3, <2>4 DEF Move, GetsApproval, SameReview
<1>12. CASE RecordPullRequest
  <2> DEFINE published == [task EXCEPT !.pull_request = HeadCommit]
  <2>1. HeadCommit \in Commits
    BY DEF HeadCommit, Commits, TypeInv, TypeOK, Workspaces
  <2>2. /\ published \in Tasks
        /\ published.coder = task.coder
        /\ published.test_runner = task.test_runner
        /\ published.reviewer = task.reviewer
        /\ published.publish_approval = task.publish_approval
        /\ published.change_sha256 = task.change_sha256
    BY <1>t, <2>1 DEF Tasks
  <2>3. run.pc = "record_pr" /\ task.state = "publish_approved"
    BY <1>12, <1>t DEF RecordPullRequest, RunOK
  <2>4. /\ TransitionFrom(task.state, "published", published, "package")
        /\ UNCHANGED remote
    BY <1>12 DEF RecordPullRequest, Transition
  <2> HIDE DEF published
  <2> QED
    BY <2>2, <2>3, <2>4, Transits DEF Move, IsPublished, SameReview
<1>13. CASE VerifyMerge
  <2>1. /\ task.state = "published"
        /\ remote.branch = task.pull_request
        /\ TransitionFrom(task.state, "merged_verified", task, "package")
        /\ UNCHANGED remote
    BY <1>13 DEF VerifyMerge, Transition
  <2> QED
    BY <2>1, <1>t, Transits DEF Move, IsMerged, SameReview
<1>14. CASE AppendEvent \/ PrepareRefused \/ CloneFails \/ PrepareInterrupted
         \/ Publish \/ CheckBase \/ Stage \/ Commit \/ Push \/ OpenPullRequest
         \/ BuildEvidence \/ Package \/ Abort \/ BaseMoves
         \/ PullRequestMerges \/ ChecksReport
  BY <1>14
  DEF AppendEvent, PrepareRefused, CloneFails, PrepareInterrupted, Publish,
      CheckBase, Stage, Commit, Push, OpenPullRequest, BuildEvidence, Package,
      Abort, BaseMoves, PullRequestMerges, ChecksReport
<1>15. ASSUME NEW t \in Trees, EditWorkspace(t) \/ BranchMoves(t)
       PROVE  UNCHANGED task
  BY <1>15 DEF EditWorkspace, BranchMoves
<1>16. ASSUME NEW a \in Actors, NEW t \in Trees, ApplyStops(a, t)
       PROVE  UNCHANGED task
  BY <1>16 DEF ApplyStops
<1> QED
  BY <1>1, <1>2, <1>3, <1>4, <1>5, <1>6, <1>7, <1>8, <1>9, <1>10, <1>11,
    <1>12, <1>13, <1>14, <1>15, <1>16
  DEF Next, Operation, Continue, Environment

\* A step that leaves the record alone pushes, is a push of somebody else, or
\* has nothing to do with the branch.
LEMMA BranchSteps ==
    ASSUME TypeInv, Next, UNCHANGED task
    PROVE  Pushes \/ OthersPush \/ LeavesBranch
<1>t. /\ task \in Tasks /\ RunOK
      /\ remote \in [base : Nat, branch : Commits,
                     pr : {"none", "open", "merged"},
                     checks : {"pending", "failed", "success"}]
      /\ run.next \in {"idle", "handover", "package"}
  BY DEF TypeInv, TypeOK
<1>1. CASE Push
  <2>1. CASE ws.head # Pristine
    BY <1>1, <1>t, <2>1 DEF Push, PublishStep, Pushes, At, Idle
  <2>2. CASE ws.head = Pristine
    BY <1>1, <2>2 DEF Push, PublishStep, LeavesBranch, At, Idle
  <2> QED
    BY <2>1, <2>2
<1>2. ASSUME NEW t \in Trees, BranchMoves(t)
      PROVE  OthersPush
  BY <1>2, <1>t DEF BranchMoves, OthersPush
<1>3. CASE OpenPullRequest
  BY <1>3, <1>t DEF OpenPullRequest, PublishStep, LeavesBranch, At, Idle
<1>4. CASE AppendEvent
  BY <1>4, <1>t DEF AppendEvent, LeavesBranch, At, Idle
<1>5. CASE Publish \/ CheckBase \/ Stage \/ Commit \/ BuildEvidence \/ Package
         \/ Abort
  BY <1>5 DEF Publish, CheckBase, Stage, Commit, BuildEvidence, Package, Abort,
              PublishStep, LeavesBranch, At, Appending, Idle
<1>6. CASE PrepareRefused \/ CloneFails \/ PrepareInterrupted
  BY <1>6 DEF PrepareRefused, CloneFails, PrepareInterrupted, LeavesBranch
<1>7. CASE BaseMoves \/ PullRequestMerges \/ ChecksReport
  BY <1>7, <1>t DEF BaseMoves, PullRequestMerges, ChecksReport, LeavesBranch
<1>8. ASSUME NEW a \in Actors, NEW t \in Trees,
             ApplyStops(a, t) \/ ApplyChanges(a, t)
      PROVE  LeavesBranch
  <2>1. CASE ApplyStops(a, t)
    BY <2>1 DEF ApplyStops, LeavesBranch
  <2>2. CASE ApplyChanges(a, t)
    <3>1. PICK from : TransitionFrom(from, "changes_applied", Applied(a), "idle")
      BY <2>2 DEF ApplyChanges
    <3>2. run'.pc = "append"
      BY <3>1 DEF TransitionFrom, Appending
    <3> QED
      BY <2>2, <3>2 DEF ApplyChanges, LeavesBranch
  <2> QED
    BY <1>8, <2>1, <2>2
<1>9. CASE Start \/ WriteState
  <2>1. CASE Start
    BY <2>1 DEF Start, LeavesBranch, At, Idle
  <2>2. CASE WriteState
    <3>1. run'.pc = "append" /\ UNCHANGED remote
      BY <2>2 DEF WriteState, Appending
    <3> QED
      BY <3>1 DEF LeavesBranch
  <2> QED
    BY <1>9, <2>1, <2>2
<1>10. CASE Plan \/ Cancel \/ Prepare
  <2>1. run'.pc = "append" /\ UNCHANGED remote
    BY <1>10 DEF Plan, Cancel, Prepare, Transition, TransitionFrom, Appending
  <2> QED
    BY <2>1 DEF LeavesBranch
<1>11. CASE Handover \/ RecordPullRequest \/ VerifyMerge
  BY <1>11 DEF Handover, RecordPullRequest, VerifyMerge, Transition,
               TransitionFrom, LeavesBranch, Appending
<1>12. ASSUME NEW a \in Actors,
              \/ RepairBudgetExhausted(a) \/ Test(a) \/ NoTestContract(a)
              \/ ApprovePublish(a)
       PROVE  LeavesBranch
  BY <1>12 DEF RepairBudgetExhausted, Test, NoTestContract, ApprovePublish,
               Transition, TransitionFrom, LeavesBranch, Appending
<1>13. ASSUME NEW a \in Actors, NEW verified \in BOOLEAN, Review(a, verified)
       PROVE  LeavesBranch
  BY <1>13 DEF Review, Transition, TransitionFrom, LeavesBranch, Appending
<1>14. ASSUME NEW t \in Trees, EditWorkspace(t)
       PROVE  LeavesBranch
  BY <1>14 DEF EditWorkspace, LeavesBranch
<1> QED
  BY <1>1, <1>2, <1>3, <1>4, <1>5, <1>6, <1>7, <1>8, <1>9, <1>10, <1>11,
    <1>12, <1>13, <1>14
  DEF Next, Operation, Continue, Environment

\* There is no branch before there is a task.
LEMMA BranchInit == Init => BranchInv
BY DEF Init, BranchInv, NoTask, NoCommit, Idle

\* The branch appears with the push of an approved task and stays.
LEMMA BranchNext == TypeInv /\ BranchInv /\ [Next]_vars => BranchInv'
<1> SUFFICES ASSUME TypeInv, BranchInv, [Next]_vars PROVE BranchInv'
  OBVIOUS
<1>1. CASE UNCHANGED vars
  BY <1>1 DEF vars, BranchInv
<1>2. CASE Next /\ UNCHANGED task
  <2>1. CASE Pushes
    <3>1. task.state = "publish_approved" /\ remote'.branch.by = "controller"
      BY <2>1 DEF Pushes, HeadCommit, TypeInv, RunOK
    <3> QED
      BY <1>2, <3>1 DEF BranchInv, Approved
  <2>2. CASE OthersPush
    BY <1>2, <2>2 DEF OthersPush, BranchInv
  <2>3. CASE LeavesBranch
    BY <1>2, <2>3 DEF LeavesBranch, BranchInv
  <2> QED
    BY <1>2, <2>1, <2>2, <2>3, BranchSteps
<1>3. CASE Move /\ run'.pc \in {"create", "append"}
  BY <1>3 DEF Move, Works, GivesUp, PassesReview, HandsOver, GetsApproval,
              IsPublished, IsMerged, Early, SameReview, BranchInv, Reviewed,
              Approved
<1> QED
  BY <1>1, <1>2, <1>3, RecordMoves

\* RefineInv is an invariant of the specification.
LEMMA RefineNext ==
    ASSUME "running" \notin EditPhases
    PROVE  RefineInv /\ [Next]_vars => RefineInv'
BY ReleaseNext, DutiesNext, BranchNext DEF RefineInv, ReleaseInv

-----------------------------------------------------------------------------
(* The refinement                                                          *)

\* Before the gate nothing is decided.
LEMMA EarlyView ==
    ASSUME NEW t, Early(t)
    PROVE  PhaseOf(t) = "open" /\ DecisionOf(t) = Release!Undecided
BY DEF Early, PhaseOf, DecisionOf, Reviewed, Approved, Release!Undecided

\* A cancelled task shows no decision.
LEMMA CancelledView ==
    ASSUME NEW t, t.state = "cancelled"
    PROVE  PhaseOf(t) = "cancelled" /\ DecisionOf(t) = Release!Undecided
BY DEF PhaseOf, DecisionOf, Reviewed, Approved, Release!Undecided

\* What a task between review and approval shows.
LEMMA ReviewedView ==
    ASSUME NEW t, t.state \in {"review_passed", "awaiting_publish_approval"}
    PROVE  /\ PhaseOf(t) = "reviewed"
           /\ DecisionOf(t) =
                [coder |-> t.coder, test_runner |-> t.test_runner,
                 reviewer |-> t.reviewer, publish_approval |-> NoActor,
                 content |-> t.change_sha256.new]
BY DEF PhaseOf, DecisionOf, Reviewed, Approved

\* What an approved task shows.
LEMMA ApprovedView ==
    ASSUME NEW t, t.state \in Approved
    PROVE  /\ PhaseOf(t) = CASE t.state = "publish_approved" -> "approved"
                             [] t.state = "published" -> "published"
                             [] OTHER -> "merged"
           /\ DecisionOf(t) =
                [coder |-> t.coder, test_runner |-> t.test_runner,
                 reviewer |-> t.reviewer,
                 publish_approval |-> t.publish_approval,
                 content |-> t.change_sha256.new]
BY DEF PhaseOf, DecisionOf, Reviewed, Approved

Shown(b) == [by |-> b.by, tree |-> b.tree]

\* Every move of the record is a step of the abstract specification or none.
LEMMA MoveRefines ==
    ASSUME RefineInv, RefineInv', Move
    PROVE  [Release!Next]_<<PhaseOf(task), DecisionOf(task),
                            Shown(remote.branch)>>
<1>b. UNCHANGED Shown(remote.branch)
  BY DEF Move, Shown
<1>d. /\ TypeInv /\ TypeInv'
      /\ SeparationOfDuties /\ SeparationOfDuties'
      /\ ContentInv /\ ContentInv' /\ BranchInv
  BY DEF RefineInv, ReleaseInv, DutiesInv
<1>1. CASE Works
  BY <1>1, <1>b, EarlyView DEF Works
<1>2. CASE GivesUp
  <2>1. PhaseOf(task) \in {"open", "reviewed"}
    BY <1>2 DEF GivesUp, PhaseOf, Approved
  <2>2. PhaseOf(task') = "cancelled" /\ DecisionOf(task') = Release!Undecided
    BY <1>2, CancelledView DEF GivesUp
  <2> QED
    BY <1>b, <2>1, <2>2 DEF Release!Next, Release!Cancel, Shown
<1>3. CASE PassesReview
  <2>1. task'.state = "review_passed"
    BY <1>3 DEF PassesReview
  <2>2. /\ {task'.coder, task'.test_runner, task'.reviewer} \subseteq Actors
        /\ task'.coder # task'.test_runner
        /\ task'.reviewer \notin {task'.coder, task'.test_runner}
    BY <1>d, <2>1 DEF SeparationOfDuties, Reviewed
  <2>3. task'.change_sha256.new \in Changes \ (OverBudget \cup Secrets)
    <3>1. task'.change_sha256.new \in Trees
      BY <1>d DEF TypeInv, TypeOK, Tasks, Diffs
    <3> QED
      BY <1>d, <2>1, <3>1 DEF ContentInv, Reviewed, Trees
  <2>4. /\ PhaseOf(task) = "open"
        /\ PhaseOf(task') = "reviewed"
        /\ DecisionOf(task') =
              [coder |-> task'.coder, test_runner |-> task'.test_runner,
               reviewer |-> task'.reviewer, publish_approval |-> NoActor,
               content |-> task'.change_sha256.new]
    BY <1>3, <2>1, EarlyView, ReviewedView DEF PassesReview
  <2>5. Release!PassReview
    BY <1>b, <2>2, <2>3, <2>4 DEF Release!PassReview, Shown
  <2> QED
    BY <2>5 DEF Release!Next
<1>4. CASE HandsOver
  BY <1>4, <1>b, ReviewedView DEF HandsOver, SameReview
<1>5. CASE GetsApproval
  <2>1. /\ task.state = "awaiting_publish_approval"
        /\ task'.state = "publish_approved"
        /\ SameReview
    BY <1>5 DEF GetsApproval
  <2>2. /\ task'.publish_approval \in Actors
        /\ task'.publish_approval \notin
              {task'.coder, task'.test_runner, task'.reviewer}
    BY <1>d, <2>1 DEF SeparationOfDuties, Approved
  <2>3. /\ PhaseOf(task) = "reviewed"
        /\ DecisionOf(task) =
              [coder |-> task.coder, test_runner |-> task.test_runner,
               reviewer |-> task.reviewer, publish_approval |-> NoActor,
               content |-> task.change_sha256.new]
    BY <2>1, ReviewedView
  <2>4. /\ PhaseOf(task') = "approved"
        /\ DecisionOf(task') =
              [coder |-> task.coder, test_runner |-> task.test_runner,
               reviewer |-> task.reviewer,
               publish_approval |-> task'.publish_approval,
               content |-> task.change_sha256.new]
    BY <2>1, ApprovedView DEF SameReview, Approved
  <2>5. DecisionOf(task') = [DecisionOf(task) EXCEPT
                               !.publish_approval = task'.publish_approval]
    BY <2>3, <2>4
  <2>6. Release!Approve
    BY <1>b, <2>1, <2>2, <2>3, <2>4, <2>5
    DEF Release!Approve, SameReview, Shown
  <2> QED
    BY <2>6 DEF Release!Next
<1>6. CASE IsPublished
  <2>1. PhaseOf(task) = "approved" /\ PhaseOf(task') = "published"
    BY <1>6 DEF IsPublished, PhaseOf
  <2>2. DecisionOf(task') = DecisionOf(task)
    BY <1>6, ApprovedView DEF IsPublished, SameReview, Approved
  <2>3. remote.branch.by # "nobody"
    BY <1>6, <1>d DEF IsPublished, BranchInv
  <2> QED
    BY <1>b, <2>1, <2>2, <2>3 DEF Release!Next, Release!Publish, Shown
<1>7. CASE IsMerged
  <2>1. PhaseOf(task) = "published" /\ PhaseOf(task') = "merged"
    BY <1>7 DEF IsMerged, PhaseOf
  <2>2. DecisionOf(task') = DecisionOf(task)
    BY <1>7, ApprovedView DEF IsMerged, SameReview, Approved
  <2>3. DecisionOf(task).content = task.change_sha256.new
    BY <1>7, ApprovedView DEF IsMerged, Approved
  <2>4. Shown(remote.branch) = [by |-> "controller",
                                tree |-> task.change_sha256.new]
    BY <1>7, <1>d DEF IsMerged, ContentInv, Shown
  <2> QED
    BY <1>b, <2>1, <2>2, <2>3, <2>4
    DEF Release!Next, Release!VerifyMerge, Shown
<1> QED
  BY <1>1, <1>2, <1>3, <1>4, <1>5, <1>6, <1>7 DEF Move
\* A step that leaves the record alone pushes the decided content, is a push of
\* somebody else, or does not show.
LEMMA BranchRefines ==
    ASSUME RefineInv, Next, UNCHANGED task
    PROVE  [Release!Next]_<<PhaseOf(task), DecisionOf(task),
                            Shown(remote.branch)>>
<1>d. TypeInv /\ ContentInv /\ BranchInv
  BY DEF RefineInv, ReleaseInv
<1>u. UNCHANGED <<PhaseOf(task), DecisionOf(task)>>
  OBVIOUS
<1>1. CASE Pushes
  <2>1. task.state = "publish_approved"
    BY <1>1, <1>d DEF Pushes, TypeInv, RunOK
  <2>2. ws.head = task.change_sha256.new
    BY <1>1, <1>d DEF Pushes, ContentInv
  <2>3. /\ PhaseOf(task) = "approved"
        /\ DecisionOf(task).content = task.change_sha256.new
    BY <2>1, ApprovedView DEF Approved
  <2>4. Shown(remote'.branch) = [by |-> "controller",
                                 tree |-> DecisionOf(task).content]
    BY <1>1, <2>2, <2>3 DEF Pushes, HeadCommit, Shown
  <2> QED
    BY <1>u, <2>3, <2>4 DEF Release!Next, Release!Push, Shown
<1>2. CASE OthersPush
  <2>1. remote.branch.by # "nobody" /\ task.state \in Approved
    BY <1>2, <1>d DEF OthersPush, BranchInv
  <2>2. task.state # "merged_verified"
    BY <1>2, <1>d DEF OthersPush, ContentInv
  <2>3. PhaseOf(task) \in {"approved", "published"}
    BY <2>1, <2>2 DEF PhaseOf, Approved
  <2> QED
    BY <1>2, <1>u, <2>1, <2>3
    DEF OthersPush, Release!Next, Release!OthersPush, Shown
<1>3. CASE LeavesBranch
  BY <1>3, <1>u DEF LeavesBranch, Shown
<1> QED
  BY <1>1, <1>2, <1>3, <1>d, BranchSteps

\* Every step of a task is a step of the abstract specification or none.
LEMMA StepRefines ==
    ASSUME RefineInv, RefineInv', [Next]_vars
    PROVE  [Release!Next]_<<PhaseOf(task), DecisionOf(task),
                            Shown(remote.branch)>>
<1>1. CASE UNCHANGED vars
  BY <1>1 DEF vars
<1>2. CASE Next /\ UNCHANGED task
  BY <1>2, BranchRefines
<1>3. CASE Move
  BY <1>3, MoveRefines
<1> QED
  BY <1>1, <1>2, <1>3, RecordMoves DEF RefineInv, ReleaseInv

\* The initial state maps to the initial state.
LEMMA InitRefines == Init => Release!Init
<1> SUFFICES ASSUME Init PROVE Release!Init
  OBVIOUS
<1>1. Early(task)
  BY DEF Init, NoTask, Early, Reviewed
<1>2. [by |-> remote.branch.by, tree |-> remote.branch.tree]
        = [by |-> "nobody", tree |-> Pristine]
  BY DEF Init, NoCommit
<1> QED
  BY <1>1, <1>2, EarlyView DEF Release!Init

\* DevelopmentTask implements ReleaseLifecycle: four people decide on a content
\* that stays the same from its review to its merge, through every repair,
\* crash and retry, if nobody edits the clone while an operation runs.
THEOREM TaskImplementsRelease ==
    ASSUME "running" \notin EditPhases
    PROVE  Spec => TaskIsRelease
<1>1. Init => RefineInv
  BY ReleaseInit, DutiesInit, BranchInit DEF RefineInv
<1>2. RefineInv /\ [Next]_vars => RefineInv'
  BY RefineNext
<1>3. RefineInv /\ RefineInv' /\ [Next]_vars => [Release!Next]_(Release!vars)
  BY StepRefines DEF Release!vars, Shown
<1> QED
  BY <1>1, <1>2, <1>3, InitRefines, PTL DEF Spec, TaskIsRelease, Release!Spec

\* No step takes back an approval, its content or its people, and nobody takes
\* over from the coder, edits by hand at any time included.
THEOREM ApprovalBinds == Spec => ApprovalIsBinding
<1> DEFINE Binding ==
       /\ task.coder # NoActor => task'.coder = task.coder
       /\ task.state \in Approved =>
             /\ task'.state \in Approved
             /\ task'.change_sha256 = task.change_sha256
             /\ task'.test_runner = task.test_runner
             /\ task'.reviewer = task.reviewer
             /\ task'.publish_approval = task.publish_approval
<1>1. Init => TypeInv /\ BranchInv
  BY TypeInit, BranchInit
<1>2. TypeInv /\ BranchInv /\ [Next]_vars => (TypeInv /\ BranchInv)'
  BY TypeNext, BranchNext
<1>3. ASSUME TypeInv, BranchInv, [Next]_vars
      PROVE  [Binding]_vars
  <2>1. CASE UNCHANGED vars
    BY <2>1
  <2>2. CASE Next /\ UNCHANGED task
    BY <2>2
  <2>3. CASE Move
    BY <2>3 DEF Move, Works, GivesUp, PassesReview, HandsOver, GetsApproval,
                IsPublished, IsMerged, Early, SameReview, Reviewed, Approved
  <2> QED
    BY <1>3, <2>1, <2>2, <2>3, RecordMoves
<1> QED
  BY <1>1, <1>2, <1>3, PTL DEF Spec, ApprovalIsBinding
=============================================================================
