---------------------- MODULE DevelopmentTaskLogProofs ----------------------
(***************************************************************************)
(* What the event log of a task can be trusted for.  Whatever dies between *)
(* a state and its event, a gate in the log has been passed, and the log   *)
(* and the counter keep the repairs within their budget.  While nothing    *)
(* fails, the log leads to the state of the task, in every evidence        *)
(* package as well.                                                        *)
(***************************************************************************)
EXTENDS DevelopmentTaskRefinement, FiniteSetTheorems

\* What an event in the log says about a task in state s.
GateHolds(e, s) ==
    /\ e.to = "publish_approved" => s \in Approved
    /\ e.to = "published" => s \in {"published", "merged_verified"}
    /\ e.to \in {"merged_verified", "cancelled"} => s = e.to

\* The recorded change sets, and the one whose event is still to be written.
Repairs == {i \in DOMAIN log : log[i].to = "changes_applied"}
Pending == run.pc = "append" /\ run.event.to = "changes_applied"

LogInv ==
    /\ task.state \in {"absent", "directory"} =>
          log = <<>> /\ run.pc \in {"idle", "create"}
    /\ \A i \in DOMAIN log : GateHolds(log[i], task.state)
    /\ run.pc = "append" => GateHolds(run.event, task.state)
    /\ task.repair_attempts <= MaxRepairAttempts
    /\ Cardinality(Repairs) <= task.repair_attempts
    /\ Pending => Cardinality(Repairs) + 1 <= task.repair_attempts

-----------------------------------------------------------------------------
(* What a step does to the log, the counter and the pending event          *)

\* A change set: counted, and its event is due.
RecordsRepair ==
    /\ run.pc = "idle"
    /\ task.state \in TASK_STATES
    /\ log' = log
    /\ task.repair_attempts < MaxRepairAttempts
    /\ task'.repair_attempts = task.repair_attempts + 1
    /\ task'.state = "changes_applied"
    /\ run'.event.to = "changes_applied"

\* Any other step but AppendEvent; the event that is due names the new state.
RecordsOther ==
    /\ log' = log
    /\ \/ task'.repair_attempts = task.repair_attempts
       \/ task.state = "directory" /\ task'.repair_attempts = 0
    /\ \/ UNCHANGED <<task, run>>
       \/ run'.pc # "append"
       \/ run'.event.to \in {"none", "created", task'.state}
                               \ {"changes_applied"}

\* The event of a transition names the state it leads to.
LEMMA TransitEvent ==
    ASSUME NEW from, NEW to, NEW updated \in Tasks, NEW next,
           TransitionFrom(from, to, updated, next)
    PROVE  /\ task'.state = to
           /\ task'.repair_attempts = updated.repair_attempts
           /\ run'.pc = "append"
           /\ run'.event.to = to
BY DEF TransitionFrom, Tasks, Appending, Moved, Event

\* A transition that does not record a change set.
LEMMA TransitOther ==
    ASSUME NEW from, NEW to, NEW updated \in Tasks, NEW next,
           TransitionFrom(from, to, updated, next), to # "changes_applied",
           updated.repair_attempts = task.repair_attempts, log' = log
    PROVE  RecordsOther
BY TransitEvent DEF RecordsOther

\* Every step appends the event that is due, records a change set, or does
\* neither.
LEMMA LogSteps ==
    ASSUME TypeInv, Next
    PROVE  AppendEvent \/ RecordsRepair \/ RecordsOther
<1>t. task \in Tasks /\ RunOK
  BY DEF TypeInv, TypeOK
<1>1. CASE Start
  <2>1. run'.pc = "create" /\ log' = log
    BY <1>1 DEF Start, At, Idle
  <2>2. task'.repair_attempts = task.repair_attempts
    BY <1>1, <1>t DEF Start, Tasks
  <2> QED
    BY <2>1, <2>2 DEF RecordsOther
<1>2. CASE WriteState
  <2>1. run'.event.to = "created" /\ log' = log
    BY <1>2 DEF WriteState, Appending, Event
  <2>2. task.state = "directory" /\ task'.repair_attempts = 0
    BY <1>2, <1>t DEF WriteState, NoTask, RunOK
  <2> QED
    BY <2>1, <2>2 DEF RecordsOther
<1>3. CASE Plan
  <2>1. TransitionFrom(task.state, "planned", task, "idle") /\ log' = log
    BY <1>3 DEF Plan, Transition
  <2> QED
    BY <1>t, <2>1, TransitOther
<1>4. CASE Cancel
  <2>1. TransitionFrom(task.state, "cancelled", task, "idle") /\ log' = log
    BY <1>4 DEF Cancel, Transition
  <2> QED
    BY <1>t, <2>1, TransitOther
<1>5. CASE Prepare
  <2> DEFINE cloned == [task EXCEPT !.source_sha = remote.base]
  <2>1. cloned \in Tasks /\ cloned.repair_attempts = task.repair_attempts
    BY <1>t DEF Tasks, TypeInv, TypeOK
  <2>2. /\ TransitionFrom(task.state, "workspace_ready", cloned, "idle")
        /\ log' = log
    BY <1>5 DEF Prepare, Transition
  <2> HIDE DEF cloned
  <2> QED
    BY <2>1, <2>2, TransitOther
<1>6. ASSUME NEW a \in Actors, NEW t \in Trees, ApplyChanges(a, t)
      PROVE  RecordsRepair
  <2>1. /\ run.pc = "idle"
        /\ task.state \in TASK_STATES
        /\ log' = log
        /\ task.repair_attempts < MaxRepairAttempts
    BY <1>6 DEF ApplyChanges, CanApply, Loaded
  <2>2. Applied(a) \in Tasks
        /\ Applied(a).repair_attempts = task.repair_attempts + 1
    <3> DEFINE n == task.repair_attempts + 1
    <3>1. n \in Nat
      BY <1>t DEF Tasks
    <3>2. /\ [task EXCEPT !.coder = a, !.repair_attempts = n] \in Tasks
          /\ [task EXCEPT !.coder = a,
                          !.repair_attempts = n].repair_attempts = n
      <4> HIDE DEF n
      <4> QED
        BY <1>t, <3>1 DEF Tasks
    <3> QED
      BY <3>2 DEF Applied
  <2>3. PICK from : TransitionFrom(from, "changes_applied", Applied(a), "idle")
    BY <1>6 DEF ApplyChanges
  <2>4. /\ task'.state = "changes_applied"
        /\ task'.repair_attempts = task.repair_attempts + 1
        /\ run'.event.to = "changes_applied"
    BY <2>2, <2>3, TransitEvent
  <2> QED
    BY <2>1, <2>4 DEF RecordsRepair
<1>7. ASSUME NEW a \in Actors,
             RepairBudgetExhausted(a) \/ NoTestContract(a)
      PROVE  RecordsOther
  <2>1. TransitionFrom(task.state, "manual_review", task, "idle") /\ log' = log
    BY <1>7 DEF RepairBudgetExhausted, NoTestContract, Transition
  <2> QED
    BY <1>t, <2>1, TransitOther
<1>8. ASSUME NEW a \in Actors, Test(a)
      PROVE  RecordsOther
  <2>1. PICK result \in {"passed", "failed"} :
           Transition(IF result = "passed" THEN "tests_passed"
                                           ELSE "tests_failed",
                      [task EXCEPT !.test_runner = a, !.test_results = result],
                      "idle")
    BY <1>8 DEF Test
  <2> DEFINE tested == [task EXCEPT !.test_runner = a,
                                    !.test_results = result]
  <2>2. tested \in Tasks /\ tested.repair_attempts = task.repair_attempts
    BY <1>t DEF Tasks
  <2>3. log' = log
    BY <1>8 DEF Test
  <2>4. \/ TransitionFrom(task.state, "tests_passed", tested, "idle")
        \/ TransitionFrom(task.state, "tests_failed", tested, "idle")
    BY <2>1 DEF Transition
  <2> HIDE DEF tested
  <2> QED
    BY <2>2, <2>3, <2>4, TransitOther
<1>9. ASSUME NEW a \in Actors, NEW verified \in BOOLEAN, Review(a, verified)
      PROVE  RecordsOther
  <2> DEFINE reviewed == [task EXCEPT !.reviewer = a,
                                      !.change_sha256 = ChangeDiff(ws)]
  <2>1. ws \in Workspaces
    BY DEF TypeInv, TypeOK
  <2>2. reviewed \in Tasks /\ reviewed.repair_attempts = task.repair_attempts
    BY <1>t, <2>1, DiffType DEF Tasks
  <2>3. log' = log
    BY <1>9 DEF Review
  <2>4. \/ TransitionFrom(task.state, "review_failed", reviewed, "idle")
        \/ TransitionFrom(task.state, "review_passed", reviewed, "handover")
    BY <1>9 DEF Review, Transition
  <2> HIDE DEF reviewed
  <2> QED
    BY <2>2, <2>3, <2>4, TransitOther
<1>10. CASE Handover
  <2>1. /\ TransitionFrom(task.state, "awaiting_publish_approval", task, "idle")
        /\ log' = log
    BY <1>10 DEF Handover, Transition
  <2> QED
    BY <1>t, <2>1, TransitOther
<1>11. ASSUME NEW a \in Actors, ApprovePublish(a)
       PROVE  RecordsOther
  <2> DEFINE approved == [task EXCEPT !.publish_approval = a]
  <2>1. approved \in Tasks /\ approved.repair_attempts = task.repair_attempts
    BY <1>t DEF Tasks
  <2>2. /\ TransitionFrom(task.state, "publish_approved", approved, "idle")
        /\ log' = log
    BY <1>11 DEF ApprovePublish, Transition
  <2> HIDE DEF approved
  <2> QED
    BY <2>1, <2>2, TransitOther
<1>12. CASE RecordPullRequest
  <2> DEFINE published == [task EXCEPT !.pull_request = HeadCommit]
  <2>1. HeadCommit \in Commits
    BY DEF HeadCommit, Commits, TypeInv, TypeOK, Workspaces
  <2>2. published \in Tasks /\ published.repair_attempts = task.repair_attempts
    BY <1>t, <2>1 DEF Tasks
  <2>3. /\ TransitionFrom(task.state, "published", published, "package")
        /\ log' = log
    BY <1>12 DEF RecordPullRequest, Transition
  <2> HIDE DEF published
  <2> QED
    BY <2>2, <2>3, TransitOther
<1>13. CASE VerifyMerge
  <2>1. /\ TransitionFrom(task.state, "merged_verified", task, "package")
        /\ log' = log
    BY <1>13 DEF VerifyMerge, Transition
  <2> QED
    BY <1>t, <2>1, TransitOther
<1>14. CASE PrepareRefused \/ CloneFails \/ PrepareInterrupted \/ BaseMoves
         \/ PullRequestMerges \/ ChecksReport
  BY <1>14 DEF PrepareRefused, CloneFails, PrepareInterrupted, BaseMoves,
               PullRequestMerges, ChecksReport, RecordsOther
<1>15. CASE Publish \/ CheckBase \/ Stage \/ Commit \/ Push \/ OpenPullRequest
         \/ BuildEvidence \/ Abort
  <2>1. run'.pc # "append" /\ UNCHANGED <<task, log>>
    BY <1>15 DEF Publish, CheckBase, Stage, Commit, Push, OpenPullRequest,
                 BuildEvidence, Abort, PublishStep, At, Idle
  <2> QED
    BY <2>1 DEF RecordsOther
<1>16. CASE Package
  BY <1>16 DEF Package, Appending, Event, RecordsOther
<1>17. ASSUME NEW t \in Trees, EditWorkspace(t) \/ BranchMoves(t)
       PROVE  RecordsOther
  BY <1>17 DEF EditWorkspace, BranchMoves, RecordsOther
<1>18. ASSUME NEW a \in Actors, NEW t \in Trees, ApplyStops(a, t)
       PROVE  RecordsOther
  BY <1>18 DEF ApplyStops, RecordsOther
<1> QED
  BY <1>1, <1>2, <1>3, <1>4, <1>5, <1>6, <1>7, <1>8, <1>9, <1>10, <1>11,
    <1>12, <1>13, <1>14, <1>15, <1>16, <1>17, <1>18
  DEF Next, Operation, Continue, Environment

-----------------------------------------------------------------------------
(* The invariant                                                           *)

\* Before its state is written a task has no operation but its creation.
LEMMA EarlyRuns ==
    ASSUME TypeInv, Next, task'.state \in {"absent", "directory"}
    PROVE  run'.pc \in {"idle", "create"}
<1>1. RunOK'
  BY TypeNext DEF TypeInv
<1> QED
  BY <1>1 DEF RunOK, TASK_STATES

\* A gate that holds of a task keeps holding along every move of the record.
LEMMA GatesKept ==
    ASSUME NEW e, GateHolds(e, task.state), Move
    PROVE  GateHolds(e, task'.state)
BY DEF GateHolds, Move, Works, GivesUp, PassesReview, HandsOver, GetsApproval,
       IsPublished, IsMerged, Early, SameReview, Reviewed, Approved

\* The repairs in the log are finitely many.
LEMMA RepairsFinite ==
    ASSUME TypeInv
    PROVE  IsFiniteSet(Repairs) /\ Cardinality(Repairs) \in Nat
<1>1. DOMAIN log = 1..Len(log) /\ Len(log) \in Nat
  BY DEF TypeInv, TypeOK
<1>2. IsFiniteSet(1..Len(log))
  BY <1>1, FS_Interval
<1>3. IsFiniteSet(Repairs)
  BY <1>1, <1>2, FS_Subset DEF Repairs
<1> QED
  BY <1>3, FS_CardinalityType

\* Appending an event adds at most one repair: its own.
LEMMA RepairsAppended ==
    ASSUME TypeInv, AppendEvent
    PROVE  Repairs' = IF run.event.to = "changes_applied"
                      THEN Repairs \cup {Len(log) + 1} ELSE Repairs
<1>1. /\ log \in Seq(Events) /\ run.event \in Events
      /\ log' = Append(log, run.event)
  BY DEF TypeInv, TypeOK, AppendEvent
<1>2. /\ DOMAIN log = 1..Len(log) /\ Len(log) \in Nat
      /\ DOMAIN log' = 1..(Len(log) + 1)
      /\ \A i \in 1..Len(log) : log'[i] = log[i]
      /\ log'[Len(log) + 1] = run.event
  BY <1>1
<1>3. 1..(Len(log) + 1) = 1..Len(log) \cup {Len(log) + 1}
  BY <1>2
<1> QED
  BY <1>2, <1>3 DEF Repairs

\* The log is empty at the start.
LEMMA LogInit == Init => LogInv
<1> SUFFICES ASSUME Init PROVE LogInv
  OBVIOUS
<1>1. /\ log = <<>> /\ DOMAIN log = {}
      /\ task.repair_attempts = 0
      /\ run.pc = "idle"
  BY DEF Init, NoTask, Idle
<1>2. Repairs = {} /\ Cardinality(Repairs) = 0
  BY <1>1, FS_EmptySet DEF Repairs
<1> QED
  BY <1>1, <1>2, PolicyAssumption DEF LogInv, Pending

\* Every step keeps the log in step with the gates and the counter.
LEMMA LogNext ==
    TypeInv /\ BranchInv /\ LogInv /\ [Next]_vars => LogInv'
<1> SUFFICES ASSUME TypeInv, BranchInv, LogInv, [Next]_vars PROVE LogInv'
  OBVIOUS
<1>t. /\ task \in Tasks /\ log \in Seq(Events) /\ run.event \in Events
      /\ task.repair_attempts \in Nat
      /\ task'.repair_attempts \in Nat
      /\ Cardinality(Repairs) \in Nat
  BY TypeNext, RepairsFinite DEF TypeInv, TypeOK, Tasks
<1>1. CASE UNCHANGED vars
  BY <1>1 DEF vars, LogInv, Pending, Repairs
<1>2. CASE AppendEvent
  <2>1. /\ run.pc = "append" /\ UNCHANGED task
        /\ log' = Append(log, run.event)
        /\ run'.pc # "append"
    BY <1>2 DEF AppendEvent, At, Idle, TypeInv, TypeOK
  <2>2. task.state \notin {"absent", "directory"}
    BY <2>1 DEF LogInv
  <2>3. /\ DOMAIN log' = DOMAIN log \cup {Len(log) + 1}
        /\ \A i \in DOMAIN log : log'[i] = log[i]
        /\ log'[Len(log) + 1] = run.event
    BY <1>t, <2>1
  <2>4. \A i \in DOMAIN log' : GateHolds(log'[i], task.state)
    BY <2>1, <2>3 DEF LogInv
  <2>5. Cardinality(Repairs') <= task.repair_attempts
    <3>1. CASE run.event.to = "changes_applied"
      <4>1. Repairs' = Repairs \cup {Len(log) + 1}
        BY <1>2, <3>1, RepairsAppended
      <4>2. Len(log) + 1 \notin Repairs
        BY <1>t DEF Repairs
      <4>3. Cardinality(Repairs') = Cardinality(Repairs) + 1
        BY <4>1, <4>2, RepairsFinite, FS_AddElement
      <4> QED
        BY <2>1, <3>1, <4>3 DEF LogInv, Pending
    <3>2. CASE run.event.to # "changes_applied"
      BY <1>2, <3>2, RepairsAppended DEF LogInv
    <3> QED
      BY <3>1, <3>2
  <2> QED
    BY <2>1, <2>2, <2>4, <2>5 DEF LogInv, Pending
<1>3. CASE RecordsRepair
  <2>1. /\ Repairs' = Repairs /\ log' = log
        /\ task'.repair_attempts = task.repair_attempts + 1
        /\ task'.repair_attempts <= MaxRepairAttempts
        /\ task'.state = "changes_applied"
        /\ GateHolds(run'.event, task'.state)
    BY <1>t, <1>3, PolicyAssumption DEF RecordsRepair, Repairs, GateHolds
  <2>2. Move
    <3>1. task' # task
      BY <1>t, <2>1
    <3> QED
      BY <1>1, <3>1, RecordMoves DEF vars
  <2>3. \A i \in DOMAIN log : GateHolds(log[i], task'.state)
    BY <2>2, GatesKept DEF LogInv
  <2> QED
    BY <1>t, <2>1, <2>3 DEF LogInv, Pending
<1>4. CASE Next /\ RecordsOther
  <2>1. log' = log /\ Repairs' = Repairs
    BY <1>4 DEF RecordsOther, Repairs
  <2>2. \A i \in DOMAIN log : GateHolds(log[i], task'.state)
    BY <1>4, RecordMoves, GatesKept DEF LogInv
  <2>3. run'.pc = "append" => GateHolds(run'.event, task'.state)
    BY <1>4 DEF RecordsOther, LogInv, GateHolds, Approved
  <2>4. task.state = "directory" => Repairs = {} /\ Cardinality(Repairs) = 0
    BY FS_EmptySet DEF LogInv, Repairs
  <2>5. /\ task'.repair_attempts <= MaxRepairAttempts
        /\ Cardinality(Repairs) <= task'.repair_attempts
    BY <1>4, <1>t, <2>4, PolicyAssumption DEF RecordsOther, LogInv
  <2>6. Pending' => UNCHANGED <<task, run>>
    BY <1>4 DEF RecordsOther, Pending
  <2>7. Pending' => Cardinality(Repairs) + 1 <= task'.repair_attempts
    BY <2>6 DEF LogInv, Pending
  <2>8. task'.state \in {"absent", "directory"} =>
           log = <<>> /\ run'.pc \in {"idle", "create"}
    <3> SUFFICES ASSUME task'.state \in {"absent", "directory"}
                 PROVE  log = <<>> /\ run'.pc \in {"idle", "create"}
      OBVIOUS
    <3>1. run'.pc \in {"idle", "create"}
      BY <1>4, EarlyRuns
    <3>2. Move => task.state = "absent"
      BY DEF Move, Works, GivesUp, PassesReview, HandsOver, GetsApproval,
        IsPublished, IsMerged, Approved
    <3>3. task.state \in {"absent", "directory"}
      BY <1>4, <3>2, RecordMoves
    <3> QED
      BY <3>1, <3>3 DEF LogInv
  <2> QED
    BY <2>1, <2>2, <2>3, <2>5, <2>7, <2>8 DEF LogInv
<1> QED
  BY <1>1, <1>2, <1>3, <1>4, LogSteps

-----------------------------------------------------------------------------
(* The theorems                                                            *)

\* No sequence of calls, crashes and resumptions records more change sets than
\* the budget allows, in the counter or in the log, whatever the budget is.
THEOREM RepairsStayInBudget == Spec => []RepairBudget
<1>1. LogInv => RepairBudget
  BY DEF LogInv, RepairBudget, Repairs
<1> QED
  BY <1>1, TypeInit, TypeNext, BranchInit, BranchNext, LogInit, LogNext, PTL
  DEF Spec

\* Wherever a process dies between a state and its event, the log never shows
\* an approval, a publication, a merge or a cancellation the task has not made.
THEOREM LoggedGatesAreKept == Spec => []LoggedGatesHold
<1>1. LogInv => LoggedGatesHold
  BY DEF LogInv, LoggedGatesHold, GateHolds
<1> QED
  BY <1>1, TypeInit, TypeNext, BranchInit, BranchNext, LogInit, LogNext, PTL
  DEF Spec

-----------------------------------------------------------------------------
(* The evidence                                                            *)

\* The last of the first n events that names a state names s.
Leads(n, s) ==
    \E i \in 1..n : log[i].to = s /\ \A j \in (i + 1)..n : log[j].to = "none"

\* The log leads to s once event e is appended.
Foreseen(e, s) == e.to = s \/ (e.to = "none" /\ Leads(Len(log), s))

AgreeInv ==
    faults = 0 =>
        /\ task.state \in TASK_STATES =>
              IF run.pc = "append" THEN Foreseen(run.event, task.state)
                                   ELSE Leads(Len(log), task.state)
        /\ \A p \in packages :
              p.events \in 1..Len(log) /\ Leads(p.events, p.state)

\* A new state, whose event is due.
Announces ==
    /\ UNCHANGED <<log, packages>>
    /\ run'.pc = "append"
    /\ run'.event.to = task'.state

\* The operation goes on, or an event of a task that stays as it is waits on.
Proceeds ==
    /\ UNCHANGED <<log, packages, faults>>
    /\ \/ UNCHANGED <<task, run>>
       \/ UNCHANGED task /\ run.pc # "append" /\ run'.pc # "append"
       \/ task'.state \notin TASK_STATES

\* Every step appends the event that is due, packages, fails, announces a new
\* state or leaves the state and the log alone.
LEMMA EvidenceSteps ==
    ASSUME TypeInv, Next
    PROVE  \/ AppendEvent \/ Package
           \/ faults' = faults + 1
           \/ Announces /\ faults' = faults
           \/ Proceeds
<1>t. /\ task \in Tasks /\ ws \in Workspaces /\ RunOK
  BY DEF TypeInv, TypeOK
\* A transition announces its state.
<1>m. ASSUME NEW from, NEW to, NEW updated \in Tasks, NEW next,
             TransitionFrom(from, to, updated, next),
             UNCHANGED <<log, packages>>
      PROVE  Announces
  BY <1>m, TransitEvent DEF Announces
<1>1. CASE Start
  BY <1>1, <1>t DEF Start, Tasks, TASK_STATES, Proceeds
<1>2. CASE WriteState
  BY <1>2 DEF WriteState, NoTask, Appending, Event, Announces
<1>3. CASE Plan \/ Cancel \/ Handover \/ VerifyMerge
  <2>1. \E to, next : TransitionFrom(task.state, to, task, next)
    BY <1>3 DEF Plan, Cancel, Handover, VerifyMerge, Transition
  <2>2. UNCHANGED <<log, packages, faults>>
    BY <1>3 DEF Plan, Cancel, Handover, VerifyMerge
  <2> QED
    BY <1>t, <1>m, <2>1, <2>2
<1>5. CASE Prepare
  <2> DEFINE cloned == [task EXCEPT !.source_sha = remote.base]
  <2>1. cloned \in Tasks
    BY <1>t DEF Tasks, TypeInv, TypeOK
  <2>2. /\ TransitionFrom(task.state, "workspace_ready", cloned, "idle")
        /\ UNCHANGED <<log, packages, faults>>
    BY <1>5 DEF Prepare, Transition
  <2> HIDE DEF cloned
  <2> QED
    BY <1>m, <2>1, <2>2
<1>6. ASSUME NEW a \in Actors, NEW t \in Trees, ApplyChanges(a, t)
      PROVE  Announces /\ faults' = faults
  <2>1. Applied(a) \in Tasks
    <3> DEFINE n == task.repair_attempts + 1
    <3>1. n \in Nat
      BY <1>t DEF Tasks
    <3>2. [task EXCEPT !.coder = a, !.repair_attempts = n] \in Tasks
      <4> HIDE DEF n
      <4> QED
        BY <1>t, <3>1 DEF Tasks
    <3> QED
      BY <3>2 DEF Applied
  <2>2. PICK from : TransitionFrom(from, "changes_applied", Applied(a), "idle")
    BY <1>6 DEF ApplyChanges
  <2>3. UNCHANGED <<log, packages, faults>>
    BY <1>6 DEF ApplyChanges
  <2> QED
    BY <1>m, <2>1, <2>2, <2>3
<1>7. ASSUME NEW a \in Actors,
             RepairBudgetExhausted(a) \/ NoTestContract(a)
      PROVE  Announces /\ faults' = faults
  <2>1. /\ TransitionFrom(task.state, "manual_review", task, "idle")
        /\ UNCHANGED <<log, packages, faults>>
    BY <1>7 DEF RepairBudgetExhausted, NoTestContract, Transition
  <2> QED
    BY <1>t, <1>m, <2>1
<1>8. ASSUME NEW a \in Actors, Test(a)
      PROVE  Announces /\ faults' = faults
  <2>1. PICK result \in {"passed", "failed"} :
           Transition(IF result = "passed" THEN "tests_passed"
                                           ELSE "tests_failed",
                      [task EXCEPT !.test_runner = a, !.test_results = result],
                      "idle")
    BY <1>8 DEF Test
  <2> DEFINE tested == [task EXCEPT !.test_runner = a,
                                    !.test_results = result]
  <2>2. tested \in Tasks
    BY <1>t DEF Tasks
  <2>3. UNCHANGED <<log, packages, faults>>
    BY <1>8 DEF Test
  <2>4. \/ TransitionFrom(task.state, "tests_passed", tested, "idle")
        \/ TransitionFrom(task.state, "tests_failed", tested, "idle")
    BY <2>1 DEF Transition
  <2> HIDE DEF tested
  <2> QED
    BY <1>m, <2>2, <2>3, <2>4
<1>9. ASSUME NEW a \in Actors, NEW verified \in BOOLEAN, Review(a, verified)
      PROVE  Announces /\ faults' = faults
  <2> DEFINE reviewed == [task EXCEPT !.reviewer = a,
                                      !.change_sha256 = ChangeDiff(ws)]
  <2>1. reviewed \in Tasks
    BY <1>t, DiffType DEF Tasks
  <2>2. UNCHANGED <<log, packages, faults>>
    BY <1>9 DEF Review
  <2>3. \/ TransitionFrom(task.state, "review_failed", reviewed, "idle")
        \/ TransitionFrom(task.state, "review_passed", reviewed, "handover")
    BY <1>9 DEF Review, Transition
  <2> HIDE DEF reviewed
  <2> QED
    BY <1>m, <2>1, <2>2, <2>3
<1>10. ASSUME NEW a \in Actors, ApprovePublish(a)
       PROVE  Announces /\ faults' = faults
  <2> DEFINE approved == [task EXCEPT !.publish_approval = a]
  <2>1. approved \in Tasks
    BY <1>t DEF Tasks
  <2>2. /\ TransitionFrom(task.state, "publish_approved", approved, "idle")
        /\ UNCHANGED <<log, packages, faults>>
    BY <1>10 DEF ApprovePublish, Transition
  <2> HIDE DEF approved
  <2> QED
    BY <1>m, <2>1, <2>2
<1>11. CASE RecordPullRequest
  <2> DEFINE published == [task EXCEPT !.pull_request = HeadCommit]
  <2>1. HeadCommit \in Commits
    BY DEF HeadCommit, Commits, TypeInv, TypeOK, Workspaces
  <2>2. published \in Tasks
    BY <1>t, <2>1 DEF Tasks
  <2>3. /\ TransitionFrom(task.state, "published", published, "package")
        /\ UNCHANGED <<log, packages, faults>>
    BY <1>11 DEF RecordPullRequest, Transition
  <2> HIDE DEF published
  <2> QED
    BY <1>m, <2>2, <2>3
<1>12. CASE Publish \/ BuildEvidence
  BY <1>12 DEF Publish, BuildEvidence, Loaded, At, Idle, Proceeds
<1>13. CASE CheckBase \/ Stage \/ Commit \/ Push \/ OpenPullRequest
  <2>1. run.pc # "append" /\ run'.pc # "append"
    BY <1>13 DEF CheckBase, Stage, Commit, Push, OpenPullRequest, PublishStep,
                 At, Idle
  <2> QED
    BY <1>13, <2>1 DEF CheckBase, Stage, Commit, Push, OpenPullRequest,
                       Proceeds
<1>14. CASE PrepareRefused \/ CloneFails \/ BaseMoves \/ PullRequestMerges
         \/ ChecksReport
  BY <1>14 DEF PrepareRefused, CloneFails, BaseMoves, PullRequestMerges,
               ChecksReport, Proceeds
<1>15. ASSUME NEW t \in Trees, EditWorkspace(t) \/ BranchMoves(t)
       PROVE  Proceeds
  BY <1>15 DEF EditWorkspace, BranchMoves, Proceeds
<1>16. ASSUME NEW a \in Actors, NEW t \in Trees, ApplyStops(a, t)
       PROVE  Proceeds
  BY <1>16 DEF ApplyStops, Proceeds
<1>17. CASE PrepareInterrupted \/ Abort
  BY <1>17 DEF PrepareInterrupted, Abort
<1> QED
  BY <1>1, <1>2, <1>3, <1>5, <1>6, <1>7, <1>8, <1>9, <1>10, <1>11, <1>12,
     <1>13, <1>14, <1>15, <1>16, <1>17
  DEF Next, Operation, Continue, Environment, WriteState

\* What the log leads to is the state it shows.
LEMMA LedState ==
    ASSUME log \in Seq(Events), NEW n \in 0..Len(log), NEW s, s # "none",
           Leads(n, s)
    PROVE  LoggedState(n) = s
<1> DEFINE moves == {i \in 1..n : log[i].to # "none"}
           Last(i) == \A j \in moves : j <= i
<1>1. PICK i \in 1..n :
         log[i].to = s /\ \A j \in (i + 1)..n : log[j].to = "none"
  BY DEF Leads
<1>2. i \in moves /\ Last(i)
  <2>1. i \in moves
    BY <1>1
  <2>2. ASSUME NEW j \in moves, ~(j <= i) PROVE FALSE
    BY <1>1, <2>2
  <2> QED
    BY <2>1, <2>2
<1>3. \A k \in moves : Last(k) => k = i
  BY <1>2
<1>4. (CHOOSE k \in moves : Last(k)) = i
  BY <1>2, <1>3
<1> QED
  BY <1>1, <1>2, <1>4 DEF LoggedState

\* An event that is appended leaves what came before it alone, and the log
\* leads where it was foreseen to.
LEMMA Appended ==
    ASSUME log \in Seq(Events), NEW e \in Events, log' = Append(log, e)
    PROVE  /\ Len(log') = Len(log) + 1
           /\ \A n \in 1..Len(log) : \A s : Leads(n, s) => Leads(n, s)'
           /\ \A s : Foreseen(e, s) => Leads(Len(log), s)'
<1>1. /\ Len(log) \in Nat /\ Len(log') = Len(log) + 1
      /\ \A i \in 1..Len(log) : log'[i] = log[i]
      /\ log'[Len(log) + 1] = e
  OBVIOUS
<1>2. ASSUME NEW n \in 1..Len(log), NEW s, Leads(n, s) PROVE Leads(n, s)'
  <2>1. PICK i \in 1..n :
           log[i].to = s /\ \A j \in (i + 1)..n : log[j].to = "none"
    BY <1>2 DEF Leads
  <2>2. log'[i].to = s /\ \A j \in (i + 1)..n : log'[j].to = "none"
    BY <1>1, <2>1
  <2> QED
    BY <2>2 DEF Leads
<1>3. ASSUME NEW s, Foreseen(e, s) PROVE Leads(Len(log), s)'
  <2>1. CASE e.to = s
    BY <1>1, <2>1 DEF Leads
  <2>2. CASE e.to = "none" /\ Leads(Len(log), s)
    <3>1. PICK i \in 1..Len(log) :
             /\ log[i].to = s
             /\ \A j \in (i + 1)..Len(log) : log[j].to = "none"
      BY <2>2 DEF Leads
    <3>2. i \in 1..Len(log') /\ log'[i].to = s
      BY <1>1, <3>1
    <3>3. ASSUME NEW j \in (i + 1)..Len(log') PROVE log'[j].to = "none"
      <4>1. j \in (i + 1)..Len(log) \/ j = Len(log) + 1
        BY <1>1
      <4> QED
        BY <1>1, <2>2, <3>1, <4>1
    <3> QED
      BY <3>2, <3>3 DEF Leads
  <2> QED
    BY <1>3, <2>1, <2>2 DEF Foreseen
<1> QED
  BY <1>1, <1>2, <1>3

\* Before the first event there is nothing to agree.
LEMMA AgreeInit == Init => AgreeInv
BY DEF Init, NoTask, AgreeInv, TASK_STATES

\* Every step that does not fail keeps the log and the packages in agreement
\* with the states they belong to.
LEMMA AgreeNext == TypeInv /\ AgreeInv /\ [Next]_vars => AgreeInv'
<1> SUFFICES ASSUME TypeInv, AgreeInv, [Next]_vars, faults' = 0
             PROVE  AgreeInv'
  BY DEF AgreeInv
<1>t. /\ log \in Seq(Events) /\ run.event \in Events /\ RunOK
      /\ faults \in Nat /\ Len(log) \in Nat
  BY DEF TypeInv, TypeOK
<1>1. CASE UNCHANGED vars
  BY <1>1 DEF vars, AgreeInv, Foreseen, Leads
<1>2. CASE AppendEvent
  <2>1. /\ log' = Append(log, run.event) /\ run.pc = "append"
        /\ run'.pc # "append" /\ UNCHANGED <<task, packages, faults>>
    BY <1>2 DEF AppendEvent, At, Idle, TypeInv, TypeOK
  <2>2. /\ Len(log') = Len(log) + 1
        /\ \A n \in 1..Len(log) : \A s : Leads(n, s) => Leads(n, s)'
        /\ \A s : Foreseen(run.event, s) => Leads(Len(log), s)'
    BY <1>t, <2>1, Appended
  <2>3. task'.state \in TASK_STATES => Leads(Len(log), task.state)'
    BY <2>1, <2>2 DEF AgreeInv
  <2>4. \A p \in packages' :
           p.events \in 1..Len(log') /\ Leads(p.events, p.state)'
    BY <1>t, <2>1, <2>2 DEF AgreeInv
  <2> QED
    BY <2>1, <2>3, <2>4 DEF AgreeInv
<1>3. CASE Package
  <2>1. /\ run.pc = "package" /\ run'.pc = "append"
        /\ run'.event.to = "none"
        /\ packages' = packages \cup
                         {[state |-> task.state, events |-> Len(log)]}
        /\ UNCHANGED <<task, log, faults>>
    BY <1>3 DEF Package, Appending, Event
  <2>2. task.state \in TASK_STATES /\ Leads(Len(log), task.state)
    BY <1>t, <2>1 DEF RunOK, AgreeInv
  <2>3. Len(log) \in 1..Len(log)
    BY <1>t, <2>2 DEF Leads
  <2>4. \A n, s : Leads(n, s) => Leads(n, s)'
    BY <2>1 DEF Leads
  <2>5. Foreseen(run.event, task.state)'
    BY <2>1, <2>2, <2>4 DEF Foreseen
  <2>6. \A p \in packages' :
           p.events \in 1..Len(log') /\ Leads(p.events, p.state)'
    BY <2>1, <2>2, <2>3, <2>4 DEF AgreeInv
  <2> QED
    BY <2>1, <2>5, <2>6 DEF AgreeInv
<1>4. CASE Announces /\ faults' = faults
  BY <1>4 DEF Announces, AgreeInv, Foreseen, Leads
<1>5. CASE Proceeds
  BY <1>5 DEF Proceeds, AgreeInv, Foreseen, Leads
<1>6. CASE faults' = faults + 1
  BY <1>t, <1>6
<1> QED
  BY <1>1, <1>2, <1>3, <1>4, <1>5, <1>6, EvidenceSteps

\* As long as nothing fails, the event log of a task leads to its state after
\* every operation, and every evidence package ever made, whatever was published
\* or packaged again since, holds a state and the events that lead to it.
THEOREM EvidenceIsConsistent == Spec => []EvidenceAgrees
<1>1. TypeInv /\ AgreeInv => EvidenceAgrees
  <2> SUFFICES ASSUME TypeInv, AgreeInv, faults = 0
               PROVE  /\ run.pc = "idle" /\ task.state \in TASK_STATES =>
                            LoggedState(Len(log)) = task.state
                      /\ \A p \in packages : LoggedState(p.events) = p.state
    BY DEF EvidenceAgrees
  <2>t. /\ log \in Seq(Events) /\ Len(log) \in Nat
        /\ \A p \in packages : p.state \in TASK_STATES
    BY DEF TypeInv, TypeOK
  <2>n. "none" \notin TASK_STATES
    BY DEF TASK_STATES
  <2>1. run.pc = "idle" /\ task.state \in TASK_STATES =>
           LoggedState(Len(log)) = task.state
    BY <2>t, <2>n, LedState DEF AgreeInv
  <2>2. ASSUME NEW p \in packages PROVE LoggedState(p.events) = p.state
    <3>1. p.events \in 0..Len(log) /\ Leads(p.events, p.state)
      BY <2>t DEF AgreeInv
    <3> QED
      BY <2>t, <2>n, <3>1, LedState
  <2> QED
    BY <2>1, <2>2
<1> QED
  BY <1>1, TypeInit, TypeNext, AgreeInit, AgreeNext, PTL DEF Spec
=============================================================================
