-------------------------- MODULE DevelopmentTask --------------------------
(***************************************************************************)
(* One governed development task: DevelopmentController and the task       *)
(* directory of DevelopmentStore (development.py), with the task's git     *)
(* workspace and the GitHub repository it is published to.                 *)
(*                                                                         *)
(* Every handler runs under the cross-process lifecycle mutex, so at most  *)
(* one operation of the task is in progress; `run` is that operation.  A   *)
(* handler is one action up to its first durable write; what it still has  *)
(* to do is `run`, and each later write or remote call is a step of its    *)
(* own, between which the process may die or the call may raise (Abort).   *)
(* People and GitHub act at any time between two steps.                    *)
(*                                                                         *)
(* The content of a checkout is one value of Trees; a commit is the base   *)
(* revision it grows from, its tree and its author.                        *)
(***************************************************************************)
EXTENDS Naturals, Sequences, FiniteSets

CONSTANTS
    Actors,             \* actor names given on the command line
    NoActor,            \* a role nobody has taken yet (None)
    Changes,            \* contents that differ from the base checkout
    Pristine,           \* the content of the base checkout
    OverBudget,         \* contents whose diff exceeds a file or line budget
    Secrets,            \* contents whose diff matches a secret pattern
    MaxRepairAttempts,  \* policy.max_repair_attempts
    EditPhases,         \* when files are edited by hand: "idle", "running"
    MaxFaults,          \* bound: crashes and failed calls
    MaxMoves,           \* bound: commits others land on the base branch
    MaxPackages         \* bound: evidence packages asked for explicitly

ASSUME ActorAssumption == NoActor \notin Actors
ASSUME ContentAssumption ==
    /\ Pristine \notin Changes
    /\ OverBudget \subseteq Changes
    /\ Secrets \subseteq Changes
ASSUME PolicyAssumption == MaxRepairAttempts \in Nat
ASSUME BoundAssumption ==
    /\ EditPhases \subseteq {"idle", "running"}
    /\ MaxFaults \in Nat
    /\ MaxMoves \in Nat
    /\ MaxPackages \in Nat

VARIABLES
    task,      \* state.json; state "absent": no task directory,
               \* "directory": the directory without a state.json
    log,       \* events.jsonl
    ws,        \* the isolated clone in the task directory
    remote,    \* the GitHub repository: base and task branch, PR, checks
    packages,  \* evidence packages: the state and the events each copied
    run,       \* the operation that holds the mutex, Idle if none does
    faults     \* crashes and failed calls so far

vars == <<task, log, ws, remote, packages, run, faults>>

-----------------------------------------------------------------------------
(* Data                                                                    *)

TASK_STATES ==
    {"created", "planned", "workspace_ready", "changes_applied",
     "tests_passed", "tests_failed", "review_passed", "review_failed",
     "awaiting_publish_approval", "publish_approved", "published",
     "merged_verified", "manual_review", "cancelled"}

\* Mutant of Open: an approved task can be cancelled.
OpenUntilPublished ==
    {"created", "planned", "workspace_ready", "changes_applied",
     "tests_passed", "tests_failed", "review_passed", "review_failed",
     "awaiting_publish_approval", "publish_approved"}

\* The states that may fall back to manual review or be cancelled.
Open == {"created", "planned", "workspace_ready", "changes_applied",
         "tests_passed", "tests_failed", "review_passed", "review_failed",
         "awaiting_publish_approval"}

\* The pairs of TRANSITIONS.
TRANSITIONS ==
    (Open \X {"manual_review", "cancelled"})
    \cup ({"tests_failed", "review_failed", "workspace_ready", "manual_review"}
            \X {"changes_applied"})
    \cup ({"changes_applied"} \X {"tests_passed", "tests_failed"})
    \cup ({"tests_passed"} \X {"review_passed", "review_failed"})
    \cup ({"created", "manual_review"} \X {"planned"})
    \cup ({"publish_approved", "published"} \X {"manual_review"})
    \cup {<<"planned", "workspace_ready">>,
          <<"review_passed", "awaiting_publish_approval">>,
          <<"awaiting_publish_approval", "publish_approved">>,
          <<"publish_approved", "published">>,
          <<"published", "merged_verified">>,
          <<"manual_review", "cancelled">>}

Trees == Changes \cup {Pristine}
Diffs == [old : Trees, new : Trees]
EmptyDiff == [old |-> Pristine, new |-> Pristine]
Commits == [rev : Nat, tree : Trees, by : {"nobody", "controller", "other"}]
NoCommit == [rev |-> 0, tree |-> Pristine, by |-> "nobody"]

\* git diff compares the working tree with the index, so content that is
\* staged or committed is not part of it.
ChangeDiff(w) ==
    IF w.tree = w.index THEN EmptyDiff ELSE [old |-> w.index, new |-> w.tree]
InBudget(d) == d = EmptyDiff \/ d.new \notin OverBudget
HasSecret(d) == d # EmptyDiff /\ d.new \in Secrets

\* A fresh clone at base revision r.
Clone(r) == [git |-> "cloned", rev |-> r,
             head |-> Pristine, index |-> Pristine, tree |-> Pristine]
NoClone(g) == [git |-> g, rev |-> 0,
               head |-> Pristine, index |-> Pristine, tree |-> Pristine]

NoTask == [state |-> "absent", commands |-> FALSE, source_sha |-> 0,
           coder |-> NoActor, test_runner |-> NoActor, reviewer |-> NoActor,
           publish_approval |-> NoActor, test_results |-> "none",
           repair_attempts |-> 0, change_sha256 |-> EmptyDiff,
           pull_request |-> NoCommit]

Event(type, from, to) == [type |-> type, from |-> from, to |-> to]
NoEvent == Event("none", "none", "none")
Moved(from, to) == Event("state_transition", from, to)

Idle == [pc |-> "idle", event |-> NoEvent, next |-> "idle"]
At(pc) == [Idle EXCEPT !.pc = pc]
Appending(e, next) == [pc |-> "append", event |-> e, next |-> next]

-----------------------------------------------------------------------------
(* DevelopmentStore                                                        *)

\* A handler got the mutex and loaded the task.
Loaded == run.pc = "idle" /\ task.state \in TASK_STATES

\* The state file is replaced first; the event is appended by AppendEvent.
TransitionFrom(from, to, updated, next) ==
    /\ <<from, to>> \in TRANSITIONS
    /\ task' = [updated EXCEPT !.state = to]
    /\ run' = Appending(Moved(from, to), next)

Transition(to, updated, next) == TransitionFrom(task.state, to, updated, next)

AppendEvent ==
    /\ run.pc = "append"
    /\ log' = Append(log, run.event)
    /\ run' = At(run.next)
    /\ UNCHANGED <<task, ws, remote, packages, faults>>

\* create: mkdir, then state.json, then the first event.  A directory that is
\* already there is loaded instead, which changes nothing.
Start ==
    /\ run.pc = "idle"
    /\ task.state = "absent"
    /\ task' = [task EXCEPT !.state = "directory"]
    /\ run' = At("create")
    /\ UNCHANGED <<log, ws, remote, packages, faults>>

WriteState ==
    /\ run.pc = "create"
    /\ \E c \in BOOLEAN :
          task' = [NoTask EXCEPT !.state = "created", !.commands = c]
    /\ run' = Appending(Event("task_created", "none", "created"), "idle")
    /\ UNCHANGED <<log, ws, remote, packages, faults>>

-----------------------------------------------------------------------------
(* DevelopmentController, up to the publish gate                           *)

Plan ==
    /\ Loaded
    /\ Transition("planned", task, "idle")
    /\ UNCHANGED <<log, ws, remote, packages, faults>>

Cancel ==
    /\ Loaded
    /\ Transition("cancelled", task, "idle")
    /\ UNCHANGED <<log, ws, remote, packages, faults>>

\* prepare refuses to run over an existing clone, in every state.
CanClone == Loaded /\ ws.git # "cloned"

Prepare ==
    /\ CanClone
    /\ ws' = Clone(remote.base)
    /\ Transition("workspace_ready",
                  [task EXCEPT !.source_sha = remote.base], "idle")
    /\ UNCHANGED <<log, remote, packages, faults>>

\* The state is only looked at by the transition, after the clone.
PrepareRefused ==
    /\ CanClone
    /\ <<task.state, "workspace_ready">> \notin TRANSITIONS
    /\ ws' = Clone(remote.base)
    /\ UNCHANGED <<task, log, remote, packages, run, faults>>

\* git clone fails, or is killed and leaves a directory without .git.
CloneFails ==
    /\ CanClone
    /\ ws' \in {NoClone("absent"), NoClone("incomplete")}
    /\ UNCHANGED <<task, log, remote, packages, run, faults>>

\* The process dies between the clone and the transition.
PrepareInterrupted ==
    /\ CanClone
    /\ <<task.state, "workspace_ready">> \in TRANSITIONS
    /\ faults < MaxFaults
    /\ faults' = faults + 1
    /\ ws' = Clone(remote.base)
    /\ UNCHANGED <<task, log, remote, packages, run>>

\* Mutant of CanApply: a repair may come from another coder.
CanApplyAsAnyone(a) ==
    /\ Loaded
    /\ task.state \in {"workspace_ready", "tests_failed", "review_failed",
                       "manual_review"}

CanApply(a) ==
    /\ Loaded
    /\ task.state \in {"workspace_ready", "tests_failed", "review_failed",
                       "manual_review"}
    /\ task.coder \in {NoActor, a}

\* Mutants of Applied: the attempt is subtracted; the attempt is forgotten.
AppliedCountingDown(a) ==
    [task EXCEPT !.coder = a, !.repair_attempts = @ - 1]
AppliedUncounted(a) == [task EXCEPT !.coder = a]

Applied(a) == [task EXCEPT !.coder = a, !.repair_attempts = @ + 1]

ApplyChanges(a, t) ==
    /\ CanApply(a)
    /\ task.repair_attempts < MaxRepairAttempts
    /\ ws' = [ws EXCEPT !.tree = t]
    /\ InBudget(ChangeDiff(ws'))
    /\ TransitionFrom(
          IF task.state = "manual_review" THEN "review_failed" ELSE task.state,
          "changes_applied",
          Applied(a), "idle")
    /\ UNCHANGED <<log, remote, packages, faults>>

\* A later operation of the change set is refused, the diff is over budget or
\* the process dies: the operations before that are already in the workspace.
ApplyStops(a, t) ==
    /\ CanApply(a)
    /\ task.repair_attempts < MaxRepairAttempts
    /\ ws' = [ws EXCEPT !.tree = t]
    /\ UNCHANGED <<task, log, remote, packages, run, faults>>

RepairBudgetExhausted(a) ==
    /\ CanApply(a)
    /\ task.repair_attempts >= MaxRepairAttempts
    /\ Transition("manual_review", task, "idle")
    /\ UNCHANGED <<log, ws, remote, packages, faults>>

\* Mutant of CanTest: the coder may run the tests.
CanTestAsCoder(a) == Loaded /\ task.state = "changes_applied"

CanTest(a) == Loaded /\ task.state = "changes_applied" /\ a # task.coder

Test(a) ==
    /\ CanTest(a)
    /\ task.commands
    /\ \E result \in {"passed", "failed"} :
          Transition(IF result = "passed" THEN "tests_passed"
                                          ELSE "tests_failed",
                     [task EXCEPT !.test_runner = a, !.test_results = result],
                     "idle")
    /\ UNCHANGED <<log, ws, remote, packages, faults>>

NoTestContract(a) ==
    /\ CanTest(a)
    /\ ~task.commands
    /\ Transition("manual_review", task, "idle")
    /\ UNCHANGED <<log, ws, remote, packages, faults>>

\* verified: every acceptance criterion came with evidence.
ReviewFails(verified) ==
    \/ ChangeDiff(ws) = EmptyDiff
    \/ HasSecret(ChangeDiff(ws))
    \/ task.test_results # "passed"
    \/ ~verified

Review(a, verified) ==
    /\ Loaded
    /\ task.state = "tests_passed"
    /\ a \notin {task.coder, task.test_runner}
    /\ InBudget(ChangeDiff(ws))
    /\ LET reviewed == [task EXCEPT !.reviewer = a,
                                    !.change_sha256 = ChangeDiff(ws)]
       IN  IF ReviewFails(verified)
           THEN Transition("review_failed", reviewed, "idle")
           ELSE Transition("review_passed", reviewed, "handover")
    /\ UNCHANGED <<log, ws, remote, packages, faults>>

\* Mutant of Handover: the second transition is not logged.
HandoverUnlogged ==
    /\ run.pc = "handover"
    /\ task' = [task EXCEPT !.state = "awaiting_publish_approval"]
    /\ run' = Idle
    /\ UNCHANGED <<log, ws, remote, packages, faults>>

\* The second transition of a review that passed.
Handover ==
    /\ run.pc = "handover"
    /\ Transition("awaiting_publish_approval", task, "idle")
    /\ UNCHANGED <<log, ws, remote, packages, faults>>

ApprovePublish(a) ==
    /\ Loaded
    /\ a \notin {task.coder, task.test_runner, task.reviewer}
    /\ Transition("publish_approved",
                  [task EXCEPT !.publish_approval = a], "idle")
    /\ UNCHANGED <<log, ws, remote, packages, faults>>

-----------------------------------------------------------------------------
(* Publication, merge verification and evidence                            *)

\* publish goes from one subprocess or request to the next.
PublishStep(pc, next) == run.pc = pc /\ run' = At(next)

\* Mutant of Publish: the workspace is not compared with the review.
PublishUnchecked ==
    /\ Loaded
    /\ task.state = "publish_approved"
    /\ run' = At("check_base")
    /\ UNCHANGED <<task, log, ws, remote, packages, faults>>

Publish ==
    /\ Loaded
    /\ task.state = "publish_approved"
    /\ ChangeDiff(ws) = task.change_sha256
    /\ run' = At("check_base")
    /\ UNCHANGED <<task, log, ws, remote, packages, faults>>

\* Mutants of CheckBase: wait for the base to come back; the comparison is
\* the wrong way round.
CheckBasePolling ==
    /\ PublishStep("check_base",
                   IF remote.base = task.source_sha THEN "stage"
                                                    ELSE "check_base")
    /\ UNCHANGED <<task, log, ws, remote, packages, faults>>
CheckBaseInverted ==
    /\ PublishStep("check_base",
                   IF remote.base # task.source_sha THEN "stage" ELSE "idle")
    /\ UNCHANGED <<task, log, ws, remote, packages, faults>>

CheckBase ==
    /\ PublishStep("check_base",
                   IF remote.base = task.source_sha THEN "stage" ELSE "idle")
    /\ UNCHANGED <<task, log, ws, remote, packages, faults>>

\* git add, unless git status reports nothing.
Stage ==
    /\ PublishStep("stage", IF ws.tree = ws.index /\ ws.index = ws.head
                            THEN "push" ELSE "commit")
    /\ ws' = [ws EXCEPT !.index = ws.tree]
    /\ UNCHANGED <<task, log, remote, packages, faults>>

\* git commit fails when nothing is staged.
Commit ==
    /\ PublishStep("commit", IF ws.index # ws.head THEN "push" ELSE "idle")
    /\ ws' = [ws EXCEPT !.head = ws.index]
    /\ UNCHANGED <<task, log, remote, packages, faults>>

HeadCommit == [rev |-> ws.rev, tree |-> ws.head, by |-> "controller"]

\* There is nothing to publish when the head is still the base.
Push ==
    /\ PublishStep("push", IF ws.head # Pristine THEN "open_pr" ELSE "idle")
    /\ remote' = IF ws.head # Pristine THEN [remote EXCEPT !.branch = HeadCommit]
                                       ELSE remote
    /\ UNCHANGED <<task, log, ws, packages, faults>>

OpenPullRequest ==
    /\ PublishStep("open_pr", "record_pr")
    /\ remote.pr = "none"
    /\ remote' = [remote EXCEPT !.pr = "open"]
    /\ UNCHANGED <<task, log, ws, packages, faults>>

RecordPullRequest ==
    /\ run.pc = "record_pr"
    /\ Transition("published",
                  [task EXCEPT !.pull_request = HeadCommit], "package")
    /\ UNCHANGED <<log, ws, remote, packages, faults>>

\* Mutant of VerifyMerge: the merged head is not compared.
VerifyMergeOfAnyHead ==
    /\ Loaded
    /\ task.state = "published"
    /\ remote.pr = "merged"
    /\ remote.checks = "success"
    /\ Transition("merged_verified", task, "package")
    /\ UNCHANGED <<log, ws, remote, packages, faults>>

\* A merged pull request no longer changes, so the two GETs are one step.
VerifyMerge ==
    /\ Loaded
    /\ task.state = "published"
    /\ remote.pr = "merged"
    /\ remote.branch = task.pull_request
    /\ remote.checks = "success"
    /\ Transition("merged_verified", task, "package")
    /\ UNCHANGED <<log, ws, remote, packages, faults>>

\* Without an events.jsonl there is nothing to copy and the handler raises.
BuildEvidence ==
    /\ Loaded
    /\ log # <<>>
    /\ Cardinality(packages) < MaxPackages
    /\ run' = At("package")
    /\ UNCHANGED <<task, log, ws, remote, packages, faults>>

\* The log only grows, so its length stands for the copy.
Package ==
    /\ run.pc = "package"
    /\ packages' = packages \cup {[state |-> task.state, events |-> Len(log)]}
    /\ run' = Appending(Event("evidence_manifest_created", "none", "none"),
                        "idle")
    /\ UNCHANGED <<task, log, ws, remote, faults>>

-----------------------------------------------------------------------------
(* Failures, people and GitHub                                             *)

\* The process dies, or the next write or call raises: the mutex is released
\* and what was left to do is forgotten.
Abort ==
    /\ run.pc # "idle"
    /\ faults < MaxFaults
    /\ faults' = faults + 1
    /\ run' = Idle
    /\ UNCHANGED <<task, log, ws, remote, packages>>

\* Somebody edits files of the clone without going through the controller.
EditWorkspace(t) ==
    /\ (IF run.pc = "idle" THEN "idle" ELSE "running") \in EditPhases
    /\ ws.git = "cloned"
    /\ ws' = [ws EXCEPT !.tree = t]
    /\ UNCHANGED <<task, log, remote, packages, run, faults>>

BaseMoves ==
    /\ remote.base <= MaxMoves
    /\ remote' = [remote EXCEPT !.base = @ + 1]
    /\ UNCHANGED <<task, log, ws, packages, run, faults>>

\* Somebody else pushes to the task branch before the pull request is merged.
BranchMoves(t) ==
    /\ remote.branch # NoCommit
    /\ remote.pr # "merged"
    /\ remote' = [remote EXCEPT
                    !.branch = [rev |-> @.rev, tree |-> t, by |-> "other"]]
    /\ UNCHANGED <<task, log, ws, packages, run, faults>>

PullRequestMerges ==
    /\ remote.pr = "open"
    /\ remote' = [remote EXCEPT !.pr = "merged"]
    /\ UNCHANGED <<task, log, ws, packages, run, faults>>

ChecksReport ==
    /\ remote.pr = "merged"
    /\ \E c \in {"failed", "success"} : remote' = [remote EXCEPT !.checks = c]
    /\ UNCHANGED <<task, log, ws, packages, run, faults>>

-----------------------------------------------------------------------------
Init ==
    /\ task = NoTask
    /\ log = <<>>
    /\ ws = NoClone("absent")
    /\ remote = [base |-> 1, branch |-> NoCommit, pr |-> "none",
                 checks |-> "pending"]
    /\ packages = {}
    /\ run = Idle
    /\ faults = 0

Operation ==
    \/ Start \/ Plan \/ Cancel \/ Prepare \/ PrepareRefused \/ CloneFails
    \/ PrepareInterrupted
    \/ \E a \in Actors :
          \/ \E t \in Trees : ApplyChanges(a, t) \/ ApplyStops(a, t)
          \/ RepairBudgetExhausted(a)
          \/ Test(a) \/ NoTestContract(a)
          \/ \E verified \in BOOLEAN : Review(a, verified)
          \/ ApprovePublish(a)
    \/ Publish \/ VerifyMerge \/ BuildEvidence

\* The steps that finish the operation in progress.
Continue ==
    \/ WriteState \/ AppendEvent \/ Handover
    \/ CheckBase \/ Stage \/ Commit \/ Push \/ OpenPullRequest
    \/ RecordPullRequest \/ Package

Environment ==
    \/ Abort
    \/ \E t \in Trees : EditWorkspace(t) \/ BranchMoves(t)
    \/ BaseMoves \/ PullRequestMerges \/ ChecksReport

Next == Operation \/ Continue \/ Environment

Spec == Init /\ [][Next]_vars

\* The process that holds the mutex is scheduled, every subprocess and request
\* it waits for has a timeout, and people keep asking for what is due next:
\* the plan, the workspace, the approved publication.
FairSpec ==
    /\ Spec
    /\ WF_vars(Continue)
    /\ WF_vars(Plan)
    /\ WF_vars(Prepare)
    /\ WF_vars(Publish)

-----------------------------------------------------------------------------
(* Properties                                                              *)

Tasks == [state : TASK_STATES \cup {"absent", "directory"},
          commands : BOOLEAN, source_sha : Nat,
          coder : Actors \cup {NoActor}, test_runner : Actors \cup {NoActor},
          reviewer : Actors \cup {NoActor},
          publish_approval : Actors \cup {NoActor},
          test_results : {"none", "passed", "failed"},
          repair_attempts : Nat, change_sha256 : Diffs, pull_request : Commits]
Events == [type : {"none", "task_created", "state_transition",
                   "evidence_manifest_created"},
           from : TASK_STATES \cup {"none"},
           to : TASK_STATES \cup {"none"}]
Workspaces == [git : {"absent", "incomplete", "cloned"}, rev : Nat,
               head : Trees, index : Trees, tree : Trees]
Steps == {"idle", "create", "append", "handover", "check_base", "stage",
          "commit", "push", "open_pr", "record_pr", "package"}

\* Every variable has the shape of the record, file or directory it models.
TypeOK ==
    /\ task \in Tasks
    /\ log \in Seq(Events)
    /\ ws \in Workspaces
    /\ remote \in [base : Nat, branch : Commits,
                   pr : {"none", "open", "merged"},
                   checks : {"pending", "failed", "success"}]
    /\ packages \subseteq [state : TASK_STATES, events : Nat]
    /\ run \in [pc : Steps, event : Events,
                next : {"idle", "handover", "package"}]
    /\ faults \in Nat

\* States a task only reaches after a review that passed, and after approval.
Reviewed == {"review_passed", "awaiting_publish_approval", "publish_approved",
             "published", "merged_verified"}
Approved == {"publish_approved", "published", "merged_verified"}

\* Behind the gates the coder, the test runner, the reviewer and the approver
\* of the change are four different people, whatever repairs, crashes and
\* detours through manual review came before.
SeparationOfDuties ==
    /\ task.state \in Reviewed =>
          /\ {task.coder, task.test_runner, task.reviewer} \subseteq Actors
          /\ task.coder # task.test_runner
          /\ task.reviewer \notin {task.coder, task.test_runner}
    /\ task.state \in Approved =>
          /\ task.publish_approval \in Actors
          /\ task.publish_approval \notin
                {task.coder, task.test_runner, task.reviewer}

\* What the controller pushed is the content the reviewer recorded, on the
\* base revision the task captured, free of secrets and within the budget,
\* and the task is past its approval.
PublishedWasReviewed ==
    remote.branch.by = "controller" =>
        /\ task.state \in Approved
        /\ task.change_sha256 = [old |-> Pristine, new |-> remote.branch.tree]
        /\ remote.branch.tree \notin OverBudget \cup Secrets \cup {Pristine}
        /\ remote.branch.rev = task.source_sha

\* A task is closed as merged only when what GitHub merged is the commit the
\* controller published, although others may push to the branch before.
MergedWasPublished ==
    task.state = "merged_verified" =>
        /\ remote.pr = "merged"
        /\ remote.branch.by = "controller"
        /\ remote.branch.tree = task.change_sha256.new

\* The workspace is changed by at most MaxRepairAttempts recorded change sets,
\* and the event log never shows more of them than the task has counted.
RepairBudget ==
    /\ task.repair_attempts <= MaxRepairAttempts
    /\ Cardinality({i \in DOMAIN log : log[i].to = "changes_applied"})
          <= task.repair_attempts

\* The state is written before its event, so the log never shows a gate the
\* task has not passed, and a gate in the log is never taken back.
LoggedGatesHold ==
    \A i \in DOMAIN log :
        /\ log[i].to = "publish_approved" => task.state \in Approved
        /\ log[i].to = "published" =>
              task.state \in {"published", "merged_verified"}
        /\ log[i].to \in {"merged_verified", "cancelled"} =>
              task.state = log[i].to

\* The state the last transition among the first n events led to.
LoggedState(n) ==
    LET moves == {i \in 1..n : log[i].to # "none"}
    IN  IF moves = {} THEN "none"
        ELSE log[CHOOSE i \in moves : \A j \in moves : j <= i].to

\* As long as nothing failed, the log leads to the current state once the
\* operation in progress is done, and every evidence package copied a state
\* and a log that agree.
EvidenceAgrees ==
    faults = 0 =>
        /\ run.pc = "idle" /\ task.state \in TASK_STATES =>
              LoggedState(Len(log)) = task.state
        /\ \A p \in packages : LoggedState(p.events) = p.state

\* Once approved, neither the reviewed content nor the people who answer for
\* it change, and nobody takes over from the coder at any time.
ApprovalIsBinding ==
    [][/\ task.coder # NoActor => task'.coder = task.coder
       /\ task.state \in Approved =>
             /\ task'.state \in Approved
             /\ task'.change_sha256 = task.change_sha256
             /\ task'.test_runner = task.test_runner
             /\ task'.reviewer = task.reviewer
             /\ task'.publish_approval = task.publish_approval]_vars

\* How far task t has come, as seen from outside.
PhaseOf(t) ==
    CASE t.state \in {"review_passed", "awaiting_publish_approval"} ->
            "reviewed"
      [] t.state = "publish_approved" -> "approved"
      [] t.state = "published" -> "published"
      [] t.state = "merged_verified" -> "merged"
      [] t.state = "cancelled" -> "cancelled"
      [] OTHER -> "open"

\* What task t has recorded counts as decided once it has passed the gate.
DecisionOf(t) ==
    LET By(gates, a) == IF t.state \in gates THEN a ELSE NoActor
    IN  [coder |-> By(Reviewed, t.coder),
         test_runner |-> By(Reviewed, t.test_runner),
         reviewer |-> By(Reviewed, t.reviewer),
         publish_approval |-> By(Approved, t.publish_approval),
         content |-> IF t.state \in Reviewed THEN t.change_sha256.new
                                             ELSE Pristine]

Release == INSTANCE ReleaseLifecycle WITH
    Acceptable <- Changes \ (OverBudget \cup Secrets),
    Nothing <- Pristine,
    phase <- PhaseOf(task),
    decision <- DecisionOf(task),
    branch <- [by |-> remote.branch.by, tree |-> remote.branch.tree]

\* Seen through its gates a task is a release: every review, approval, push and
\* merge, with all the repairs, crashes and retries between them, is a step of
\* ReleaseLifecycle or none.
TaskIsRelease == Release!Spec

\* Every operation gives the mutex back.
OperationEnds == (run.pc # "idle") ~> (run.pc = "idle")

\* An approved change is published unless a call fails or the base moves, as
\* long as nobody edits the workspace.
ApprovedIsPublished ==
    (task.state = "publish_approved") ~>
        \/ task.state = "published"
        \/ faults > 0
        \/ remote.base # task.source_sha

-----------------------------------------------------------------------------
(* What a message says, and the code does not do                           *)

\* publish reports "workspace changed after independent review" only when
\* somebody changed the workspace: with no edits an approved task between two
\* operations still carries the reviewed change.
ApprovedKeepsReviewedChange ==
    task.state = "publish_approved" /\ run.pc = "idle" =>
        ChangeDiff(ws) = task.change_sha256
=============================================================================
