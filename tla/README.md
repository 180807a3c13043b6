# A verification of the Agentic Engineering Control Plane

TLA+ models of the control plane's stateful parts, TLC runs that check them on
small instances, and TLAPS proofs of what matters most for every instance.
Line numbers refer to `ae_control_plane/`.

## 1. Inventory

| Part | State it keeps | Operations | Concurrency and failure |
|---|---|---|---|
| Development task lifecycle: `DevelopmentController`, `DevelopmentStore` (`development.py`) | per task `state.json`, `events.jsonl`, the clone `workspace/`, evidence packages; on GitHub a branch, a pull request, checks | start, plan, cancel, prepare, apply_changes, test, review, approve_publish, publish, verify_merge, build_evidence | one operation at a time behind the lifecycle lock; several durable writes and remote calls per operation, and a process may die or a call fail between any two; people edit files, push and merge meanwhile |
| Governed remediation workflow: `GovernedWorkflow` (`workflow.py`), `WorkflowStore` (`store.py`), `lifecycle.py` | SQLite tables `work_items`, `plans`, `approvals`, `executions`, `events`; artifact files | ingest_run, triage, plan, approve_execution, execute, validate, approve_closure | no lock: every process interleaves with every other between transactions |
| Safe execution: `SafeExecutor`, `ExecutionValidator` (`execution.py`) | one artifact file per attempt | execute, validate | called from the workflow, between its transactions |
| Registry and onboarding: `RepositoryRegistry`, `OnboardingStore`, `RepositoryOnboardingController` (`development.py`) | `active-repositories.json` over `config/repositories.json`; per repository `state.json` and `events.jsonl` | discover, assess, set_contract, approve, activate, suspend, resume_onboarding | behind the same lock, but the registry is loaded before the lock is taken (`cli.py` 53-68); overlay, record and event are written one after the other |
| Lifecycle lock: `FileMutex` (`locking.py`), `serialized_mutation`, the stale-save check | one locked byte; `state.json` and `state.json.tmp` behind it | enter, exit; load, save | polling with a timeout; the operating system releases the lock of a process that dies; readers do not take it |
| Command line (`cli.py`) | none | one command per process | decides when the registry is loaded, and that an audit may be ingested at once |
| Test isolation (`isolation.py`, `DevelopmentController.test`) | the containers of the Docker daemon | run a contract, one container per command | time limits that strike at any moment; a client that is killed while the daemon goes on |
| Planner and tool registry (`planning.py`) | none | create_plan, get | pure |
| Audit: `orchestrator.py`, `github_client.py`, `reporting.py`; `agents.py`, `context.py`, `models.py`, `provenance.py`, `inventory.py`, `policy.py` | snapshots by repository and commit; one directory per run | audit_all, download_snapshot, finalize; then ingest_run | no lock; downloads fail, processes die while they extract or write, upstream branches move |

The parts meet in four places. The command line builds a registry and hands it
to the onboarding controller, which writes it, or to the development controller,
whose `start` reads it. Both controllers share one lock file. The test
operation of a task drives containers while it holds that lock. The workflow is
separate: its findings come from the run directories of audits, and it uses the
executor.

What makes each part correct:

* a task: four different people behind the gates; what is published is what was
  reviewed, on the base that was captured; what is verified as merged is what was
  published; a bounded number of repairs; a log that never claims a gate the task
  has not passed; an operation ends, and an approved change gets published;
* a work item: state changes only along the table; nobody approves his own work;
  a bounded number of attempts; a closure rests on a validated execution; the
  events alone show who approved, executed, validated and closed; retries come to
  an end;
* a repository: active only with an approved contract; a suspension holds until a
  fresh approval; tasks only under what an activation put in force; registry and
  record agree;
* the lock: operations behind it are atomic, no save is lost or refused as stale,
  readers find whole records, nobody waits for ever;
* a test contract: passed only if each command ended with 0 in its container; it
  ends; nothing is left running;
* an audit: a snapshot that bears the marker is complete and stays as it is; a
  manifest seals a report of every repository; a work item comes from a complete
  source; an audit ends whatever one repository does to it.

## 2. The modules

| Module | What it is |
|---|---|
| `DevelopmentTask` | one development task with its clone and its GitHub repository |
| `MCDevelopmentTask` | instances for TLC (people are symmetric) |
| `ReleaseLifecycle` | what a task promises, seen through its gates; `DevelopmentTask` implements it |
| `DevelopmentTaskProofs`, `DevelopmentTaskRefinement`, `DevelopmentTaskLogProofs` | theorems about `DevelopmentTask`: its gates, the refinement, its log |
| `GovernedWorkflow` | one work item and the processes that work on it |
| `MCGovernedWorkflow` | instances for TLC (people and processes are symmetric; one view) |
| `GovernedWorkflowProofs` | theorems about `GovernedWorkflow` |
| `Onboarding` | the registry, the onboarding records and the processes that work on them |
| `MCOnboarding` | instances for TLC (people and processes are symmetric) |
| `OnboardingProofs` | theorems about `Onboarding` |
| `LifecycleLock` | the mutex, and load and save behind it |
| `AtomicMutations` | what the lock promises; `LifecycleLock` implements it |
| `LifecycleLockProofs` | theorems about `LifecycleLock`, the refinement among them |
| `AuditRun` | audits with their snapshots and run directories, and their ingestion |
| `MCAuditRun` | the inventory TLC uses |
| `AuditRunProofs` | theorems about `AuditRun` |
| `TestIsolation` | a test contract, the docker client and the daemon |
| `TestIsolationProofs` | theorems about `TestIsolation` |

The models of `DevelopmentTask` and `Onboarding` take an operation behind the lock as
exclusive. `LifecycleLock` is where that is shown, and `AtomicMutations` is what they
use of it. `DevelopmentTask!Test` takes the verdict of a contract as a choice, which
`TestIsolation` justifies; `GovernedWorkflow!Ingest` takes a finding as given, which
is what `AuditRun` hands over.

### DevelopmentTask

`task` is `state.json` (with "absent" for no task and "directory" for the
directory that `create` makes before the file), `log` is `events.jsonl`, `ws` the
clone, `remote` GitHub, `packages` the evidence directories, and `run` the rest of
the operation that holds the lock. All the operations are serialized, so there is
one `run`. A handler is an action up to its first durable write; each later write,
subprocess or request is a step of its own (`AppendEvent`, `Handover`, `CheckBase`,
`Stage`, `Commit`, `Push`, `OpenPullRequest`, `RecordPullRequest`, `Package`).
`Abort` ends the operation before any of these: a crash, a timeout of
`run_command`, an HTTP error. Code that raises before it changes anything is not
a step.

The content of a checkout is one value: `Pristine` or a member of `Changes`, of
which some are over budget and some hold a secret. git keeps three of them (`tree`,
`index`, `head`), because `git diff` compares the first two: that is what makes the
digest of a change vanish once it is staged. A digest is the pair it was computed
from. A commit is its base revision, its tree and who pushed it.

GitHub and people (`EditWorkspace`, `BaseMoves`, `BranchMoves`,
`PullRequestMerges`, `ChecksReport`) are external. The branch of a pull request
that is merged does not move in the model, because GitHub keeps the head it merged.

`ReleaseLifecycle` is the task as its readers see it: open, reviewed, approved,
published, merged or cancelled, with one decision record and what is on the branch.
`PhaseOf` and `DecisionOf` map a task to it; a role or a content counts as decided
once its gate is passed. Planning, repairs, tests, detours, crashes and retries are
stutters.

### GovernedWorkflow

`item`, `planner`, `approvals`, `executions`, `events` are the tables, `artifacts`
the files written so far (`RunTool` writes one), `op` where each process is. A process makes a step per transaction or
per read that the code makes on a connection of its own: `Check` and `Write` are
the two halves of `WorkflowStore.transition`, `ReadLastEvent` and `InsertEvent` of
an `append_event` without a transaction. SQLite serializes writers, so an event
that is appended within a transaction that has written before sees the last one
(`Logged`). An event holds its kind, the index of the event whose hash it took, its
actor where somebody asks who it was, and whether it says yes: that a decision is an
approval, that a validation passed. `Damage` changes an artifact.

### Onboarding

`Open` loads the registry; the operation then waits for the lock with that copy
(`op[p].registry`). Under the lock an operation reads, checks and makes its first
write in one action, since no other process can get in between; `SaveRecord` and
`append_event` are the writes that follow, and `Crash` may come before each. What
`_detect_contract` finds, and whether the smoke test passes, is a choice. The clone
URL follows from the full name; the default branch may be renamed. A repository of
the file has a contract from the file.

`discover` works through a list under one lock; one repository of it is one
`Discover`. A `start` is modelled as far as the registry is concerned, once per
repository: `tasks` keeps the entry that the state of the task records; the rest of
it is `DevelopmentTask`. The contract and the actor in an event are those of the
operation; the payloads leave the contract of an approval out, and no step reads it.

### LifecycleLock

`pc` is where each process is, from `Open` over the attempts (`TryLock`, `Timeout`)
and the operation (`Load`, `Save`, `Leave`) to `Unlock` and `Close`. An attempt may
succeed after the deadline, as in the code, which looks at the clock only when an
attempt failed. `UnlockRaises` leaves it to `Close` to drop the lock. A save is four
steps: the comparison of `updated_at`, the truncation of the temporary file, its
content, and `os.replace`; a crash may come between any two. A record is the list of
its saves, so that a lost one shows. Stamps are numbers, because `utc_now` has a
resolution of microseconds.

### AuditRun

`audit[a]` holds the locals of `audit_all`, `snapshots` and `runs` the directories
under the runtime root, `items` what was ingested. The loop takes one step per
decision, request, extracted member and written file. A member is emptied when it is
opened and whole when it is written; the marker comes last. Every exception of a
repository leads to a report. A report says whether its source was the whole tree of
its commit, which the program cannot see and the property needs. `Die` ends an audit
anywhere; `IngestAgain` is `workflow ingest` on any directory with a portfolio.
`OneAtATime` keeps audits from overlapping and from sharing a second, which the
program does not enforce (section 3).

### TestIsolation

`test` is the loop of `DevelopmentController.test` with `DockerTestRunner.run`,
`containers` what the daemon has under each name. A killed client takes a request the
daemon has not served with it; that the daemon creates the container nevertheless, and
does so late, is a fault, like a call that fails, an `rm` that fails and a controller
that dies. A container that was created without a client that watches it is never
started.

## 3. The runs

Every run is bounded by the constants of its configuration; the bounds are named
in the modules. Deadlock is checked in `LifecycleLock` only: tasks, items, audits and
tests have terminal states, and the bounds end the rest.

### Runs that pass

| Run | Bounds | What it shows |
|---|---|---|
| `DevelopmentTask_safety` | 4 people, 3 changes (one with a secret, one over budget), 2 repairs, 1 failure, 1 move of the base, 1 extra package, edits between operations | all the safety properties of a task, and that it implements `ReleaseLifecycle`. 4 people are the roles there are to separate; 2 repairs leave one after a failure; the failure can be at any step |
| `DevelopmentTask_liveness` | 4 people, 1 change, 1 repair, 1 failure, 1 move | every operation ends; an approved change is published unless a call fails or the base moves |
| `GovernedWorkflow_safety` | 1 process, 3 people, 2 attempts, 1 fault | budget, evidence and transition table, and that retries end in a state people decide on unless a process died while it executed. With one process the code promises all of them; 2 attempts make a retry |
| `GovernedWorkflow_concurrent` | 2 processes, 3 people, 1 attempt | the separation of duties under interleaving, and that the events alone show it of a closed item (`ClosureIsLogged`). The view (`WithBegun`) replaces the events, on which no step depends but the hash an event takes, by what they show of a closure so far. That, with the approvals, decides what the next event adds to it, and whether `ClosureIsLogged` holds, so states with one view have the same future |
| `Onboarding_safety` | 2 processes, a listed repository, 2 people, 1 crash, 7 events | registry and record agree although commands overlap and work from old copies of the registry; a resumption is fresh. 5 events take the repository from suspension back to active, 7 leave room for a failed smoke test or another suspension. A second repository refutes the first (`Onboarding_lost_suspension`) |
| `Onboarding_concurrent` | 2 processes, 1 discovered repository, 2 contracts, 2 branches, 1 push, 1 crash, 5 events | an active repository has the approved contract, over replaced contracts, pushes, a renamed default branch and old copies of the registry; the entry a task was started with comes from a complete activation, although the command may have loaded the registry in the middle of one. 5 events take it from discovery through a replaced contract to active, or on to a suspension. With several repositories and commands that overlap the registry's contract can be an old one (below); the theorem covers any number of processes on one repository, and several repositories if commands do not overlap |
| `LifecycleLock` | 3 processes, 2 saves, 1 crash | the lock and the save implement `AtomicMutations`, nothing is stale or torn, waiters and holders move on. 3 processes are one that holds, one that waits and one that times out; 2 saves are two by one operation or one each by two |
| `AuditRun` | 2 audits, a public, a private and a local repository, 2 files, no token, 1 move, 2 faults | the properties of an audit. The second audit meets what the first, which died or failed while it extracted, left behind; 2 files leave one whole and one torn; the move makes the two ask for different commits |
| `TestIsolation` | contracts of 2 commands, 3 tests, 3 faults | the properties of a test. 3 tests start over after one that was aborted and one that failed; 3 faults combine a dead controller, a late daemon and a failed removal |

The events of onboarding are evidence only as long as no process died before it
appended one; `ActiveWasApproved`, `ResumptionIsFresh` and `TaskWasActivated` say so
(`faults = 0`), and `RegistryAgrees` because such a process may have written the overlay only.

### Runs that find a violation

Each checks what a document or a message of the repository says, and shows a
behaviour of the code that contradicts it.

| Run | What happens |
|---|---|
| `DevelopmentTask_failed_publish` | after a publish that failed once it had staged, the diff is empty and the retry says the workspace was changed after review |
| `GovernedWorkflow_stale_transition` | a triage that was checked before another process planned writes `triaged` over `planned` |
| `Onboarding_lost_suspension` | a command that loaded the registry before a suspension suspends or activates another repository, and writes the suspended one back as active |

### Further divergences

The models show these as well (with other bounds, or a property that states the
expectation); no run is kept for them.

* An edit between the digest check of `publish` (1049) and `git add` (1067) is
  published: `PublishedWasReviewed` with `EditPhases = {"running"}`.
* `prepare` clones before the transition table refuses it (630-651), and the clone
  blocks every later `prepare` (624). For the same reason a task planned again from
  manual review never gets a workspace.
* A change applied in manual review is logged as coming from `review_failed` (721-722).
* Two executors both find an item approved and run the same attempt
  (`workflow.py` 181): `WithinBudget` with two processes.
* The event of `validate` is chained outside a transaction: `append_event` reads the
  last hash (`store.py` 147) and inserts (164) with nothing between them that keeps
  another writer out. So two events can follow the same one, and `verify_event_chain`
  then reports tampering with a database nobody touched. One process has no step
  between `ReadLastEvent` and `InsertEvent`; with two, an invariant
  `\A i \in DOMAIN events : events[i].previous = i - 1` fails after a transition of the
  other one. `ClosureIsLogged` holds nevertheless: a fork loses no event.
* An approval is recorded before its transition is checked (`workflow.py` 158-160). One
  whose process found the item awaiting approval and was then overtaken is recorded
  after the item was approved, executed and closed, so the last decision is not the
  one that closed it: `ClosedIsEvidenced` with two processes.
* An item triaged again cannot be planned again, because its plan row exists
  (`store.py` 70).
* `docs/DEVELOPMENT-PROTOCOL.md`:156 says "Suspended repositories cannot receive
  development tasks." A `dev-start` that loaded the registry before the suspension
  (`cli.py` 54) and got the lock after it starts a task: `start` looks at its copy
  only. With two processes on one repository `r \in Active(Registry)` fails of the
  repository of such a step. `TaskWasActivated` is what remains true of it.
* A repository of the file that is onboarded again is worked on under the contract of
  the file and not the approved one (284): `EntryIsApproved` excepts `Base` for it.
* A command on another repository that loaded the registry earlier brings back the
  contract that was replaced since: `EntryIsApproved` with two repositories, two
  processes and 9 events. The cause is that of `Onboarding_lost_suspension`.
* A crash between overlay and record leaves a repository that gets tasks although its
  activation never succeeded (1745-1747), or one that can neither be suspended nor
  resumed (1773-1800).
* A `discover` with an old registry replaces the metadata of an active record
  (1383-1388), and the branch in the registry is then not the one in the record.
* `docs/DEVELOPMENT-PROTOCOL.md`:245 says a moved base "requires replanning"; the task
  stays approved for good, since no operation leads from there to planning (1062).
* `docs/AGENTIC-WORKFLOW.md`:23-24 says closure takes an actor who did not plan or
  execute; the prior actors leave out the planner, and of the executors they look at
  the last one only (`workflow.py` 264-266). The planner may close, and so may who
  ran an earlier attempt that failed. `ClosedIsEvidenced` asks for what the code does.
* `docs/AUDIT-BASELINE.md`:8-9 speaks of immutable snapshots. Two audits that overlap
  extract the same one, and the second empties files under a marker the first wrote;
  two that start within a second write into one run directory. With
  `OneAtATime = FALSE` TLC refutes `MarkedIsWhole`, `ItemsAreReal` and
  `ManifestIsTrue`.
* `docs/PHASE-0-THREAT-MODEL.md`:43 names "forced container removal after a timeout". A
  removal that fails or takes more than 20 s is not repeated or reported
  (`isolation.py` 259-265), and a controller that dies leaves its container running:
  `NothingIsLeftRunning` without `faults = 0`.

### Fairness

`DevelopmentTask!FairSpec`: weak fairness of `Continue`, because the process that
holds the lock runs and each subprocess and request it waits for has a timeout
(60 or 180 s in `run_command`'s callers, 30 s for requests); weak fairness of
`Plan`, `Prepare` and `Publish`, because somebody asks for what is due until it is
done. Nothing is assumed of approvals, of merges, or of `Abort`.

`GovernedWorkflow!FairSpec`: weak fairness of `Continue(p)` for each process, as
above; strong fairness of the requests to execute and validate, each by each
person, because an operator who finds an item in that state asks again, and the
state goes and comes with retries. Nothing is assumed of planning or approvals, and
nothing of a process that dies, which `RetriesEnd` excepts when it was executing.

`LifecycleLock!FairSpec`: weak fairness of the steps of a process that has started,
and of its deadline passing, because the loop polls every 0.05 s and ends on the
clock. No fairness makes an attempt succeed.

`AuditRun!FairSpec`: weak fairness of the steps of each audit, because every request
and subprocess of the loop has a timeout. A death ends it.

`TestIsolation!FairSpec`: weak fairness of the steps of the controller, because every
call of docker has a time limit (20 s, or that of the test). Nothing is assumed of
the daemon or of the tests, which may hang.

`Onboarding` has no liveness property: every step is up to a person.

## 4. The proofs

All eight modules with theorems are checked by `tlapm` without gaps, from the
assumptions the modules declare: no actor is named `NoActor` and no process `Nobody`,
bounds are natural numbers, the special contents are changes, the inventory lists
each repository once, there is a contract. Every theorem is for all values of the
constants unless it says so.

A task:

* `TypeCorrect`: `Spec => []TypeOK`. The invariant is `TypeInv`: types, and
  what each `run.pc` implies for the state of the task (`RunOK`). The latter is
  needed because a step in the middle of an operation has no guard on the state:
  that `Handover` finds `review_passed` is known only from who got there.
* `DutiesSeparated`: `Spec => []SeparationOfDuties`. `DutiesInv` also says who has
  been recorded in the states before the gates, where a role may still change.
* `PublishedIsReviewed` and `MergedIsPublished`: `PublishedWasReviewed` and
  `MergedWasPublished`, assuming nobody edits the clone while an operation runs
  (`"running" \notin EditPhases`). Without that assumption TLC refutes
  the first (section 3). `ContentInv` follows the
  reviewed content from the tree to the index, the head, the branch and the record
  along the steps of `publish`, and says that nothing is staged before approval.
* `RepairsStayInBudget` and `LoggedGatesAreKept`: `LogInv` adds the event that is still
  to be written, which the counter is one ahead of and which names the state the
  record has already.
* `EvidenceIsConsistent`: `EvidenceAgrees`, with edits at any time. The property is about
  a log that is complete, but is not inductive in the middle of an operation: `AgreeInv`
  says of each `run.pc` that the log *with* the events still to come leads to the state
  (`Foreseen`), and of each package that the events it holds lead to the state it holds,
  which later events do not change because a log only grows.
* `TaskImplementsRelease`: `Spec => TaskIsRelease`, again if nobody edits the clone
  while an operation runs. `RecordMoves` reduces every step to one of a few moves of
  the record, each of which is a step of `ReleaseLifecycle` or none. The invariant is
  the conjunction of the three above with `BranchInv`, which says when there is a
  branch.
* `ApprovalBinds`: `ApprovalIsBinding` from the same moves, with edits at any time.

A work item:

* `WorkItemTypes`: `Spec => []TypeOK`, for any number of processes. That the validation
  reads a file that exists is part of it: `FilesInv` keeps a file for every row of
  `executions` and for every process that is past `RunTool`. The types of what a process
  carries come from `SeparationInv`.
* `ExecutionsAreSeparated` and `ClosureTakesTwo`: `ExecutionSeparation` and
  `TwoPeopleDecided` for any number of processes, people and attempts.
  `SeparationInv` holds what the rows of the database say (an approval of an
  execution is never by the ingester or the planner; rows are never taken back) and,
  for each process, what it has read that is still true although others have
  written since (`OpInv`).
* `ClosuresAreLogged`: `ClosureIsLogged`, again for any number of processes. `LogInv`
  says which events the rows of the database and the steps of the operations imply: a
  row has its event, an item that has run, has been validated or awaits closure has the
  events that led there, and a process that decided to validate or to close has seen
  what it rests on. Events are only appended, so what they show is shown for good
  (`ShownForGood`), whatever hash the next one takes.
* `AttemptsWithinBudget`, `ClosureIsEvidenced` and `TableIsObeyed`:
  `WithinBudget`, `ClosedIsEvidenced` and `TransitionsAllowed`, if
  commands do not overlap (`Single`: there is one process, which runs one after the
  other); section 3 has an interleaving that breaks each.
  `SoloInv` says where the item is while a process is at each of its steps: the state it
  checked is still the state, the attempt it counts is the one the item had, the
  execution it validates is the last.
  `AttemptsWithinBudget` assumes `MaxRetries > 0` as well, which
  `schemas/work-item.schema.json`:54 demands; with a budget of 0 the code would make one
  attempt, because it compares the attempts with the budget after a failure only.

A repository:

* `TypeCorrect`: `Spec => []TypeOK`, whatever overlaps.
* `RegistryIsTrue` and `EntriesAreApproved`: `RegistryAgrees` and `EntryIsApproved`, if
  commands do not overlap or there is one repository (`Orderly`). An old copy of the
  registry does harm only when it is written back with the entry of *another*
  repository in it, so either hypothesis suffices, and with two of both TLC refutes
  `EntryIsApproved`. `AgreeInv` says that what is about to be saved agrees with the
  overlay that was written before it, and what a death in between leaves; `CopiesInv`
  that no copy is old, which is used where there are several repositories.
* `ActiveIsApproved` and `ResumptionsAreFresh`: `ActiveWasApproved` and
  `ResumptionIsFresh`, for any number of processes and repositories, whatever overlaps.
  Both speak of runs in which no process died before it appended its event. `TrailInv`
  says that each record follows from its trail of events and the event an operation
  still owes, and that each entry that is active, in the overlay and in every copy of
  it however old, has its approval in the trail: an old copy may bring back what
  was approved once, but not what never was.
* `TasksAreActivated`: `TaskWasActivated`, for any number of processes and repositories,
  whatever overlaps. `TaskInv` says that each active entry, in the overlay and in
  every copy, has a complete activation in the trail or belongs to the one in progress,
  which owes its event only. A copy made in the middle of an activation is used under
  the lock, when nobody owes an event any more: that the lock is held to the event is
  what the theorem needs, and what the mutant `startUnserialized` gives up.

The lock:

* `NoSaveIsStale`, `ReadersAreServed` and `MutationsAreSerialized`: `NothingIsStale`,
  `ReadersSeeWholeState` and `Serialized`. `HolderInv` says that who is in the operation
  holds the lock, so that nobody else moves the record, and follows the save from the
  copy to the temporary file and to the record.

An audit:

* `TypeCorrect`: `Spec => []TypeOK`, whatever overlaps.
* `MarkerIsTrue`, `WorkIsReal` and `MarkedIsKept`: `MarkedIsWhole`, `ItemsAreReal` and
  `SnapshotsStay`, if audits do not overlap (`OneAtATime`), over any number of deaths and
  failures. `Trust` says what a running audit knows: that the snapshot it extracts has no
  marker, which files it has written, that the one it scans has a marker.
* `ManifestIsKept`: `ManifestIsTrue` under the same hypothesis. `RunsInv` says that an
  audit owns its run directory, that there is a report for each repository it is done
  with, and that what is sealed is complete and is what the manifest lists.

A test:

* `PassedIsRun` and `NoneIsLeft`: `PassedWasRun` and `NothingIsLeftRunning`. The
  invariant says that names that were not generated are free, that results are of
  earlier containers that ended with 0, and that without a fault only the container
  of the command that runs is alive.

`TypeCorrect` (`Spec => []TypeOK`) is proved of the lock and of a test as well.

So every invariant and every action property of the runs that pass is also a theorem.
Where a theorem has a hypothesis (`Single`, `Orderly`, `OneAtATime`, no edits while an
operation runs), section 3 says what goes wrong without it.

Only model-checked is liveness, which the prover does not do: `OperationEnds` and
`ApprovedIsPublished` of a task, `RetriesEnd` of a work item, `LockMovesOn`, `AuditEnds`
and `TestEnds`.

## 5. What is not modelled

* The composition of the parts: each module takes what it needs of its neighbours as
  an assumption that the other shows (section 2).
* A `git` or `docker` child that outlives the process that started it, outside
  `TestIsolation`.
* The text of diffs, secrets, contracts and plans; owners and confirmations; path
  checks. They are choices or members of a set. A repository is its full name and all
  are of one owner, which the configuration demands; `RepositoryRegistry` keys its
  entries by the lower-cased name (243, 250, 274), so two owners would collide there.
* `get_work_item` at the end of `WorkflowStore.transition` (`store.py` 310): if it
  raised after the row was written, `execute` would take its except branch although
  the item is validating. The model ends the operation.
* People edit files of the clone only; a commit or a `git add` by hand is left out.
* The tree a test run leaves behind: the workspace is mounted read-only; in host mode
  a test may change the clone, which is an edit by hand. The options of the docker
  command, the checks of configuration and paths. A client that loses the daemon while
  its container runs, or a start that fails after the creation, ends with an error and
  a container that lives; it would be a fault, which `NothingIsLeftRunning` excludes.
* The JSON and the Markdown report of a repository are written one after the other
  (`reporting.py` 147-152) and are one step, since the manifest comes after both;
  `audit_all` without a GitHub client (`orchestrator.py` 133-142), which the command
  line cannot ask for.
* The rules of the agents, the reviewer and the limits of a scan: what an audit finds
  is abstracted, only what it looked at is modelled. A text file over the size limit
  is left out without the report saying so (`context.py` 127).
* Rejection at the publish gate: the protocol's flow chart leads it to manual review,
  but no operation records a rejection. The same holds for onboarding approval.
* The planner, the audit policy, `list_repositories`, the inventory file and the layout
  of reports: pure lookups, constants, input and output.

## 6. What could come next

The modules were written in this order: task, workflow, onboarding, lock, release
refinement, audit, isolation, with the theorems of each after its runs. Left open:

1. `ControlPlane`: registry and several tasks composed, with what happens to a task in
   flight when its repository is suspended.
2. `EvidenceChain`: the verification of packages and the monitor's verdict.
3. Theorems that join the modules: that the operations of `DevelopmentTask` and
   `Onboarding` may be taken as exclusive follows from `MutationsAreSerialized` by reading
   so far, and that a `Test` which passes was run from `PassedIsRun`.
