----------------------------- MODULE Onboarding -----------------------------
(***************************************************************************)
(* How a repository gets, loses and regains development authority:         *)
(* RepositoryRegistry, OnboardingStore, RepositoryOnboardingController and *)
(* the lookup DevelopmentController.start makes (development.py).          *)
(*                                                                         *)
(* Every command of the CLI loads the registry (Open) before it waits for  *)
(* the lifecycle lock, and works from that copy.  Under the lock an        *)
(* operation reads, checks and makes its first write in one action; the    *)
(* writes that follow are actions of their own, and the process may die    *)
(* between them.  The record an operation loads under the lock cannot      *)
(* become stale before it is saved, so the check in save never refuses.    *)
(***************************************************************************)
EXTENDS Naturals, Sequences, FiniteSets

CONSTANTS
    Repos,       \* repositories
    Base,        \* those in config/repositories.json
    Branches,    \* what discovery says is the default branch
    BaseBranch,  \* what the file says it is
    Contracts,   \* test contracts
    NoContract,  \* assessment detected none
    Actors,
    NoActor,
    Processes,   \* command-line processes
    MaxMoves,    \* bound: pushes to the repositories
    MaxFaults,   \* bound: processes that die
    MaxEvents    \* bound: events of one repository

ASSUME BaseAssumption == Base \subseteq Repos /\ BaseBranch \in Branches
ASSUME AbsenceAssumption == NoContract \notin Contracts /\ NoActor \notin Actors
ASSUME ContractAssumption == Contracts # {}
ASSUME BoundAssumption ==
    MaxMoves \in Nat /\ MaxFaults \in Nat /\ MaxEvents \in Nat

VARIABLES
    records,  \* repository -> state.json of its onboarding
    events,   \* repository -> events.jsonl of its onboarding
    overlay,  \* repository -> its entry in active-repositories.json
    tasks,    \* repository -> the entry in the state.json of its development
              \* task, NoEntry if no task was started
    heads,    \* branch -> the commit it points to (in every repository)
    op,       \* the operation each process has in progress
    moves, faults

vars == <<records, events, overlay, tasks, heads, op, moves, faults>>

-----------------------------------------------------------------------------
(* Data                                                                    *)

ONBOARDING_STATES ==
    {"discovered", "assessment_blocked", "awaiting_onboarding_approval",
     "approved", "smoke_failed", "active", "suspended"}

\* branch: the default branch of the metadata; sha: the commit assessed.  The
\* clone URL follows from the full name, which identifies the record.
NoRecord == [state |-> "none", branch |-> BaseBranch, sha |-> 0,
             contract |-> NoContract, assessor |-> NoActor,
             approver |-> NoActor]

NoEntry == [status |-> "absent", branch |-> BaseBranch,
            contract |-> NoContract]

\* The contract the file gives the repositories it lists.
BaseContract == CHOOSE c \in Contracts : TRUE
BaseEntry == [status |-> "active", branch |-> BaseBranch,
              contract |-> BaseContract]

\* The contract in an event is that of the record, which the payloads leave out;
\* no step reads it.
Event(type, actor, contract) ==
    [type |-> type, actor |-> actor, contract |-> contract]

-----------------------------------------------------------------------------
(* RepositoryRegistry                                                      *)

\* What a process that opens the registry now gets.
Registry ==
    [r \in Repos |-> IF overlay[r] # NoEntry THEN overlay[r]
                     ELSE IF r \in Base THEN BaseEntry
                     ELSE NoEntry]

Active(registry) == {r \in Repos : registry[r].status = "active"}

\* Mutant: only the repositories that are not in the file are written.
save_overlayOfOnboarded(registry, r, entry) ==
    overlay' = [q \in Repos |-> IF q \in Base THEN NoEntry
                                ELSE [registry EXCEPT ![r] = entry][q]]

\* save_overlay writes everything the process knows, except the active
\* repositories of the file: those are taken from the file again.
save_overlay(registry, r, entry) ==
    LET repositories == [registry EXCEPT ![r] = entry]
    IN  overlay' = [q \in Repos |->
                      IF q \in Base /\ repositories[q].status = "active"
                      THEN NoEntry
                      ELSE repositories[q]]

-----------------------------------------------------------------------------
(* Operations                                                              *)

\* pc: "opened" has a registry and waits for the lock, "save_record" and
\* "append_event" hold it; then: the record and the event yet to be written.
Idle == [pc |-> "idle", actor |-> NoActor, registry |-> [r \in Repos |-> NoEntry],
         repo |-> CHOOSE r \in Repos : TRUE, record |-> NoRecord,
         event |-> Event("none", NoActor, NoContract)]

\* No process is inside serialized_mutation.
Unlocked == \A q \in Processes : op[q].pc \in {"idle", "opened"}

\* p may enter the lock to work on r.
Enters(p, r) ==
    /\ op[p].pc = "opened"
    /\ Unlocked
    /\ Len(events[r]) < MaxEvents

\* The operation of p on r has yet to save a record, or to append an event.
SavesRecord(p, r, record, event) ==
    op' = [op EXCEPT ![p] = [@ EXCEPT !.pc = "save_record", !.repo = r,
                                      !.record = record, !.event = event]]
AppendsEvent(p, r, event) ==
    op' = [op EXCEPT ![p] = [Idle EXCEPT !.pc = "append_event", !.repo = r,
                                         !.event = event]]

Open(p, a) ==
    /\ op[p].pc = "idle"
    /\ op' = [op EXCEPT ![p] = [Idle EXCEPT !.pc = "opened", !.actor = a,
                                            !.registry = Registry]]
    /\ UNCHANGED <<records, events, overlay, tasks, heads, moves, faults>>

\* The operation is refused, or does not get the lock in time.
Refused(p) ==
    /\ op[p].pc = "opened"
    /\ op' = [op EXCEPT ![p] = Idle]
    /\ UNCHANGED <<records, events, overlay, tasks, heads, moves, faults>>

\* One repository of a listing; the next one is another Discover.  A repository
\* that is known gets new metadata and no event.
Discover(p, r, branch) ==
    /\ Enters(p, r)
    /\ r \notin Active(op[p].registry)
    /\ IF records[r].state = "none"
       THEN /\ records' = [records EXCEPT ![r] = [NoRecord EXCEPT
                                                    !.state = "discovered",
                                                    !.branch = branch]]
            /\ AppendsEvent(p, r, Event("discovered", op[p].actor, NoContract))
       ELSE /\ records' = [records EXCEPT ![r].branch = branch]
            /\ op' = [op EXCEPT ![p] = Idle]
    /\ UNCHANGED <<events, overlay, tasks, heads, moves, faults>>

\* Mutant: an assessment that found no contract is not blocked.
AssessAnyway(p, r, contract) ==
    /\ Enters(p, r)
    /\ records[r].state \in {"discovered", "assessment_blocked", "smoke_failed"}
    /\ records' = [records EXCEPT ![r] =
                     [@ EXCEPT !.state = "awaiting_onboarding_approval",
                               !.sha = heads[records[r].branch],
                               !.contract = contract,
                               !.assessor = op[p].actor]]
    /\ AppendsEvent(p, r, Event("assessed", op[p].actor, contract))
    /\ UNCHANGED <<events, overlay, tasks, heads, moves, faults>>

\* contract is what _detect_contract finds in the clone.
Assess(p, r, contract) ==
    /\ Enters(p, r)
    /\ records[r].state \in {"discovered", "assessment_blocked", "smoke_failed"}
    /\ records' = [records EXCEPT ![r] =
                     [@ EXCEPT !.state = IF contract = NoContract
                                         THEN "assessment_blocked"
                                         ELSE "awaiting_onboarding_approval",
                               !.sha = heads[records[r].branch],
                               !.contract = contract,
                               !.assessor = op[p].actor,
                               !.approver = NoActor]]
    /\ AppendsEvent(p, r, Event("assessed", op[p].actor, contract))
    /\ UNCHANGED <<events, overlay, tasks, heads, moves, faults>>

\* Mutant: the contract of an active repository is replaced where it stands.
set_contractInPlace(p, r, contract) ==
    /\ Enters(p, r)
    /\ records[r].state \in {"awaiting_onboarding_approval", "active"}
    /\ records' = [records EXCEPT ![r].contract = contract]
    /\ AppendsEvent(p, r, Event("replaced", op[p].actor, contract))
    /\ UNCHANGED <<events, overlay, tasks, heads, moves, faults>>

set_contract(p, r, contract) ==
    /\ Enters(p, r)
    /\ records[r].state \in {"assessment_blocked", "smoke_failed",
                             "awaiting_onboarding_approval"}
    /\ records' = [records EXCEPT ![r] =
                     [@ EXCEPT !.state = "awaiting_onboarding_approval",
                               !.contract = contract,
                               !.approver = NoActor]]
    /\ AppendsEvent(p, r, Event("replaced", op[p].actor, contract))
    /\ UNCHANGED <<events, overlay, tasks, heads, moves, faults>>

\* Mutant: the assessor may approve.
ApproveOwn(p, r) ==
    /\ Enters(p, r)
    /\ records[r].state = "awaiting_onboarding_approval"
    /\ records' = [records EXCEPT ![r].state = "approved",
                                  ![r].approver = op[p].actor]
    /\ AppendsEvent(p, r, Event("approved", op[p].actor, records[r].contract))
    /\ UNCHANGED <<events, overlay, tasks, heads, moves, faults>>

Approve(p, r) ==
    /\ Enters(p, r)
    /\ records[r].state = "awaiting_onboarding_approval"
    /\ op[p].actor # records[r].assessor
    /\ records' = [records EXCEPT ![r].state = "approved",
                                  ![r].approver = op[p].actor]
    /\ AppendsEvent(p, r, Event("approved", op[p].actor, records[r].contract))
    /\ UNCHANGED <<events, overlay, tasks, heads, moves, faults>>

\* The branch is the one that the metadata names by now.
Activate(p, r, passed) ==
    /\ Enters(p, r)
    /\ records[r].state = "approved"
    /\ op[p].actor # records[r].approver
    /\ heads[records[r].branch] = records[r].sha
    /\ IF passed
       THEN /\ save_overlay(op[p].registry, r,
                            [status |-> "active", branch |-> records[r].branch,
                             contract |-> records[r].contract])
            /\ SavesRecord(p, r, [records[r] EXCEPT !.state = "active"],
                           Event("activated", op[p].actor,
                                 records[r].contract))
            /\ UNCHANGED records
       ELSE /\ records' = [records EXCEPT ![r].state = "smoke_failed"]
            /\ AppendsEvent(p, r, Event("smoke_failed", op[p].actor,
                                        records[r].contract))
            /\ UNCHANGED overlay
    /\ UNCHANGED <<events, tasks, heads, moves, faults>>

\* A repository of the file that was never discovered gets a record.
Suspend(p, r) ==
    /\ Enters(p, r)
    /\ r \in Active(op[p].registry)
    /\ LET entry == op[p].registry[r]
           record == IF records[r].state # "none" THEN records[r]
                     ELSE [NoRecord EXCEPT !.branch = entry.branch,
                                           !.contract = entry.contract]
       IN  /\ save_overlay(op[p].registry, r,
                           [entry EXCEPT !.status = "suspended"])
           /\ SavesRecord(p, r, [record EXCEPT !.state = "suspended"],
                          Event("suspended", op[p].actor, NoContract))
    /\ UNCHANGED <<records, events, tasks, heads, moves, faults>>

\* Mutant: a repository resumes as approved as it was.
resume_onboardingApproved(p, r) ==
    /\ Enters(p, r)
    /\ records[r].state = "suspended"
    /\ records' = [records EXCEPT ![r].state = "approved"]
    /\ AppendsEvent(p, r, Event("resumed", op[p].actor, NoContract))
    /\ UNCHANGED <<events, overlay, tasks, heads, moves, faults>>

resume_onboarding(p, r) ==
    /\ Enters(p, r)
    /\ records[r].state = "suspended"
    /\ records' = [records EXCEPT ![r] =
                     [@ EXCEPT !.state = "discovered", !.assessor = NoActor,
                               !.approver = NoActor]]
    /\ AppendsEvent(p, r, Event("resumed", op[p].actor, NoContract))
    /\ UNCHANGED <<events, overlay, tasks, heads, moves, faults>>

\* Mutant: start does not wait for the lifecycle lock.
startUnserialized(p, r) ==
    /\ op[p].pc = "opened"
    /\ r \in Active(op[p].registry)
    /\ tasks[r] = NoEntry
    /\ tasks' = [tasks EXCEPT ![r] = op[p].registry[r]]
    /\ op' = [op EXCEPT ![p] = Idle]
    /\ UNCHANGED <<records, events, overlay, heads, moves, faults>>

\* The task keeps the entry of the repository.  One task of a repository is
\* enough.
start(p, r) ==
    /\ Enters(p, r)
    /\ r \in Active(op[p].registry)
    /\ tasks[r] = NoEntry
    /\ tasks' = [tasks EXCEPT ![r] = op[p].registry[r]]
    /\ op' = [op EXCEPT ![p] = Idle]
    /\ UNCHANGED <<records, events, overlay, heads, moves, faults>>

-----------------------------------------------------------------------------
(* The writes that follow                                                  *)

SaveRecord(p) ==
    /\ op[p].pc = "save_record"
    /\ records' = [records EXCEPT ![op[p].repo] = op[p].record]
    /\ AppendsEvent(p, op[p].repo, op[p].event)
    /\ UNCHANGED <<events, overlay, tasks, heads, moves, faults>>

append_event(p) ==
    /\ op[p].pc = "append_event"
    /\ events' = [events EXCEPT ![op[p].repo] = Append(@, op[p].event)]
    /\ op' = [op EXCEPT ![p] = Idle]
    /\ UNCHANGED <<records, overlay, tasks, heads, moves, faults>>

\* The process dies; the operating system releases its lock.
Crash(p) ==
    /\ op[p].pc \in {"save_record", "append_event"}
    /\ faults < MaxFaults
    /\ faults' = faults + 1
    /\ op' = [op EXCEPT ![p] = Idle]
    /\ UNCHANGED <<records, events, overlay, tasks, heads, moves>>

\* Somebody pushes to the default branch.
Push(branch) ==
    /\ moves < MaxMoves
    /\ moves' = moves + 1
    /\ heads' = [heads EXCEPT ![branch] = moves + 1]
    /\ UNCHANGED <<records, events, overlay, tasks, op, faults>>

-----------------------------------------------------------------------------
Init ==
    /\ records = [r \in Repos |-> NoRecord]
    /\ events = [r \in Repos |-> <<>>]
    /\ overlay = [r \in Repos |-> NoEntry]
    /\ tasks = [r \in Repos |-> NoEntry]
    /\ heads = [branch \in Branches |-> 0]
    /\ op = [p \in Processes |-> Idle]
    /\ moves = 0
    /\ faults = 0

Operation(p, r) ==
    \/ \E branch \in Branches : Discover(p, r, branch)
    \/ \E contract \in Contracts \cup {NoContract} : Assess(p, r, contract)
    \/ \E contract \in Contracts : set_contract(p, r, contract)
    \/ Approve(p, r)
    \/ \E passed \in BOOLEAN : Activate(p, r, passed)
    \/ Suspend(p, r)
    \/ resume_onboarding(p, r)
    \/ start(p, r)

Next ==
    \/ \E p \in Processes :
          \/ \E a \in Actors : Open(p, a)
          \/ \E r \in Repos : Operation(p, r)
          \/ Refused(p) \/ SaveRecord(p) \/ append_event(p) \/ Crash(p)
    \/ \E branch \in Branches : Push(branch)

Spec == Init /\ [][Next]_vars

-----------------------------------------------------------------------------
(* Properties                                                              *)

\* The files have their types.
TypeOK ==
    /\ \A r \in Repos :
          /\ records[r] \in
                [state : ONBOARDING_STATES \cup {"none"},
                 branch : Branches, sha : 0 .. moves,
                 contract : Contracts \cup {NoContract},
                 assessor : Actors \cup {NoActor},
                 approver : Actors \cup {NoActor}]
          /\ records[r].state \in {"approved", "active"} =>
                records[r].contract \in Contracts
          /\ {overlay[r], tasks[r]} \subseteq
                [status : {"active", "suspended", "absent"},
                 branch : Branches, contract : Contracts \cup {NoContract}]
          /\ Len(events[r]) <= MaxEvents
    /\ Cardinality({p \in Processes :
                      op[p].pc \in {"save_record", "append_event"}}) <= 1

\* A repository that is not in the file is active only with a contract that
\* somebody other than its last assessor has approved as it is.  (A process that
\* died may have kept the event from the trail.)
ActiveWasApproved ==
    faults = 0 => \A r \in Active(Registry) \ Base :
        \E i, j \in DOMAIN events[r] :
            /\ i < j
            /\ events[r][i].type = "assessed"
            /\ events[r][j].type = "approved"
            /\ events[r][j].contract = Registry[r].contract
            /\ events[r][i].actor # events[r][j].actor
            /\ \A k \in i + 1 .. j - 1 :
                  events[r][k].type \in {"replaced", "approved", "smoke_failed"}

\* A repository that was suspended is assessed and approved afresh before it is
\* active again.
ResumptionIsFresh ==
    faults = 0 => \A r \in Repos : \A i, j \in DOMAIN events[r] :
        /\ i < j
        /\ events[r][i].type = "suspended"
        /\ events[r][j].type = "activated"
        => \E k, l \in i + 1 .. j - 1 : /\ k < l
                                        /\ events[r][k].type = "assessed"
                                        /\ events[r][l].type = "approved"

\* Between operations, unless a process died in one, the registry agrees with
\* the onboarding record on whether a repository is active.
RegistryAgrees ==
    faults = 0 /\ Unlocked =>
        \A r \in Repos : records[r].state # "none" =>
            (records[r].state = "active" <=> r \in Active(Registry))

\* The entry a task of a discovered repository works under was put in force by an
\* activation that had come to its end when the task was started: the trail has
\* it, by somebody other than the approver, right after the approval of that
\* contract by somebody other than the assessor.  (The command may have loaded
\* the registry in the middle of the activation, or long ago.)
TaskWasActivated ==
    faults = 0 => \A r \in Repos \ Base : tasks[r] # NoEntry =>
        \E i, j, k \in DOMAIN events[r] :
            /\ i < j /\ k = j + 1
            /\ events[r][i].type = "assessed"
            /\ events[r][j].type = "approved"
            /\ events[r][k].type = "activated"
            /\ events[r][j].contract = tasks[r].contract
            /\ events[r][k].contract = tasks[r].contract
            /\ events[r][i].actor # events[r][j].actor
            /\ events[r][j].actor # events[r][k].actor
            /\ \A n \in i + 1 .. j - 1 :
                  events[r][n].type \in {"replaced", "approved", "smoke_failed"}

\* Between operations a discovered repository that is active is worked on under
\* the contract that its record, and so the approval of it, names.  (Not from the
\* branch: a discover with an old registry renames the branch of the record
\* alone.  A repository of the file goes back to the contract of the file.  And
\* with several repositories only while commands do not overlap: an operation on
\* another repository writes an old entry of this one back.)
EntryIsApproved ==
    Unlocked => \A r \in Active(Registry) \ Base :
                   records[r].state = "active" =>
                      /\ Registry[r].contract = records[r].contract
                      /\ records[r].approver # records[r].assessor
=============================================================================
