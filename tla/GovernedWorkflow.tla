-------------------------- MODULE GovernedWorkflow --------------------------
(***************************************************************************)
(* One finding on its way through GovernedWorkflow (workflow.py) and the   *)
(* SQLite tables of WorkflowStore (store.py).                              *)
(*                                                                         *)
(* Nothing serialises the command-line processes here: an operation is     *)
(* several reads and transactions on connections of their own, and any     *)
(* other process may run between two of them.  Each process has one        *)
(* operation in progress, `op[p]`, and each read or transaction is an      *)
(* action.  WorkflowStore.transition is two: it reads the state and checks *)
(* the transition against it (Check), then updates the row whatever it has *)
(* become and appends the event (Write).                                   *)
(***************************************************************************)
EXTENDS Naturals, Sequences

CONSTANTS
    Processes,   \* command-line processes
    Actors,      \* actor names given on the command line
    NoActor,
    MaxRetries,  \* policy.workflow_max_retries
    MaxFaults    \* bound: processes that die, artifacts that are damaged

ASSUME ActorAssumption == NoActor \notin Actors
ASSUME BoundAssumption == MaxRetries \in Nat /\ MaxFaults \in Nat

VARIABLES
    item,        \* the row of work_items; state "absent" before ingestion
    planner,     \* the planner in the row of plans, NoActor if there is none
    approvals,   \* the rows of approvals
    executions,  \* the rows of executions
    artifacts,   \* the files on disk: attempt -> id of the execution that wrote
                 \* it last, 0 once it is damaged
    events,      \* the rows of events: their kind, who decided, executed or
                 \* validated, whether they say yes, and the index of the event
                 \* whose hash they took as previous_hash
    op,          \* the operation each process has in progress
    runs,        \* executions started so far, which numbers their ids
    faults       \* crashes and damages so far

vars == <<item, planner, approvals, executions, artifacts, events, op, runs,
          faults>>

-----------------------------------------------------------------------------
(* Data                                                                    *)

WORK_STATES ==
    {"new", "triaged", "planned", "awaiting_execution_approval", "approved",
     "executing", "validating", "awaiting_closure_approval", "closed",
     "manual_review", "failed"}

\* The pairs of the table.
ALLOWED_TRANSITIONS ==
    ({"triaged", "planned", "awaiting_execution_approval", "approved",
      "executing", "validating", "awaiting_closure_approval"}
        \X {"manual_review"})
    \cup ({"executing", "validating", "manual_review"}
            \X {"approved", "failed"})
    \cup ({"new", "manual_review", "failed"} \X {"triaged"})
    \cup ({"triaged", "manual_review"} \X {"planned"})
    \cup {<<"planned", "awaiting_execution_approval">>,
          <<"awaiting_execution_approval", "approved">>,
          <<"approved", "executing">>,
          <<"executing", "validating">>,
          <<"validating", "awaiting_closure_approval">>,
          <<"awaiting_closure_approval", "closed">>}

Decisions == {"approved", "rejected"}
NoDecision == [stage |-> "none", actor |-> NoActor, decision |-> "rejected"]

\* pc: where the operation is; from, to: its transition; next: what follows
\* that; attempt: the retry count the transition sets, 0 if it sets none;
\* approval: the decision to record; id: the execution; retries: the retry
\* count it has read; previous: the event whose hash it has read.
Idle == [pc |-> "idle", actor |-> NoActor, from |-> "new", to |-> "new",
         next |-> "idle", attempt |-> 0, approval |-> NoDecision, id |-> 0,
         retries |-> 0, previous |-> 0]

\* An operation of actor a at pc, and one about to make a transition.
At(pc, a) == [Idle EXCEPT !.pc = pc, !.actor = a]
Checking(a, to, next) == [At("check", a) EXCEPT !.to = to, !.next = next]

Goes(p, o) == op' = [op EXCEPT ![p] = o]

\* The event that follows the one at `previous`.  `positive` stands for what its
\* payload says: that the decision is an approval, that the validation passed.
\* Who ingested and planned is in `item` and `planner`; nobody asks who made a
\* transition.
Event(kind, actor, positive, previous) ==
    [kind |-> kind, actor |-> actor, positive |-> positive,
     previous |-> previous]

\* append_event within a transaction that has written: it holds the write lock
\* and sees the last event.
Logged(kind, actor, positive) ==
    events' = Append(events, Event(kind, actor, positive, Len(events)))

Granted(stage) == {i \in DOMAIN approvals :
                     /\ approvals[i].stage = stage
                     /\ approvals[i].decision = "approved"}

\* latest_execution orders by creation time, which is the order of the ids.
latest_execution ==
    CHOOSE e \in executions : \A f \in executions : f.id <= e.id

-----------------------------------------------------------------------------
(* WorkflowStore.transition                                                *)

\* Mutant: the table is not consulted.
CheckNothing(p) ==
    /\ op[p].pc = "check"
    /\ Goes(p, [op[p] EXCEPT !.pc = "write", !.from = item.state])
    /\ UNCHANGED <<item, planner, approvals, executions, artifacts, events,
                   runs, faults>>

\* The state is read on one connection.  A transition that is not allowed
\* raises, which ends the operation unless execute catches it (Fallback).
Check(p) ==
    /\ op[p].pc = "check"
    /\ IF <<item.state, op[p].to>> \in ALLOWED_TRANSITIONS
       THEN Goes(p, [op[p] EXCEPT !.pc = "write", !.from = item.state])
       ELSE IF op[p].to = "validating"
            THEN Goes(p, [op[p] EXCEPT !.pc = "fallback"])
            ELSE Goes(p, Idle)
    /\ UNCHANGED <<item, planner, approvals, executions, artifacts, events,
                   runs, faults>>

\* The row is updated on another connection, with the event.
Write(p) ==
    /\ op[p].pc = "write"
    /\ item' = [item EXCEPT
                  !.state = op[p].to,
                  !.retry_count = IF op[p].attempt = 0 THEN @
                                                       ELSE op[p].attempt]
    /\ Logged("state_transition", NoActor, TRUE)
    /\ Goes(p, CASE op[p].next = "await" ->
                        Checking(op[p].actor, "awaiting_execution_approval",
                                 "idle")
                 [] op[p].next = "reread" -> At("reread", op[p].actor)
                 [] OTHER -> Idle)
    /\ UNCHANGED <<planner, approvals, executions, artifacts, runs, faults>>

-----------------------------------------------------------------------------
(* Ingestion, triage and planning                                          *)

\* A finding that was ingested before is left alone.
Ingest(p, a) ==
    /\ op[p].pc = "idle"
    /\ item.state = "absent"
    /\ item' = [item EXCEPT !.state = "new", !.created_by = a]
    /\ Logged("work_item_created", NoActor, TRUE)
    /\ UNCHANGED <<planner, approvals, executions, artifacts, op, runs,
                   faults>>

\* get_work_item, when the state is the one the operation asks for.
Reads(p, state) == op[p].pc = "idle" /\ item.state = state

Triage(p, a) ==
    /\ op[p].pc = "idle"
    /\ item.state # "absent"
    /\ Goes(p, Checking(a, "triaged", "idle"))
    /\ UNCHANGED <<item, planner, approvals, executions, artifacts, events,
                   runs, faults>>

Plan(p, a) ==
    /\ Reads(p, "triaged")
    /\ Goes(p, At("save_plan", a))
    /\ UNCHANGED <<item, planner, approvals, executions, artifacts, events,
                   runs, faults>>

\* A second plan for the work item raises IntegrityError.
SavePlan(p) ==
    /\ op[p].pc = "save_plan"
    /\ IF planner = NoActor
       THEN /\ planner' = op[p].actor
            /\ Logged("plan_created", NoActor, TRUE)
            /\ Goes(p, Checking(op[p].actor, "planned", "await"))
       ELSE /\ Goes(p, Idle)
            /\ UNCHANGED <<planner, events>>
    /\ UNCHANGED <<item, approvals, executions, artifacts, runs, faults>>

-----------------------------------------------------------------------------
(* Approvals                                                               *)

\* The decision is recorded by AddApproval and acted on by a transition.
Deciding(a, stage, d, granted) ==
    [Checking(a, IF d = "approved" THEN granted ELSE "manual_review", "idle")
        EXCEPT !.pc = "record",
               !.approval = [stage |-> stage, actor |-> a, decision |-> d]]

\* The plan is never replaced, so reading it is part of this step.
ApproveExecution(p, a, d) ==
    /\ Reads(p, "awaiting_execution_approval")
    /\ a \notin {item.created_by, planner}
    /\ Goes(p, Deciding(a, "execution", d, "approved"))
    /\ UNCHANGED <<item, planner, approvals, executions, artifacts, events,
                   runs, faults>>

ApproveClosure(p, a, d) ==
    /\ Reads(p, "awaiting_closure_approval")
    /\ a # item.created_by
    /\ Goes(p, [Deciding(a, "closure", d, "closed") EXCEPT !.pc = "read_prior"])
    /\ UNCHANGED <<item, planner, approvals, executions, artifacts, events,
                   runs, faults>>

\* Mutant: the executor is not a prior actor.
ReadPriorActorsButExecutor(p) ==
    /\ op[p].pc = "read_prior"
    /\ IF op[p].actor \in {approvals[i].actor : i \in DOMAIN approvals}
       THEN Goes(p, Idle)
       ELSE Goes(p, [op[p] EXCEPT !.pc = "record"])
    /\ UNCHANGED <<item, planner, approvals, executions, artifacts, events,
                   runs, faults>>

\* Mutant: those who approved are not prior actors.
ReadPriorActorsButApprovers(p) ==
    /\ op[p].pc = "read_prior"
    /\ IF op[p].actor \in {latest_execution.actor}
       THEN Goes(p, Idle)
       ELSE Goes(p, [op[p] EXCEPT !.pc = "record"])
    /\ UNCHANGED <<item, planner, approvals, executions, artifacts, events,
                   runs, faults>>

ReadPriorActors(p) ==
    /\ op[p].pc = "read_prior"
    /\ IF op[p].actor \in {approvals[i].actor : i \in DOMAIN approvals}
                            \cup {latest_execution.actor}
       THEN Goes(p, Idle)
       ELSE Goes(p, [op[p] EXCEPT !.pc = "record"])
    /\ UNCHANGED <<item, planner, approvals, executions, artifacts, events,
                   runs, faults>>

AddApproval(p) ==
    /\ op[p].pc = "record"
    /\ approvals' = Append(approvals, op[p].approval)
    /\ Logged(IF op[p].approval.stage = "execution" THEN "execution_approval"
                                                   ELSE "closure_approval",
              op[p].actor, op[p].approval.decision = "approved")
    /\ Goes(p, [op[p] EXCEPT !.pc = "check"])
    /\ UNCHANGED <<item, planner, executions, artifacts, runs, faults>>

-----------------------------------------------------------------------------
(* Execution and validation                                                *)

Execute(p, a) ==
    /\ Reads(p, "approved")
    /\ Goes(p, At("read_approvals", a))
    /\ UNCHANGED <<item, planner, approvals, executions, artifacts, events,
                   runs, faults>>

\* Mutant: the approver may execute.
ReadApprovalsOfAnyone(p) ==
    /\ op[p].pc = "read_approvals"
    /\ LET granted == Granted("execution")
           mayRun == granted # {}
       IN  Goes(p, IF mayRun THEN Checking(op[p].actor, "executing", "reread")
                             ELSE Idle)
    /\ UNCHANGED <<item, planner, approvals, executions, artifacts, events,
                   runs, faults>>

ReadApprovals(p) ==
    /\ op[p].pc = "read_approvals"
    /\ LET granted == Granted("execution")
           mayRun == \E last \in granted :
                        /\ \A i \in granted : i <= last
                        /\ op[p].actor # approvals[last].actor
       IN  Goes(p, IF mayRun THEN Checking(op[p].actor, "executing", "reread")
                             ELSE Idle)
    /\ UNCHANGED <<item, planner, approvals, executions, artifacts, events,
                   runs, faults>>

\* Mutant: attempts are counted from zero.
RereadFromZero(p) ==
    /\ op[p].pc = "reread"
    /\ Goes(p, [op[p] EXCEPT !.pc = "run", !.attempt = item.retry_count])
    /\ UNCHANGED <<item, planner, approvals, executions, artifacts, events,
                   runs, faults>>

\* The row is read again after the transition; the attempt follows from it.
Reread(p) ==
    /\ op[p].pc = "reread"
    /\ Goes(p, [op[p] EXCEPT !.pc = "run", !.attempt = item.retry_count + 1])
    /\ UNCHANGED <<item, planner, approvals, executions, artifacts, events,
                   runs, faults>>

\* SafeExecutor.execute writes the artifact of the attempt.
RunTool(p) ==
    /\ op[p].pc = "run"
    /\ runs' = runs + 1
    /\ artifacts' = [n \in DOMAIN artifacts \cup {op[p].attempt} |->
                        IF n = op[p].attempt THEN runs + 1 ELSE artifacts[n]]
    /\ Goes(p, [op[p] EXCEPT !.pc = "add_execution", !.id = runs + 1])
    /\ UNCHANGED <<item, planner, approvals, executions, events, faults>>

AddExecution(p) ==
    /\ op[p].pc = "add_execution"
    /\ executions' = executions \cup
          {[actor |-> op[p].actor, attempt |-> op[p].attempt, id |-> op[p].id]}
    /\ Logged("execution_recorded", op[p].actor, TRUE)
    /\ Goes(p, [op[p] EXCEPT !.pc = "check", !.to = "validating",
                             !.next = "idle"])
    /\ UNCHANGED <<item, planner, approvals, artifacts, runs, faults>>

\* Anything the tool or the store raises inside the try is caught.
ExecutionFails(p) ==
    /\ \/ op[p].pc \in {"run", "add_execution"}
       \/ op[p].pc \in {"check", "write"} /\ op[p].to = "validating"
    /\ Goes(p, [op[p] EXCEPT !.pc = "fallback"])
    /\ UNCHANGED <<item, planner, approvals, executions, artifacts, events,
                   runs, faults>>

\* Mutant: a retry stays in executing, which the table does not allow.
FallbackInPlace(p) ==
    /\ op[p].pc = "fallback"
    /\ Goes(p, [op[p] EXCEPT
                  !.pc = "check",
                  !.to = IF op[p].attempt < MaxRetries THEN "executing"
                                                       ELSE "manual_review",
                  !.next = "idle"])
    /\ UNCHANGED <<item, planner, approvals, executions, artifacts, events,
                   runs, faults>>

\* Mutant: one attempt too many.
FallbackOneMore(p) ==
    /\ op[p].pc = "fallback"
    /\ Goes(p, [op[p] EXCEPT
                  !.pc = "check",
                  !.to = IF op[p].attempt <= MaxRetries THEN "approved"
                                                       ELSE "manual_review",
                  !.next = "idle"])
    /\ UNCHANGED <<item, planner, approvals, executions, artifacts, events,
                   runs, faults>>

\* The except branch of execute: retry or manual review.
Fallback(p) ==
    /\ op[p].pc = "fallback"
    /\ Goes(p, [op[p] EXCEPT
                  !.pc = "check",
                  !.to = IF op[p].attempt < MaxRetries THEN "approved"
                                                       ELSE "manual_review",
                  !.next = "idle"])
    /\ UNCHANGED <<item, planner, approvals, executions, artifacts, events,
                   runs, faults>>

Validate(p, a) ==
    /\ Reads(p, "validating")
    /\ Goes(p, [At("validate", a) EXCEPT !.retries = item.retry_count])
    /\ UNCHANGED <<item, planner, approvals, executions, artifacts, events,
                   runs, faults>>

\* Mutant: the executor may validate.
ReadExecutionOfAnyone(p) ==
    /\ op[p].pc = "validate"
    /\ LET result == latest_execution
           passed == artifacts[result.attempt] = result.id
           to == IF passed THEN "awaiting_closure_approval"
                 ELSE IF op[p].retries < MaxRetries THEN "approved"
                 ELSE "manual_review"
       IN  Goes(p, [op[p] EXCEPT !.pc = "read_last", !.to = to])
    /\ UNCHANGED <<item, planner, approvals, executions, artifacts, events,
                   runs, faults>>

\* The digest of the artifact is compared with the one the execution recorded.
ReadExecution(p) ==
    /\ op[p].pc = "validate"
    /\ LET result == latest_execution
           passed == artifacts[result.attempt] = result.id
           to == IF passed THEN "awaiting_closure_approval"
                 ELSE IF op[p].retries < MaxRetries THEN "approved"
                 ELSE "manual_review"
       IN  Goes(p, IF op[p].actor = result.actor THEN Idle
                   ELSE [op[p] EXCEPT !.pc = "read_last", !.to = to])
    /\ UNCHANGED <<item, planner, approvals, executions, artifacts, events,
                   runs, faults>>

\* append_event on its own connection: the SELECT takes no lock, the INSERT
\* comes after it.
ReadLastEvent(p) ==
    /\ op[p].pc = "read_last"
    /\ Goes(p, [op[p] EXCEPT !.pc = "insert_event", !.previous = Len(events)])
    /\ UNCHANGED <<item, planner, approvals, executions, artifacts, events,
                   runs, faults>>

InsertEvent(p) ==
    /\ op[p].pc = "insert_event"
    /\ events' = Append(events, Event("validation_completed", op[p].actor,
                                     op[p].to = "awaiting_closure_approval",
                                     op[p].previous))
    /\ Goes(p, [op[p] EXCEPT !.pc = "check", !.previous = 0])
    /\ UNCHANGED <<item, planner, approvals, executions, artifacts, runs,
                   faults>>

-----------------------------------------------------------------------------
(* Failures                                                                *)

\* The process dies, or a statement raises outside the try of execute.
Crash(p) ==
    /\ op[p].pc # "idle"
    /\ faults < MaxFaults
    /\ faults' = faults + 1
    /\ Goes(p, Idle)
    /\ UNCHANGED <<item, planner, approvals, executions, artifacts, events,
                   runs>>

\* The artifact of an attempt is changed or removed.
Damage(n) ==
    /\ artifacts[n] # 0
    /\ faults < MaxFaults
    /\ faults' = faults + 1
    /\ artifacts' = [artifacts EXCEPT ![n] = 0]
    /\ UNCHANGED <<item, planner, approvals, executions, events, op, runs>>

-----------------------------------------------------------------------------
Init ==
    /\ item = [state |-> "absent", created_by |-> NoActor, retry_count |-> 0]
    /\ planner = NoActor
    /\ approvals = <<>>
    /\ executions = {}
    /\ artifacts = <<>>
    /\ events = <<>>
    /\ op = [p \in Processes |-> Idle]
    /\ runs = 0
    /\ faults = 0

Continue(p) ==
    \/ Check(p) \/ Write(p) \/ SavePlan(p) \/ ReadPriorActors(p)
    \/ AddApproval(p) \/ ReadApprovals(p) \/ Reread(p) \/ RunTool(p)
    \/ AddExecution(p) \/ ExecutionFails(p) \/ Fallback(p)
    \/ ReadExecution(p) \/ ReadLastEvent(p) \/ InsertEvent(p)

Begin(p, a) ==
    \/ Ingest(p, a) \/ Triage(p, a) \/ Plan(p, a) \/ Execute(p, a)
    \/ Validate(p, a)
    \/ \E d \in Decisions : ApproveExecution(p, a, d) \/ ApproveClosure(p, a, d)

Next ==
    \/ \E p \in Processes :
          \/ \E a \in Actors : Begin(p, a)
          \/ Continue(p)
          \/ Crash(p)
    \/ \E n \in DOMAIN artifacts : Damage(n)

Spec == Init /\ [][Next]_vars

\* A process that is not killed runs on; its tool does not fail for ever by
\* assumption, it runs out of attempts.  Everybody who may execute or validate
\* gets round to trying.
FairSpec ==
    /\ Spec
    /\ \A p \in Processes :
          /\ WF_vars(Continue(p))
          /\ \A a \in Actors :
                /\ SF_vars(Execute(p, a))
                /\ SF_vars(Validate(p, a))

-----------------------------------------------------------------------------
(* Properties                                                              *)

PCs == {"idle", "check", "write", "save_plan", "record", "read_prior",
        "read_approvals", "reread", "run", "add_execution", "fallback",
        "validate", "read_last", "insert_event"}
People == Actors \cup {NoActor}
Approvals == [stage : {"execution", "closure"}, actor : Actors,
              decision : Decisions]

\* The rows and the operations in progress have their types; every execution
\* on record, and the one that is about to be validated, has written its file.
TypeOK ==
    /\ item \in [state : WORK_STATES \cup {"absent"}, created_by : People,
                 retry_count : Nat]
    /\ planner \in People
    /\ \A i \in DOMAIN approvals : approvals[i] \in Approvals
    /\ \A e \in executions : /\ e.actor \in Actors
                             /\ e.attempt \in DOMAIN artifacts
                             /\ e.id \in 1 .. runs
    /\ \A n \in DOMAIN artifacts : n \in Nat \ {0} /\ artifacts[n] \in 0 .. runs
    /\ \A i \in DOMAIN events : events[i].previous \in 0 .. i - 1
    /\ \A p \in Processes :
          /\ op[p].pc \in PCs
          /\ op[p].actor \in People
          /\ op[p].to \in WORK_STATES /\ op[p].from \in WORK_STATES
          /\ op[p].attempt \in Nat
          /\ op[p].to = "validating" => op[p].attempt \in DOMAIN artifacts

\* Every execution has been approved by somebody who neither ingested the
\* finding nor planned its remediation nor runs the execution.
ExecutionSeparation ==
    \A e \in executions :
        \E i \in Granted("execution") :
            approvals[i].actor \notin {e.actor, item.created_by, planner}

\* No attempt is beyond the retry budget and none is made twice.
WithinBudget ==
    /\ item.retry_count <= MaxRetries
    /\ \A e \in executions : /\ e.attempt <= MaxRetries
                             /\ \A f \in executions :
                                   e.attempt = f.attempt => e = f

\* A closed item has an execution that passed validation after it was recorded,
\* and its last decision is an approval of the closure by somebody who did not
\* ingest the finding, approve an execution or run the last one.  Who planned it
\* or ran an earlier one may close it (approve_closure asks for neither).
ClosedIsEvidenced ==
    item.state = "closed" =>
        /\ executions # {}
        /\ \E i \in DOMAIN events :
              /\ events[i].kind = "validation_completed" /\ events[i].positive
              /\ \A j \in i .. Len(events) :
                    events[j].kind # "execution_recorded"
        /\ LET closure == approvals[Len(approvals)]
           IN  /\ closure.stage = "closure"
               /\ closure.decision = "approved"
               /\ closure.actor \notin
                    {approvals[i].actor : i \in 1 .. Len(approvals) - 1}
                        \cup {item.created_by, latest_execution.actor}

\* An item changes state only as the table allows.
TransitionsAllowed ==
    [][\/ item'.state = item.state
       \/ item.state = "absent" /\ item'.state = "new"
       \/ <<item.state, item'.state>> \in ALLOWED_TRANSITIONS]_vars

\* Two people, neither of whom ingested the finding, have decided by the time an
\* item is closed: one on its execution and the other on its closure.
TwoPeopleDecided ==
    item.state = "closed" =>
        \E i \in Granted("execution"), j \in Granted("closure") :
            /\ approvals[i].actor # approvals[j].actor
            /\ item.created_by \notin {approvals[i].actor, approvals[j].actor}

\* The events of a kind that say yes.
Saying(kind) == {i \in DOMAIN events :
                    events[i].kind = kind /\ events[i].positive}

\* The events of a closed item tell, in this order, of an approval to execute,
\* of an execution by somebody else, of a validation it passed by somebody else
\* again, and of an approval of the closure by somebody who did not give the
\* first one: however many processes read, decide, execute and validate at once.
ClosureIsLogged ==
    item.state = "closed" =>
        \E approved \in Saying("execution_approval"),
           executed \in Saying("execution_recorded"),
           validated \in Saying("validation_completed"),
           closed \in Saying("closure_approval") :
              /\ approved < executed /\ executed < validated /\ validated < closed
              /\ events[executed].actor # events[approved].actor
              /\ events[executed].actor # events[validated].actor
              /\ events[closed].actor # events[approved].actor

\* The process that was executing an item is gone, and the item is still in
\* its hands.
DiedExecuting ==
    /\ item.state = "executing"
    /\ faults > 0
    /\ \A p \in Processes : op[p].pc = "idle"

\* An approved item is executed until it awaits closure or manual review; only
\* the death of the process that executes it stops it on the way.
RetriesEnd ==
    item.state = "approved" ~>
        \/ item.state \in {"awaiting_closure_approval", "manual_review"}
        \/ DiedExecuting
=============================================================================
