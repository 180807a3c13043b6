---------------------- MODULE GovernedWorkflowProofs -----------------------
(* For every set of processes and actors and every retry budget: that the  *)
(* duties of one work item are kept apart however many processes work on   *)
(* it (ExecutionSeparation, TwoPeopleDecided), its events show it          *)
(* (ClosureIsLogged) and its rows keep their types, and that a single      *)
(* process, whatever fails, keeps its budget, its evidence and its table   *)
(* of transitions.                                                         *)
EXTENDS GovernedWorkflow, TLAPS

Decision == [stage : {"execution", "closure", "none"}, actor : People,
             decision : Decisions]

Operation == [pc : PCs, actor : People, from : WORK_STATES, to : WORK_STATES,
              next : {"idle", "await", "reread"}, attempt : Nat,
              approval : Decision, id : Nat, retries : Nat, previous : Nat]

Kinds == {"work_item_created", "state_transition", "plan_created",
          "execution_approval", "closure_approval", "execution_recorded",
          "validation_completed"}
Events == [kind : Kinds, actor : People, positive : BOOLEAN, previous : Nat]

\* The part of TypeOK that needs no bound, of the variables the proof is about.
Types ==
    /\ item \in [state : WORK_STATES \cup {"absent"}, created_by : People,
                 retry_count : Nat]
    /\ planner \in People
    /\ approvals \in Seq(Approvals)
    /\ op \in [Processes -> Operation]
    /\ events \in Seq(Events)
    /\ runs \in Nat

\* Somebody other than a has approved the execution.
Approved(a) == \E i \in Granted("execution") : approvals[i].actor # a

Decided ==
    \E i \in Granted("execution"), j \in Granted("closure") :
        /\ approvals[i].actor # approvals[j].actor
        /\ item.created_by \notin {approvals[i].actor, approvals[j].actor}

Reviewable == {"validating", "awaiting_closure_approval", "closed"}

\* What the rows of the tables have to do with each other.
RowsInv ==
    /\ planner = NoActor =>
          /\ approvals = <<>>
          /\ executions = {}
          /\ item.state \in {"absent", "new", "triaged"}
    /\ item.state = "absent" => planner = NoActor
    /\ item.state \in Reviewable => executions # {}
    /\ item.state = "closed" => Decided
    /\ \A i \in Granted("execution") :
          approvals[i].actor \notin {item.created_by, planner}
    /\ \A e \in executions : Approved(e.actor)

\* What an operation in progress has established by its last read, and which
\* no other process can take back.
OpInv(p) ==
    /\ op[p].pc = "idle" => op[p] = Idle
    /\ op[p].pc # "idle" => op[p].actor \in Actors /\ item.state # "absent"
    /\ planner = NoActor =>
          \/ op[p].pc \in {"idle", "save_plan"}
          \/ /\ op[p].pc \in {"check", "write"}
             /\ op[p].to = "triaged"
             /\ op[p].next = "idle"
    /\ op[p].next = "reread" \/ op[p].pc \in {"reread", "run", "add_execution"}
          => Approved(op[p].actor)
    /\ op[p].pc \in {"validate", "read_prior"} \/ op[p].to \in Reviewable
          => executions # {}
    /\ op[p].pc \in {"read_prior", "record"} =>
          /\ op[p].approval \in Approvals
          /\ op[p].approval.actor = op[p].actor
          /\ op[p].actor # item.created_by
          /\ op[p].to = "closed" => /\ op[p].approval.stage = "closure"
                                    /\ op[p].approval.decision = "approved"
    /\ op[p].pc = "read_prior" => op[p].approval.stage = "closure"
    /\ op[p].pc = "record" /\ op[p].approval.stage = "execution" =>
          op[p].actor # planner
    /\ op[p].pc = "record" /\ op[p].approval.stage = "closure" =>
          Approved(op[p].actor)
    /\ op[p].to = "closed" => op[p].pc \in {"read_prior", "record", "check",
                                            "write"}
    /\ op[p].to = "closed" /\ op[p].pc \in {"check", "write"} => Decided

SeparationInv == Types /\ RowsInv /\ \A p \in Processes : OpInv(p)

-----------------------------------------------------------------------------
\* The states an operation may be about to enter are states, and no decision
\* is the one of a person.
LEMMA OperationTypes ==
    /\ Idle \in Operation
    /\ NoActor \in People
    /\ \A a \in Actors, pc \in PCs : At(pc, a) \in Operation
    /\ \A a \in Actors, to \in WORK_STATES, next \in {"idle","await","reread"} :
          Checking(a, to, next) \in Operation
<1>1. NoDecision \in Decision /\ NoActor \in People /\ Actors \subseteq People
  BY DEF NoDecision, Decision, Decisions, People
<1>2. Idle \in Operation
  BY <1>1 DEF Idle, Operation, PCs, WORK_STATES
<1>3. ASSUME NEW a \in Actors, NEW pc \in PCs PROVE At(pc, a) \in Operation
  BY <1>1, <1>2, <1>3 DEF At, Operation
<1>4. ASSUME NEW a \in Actors, NEW to \in WORK_STATES,
             NEW next \in {"idle", "await", "reread"}
      PROVE  Checking(a, to, next) \in Operation
  <2>1. At("check", a) \in Operation
    BY <1>3, <1>4 DEF PCs
  <2> QED
    BY <2>1, <1>4 DEF Checking, Operation
<1> QED
  BY <1>1, <1>2, <1>3, <1>4

\* The names the actions use are names of places and of states.
LEMMA Names ==
    /\ "write" \in PCs /\ "fallback" \in PCs /\ "record" \in PCs
    /\ "read_prior" \in PCs /\ "run" \in PCs /\ "check" \in PCs
    /\ "read_last" \in PCs /\ "insert_event" \in PCs
    /\ "add_execution" \in PCs
    /\ "approved" \in WORK_STATES /\ "manual_review" \in WORK_STATES
    /\ "awaiting_closure_approval" \in WORK_STATES
    /\ "validating" \in WORK_STATES /\ "planned" \in WORK_STATES
    /\ "work_item_created" \in Kinds /\ "state_transition" \in Kinds
    /\ "plan_created" \in Kinds /\ "execution_approval" \in Kinds
    /\ "closure_approval" \in Kinds
    /\ "execution_recorded" \in Kinds /\ "validation_completed" \in Kinds
BY DEF PCs, WORK_STATES, Kinds

\* Nothing has happened before ingestion.
LEMMA SeparationInit == Init => SeparationInv
<1> SUFFICES ASSUME Init PROVE SeparationInv
  OBVIOUS
<1> USE OperationTypes
<1>1. Types
  BY DEF Init, Types, WORK_STATES, People
<1>2. RowsInv
  BY DEF Init, RowsInv, Granted, Reviewable
<1>3. ASSUME NEW p \in Processes PROVE OpInv(p)
  BY <1>3 DEF Init, OpInv, Idle, Reviewable
<1> QED
  BY <1>1, <1>2, <1>3 DEF SeparationInv

\* A step of one process that leaves the rows alone keeps what the others have
\* established.
LEMMA LocalStep ==
    ASSUME SeparationInv, NEW p \in Processes,
           UNCHANGED <<item, planner, approvals, executions>>,
           runs' \in Nat, events' \in Seq(Events),
           op' \in [Processes -> Operation],
           \A q \in Processes \ {p} : op'[q] = op[q],
           OpInv(p)'
    PROVE  SeparationInv'
<1>1. Types'
  BY DEF SeparationInv, Types
<1>2. RowsInv'
  BY DEF SeparationInv, RowsInv, Granted, Approved, Decided
<1>3. ASSUME NEW q \in Processes PROVE OpInv(q)'
  <2>1. CASE q = p
    BY <2>1
  <2>2. CASE q # p
    <3>1. OpInv(q) /\ op'[q] = op[q]
      BY <2>2, <1>3 DEF SeparationInv
    <3> QED
      BY <3>1 DEF OpInv, Granted, Approved, Decided
  <2> QED
    BY <2>1, <2>2
<1> QED
  BY <1>1, <1>2, <1>3 DEF SeparationInv

\* An approval appended to the others takes nothing back.
LEMMA ApprovalsGrow ==
    ASSUME approvals \in Seq(Approvals), NEW r \in Approvals,
           approvals' = Append(approvals, r), item' = item
    PROVE  /\ \A a : Approved(a) => Approved(a)'
           /\ Decided => Decided'
           /\ Granted("execution")' \subseteq
                 Granted("execution") \cup {Len(approvals) + 1}
<1>1. DOMAIN approvals' = 1 .. Len(approvals) + 1
  OBVIOUS
<1>2. \A i \in DOMAIN approvals : i \in DOMAIN approvals'
                                  /\ approvals'[i] = approvals[i]
  OBVIOUS
<1>3. \A stage : Granted(stage) \subseteq Granted(stage)'
  BY <1>2 DEF Granted
<1>4. Granted("execution")' \subseteq
         Granted("execution") \cup {Len(approvals) + 1}
  BY <1>1, <1>2 DEF Granted
<1>5. \A stage : Granted(stage) \subseteq DOMAIN approvals
  BY DEF Granted
<1>6. ASSUME NEW a, Approved(a) PROVE Approved(a)'
  BY <1>6, <1>2, <1>3, <1>5 DEF Approved
<1>7. ASSUME Decided PROVE Decided'
  BY <1>7, <1>2, <1>3, <1>5 DEF Decided
<1> QED
  BY <1>4, <1>6, <1>7

\* The reads and checks, which change the operation only.
LEMMA Reading ==
    ASSUME SeparationInv, NEW p \in Processes,
           \/ \E a \in Actors :
                 \/ Triage(p, a) \/ Plan(p, a) \/ Execute(p, a)
                 \/ Validate(p, a)
                 \/ \E d \in Decisions :
                       ApproveExecution(p, a, d) \/ ApproveClosure(p, a, d)
           \/ Check(p) \/ ReadPriorActors(p) \/ ReadApprovals(p)
           \/ Reread(p) \/ ExecutionFails(p) \/ Fallback(p)
           \/ ReadExecution(p) \/ ReadLastEvent(p) \/ Crash(p)
    PROVE  SeparationInv'
<1> USE OperationTypes, Names
<1>0. /\ Types /\ RowsInv /\ OpInv(p)
      /\ op[p] \in Operation
      /\ op[p].pc # "idle" => op[p].actor \in Actors
  BY DEF SeparationInv, Types, OpInv
<1>1. /\ UNCHANGED <<item, planner, approvals, executions>>
      /\ \E o : Goes(p, o)
      /\ UNCHANGED <<runs, events>>
  BY DEF Triage, Plan, Execute, Validate, ApproveExecution, ApproveClosure,
         Check, ReadPriorActors, ReadApprovals, Reread, ExecutionFails,
         Fallback, ReadExecution, ReadLastEvent, Crash
<1>2. /\ \A q \in Processes \ {p} : op'[q] = op[q]
      /\ op' = [op EXCEPT ![p] = op'[p]]
  BY <1>0, <1>1 DEF Types, Goes
<1>3. ASSUME op'[p] \in Operation, OpInv(p)' PROVE SeparationInv'
  <2>1. op' \in [Processes -> Operation]
    BY <1>0, <1>2, <1>3 DEF Types
  <2>2. runs' \in Nat /\ events' \in Seq(Events)
    BY <1>0, <1>1 DEF Types
  <2> QED
    BY <2>1, <2>2, <1>1, <1>2, <1>3, LocalStep
<1>4. ASSUME op'[p] = Idle PROVE SeparationInv'
  <2>1. OpInv(p)'
    BY <1>4 DEF OpInv, Idle, Reviewable
  <2> QED
    BY <2>1, <1>3, <1>4
\* A read that leaves the rows alone changes nothing they say.
<1>5. /\ \A a : Approved(a)' <=> Approved(a)
      /\ Decided' <=> Decided
  BY <1>1 DEF Approved, Decided, Granted
<1>6. ASSUME NEW a \in Actors, Triage(p, a) PROVE SeparationInv'
  <2>1. op'[p] = Checking(a, "triaged", "idle")
    BY <1>6, <1>0 DEF Triage, Goes, Types
  <2>2. /\ op'[p] \in Operation
        /\ op'[p].pc = "check" /\ op'[p].to = "triaged" /\ op'[p].actor = a
        /\ op'[p].next = "idle"
    BY <2>1 DEF Checking, At, Idle, WORK_STATES
  <2>3. OpInv(p)'
    BY <2>2, <1>6, <1>1 DEF OpInv, Triage, Reviewable
  <2> QED
    BY <2>2, <2>3, <1>3
<1>7. ASSUME NEW a \in Actors, Plan(p, a) PROVE SeparationInv'
  <2>1. op'[p] = At("save_plan", a)
    BY <1>7, <1>0 DEF Plan, Goes, Types
  <2>2. /\ op'[p] \in Operation
        /\ op'[p].pc = "save_plan" /\ op'[p].actor = a
        /\ op'[p].to = "new" /\ op'[p].next = "idle"
    BY <2>1 DEF At, Idle, PCs
  <2>3. OpInv(p)'
    BY <2>2, <1>7, <1>1 DEF OpInv, Plan, Reads, Reviewable
  <2> QED
    BY <2>2, <2>3, <1>3
<1>8. ASSUME NEW a \in Actors, Execute(p, a) PROVE SeparationInv'
  <2>1. op'[p] = At("read_approvals", a)
    BY <1>8, <1>0 DEF Execute, Goes, Types
  <2>2. /\ op'[p] \in Operation
        /\ op'[p].pc = "read_approvals" /\ op'[p].actor = a
        /\ op'[p].to = "new" /\ op'[p].next = "idle"
    BY <2>1 DEF At, Idle, PCs
  <2>3. OpInv(p)'
    BY <2>2, <1>8, <1>0, <1>1 DEF OpInv, RowsInv, Execute, Reads, Reviewable
  <2> QED
    BY <2>2, <2>3, <1>3
<1>9. ASSUME NEW a \in Actors, Validate(p, a) PROVE SeparationInv'
  <2>1. op'[p] = [At("validate", a) EXCEPT !.retries = item.retry_count]
    BY <1>9, <1>0 DEF Validate, Goes, Types
  <2>2. At("validate", a) \in Operation /\ item.retry_count \in Nat
    BY <1>0 DEF PCs, Types
  <2>3. /\ op'[p] \in Operation
        /\ op'[p].pc = "validate" /\ op'[p].actor = a
        /\ op'[p].to = "new" /\ op'[p].next = "idle"
    <3>1. op'[p] \in Operation
      BY <2>1, <2>2 DEF Operation
    <3> QED
      BY <3>1, <2>1 DEF At, Idle
  <2>4. OpInv(p)'
    BY <2>3, <1>9, <1>0, <1>1 DEF OpInv, RowsInv, Validate, Reads, Reviewable
  <2> QED
    BY <2>3, <2>4, <1>3
<1>10. ASSUME NEW a \in Actors, NEW d \in Decisions, ApproveExecution(p, a, d)
       PROVE  SeparationInv'
  <2> DEFINE to == IF d = "approved" THEN "approved" ELSE "manual_review"
             o == Checking(a, to, "idle")
             r == [stage |-> "execution", actor |-> a, decision |-> d]
  <2>1. op'[p] = [o EXCEPT !.pc = "record", !.approval = r]
    BY <1>10, <1>0 DEF ApproveExecution, Deciding, Goes, Types
  <2>2. o \in Operation /\ r \in Approvals /\ r \in Decision
    BY DEF WORK_STATES, Approvals, Decision, People
  <2>3. /\ op'[p].pc = "record" /\ op'[p].actor = a /\ op'[p].next = "idle"
        /\ op'[p].to = to /\ op'[p].approval = r
    BY <2>1 DEF Checking, At, Idle
  <2>4. op'[p] \in Operation
    <3> HIDE DEF o, r
    <3> QED
      BY <2>1, <2>2 DEF Operation
  <2>5. a \notin {item.created_by, planner} /\ item.state # "absent"
    BY <1>10 DEF ApproveExecution, Reads
  <2>6. planner # NoActor
    BY <1>10, <1>0 DEF ApproveExecution, Reads, RowsInv
  <2> HIDE DEF r
  <2>7. r.actor = a /\ r.stage = "execution"
    BY DEF r
  <2>8. OpInv(p)'
    BY <2>2, <2>3, <2>5, <2>6, <2>7, <1>1 DEF OpInv, Reviewable
  <2> QED
    BY <2>4, <2>8, <1>3
<1>11. ASSUME NEW a \in Actors, NEW d \in Decisions, ApproveClosure(p, a, d)
       PROVE  SeparationInv'
  <2> DEFINE to == IF d = "approved" THEN "closed" ELSE "manual_review"
             o == Checking(a, to, "idle")
             r == [stage |-> "closure", actor |-> a, decision |-> d]
  <2>1. op'[p] = [o EXCEPT !.pc = "read_prior", !.approval = r]
    <3>1. op'[p] = [[o EXCEPT !.pc = "record", !.approval = r]
                      EXCEPT !.pc = "read_prior"]
      BY <1>11, <1>0 DEF ApproveClosure, Deciding, Goes, Types
    <3> QED
      BY <3>1
  <2>2. o \in Operation /\ r \in Approvals /\ r \in Decision
    BY DEF WORK_STATES, Approvals, Decision, People
  <2>3. /\ op'[p].pc = "read_prior" /\ op'[p].actor = a
        /\ op'[p].next = "idle" /\ op'[p].to = to /\ op'[p].approval = r
    BY <2>1 DEF Checking, At, Idle
  <2>4. op'[p] \in Operation
    <3> HIDE DEF o, r
    <3> QED
      BY <2>1, <2>2 DEF Operation
  <2>5. /\ a # item.created_by /\ item.state # "absent"
        /\ planner # NoActor /\ executions # {}
    BY <1>11, <1>0 DEF ApproveClosure, Reads, RowsInv, Reviewable
  <2> HIDE DEF r
  <2>7. r.actor = a /\ r.stage = "closure" /\ (to = "closed" => r.decision = "approved")
    BY DEF r
  <2>8. OpInv(p)'
    BY <2>2, <2>3, <2>5, <2>7, <1>1 DEF OpInv
  <2> QED
    BY <2>4, <2>8, <1>3
<1>12. ASSUME Check(p) PROVE SeparationInv'
  <2>1. CASE op'[p] = [op[p] EXCEPT !.pc = "write", !.from = item.state]
             /\ item.state # "absent"
    <3>0. item.state \in WORK_STATES
      BY <2>1, <1>0 DEF Types
    <3>1. op'[p] \in Operation
      BY <2>1, <3>0, <1>0 DEF Operation
    <3>2. /\ op'[p].pc = "write" /\ op'[p].actor = op[p].actor
          /\ op'[p].to = op[p].to /\ op'[p].next = op[p].next
          /\ op'[p].approval = op[p].approval
      BY <2>1, <1>0 DEF Operation
    <3>3. OpInv(p)'
      BY <3>2, <1>12, <1>0, <1>1, <1>5 DEF OpInv, Check
    <3> QED
      BY <3>1, <3>3, <1>3
  <2>2. CASE op'[p] = [op[p] EXCEPT !.pc = "fallback"] /\ op[p].to = "validating"
    <3>1. op'[p] \in Operation
      BY <2>2, <1>0 DEF Operation
    <3>2. /\ op'[p].pc = "fallback" /\ op'[p].actor = op[p].actor
          /\ op'[p].to = op[p].to /\ op'[p].next = op[p].next
          /\ op'[p].approval = op[p].approval
      BY <2>2, <1>0 DEF Operation
    <3>3. OpInv(p)'
      BY <2>2, <3>2, <1>12, <1>0, <1>1, <1>5 DEF OpInv, Check
    <3> QED
      BY <3>1, <3>3, <1>3
  <2>3. item.state # "absent"
    BY <1>12, <1>0 DEF Check, OpInv
  <2> QED
    BY <2>1, <2>2, <2>3, <1>4, <1>12, <1>0 DEF Check, Goes, Types
<1>13. ASSUME ReadPriorActors(p) PROVE SeparationInv'
  <2>1. CASE /\ op'[p] = [op[p] EXCEPT !.pc = "record"]
             /\ op[p].actor \notin {approvals[i].actor : i \in DOMAIN approvals}
    <3>1. op'[p] \in Operation
      BY <2>1, <1>0 DEF Operation
    <3>2. /\ op'[p].pc = "record" /\ op'[p].actor = op[p].actor
          /\ op'[p].to = op[p].to /\ op'[p].next = op[p].next
          /\ op'[p].approval = op[p].approval
      BY <2>1, <1>0 DEF Operation
    <3>3. op[p].pc = "read_prior" /\ executions # {}
      BY <1>13, <1>0 DEF ReadPriorActors, OpInv
    <3>4. PICK i \in Granted("execution") : TRUE
      BY <3>3, <1>0 DEF RowsInv, Approved
    <3>5. Approved(op[p].actor)
      BY <3>4, <2>1 DEF Approved, Granted
    <3>6. OpInv(p)'
      BY <3>2, <3>3, <3>5, <1>0, <1>1, <1>5 DEF OpInv
    <3> QED
      BY <3>1, <3>6, <1>3
  <2> QED
    BY <2>1, <1>4, <1>13, <1>0 DEF ReadPriorActors, Goes, Types
<1>14. ASSUME ReadApprovals(p) PROVE SeparationInv'
  <2>1. op[p].pc = "read_approvals"
    BY <1>14 DEF ReadApprovals
  <2>2. CASE /\ op'[p] = Checking(op[p].actor, "executing", "reread")
             /\ \E last \in Granted("execution") :
                   op[p].actor # approvals[last].actor
    <3>1. /\ op'[p] \in Operation
          /\ op'[p].pc = "check" /\ op'[p].actor = op[p].actor
          /\ op'[p].to = "executing"
      BY <2>1, <2>2, <1>0 DEF Checking, At, Idle, WORK_STATES
    <3>3. Approved(op[p].actor)
      BY <2>2 DEF Approved
    <3>4. planner # NoActor
      BY <2>1, <1>0 DEF OpInv
    <3>5. OpInv(p)'
      BY <3>1, <3>3, <3>4, <2>1, <1>0, <1>1, <1>5 DEF OpInv, Reviewable
    <3> QED
      BY <3>1, <3>5, <1>3
  <2> QED
    BY <2>2, <1>4, <1>14, <1>0 DEF ReadApprovals, Goes, Types
<1>15. ASSUME Reread(p) PROVE SeparationInv'
  <2>1. op'[p] = [op[p] EXCEPT !.pc = "run", !.attempt = item.retry_count + 1]
    BY <1>15, <1>0 DEF Reread, Goes, Types
  <2>2. item.retry_count + 1 \in Nat
    BY <1>0 DEF Types
  <2>3. op'[p] \in Operation
    BY <2>1, <2>2, <1>0 DEF Operation
  <2>4. /\ op'[p].pc = "run" /\ op'[p].actor = op[p].actor
        /\ op'[p].to = op[p].to /\ op'[p].next = op[p].next
        /\ op'[p].approval = op[p].approval
    BY <2>1, <1>0 DEF Operation
  <2>5. OpInv(p)'
    BY <2>4, <1>15, <1>0, <1>1, <1>5 DEF OpInv, Reread
  <2> QED
    BY <2>3, <2>5, <1>3
<1>16. ASSUME ExecutionFails(p) PROVE SeparationInv'
  <2>1. op'[p] = [op[p] EXCEPT !.pc = "fallback"]
    BY <1>16, <1>0 DEF ExecutionFails, Goes, Types
  <2>2. op'[p] \in Operation
    BY <2>1, <1>0 DEF Operation
  <2>3. /\ op'[p].pc = "fallback" /\ op'[p].actor = op[p].actor
        /\ op'[p].to = op[p].to /\ op'[p].next = op[p].next
        /\ op'[p].approval = op[p].approval
    BY <2>1, <1>0 DEF Operation
  <2>4. OpInv(p)'
    BY <2>3, <1>16, <1>0, <1>1, <1>5 DEF OpInv, ExecutionFails
  <2> QED
    BY <2>2, <2>4, <1>3
<1>17. ASSUME Fallback(p) PROVE SeparationInv'
  <2> DEFINE to == IF op[p].attempt < MaxRetries THEN "approved"
                                                 ELSE "manual_review"
  <2>1. op'[p] = [op[p] EXCEPT !.pc = "check", !.to = to, !.next = "idle"]
    BY <1>17, <1>0 DEF Fallback, Goes, Types
  <2>2. to \in {"approved", "manual_review"}
    OBVIOUS
  <2> HIDE DEF to
  <2>0. to \in WORK_STATES
    BY <2>2
  <2>3. op'[p] \in Operation
    <3>1. op[p] \in Operation
      BY <1>0
    <3> QED
      BY ONLY <2>0, <2>1, <3>1, Names DEF Operation
  <2>4. /\ op'[p].pc = "check" /\ op'[p].actor = op[p].actor
        /\ op'[p].to = to /\ op'[p].next = "idle"
    BY <2>1, <1>0 DEF Operation
  <2>5. OpInv(p)'
    BY <2>2, <2>4, <1>17, <1>0, <1>1 DEF OpInv, Fallback, Reviewable
  <2> QED
    BY <2>3, <2>5, <1>3
<1>18. ASSUME ReadExecution(p) PROVE SeparationInv'
  <2>0. op[p] \in Operation
    BY <1>0
  <2>1. CASE \E to \in {"awaiting_closure_approval", "approved",
                        "manual_review"} :
                op'[p] = [op[p] EXCEPT !.pc = "read_last", !.to = to]
    <3>1. PICK to \in {"awaiting_closure_approval", "approved",
                       "manual_review"} :
                op'[p] = [op[p] EXCEPT !.pc = "read_last", !.to = to]
      BY <2>1
    <3>0. to \in WORK_STATES
      OBVIOUS
    <3>2. op'[p] \in Operation
      BY ONLY <3>0, <3>1, <2>0, Names DEF Operation
    <3>3. /\ op'[p].pc = "read_last" /\ op'[p].actor = op[p].actor
          /\ op'[p].to = to /\ op'[p].next = op[p].next
      BY <3>1, <1>0 DEF Operation
    <3>4. op[p].pc = "validate" /\ executions # {}
      BY <1>18, <1>0 DEF ReadExecution, OpInv
    <3>5. OpInv(p)'
      BY <3>1, <3>3, <3>4, <1>0, <1>1, <1>5 DEF OpInv
    <3> QED
      BY <3>2, <3>5, <1>3
  <2> QED
    BY <2>1, <1>4, <1>18, <1>0 DEF ReadExecution, Goes, Types
<1>19. ASSUME ReadLastEvent(p) PROVE SeparationInv'
  <2>1. op'[p] = [op[p] EXCEPT !.pc = "insert_event",
                               !.previous = Len(events)]
    BY <1>19, <1>0 DEF ReadLastEvent, Goes, Types
  <2>2. Len(events) \in Nat
    BY <1>0 DEF Types
  <2>3. op'[p] \in Operation
    BY <2>1, <2>2, <1>0 DEF Operation
  <2>4. /\ op'[p].pc = "insert_event" /\ op'[p].actor = op[p].actor
        /\ op'[p].to = op[p].to /\ op'[p].next = op[p].next
    BY <2>1, <1>0 DEF Operation
  <2>5. OpInv(p)'
    BY <2>4, <1>19, <1>0, <1>1, <1>5 DEF OpInv, ReadLastEvent
  <2> QED
    BY <2>3, <2>5, <1>3
<1>20. ASSUME Crash(p) PROVE SeparationInv'
  BY <1>4, <1>20, <1>0 DEF Crash, Goes, Types
<1> QED
  BY <1>6, <1>7, <1>8, <1>9, <1>10, <1>11, <1>12, <1>13, <1>14, <1>15, <1>16,
     <1>17, <1>18, <1>19, <1>20

\* An event follows the one it names, whoever appends it.
LEMMA EventTypes ==
    ASSUME events \in Seq(Events), NEW kind \in Kinds, NEW a \in People,
           NEW yes \in BOOLEAN, Logged(kind, a, yes)
    PROVE  events' \in Seq(Events)
<1>1. Event(kind, a, yes, Len(events)) \in Events
  BY DEF Event, Events
<1> QED
  BY <1>1 DEF Logged

\* The event of a decision is of the kind of its stage.
LEMMA ApprovalEvent ==
    ASSUME SeparationInv, NEW p \in Processes, AddApproval(p)
    PROVE  \E kind \in {"execution_approval", "closure_approval"},
              yes \in BOOLEAN :
                 /\ Logged(kind, op[p].actor, yes)
                 /\ kind = "execution_approval"
                       <=> op[p].approval.stage = "execution"
                 /\ yes <=> op[p].approval.decision = "approved"
<1> DEFINE kind == IF op[p].approval.stage = "execution"
                   THEN "execution_approval" ELSE "closure_approval"
           yes == op[p].approval.decision = "approved"
<1>1. Logged(kind, op[p].actor, yes)
  BY DEF AddApproval
<1>2. /\ kind \in {"execution_approval", "closure_approval"}
      /\ kind = "execution_approval" <=> op[p].approval.stage = "execution"
  OBVIOUS
<1>3. yes \in BOOLEAN /\ (yes <=> op[p].approval.decision = "approved")
  OBVIOUS
<1> HIDE DEF kind, yes
<1> QED
  BY <1>1, <1>2, <1>3

\* The tool and the event of a validation, which change no row that matters.
LEMMA ToolAndEvent ==
    ASSUME SeparationInv, NEW p \in Processes, RunTool(p) \/ InsertEvent(p)
    PROVE  SeparationInv'
<1> USE Names
<1>0. /\ Types /\ RowsInv /\ OpInv(p) /\ op[p] \in Operation
      /\ UNCHANGED <<item, planner, approvals, executions>>
  BY DEF SeparationInv, Types, RunTool, InsertEvent
<1>1. /\ \A a : Approved(a)' <=> Approved(a)
      /\ Decided' <=> Decided
  BY <1>0 DEF Approved, Decided, Granted
<1>2. CASE RunTool(p)
  <2>1. op' = [op EXCEPT ![p] = [op[p] EXCEPT !.pc = "add_execution",
                                              !.id = runs + 1]]
    BY <1>2 DEF RunTool, Goes
  <2>2. op'[p] = [op[p] EXCEPT !.pc = "add_execution", !.id = runs + 1]
    BY <2>1, <1>0 DEF Types
  <2>3. runs + 1 \in Nat
    BY <1>0 DEF Types
  <2>4. op'[p] \in Operation
    BY ONLY <1>0, <2>2, <2>3, Names DEF Operation
  <2>5. /\ op'[p].pc = "add_execution" /\ op'[p].actor = op[p].actor
        /\ op'[p].to = op[p].to /\ op'[p].next = op[p].next
    BY <2>2, <1>0 DEF Operation
  <2>6. OpInv(p)'
    BY <2>5, <1>2, <1>0, <1>1 DEF OpInv, RunTool
  <2>7. runs' \in Nat /\ events' \in Seq(Events)
    BY <1>2, <1>0 DEF RunTool, Types
  <2>8. op' \in [Processes -> Operation]
    BY <2>1, <2>2, <2>4, <1>0 DEF Types
  <2>9. \A q \in Processes \ {p} : op'[q] = op[q]
    BY <2>1, <1>0 DEF Types
  <2> QED
    BY <2>6, <2>7, <2>8, <2>9, <1>0, LocalStep
<1>3. CASE InsertEvent(p)
  <2>1. op' = [op EXCEPT ![p] = [op[p] EXCEPT !.pc = "check", !.previous = 0]]
    BY <1>3 DEF InsertEvent, Goes
  <2>2. op'[p] = [op[p] EXCEPT !.pc = "check", !.previous = 0]
    BY <2>1, <1>0 DEF Types
  <2>3. op[p] \in Operation
    BY <1>0
  <2>4. op'[p] \in Operation
    <3>1. "check" \in PCs /\ 0 \in Nat
      OBVIOUS
    <3> QED
      BY ONLY <2>2, <2>3, <3>1 DEF Operation
  <2>5. /\ op'[p].pc = "check" /\ op'[p].actor = op[p].actor
        /\ op'[p].to = op[p].to /\ op'[p].next = op[p].next
    BY <2>2, <1>0 DEF Operation
  <2>6. OpInv(p)'
    BY <2>5, <1>3, <1>0, <1>1 DEF OpInv, InsertEvent
  <2>7. runs' \in Nat /\ events' \in Seq(Events)
    <3>1. op[p].previous \in Nat
      BY <1>0 DEF Operation
    <3>2. Event("validation_completed", op[p].actor,
                op[p].to = "awaiting_closure_approval", op[p].previous)
             \in Events
      BY <3>1, <1>0 DEF Event, Events, Kinds, Operation
    <3>3. events' = Append(events,
                           Event("validation_completed", op[p].actor,
                                 op[p].to = "awaiting_closure_approval",
                                 op[p].previous))
      BY <1>3 DEF InsertEvent
    <3> QED
      BY <3>2, <3>3, <1>3, <1>0 DEF InsertEvent, Types
  <2>8. op' \in [Processes -> Operation]
    BY <2>1, <2>2, <2>4, <1>0 DEF Types
  <2>9. \A q \in Processes \ {p} : op'[q] = op[q]
    BY <2>1, <1>0 DEF Types
  <2> QED
    BY <2>6, <2>7, <2>8, <2>9, <1>0, LocalStep
<1> QED
  BY <1>2, <1>3

\* Ingestion is the first thing that happens.
LEMMA Ingesting ==
    ASSUME SeparationInv, NEW p \in Processes, NEW a \in Actors, Ingest(p, a)
    PROVE  SeparationInv'
<1>0. /\ Types /\ RowsInv /\ item.state = "absent" /\ planner = NoActor
      /\ approvals = <<>> /\ executions = {}
      /\ \A q \in Processes : op[q] = Idle
      /\ UNCHANGED <<planner, approvals, executions, op, runs>>
      /\ item' = [item EXCEPT !.state = "new", !.created_by = a]
  BY DEF SeparationInv, Ingest, RowsInv, OpInv
<1>1. item'.state = "new" /\ item' \in [state : WORK_STATES \cup {"absent"},
                                      created_by : People, retry_count : Nat]
  BY <1>0 DEF Types, WORK_STATES, People
<1>2. events' \in Seq(Events)
  <2>1. Logged("work_item_created", NoActor, TRUE)
    BY DEF Ingest
  <2> QED
    BY <2>1, <1>0, EventTypes, Names, OperationTypes DEF Types
<1>3. Types'
  BY <1>0, <1>1, <1>2 DEF Types
<1>4. RowsInv'
  BY <1>0, <1>1 DEF RowsInv, Granted, Reviewable
<1>5. \A q \in Processes : OpInv(q)'
  BY <1>0 DEF OpInv, Idle, Reviewable
<1> QED
  BY <1>3, <1>4, <1>5 DEF SeparationInv

\* An update of the row keeps who ingested the finding, which is all that the
\* other operations rely on.
LEMMA Writing ==
    ASSUME SeparationInv, NEW p \in Processes, Write(p)
    PROVE  SeparationInv'
<1> USE OperationTypes, Names
<1>0. /\ Types /\ RowsInv /\ OpInv(p) /\ op[p] \in Operation
      /\ op[p].pc = "write" /\ op[p].actor \in Actors
      /\ op[p].to \in WORK_STATES /\ op[p].to # "absent"
      /\ UNCHANGED <<planner, approvals, executions, runs>>
  <2>1. /\ Types /\ RowsInv /\ OpInv(p) /\ op[p] \in Operation
        /\ op[p].pc = "write" /\ op[p].actor \in Actors
        /\ UNCHANGED <<planner, approvals, executions, runs>>
    BY DEF SeparationInv, Types, Write, OpInv
  <2>2. op[p].to \in WORK_STATES
    BY <2>1 DEF Operation
  <2>3. op[p].to # "absent"
    BY <2>2 DEF WORK_STATES
  <2> QED
    BY <2>1, <2>2, <2>3
<1>1. /\ item' \in [state : WORK_STATES \cup {"absent"}, created_by : People,
                    retry_count : Nat]
      /\ item'.state = op[p].to /\ item'.created_by = item.created_by
  <2>1. op[p].attempt \in Nat
    BY <1>0 DEF Operation
  <2> QED
    BY <2>1, <1>0 DEF Write, Types
<1>2. /\ \A a : Approved(a)' <=> Approved(a)
      /\ Decided' <=> Decided
      /\ Granted("execution")' = Granted("execution")
  BY <1>0, <1>1 DEF Approved, Decided, Granted
<1>3. PICK o : Goes(p, o) /\ o \in {Checking(op[p].actor,
                                             "awaiting_execution_approval",
                                             "idle"),
                                    At("reread", op[p].actor), Idle}
                /\ (o = At("reread", op[p].actor) => op[p].next = "reread")
                /\ (o = Checking(op[p].actor, "awaiting_execution_approval",
                                 "idle") => op[p].next = "await")
  <2>1. At("reread", op[p].actor).pc = "reread"
    BY DEF At, Idle
  <2>2. Checking(op[p].actor, "awaiting_execution_approval", "idle").pc
           = "check"
    BY DEF Checking, At, Idle
  <2>3. Idle.pc = "idle"
    BY DEF Idle
  <2> QED
    BY <2>1, <2>2, <2>3 DEF Write
<1>4. /\ op'[p] = o /\ \A q \in Processes \ {p} : op'[q] = op[q]
      /\ o \in Operation
      /\ op' \in [Processes -> Operation]
  <2>1. "reread" \in PCs /\ "awaiting_execution_approval" \in WORK_STATES
    BY DEF PCs, WORK_STATES
  <2>2. o \in Operation
    BY <1>3, <1>0, <2>1
  <2> QED
    BY <2>2, <1>3, <1>0 DEF Goes, Types
<1>5. Types'
  <2>1. events' \in Seq(Events)
    BY <1>0, EventTypes DEF Write, Types
  <2> QED
    BY <2>1, <1>0, <1>1, <1>4 DEF Types
<1>6. RowsInv'
  BY <1>0, <1>1, <1>2 DEF RowsInv, OpInv
<1>7. ASSUME NEW q \in Processes PROVE OpInv(q)'
  <2>1. CASE q = p
    <3>1. CASE o = Idle
      BY <2>1, <3>1, <1>4 DEF OpInv, Idle, Reviewable
    <3>2. CASE o = At("reread", op[p].actor)
      <4>1. /\ op'[p].pc = "reread" /\ op'[p].actor = op[p].actor
            /\ op'[p].to = "new" /\ op'[p].next = "idle"
        <5>1. op'[p] = At("reread", op[p].actor)
          BY <3>2, <1>4
        <5> QED
          BY ONLY <5>1 DEF At, Idle
      <4> QED
        BY <4>1, <2>1, <3>2, <1>3, <1>0, <1>1, <1>2 DEF OpInv, Reviewable
    <3>3. CASE o = Checking(op[p].actor, "awaiting_execution_approval", "idle")
      <4>1. /\ op'[p].pc = "check" /\ op'[p].actor = op[p].actor
            /\ op'[p].to = "awaiting_execution_approval"
            /\ op'[p].next = "idle"
        <5>1. op'[p] = Checking(op[p].actor, "awaiting_execution_approval",
                                "idle")
          BY <3>3, <1>4
        <5> QED
          BY ONLY <5>1 DEF Checking, At, Idle
      <4> QED
        BY <4>1, <2>1, <3>3, <1>3, <1>0, <1>1, <1>2 DEF OpInv, Reviewable
    <3> QED
      BY <3>1, <3>2, <3>3, <1>3
  <2>2. CASE q # p
    <3>1. OpInv(q) /\ op'[q] = op[q]
      BY <2>2, <1>4 DEF SeparationInv
    <3> QED
      BY <3>1, <1>0, <1>1, <1>2 DEF OpInv
  <2> QED
    BY <2>1, <2>2
<1> QED
  BY <1>5, <1>6, <1>7 DEF SeparationInv

\* The first plan names the planner before any approval is recorded.
LEMMA SavingPlan ==
    ASSUME SeparationInv, NEW p \in Processes, SavePlan(p)
    PROVE  SeparationInv'
<1> USE OperationTypes, Names
<1>0. /\ Types /\ RowsInv /\ OpInv(p) /\ op[p] \in Operation
      /\ op[p].pc = "save_plan" /\ op[p].actor \in Actors
      /\ UNCHANGED <<item, approvals, executions, runs>>
  BY DEF SeparationInv, Types, SavePlan, OpInv
<1>1. CASE planner # NoActor
  <2>1. /\ op' = [op EXCEPT ![p] = Idle]
        /\ UNCHANGED <<planner, events>>
    BY <1>0, <1>1 DEF SavePlan, Goes
  <2>2. /\ op'[p] = Idle /\ \A q \in Processes \ {p} : op'[q] = op[q]
        /\ op' \in [Processes -> Operation]
    BY <2>1, <1>0 DEF Types
  <2>3. OpInv(p)'
    BY <2>2 DEF OpInv, Idle, Reviewable
  <2>4. runs' \in Nat /\ events' \in Seq(Events)
    BY <1>0, <2>1 DEF Types
  <2> QED
    BY <2>1, <2>2, <2>3, <2>4, <1>0, LocalStep
<1>2. CASE planner = NoActor
  <2>1. /\ op' = [op EXCEPT ![p] = Checking(op[p].actor, "planned", "await")]
        /\ planner' = op[p].actor
        /\ Logged("plan_created", NoActor, TRUE)
    BY <1>0, <1>2 DEF SavePlan, Goes
  <2>2. /\ op'[p] = Checking(op[p].actor, "planned", "await")
        /\ \A q \in Processes \ {p} : op'[q] = op[q]
        /\ op' \in [Processes -> Operation]
    BY <2>1, <1>0 DEF Types
  <2>3. /\ op'[p].pc = "check" /\ op'[p].actor = op[p].actor
        /\ op'[p].to = "planned" /\ op'[p].next = "await"
    BY <2>2 DEF Checking, At, Idle
  <2>4. planner' # NoActor /\ planner' \in People
    BY <2>1, <1>0, ActorAssumption DEF People
  <2>5. events' \in Seq(Events)
    BY <2>1, <1>0, EventTypes DEF Types
  <2>6. Types'
    BY <2>2, <2>4, <2>5, <1>0 DEF Types
  <2>7. approvals = <<>> /\ executions = {}
        /\ item.state \in {"absent", "new", "triaged"}
        /\ item.state # "absent"
    BY <1>0, <1>2 DEF RowsInv, OpInv
  <2>8. RowsInv'
    BY <2>4, <2>7, <1>0 DEF RowsInv, Granted, Reviewable
  <2>9. ASSUME NEW q \in Processes PROVE OpInv(q)'
    <3>1. CASE q = p
      BY <3>1, <2>3, <2>4, <2>7, <1>0 DEF OpInv, Reviewable
    <3>2. CASE q # p
      <4>1. OpInv(q) /\ op'[q] = op[q]
        BY <3>2, <2>2 DEF SeparationInv
      <4> QED
        BY <4>1, <2>4, <1>0, <1>2 DEF OpInv, Decided, Granted, Approved
    <3> QED
      BY <3>1, <3>2
  <2> QED
    BY <2>6, <2>8, <2>9 DEF SeparationInv
<1> QED
  BY <1>1, <1>2

\* A decision is appended to the others, by somebody who was independent of them
\* when it was checked and still is.
LEMMA Approving ==
    ASSUME SeparationInv, NEW p \in Processes, AddApproval(p)
    PROVE  SeparationInv'
<1> USE OperationTypes, Names
<1>0. /\ Types /\ RowsInv /\ OpInv(p) /\ op[p] \in Operation
      /\ op[p].pc = "record" /\ op[p].actor \in Actors
      /\ op[p].approval \in Approvals /\ op[p].approval.actor = op[p].actor
      /\ op[p].actor # item.created_by
      /\ approvals \in Seq(Approvals)
      /\ UNCHANGED <<item, planner, executions, runs>>
      /\ planner # NoActor
  BY DEF SeparationInv, Types, AddApproval, OpInv
<1> DEFINE n == Len(approvals) + 1
<1>1. approvals' = Append(approvals, op[p].approval)
  BY DEF AddApproval
<1>2. /\ n \in DOMAIN approvals' /\ approvals'[n] = op[p].approval
      /\ approvals' \in Seq(Approvals)
  BY <1>0, <1>1
<1>3. /\ \A a : Approved(a) => Approved(a)'
      /\ Decided => Decided'
      /\ Granted("execution")' \subseteq Granted("execution") \cup {n}
      /\ \A i \in DOMAIN approvals : approvals'[i] = approvals[i]
      /\ Granted("execution") \subseteq Granted("execution")'
  <2>1. item' = item
    BY <1>0
  <2>2. \A i \in DOMAIN approvals :
           i \in DOMAIN approvals' /\ approvals'[i] = approvals[i]
    BY <1>0, <1>1
  <2> QED
    BY <2>1, <2>2, <1>0, <1>1, ApprovalsGrow DEF Granted
<1>4. /\ op'[p] = [op[p] EXCEPT !.pc = "check"]
      /\ \A q \in Processes \ {p} : op'[q] = op[q]
  BY <1>0 DEF AddApproval, Goes, Types
<1>5. op'[p] \in Operation
  BY ONLY <1>0, <1>4, Names DEF Operation
<1>6. /\ op'[p].pc = "check" /\ op'[p].actor = op[p].actor
      /\ op'[p].to = op[p].to /\ op'[p].next = op[p].next
  BY <1>0, <1>4 DEF Operation
<1>7. Types'
  <2>1. events' \in Seq(Events)
    BY <1>0, ApprovalEvent, EventTypes DEF Types, People
  <2>2. op' \in [Processes -> Operation]
    BY <1>0, <1>5 DEF AddApproval, Goes, Types
  <2> QED
    BY <2>1, <2>2, <1>0, <1>2 DEF Types
<1>8. RowsInv'
  <2>1. \A i \in Granted("execution")' :
           approvals'[i].actor \notin {item.created_by, planner}
    <3>1. ASSUME n \in Granted("execution")'
          PROVE  approvals'[n].actor \notin {item.created_by, planner}
      BY <3>1, <1>0, <1>2 DEF Granted, OpInv
    <3>2. \A i \in Granted("execution") : i \in DOMAIN approvals
      BY DEF Granted
    <3> QED
      BY <3>1, <3>2, <1>0, <1>3 DEF RowsInv
  <2> QED
    BY <2>1, <1>0, <1>3 DEF RowsInv
<1>9. ASSUME op[p].to = "closed" PROVE Decided'
  <2>1. /\ op[p].approval.stage = "closure"
        /\ op[p].approval.decision = "approved"
        /\ Approved(op[p].actor)
    BY <1>9, <1>0 DEF OpInv
  <2>2. PICK i \in Granted("execution") : approvals[i].actor # op[p].actor
    BY <2>1 DEF Approved
  <2>3. n \in Granted("closure")'
    BY <2>1, <1>2 DEF Granted
  <2>4. /\ i \in Granted("execution")' /\ approvals'[i] = approvals[i]
        /\ approvals[i].actor # item.created_by
    BY <1>0, <1>3 DEF RowsInv, Granted
  <2> QED
    BY <2>2, <2>3, <2>4, <1>0, <1>2 DEF Decided
<1>10. ASSUME NEW q \in Processes PROVE OpInv(q)'
  <2>1. CASE q = p
    BY <2>1, <1>0, <1>3, <1>6, <1>9 DEF OpInv
  <2>2. CASE q # p
    <3>1. OpInv(q) /\ op'[q] = op[q]
      BY <2>2, <1>4 DEF SeparationInv
    <3> QED
      BY <3>1, <1>0, <1>3 DEF OpInv
  <2> QED
    BY <2>1, <2>2
<1> QED
  BY <1>7, <1>8, <1>10 DEF SeparationInv

\* The execution that is recorded was allowed by an approval that still stands.
LEMMA Recording ==
    ASSUME SeparationInv, NEW p \in Processes, AddExecution(p)
    PROVE  SeparationInv'
<1> USE OperationTypes, Names
<1>0. /\ Types /\ RowsInv /\ OpInv(p) /\ op[p] \in Operation
      /\ op[p].pc = "add_execution" /\ op[p].actor \in Actors
      /\ Approved(op[p].actor)
      /\ UNCHANGED <<item, planner, approvals, runs>>
      /\ planner # NoActor
  BY DEF SeparationInv, Types, AddExecution, OpInv
<1>1. /\ executions' = executions \cup {[actor |-> op[p].actor,
                                         attempt |-> op[p].attempt,
                                         id |-> op[p].id]}
      /\ executions' # {}
  BY DEF AddExecution
<1>2. /\ \A a : Approved(a)' <=> Approved(a)
      /\ Decided' <=> Decided
      /\ Granted("execution")' = Granted("execution")
  BY <1>0 DEF Approved, Decided, Granted
<1>4. /\ op'[p] = [op[p] EXCEPT !.pc = "check", !.to = "validating",
                                !.next = "idle"]
      /\ \A q \in Processes \ {p} : op'[q] = op[q]
  BY <1>0 DEF AddExecution, Goes, Types
<1>5. op'[p] \in Operation
  BY ONLY <1>0, <1>4, Names DEF Operation
<1>6. /\ op'[p].pc = "check" /\ op'[p].actor = op[p].actor
      /\ op'[p].to = "validating" /\ op'[p].next = "idle"
  BY <1>0, <1>4 DEF Operation
<1>7. Types'
  <2>1. events' \in Seq(Events)
    BY <1>0, EventTypes DEF AddExecution, Types, People
  <2>2. op' \in [Processes -> Operation]
    BY <1>0, <1>5 DEF AddExecution, Goes, Types
  <2> QED
    BY <2>1, <2>2, <1>0 DEF Types
<1>8. RowsInv'
  BY <1>0, <1>1, <1>2 DEF RowsInv
<1>9. ASSUME NEW q \in Processes PROVE OpInv(q)'
  <2>1. CASE q = p
    BY <2>1, <1>0, <1>1, <1>6 DEF OpInv
  <2>2. CASE q # p
    <3>1. OpInv(q) /\ op'[q] = op[q]
      BY <2>2, <1>4 DEF SeparationInv
    <3> QED
      BY <3>1, <1>0, <1>1, <1>2 DEF OpInv
  <2> QED
    BY <2>1, <2>2
<1> QED
  BY <1>7, <1>8, <1>9 DEF SeparationInv

\* Every step keeps the invariant.
LEMMA SeparationNext == SeparationInv /\ [Next]_vars => SeparationInv'
<1> SUFFICES ASSUME SeparationInv, [Next]_vars PROVE SeparationInv'
  OBVIOUS
<1>1. CASE UNCHANGED <<item, planner, approvals, executions, events, op, runs>>
  BY <1>1 DEF SeparationInv, Types, RowsInv, OpInv, Granted, Approved, Decided
<1>2. ASSUME NEW p \in Processes,
             (\E a \in Actors : Begin(p, a)) \/ Continue(p) \/ Crash(p)
      PROVE  SeparationInv'
  BY <1>2, Reading, ToolAndEvent, Ingesting, Writing, SavingPlan, Approving,
     Recording DEF Begin, Continue
<1>3. ASSUME NEW n \in DOMAIN artifacts, Damage(n) PROVE SeparationInv'
  BY <1>1, <1>3 DEF Damage
<1>4. CASE UNCHANGED vars
  BY <1>1, <1>4 DEF vars
<1> QED
  BY <1>2, <1>3, <1>4 DEF Next

\* Whatever the processes do to each other, nobody executes what he, its
\* ingester or its planner approved (workflow.py:149, 176-179).
THEOREM ExecutionsAreSeparated == Spec => []ExecutionSeparation
<1>1. SeparationInv => ExecutionSeparation
  BY DEF SeparationInv, RowsInv, ExecutionSeparation, Approved
<1> QED
  BY SeparationInit, SeparationNext, <1>1, PTL DEF Spec

\* Whatever the processes do to each other, an item is closed only after two
\* people other than its ingester have decided (workflow.py:264-268).
THEOREM ClosureTakesTwo == Spec => []TwoPeopleDecided
<1>1. SeparationInv => TwoPeopleDecided
  BY DEF SeparationInv, RowsInv, TwoPeopleDecided, Decided
<1> QED
  BY SeparationInit, SeparationNext, <1>1, PTL DEF Spec

-----------------------------------------------------------------------------
(* What a step does to the operation it belongs to                         *)

\* Operation o is at pc, about to make the transition to `to` and to go on with
\* `next`, in that attempt.
Is(o, pc, to, next, attempt) ==
    o.pc = pc /\ o.to = to /\ o.next = next /\ o.attempt = attempt

\* The operation is over.
Over(o) == Is(o, "idle", "new", "idle", 0)

\* Operation o has gone from its place in op[p] to pc, as it was otherwise.
GoneTo(o, p, pc) ==
    /\ Is(o, pc, op[p].to, op[p].next, op[p].attempt)
    /\ o.actor = op[p].actor
    /\ o.approval = op[p].approval

\* The operations that begin: what they read and where they go.
LEMMA Beginnings ==
    ASSUME SeparationInv, NEW p \in Processes, NEW a \in Actors
    PROVE  /\ Triage(p, a) => Is(op'[p], "check", "triaged", "idle", 0)
           /\ Plan(p, a) => Is(op'[p], "save_plan", "new", "idle", 0)
           /\ Execute(p, a) => Is(op'[p], "read_approvals", "new", "idle", 0)
           /\ Validate(p, a) =>
                 /\ Is(op'[p], "validate", "new", "idle", 0)
                 /\ op'[p].retries = item.retry_count
           /\ \A d \in Decisions :
                 /\ ApproveExecution(p, a, d) =>
                       /\ Is(op'[p], "record",
                             IF d = "approved" THEN "approved"
                                               ELSE "manual_review",
                             "idle", 0)
                       /\ op'[p].approval.stage = "execution"
                 /\ ApproveClosure(p, a, d) =>
                       /\ Is(op'[p], "read_prior",
                             IF d = "approved" THEN "closed"
                                               ELSE "manual_review",
                             "idle", 0)
                       /\ op'[p].approval.stage = "closure"
<1>0. op \in [Processes -> Operation]
  BY DEF SeparationInv, Types
<1>1. \A o : Goes(p, o) => op'[p] = o
  BY <1>0 DEF Goes
<1>2. Triage(p, a) => Is(op'[p], "check", "triaged", "idle", 0)
  BY <1>1 DEF Triage, Checking, At, Idle, Is
<1>3. Plan(p, a) => Is(op'[p], "save_plan", "new", "idle", 0)
  BY <1>1 DEF Plan, At, Idle, Is
<1>4. Execute(p, a) => Is(op'[p], "read_approvals", "new", "idle", 0)
  BY <1>1 DEF Execute, At, Idle, Is
<1>5. Validate(p, a) => /\ Is(op'[p], "validate", "new", "idle", 0)
                        /\ op'[p].retries = item.retry_count
  BY <1>1 DEF Validate, At, Idle, Is
<1>6. ASSUME NEW d \in Decisions, ApproveExecution(p, a, d)
      PROVE  /\ Is(op'[p], "record",
                   IF d = "approved" THEN "approved" ELSE "manual_review",
                   "idle", 0)
             /\ op'[p].approval.stage = "execution"
  <2>1. op'[p] = Deciding(a, "execution", d, "approved")
    BY <1>1, <1>6 DEF ApproveExecution
  <2> QED
    BY ONLY <2>1 DEF Deciding, Checking, At, Idle, Is
<1>7. ASSUME NEW d \in Decisions, ApproveClosure(p, a, d)
      PROVE  /\ Is(op'[p], "read_prior",
                   IF d = "approved" THEN "closed" ELSE "manual_review",
                   "idle", 0)
             /\ op'[p].approval.stage = "closure"
  <2>1. op'[p] = [Deciding(a, "closure", d, "closed")
                    EXCEPT !.pc = "read_prior"]
    BY <1>1, <1>7 DEF ApproveClosure
  <2> QED
    BY ONLY <2>1 DEF Deciding, Checking, At, Idle, Is
<1> QED
  BY <1>2, <1>3, <1>4, <1>5, <1>6, <1>7

\* The operations that go on.
LEMMA Continuations ==
    ASSUME SeparationInv, NEW p \in Processes
    PROVE  /\ Check(p) =>
                 \/ /\ <<item.state, op[p].to>> \in ALLOWED_TRANSITIONS
                    /\ GoneTo(op'[p], p, "write")
                 \/ /\ op[p].to = "validating"
                    /\ GoneTo(op'[p], p, "fallback")
                 \/ Over(op'[p])
           /\ Write(p) =>
                 \/ /\ op[p].next = "await"
                    /\ Is(op'[p], "check", "awaiting_execution_approval",
                          "idle", 0)
                 \/ /\ op[p].next = "reread"
                    /\ Is(op'[p], "reread", "new", "idle", 0)
                 \/ op[p].next = "idle" /\ Over(op'[p])
           /\ SavePlan(p) =>
                 \/ /\ planner = NoActor
                    /\ Is(op'[p], "check", "planned", "await", 0)
                 \/ Over(op'[p])
           /\ ReadPriorActors(p) =>
                 \/ /\ GoneTo(op'[p], p, "record")
                    /\ op[p].actor \notin
                          {approvals[i].actor : i \in DOMAIN approvals}
                             \cup {latest_execution.actor}
                 \/ Over(op'[p])
           /\ AddApproval(p) => GoneTo(op'[p], p, "check")
           /\ ReadApprovals(p) =>
                 \/ Is(op'[p], "check", "executing", "reread", 0)
                 \/ Over(op'[p])
           /\ Reread(p) => Is(op'[p], "run", op[p].to, op[p].next,
                              item.retry_count + 1)
           /\ RunTool(p) => /\ GoneTo(op'[p], p, "add_execution")
                            /\ op'[p].id = runs + 1
           /\ AddExecution(p) =>
                 Is(op'[p], "check", "validating", "idle", op[p].attempt)
           /\ ExecutionFails(p) => GoneTo(op'[p], p, "fallback")
           /\ Fallback(p) =>
                 Is(op'[p], "check",
                    IF op[p].attempt < MaxRetries THEN "approved"
                                                  ELSE "manual_review",
                    "idle", op[p].attempt)
           /\ ReadExecution(p) =>
                 \/ \E to \in {"awaiting_closure_approval", "approved",
                               "manual_review"} :
                       /\ Is(op'[p], "read_last", to, op[p].next,
                             op[p].attempt)
                       /\ to = "approved" => op[p].retries < MaxRetries
                 \/ Over(op'[p])
           /\ ReadLastEvent(p) => /\ GoneTo(op'[p], p, "insert_event")
                                  /\ op'[p].previous = Len(events)
           /\ InsertEvent(p) => GoneTo(op'[p], p, "check")
           /\ Crash(p) => Over(op'[p])
<1>0. op \in [Processes -> Operation] /\ op[p] \in Operation
  BY DEF SeparationInv, Types
<1>1. \A o : Goes(p, o) => op'[p] = o
  BY <1>0 DEF Goes
<1>2. Over(Idle)
  BY DEF Over, Is, Idle
<1>3. \A pc : GoneTo([op[p] EXCEPT !.pc = pc], p, pc)
  BY <1>0 DEF GoneTo, Is, Operation
<1>4. Check(p) =>
         \/ /\ <<item.state, op[p].to>> \in ALLOWED_TRANSITIONS
            /\ GoneTo(op'[p], p, "write")
         \/ op[p].to = "validating" /\ GoneTo(op'[p], p, "fallback")
         \/ Over(op'[p])
  <2>1. GoneTo([op[p] EXCEPT !.pc = "write", !.from = item.state], p, "write")
    BY <1>0 DEF GoneTo, Is, Operation
  <2> QED
    BY <1>1, <1>2, <1>3, <2>1 DEF Check
<1>5. Write(p) =>
         \/ /\ op[p].next = "await"
            /\ Is(op'[p], "check", "awaiting_execution_approval", "idle", 0)
         \/ op[p].next = "reread" /\ Is(op'[p], "reread", "new", "idle", 0)
         \/ op[p].next = "idle" /\ Over(op'[p])
  <2>1. op[p].next \in {"idle", "await", "reread"}
    BY <1>0 DEF Operation
  <2>2. Is(At("reread", op[p].actor), "reread", "new", "idle", 0)
    BY DEF At, Idle, Is
  <2>3. Is(Checking(op[p].actor, "awaiting_execution_approval", "idle"),
           "check", "awaiting_execution_approval", "idle", 0)
    BY DEF Checking, At, Idle, Is
  <2> QED
    BY <1>1, <1>2, <2>1, <2>2, <2>3 DEF Write
<1>6. SavePlan(p) =>
         \/ planner = NoActor /\ Is(op'[p], "check", "planned", "await", 0)
         \/ Over(op'[p])
  <2>1. Is(Checking(op[p].actor, "planned", "await"), "check", "planned",
           "await", 0)
    BY DEF Checking, At, Idle, Is
  <2> QED
    BY <1>1, <1>2, <2>1 DEF SavePlan
<1>7. ReadPriorActors(p) =>
         \/ /\ GoneTo(op'[p], p, "record")
            /\ op[p].actor \notin
                  {approvals[i].actor : i \in DOMAIN approvals}
                     \cup {latest_execution.actor}
         \/ Over(op'[p])
  BY <1>1, <1>2, <1>3 DEF ReadPriorActors
<1>8. AddApproval(p) => GoneTo(op'[p], p, "check")
  BY <1>1, <1>3 DEF AddApproval
<1>9. ReadApprovals(p) => \/ Is(op'[p], "check", "executing", "reread", 0)
                          \/ Over(op'[p])
  <2>1. Is(Checking(op[p].actor, "executing", "reread"), "check", "executing",
           "reread", 0)
    BY DEF Checking, At, Idle, Is
  <2> QED
    BY <1>1, <1>2, <2>1 DEF ReadApprovals
<1>10. Reread(p) =>
          Is(op'[p], "run", op[p].to, op[p].next, item.retry_count + 1)
  BY <1>0, <1>1 DEF Reread, Is, Operation
<1>11. RunTool(p) => /\ GoneTo(op'[p], p, "add_execution")
                     /\ op'[p].id = runs + 1
  BY <1>0, <1>1 DEF RunTool, GoneTo, Is, Operation
<1>12. AddExecution(p) =>
          Is(op'[p], "check", "validating", "idle", op[p].attempt)
  BY <1>0, <1>1 DEF AddExecution, Is, Operation
<1>13. ExecutionFails(p) => GoneTo(op'[p], p, "fallback")
  BY <1>1, <1>3 DEF ExecutionFails
<1>14. Fallback(p) =>
          Is(op'[p], "check",
             IF op[p].attempt < MaxRetries THEN "approved" ELSE "manual_review",
             "idle", op[p].attempt)
  BY <1>0, <1>1 DEF Fallback, Is, Operation
<1>15. ReadExecution(p) =>
          \/ \E to \in {"awaiting_closure_approval", "approved",
                        "manual_review"} :
                /\ Is(op'[p], "read_last", to, op[p].next, op[p].attempt)
                /\ to = "approved" => op[p].retries < MaxRetries
          \/ Over(op'[p])
  <2>1. \A to : Is([op[p] EXCEPT !.pc = "read_last", !.to = to], "read_last",
                   to, op[p].next, op[p].attempt)
    BY <1>0 DEF Is, Operation
  <2> QED
    BY <1>1, <1>2, <2>1 DEF ReadExecution
<1>16. ReadLastEvent(p) => /\ GoneTo(op'[p], p, "insert_event")
                           /\ op'[p].previous = Len(events)
  BY <1>0, <1>1 DEF ReadLastEvent, GoneTo, Is, Operation
<1>17. InsertEvent(p) => GoneTo(op'[p], p, "check")
  BY <1>0, <1>1 DEF InsertEvent, GoneTo, Is, Operation
<1>18. Crash(p) => Over(op'[p])
  BY <1>1, <1>2 DEF Crash
<1> QED
  BY <1>4, <1>5, <1>6, <1>7, <1>8, <1>9, <1>10, <1>11, <1>12, <1>13, <1>14,
     <1>15, <1>16, <1>17, <1>18

-----------------------------------------------------------------------------
(* The files and the numbers: TypeOK for any number of processes           *)

\* The rows of executions have files, and events name events before them.
FileInv ==
    /\ \A n \in DOMAIN artifacts : n \in Nat \ {0} /\ artifacts[n] \in 0 .. runs
    /\ \A e \in executions : /\ e.actor \in Actors
                             /\ e.attempt \in DOMAIN artifacts
                             /\ e.id \in 1 .. runs
    /\ \A i \in DOMAIN events : events[i].previous \in 0 .. i - 1

\* What an operation knows of the file of its attempt and of the last event,
\* of which others only make more.
OpFile(p) ==
    /\ op[p].pc \in {"reread", "run"} => op[p].to = "new"
    /\ op[p].pc = "run" => op[p].attempt # 0
    /\ op[p].pc = "add_execution" \/ op[p].to = "validating" =>
          op[p].attempt \in DOMAIN artifacts
    /\ op[p].pc = "add_execution" => op[p].id \in 1 .. runs
    /\ op[p].pc = "insert_event" => op[p].previous <= Len(events)

FilesInv == FileInv /\ \A p \in Processes : OpFile(p)

\* Files, executions and events only become more, and so what the other
\* operations know stays true.
LEMMA FilesGrow ==
    ASSUME SeparationInv, SeparationInv', FilesInv, NEW p \in Processes,
           \A q \in Processes \ {p} : op'[q] = op[q],
           DOMAIN artifacts \subseteq DOMAIN artifacts', runs <= runs',
           Len(events) <= Len(events'),
           FileInv', OpFile(p)'
    PROVE  FilesInv'
<1>1. ASSUME NEW q \in Processes PROVE OpFile(q)'
  <2>1. CASE q = p
    BY <2>1
  <2>2. CASE q # p
    <3>1. OpFile(q) /\ op'[q] = op[q] /\ op[q] \in Operation
      BY <2>2 DEF FilesInv, SeparationInv, Types
    <3>2. op[q].id \in Nat /\ op[q].previous \in Nat
      BY <3>1 DEF Operation
    <3>3. runs \in Nat /\ runs' \in Nat /\ Len(events) \in Nat
          /\ Len(events') \in Nat
      BY DEF SeparationInv, Types
    <3> QED
      BY <3>1, <3>2, <3>3 DEF OpFile
  <2> QED
    BY <2>1, <2>2
<1> QED
  BY <1>1 DEF FilesInv

\* An event that is logged names the one before it.
LEMMA LoggedEvent ==
    ASSUME events \in Seq(Events), NEW kind, NEW a, NEW yes \in BOOLEAN,
           Logged(kind, a, yes)
    PROVE  \E e : /\ events' = Append(events, e)
                  /\ e.previous \in 0 .. Len(events)
                  /\ e.kind = kind
<1> DEFINE e == Event(kind, a, yes, Len(events))
<1>1. e.previous = Len(events) /\ e.kind = kind
  BY DEF Event
<1>2. events' = Append(events, e)
  BY DEF Logged
<1>3. Len(events) \in 0 .. Len(events)
  OBVIOUS
<1> HIDE DEF e
<1> QED
  BY <1>1, <1>2, <1>3

\* An event at the end that names one before it.
LEMMA EventAppended ==
    ASSUME FileInv, events \in Seq(Events), NEW e,
           e.previous \in 0 .. Len(events), events' = Append(events, e)
    PROVE  /\ Len(events') = Len(events) + 1
           /\ \A i \in DOMAIN events' : events'[i].previous \in 0 .. i - 1
<1>2. /\ Len(events') = Len(events) + 1 /\ Len(events) \in Nat
      /\ DOMAIN events' = 1 .. Len(events) + 1
      /\ events'[Len(events) + 1] = e
      /\ \A i \in DOMAIN events : events'[i] = events[i]
      /\ DOMAIN events = 1 .. Len(events)
  OBVIOUS
<1>3. ASSUME NEW i \in DOMAIN events' PROVE events'[i].previous \in 0 .. i - 1
  <2>1. CASE i \in DOMAIN events
    BY <2>1, <1>2 DEF FileInv
  <2>2. CASE i = Len(events) + 1
    BY <2>2, <1>2
  <2> QED
    BY <2>1, <2>2, <1>2
<1> QED
  BY <1>2, <1>3

\* The reads keep what the operation that makes them knows.
LEMMA FilesLocal ==
    ASSUME SeparationInv, SeparationInv', FilesInv, NEW p \in Processes,
           UNCHANGED <<artifacts, executions, events, runs>>,
           NEW o, Goes(p, o), OpFile(p)'
    PROVE  FilesInv'
<1>1. \A q \in Processes \ {p} : op'[q] = op[q]
  BY DEF Goes, SeparationInv, Types
<1>2. FileInv'
  BY DEF FilesInv, FileInv
<1>3. runs <= runs' /\ Len(events) <= Len(events')
  BY DEF SeparationInv, Types
<1> QED
  BY <1>1, <1>2, <1>3, FilesGrow

\* Every step keeps the files and the numbers in order.
LEMMA FilesNext ==
    ASSUME SeparationInv, SeparationInv', FilesInv, [Next]_vars
    PROVE  FilesInv'
<1>1. ASSUME NEW p \in Processes, NEW a \in Actors, Begin(p, a)
      PROVE  FilesInv'
  <2>1. CASE Ingest(p, a)
    <3>1. /\ UNCHANGED <<artifacts, executions, op, runs>>
          /\ Logged("work_item_created", NoActor, TRUE)
      BY <2>1 DEF Ingest
    <3>2. Len(events) \in Nat /\ runs \in Nat /\ events \in Seq(Events)
      BY DEF SeparationInv, Types
    <3>3. FileInv' /\ Len(events') = Len(events) + 1
      <4>1. \E e : /\ events' = Append(events, e)
                   /\ e.previous \in 0 .. Len(events)
        BY <3>1, <3>2, LoggedEvent
      <4> QED
        BY <4>1, <3>1, <3>2, EventAppended DEF FilesInv, FileInv
    <3>4. OpFile(p)'
      <4>1. op[p] = Idle
        BY <2>1 DEF SeparationInv, OpInv, Ingest
      <4> QED
        BY <4>1, <3>1 DEF OpFile, Idle
    <3> QED
      BY <3>1, <3>2, <3>3, <3>4, FilesGrow
  <2>2. CASE ~Ingest(p, a)
    <3>1. UNCHANGED <<artifacts, executions, events, runs>> /\ \E o : Goes(p, o)
      BY <1>1, <2>2 DEF Begin, Triage, Plan, Execute, Validate,
                        ApproveExecution, ApproveClosure
    <3>2. /\ op'[p].pc \in {"check", "save_plan", "read_approvals",
                            "validate", "record", "read_prior"}
          /\ op'[p].to # "validating"
      BY <1>1, <2>2, Beginnings DEF Begin, Is
    <3>3. OpFile(p)'
      BY <3>2 DEF OpFile
    <3> QED
      BY <3>1, <3>3, FilesLocal
  <2> QED
    BY <2>1, <2>2
<1>2. ASSUME NEW p \in Processes,
             \/ Check(p) \/ ReadPriorActors(p) \/ ReadApprovals(p)
             \/ Reread(p) \/ ExecutionFails(p) \/ Fallback(p)
             \/ ReadExecution(p) \/ ReadLastEvent(p) \/ Crash(p)
      PROVE  FilesInv'
  <2>1. UNCHANGED <<artifacts, executions, events, runs>> /\ \E o : Goes(p, o)
    BY <1>2 DEF Check, ReadPriorActors, ReadApprovals, Reread, ExecutionFails,
                Fallback, ReadExecution, ReadLastEvent, Crash
  <2>2. /\ OpFile(p) /\ op[p] \in Operation /\ item.retry_count \in Nat
        /\ Len(events) \in Nat
    BY DEF FilesInv, SeparationInv, Types
  <2>3. OpFile(p)'
    <3>1. CASE Check(p)
      BY <3>1, <2>1, <2>2, Continuations DEF OpFile, GoneTo, Over, Is
    <3>2. CASE ReadPriorActors(p)
      BY <3>2, <2>1, <2>2, Continuations
      DEF OpFile, GoneTo, Over, Is
    <3>3. CASE ReadApprovals(p)
      BY <3>3, Continuations DEF OpFile, Over, Is
    <3>4. CASE Reread(p)
      <4>1. op[p].to = "new"
        BY <3>4, <2>2 DEF OpFile, Reread
      <4>2. Is(op'[p], "run", "new", op[p].next, item.retry_count + 1)
        BY <3>4, <4>1, Continuations
      <4> QED
        BY <4>2, <2>2 DEF OpFile, Is
    <3>5. CASE ExecutionFails(p)
      BY <3>5, <2>1, <2>2, Continuations DEF OpFile, GoneTo, Is
    <3>6. CASE Fallback(p)
      BY <3>6, Continuations DEF OpFile, Is
    <3>7. CASE ReadExecution(p)
      BY <3>7, Continuations DEF OpFile, Over, Is
    <3>8. CASE ReadLastEvent(p)
      <4>1. GoneTo(op'[p], p, "insert_event") /\ op'[p].previous = Len(events)
        BY <3>8, Continuations
      <4> QED
        BY <4>1, <2>1, <2>2 DEF OpFile, GoneTo, Is
    <3>9. CASE Crash(p)
      BY <3>9, Continuations DEF OpFile, Over, Is
    <3> QED
      BY <1>2, <3>1, <3>2, <3>3, <3>4, <3>5, <3>6, <3>7, <3>8, <3>9
  <2> QED
    BY <2>1, <2>3, FilesLocal
<1>3. ASSUME NEW p \in Processes,
             Write(p) \/ SavePlan(p) \/ AddApproval(p)
      PROVE  FilesInv'
  <2>0. /\ OpFile(p) /\ op[p] \in Operation /\ runs \in Nat
        /\ events \in Seq(Events) /\ Len(events) \in Nat
        /\ \A q \in Processes \ {p} : op'[q] = op[q]
    <3>1. \E o : Goes(p, o)
      BY <1>3 DEF Write, SavePlan, AddApproval
    <3> QED
      BY <3>1 DEF FilesInv, SeparationInv, Types, Goes
  <2>1. /\ UNCHANGED <<artifacts, executions, runs>>
        /\ \/ UNCHANGED events
           \/ \E e : /\ events' = Append(events, e)
                     /\ e.previous \in 0 .. Len(events)
    <3>1. CASE Write(p)
      <4>1. Logged("state_transition", NoActor, TRUE)
        BY <3>1 DEF Write
      <4> QED
        BY <3>1, <4>1, <2>0, LoggedEvent DEF Write
    <3>2. CASE SavePlan(p)
      <4>1. UNCHANGED events \/ Logged("plan_created", NoActor, TRUE)
        BY <3>2 DEF SavePlan
      <4> QED
        BY <3>2, <4>1, <2>0, LoggedEvent DEF SavePlan
    <3>3. CASE AddApproval(p)
      BY <3>3, <2>0, ApprovalEvent, LoggedEvent DEF AddApproval
    <3> QED
      BY <1>3, <3>1, <3>2, <3>3
  <2>2. FileInv' /\ Len(events) <= Len(events')
    <3>1. CASE UNCHANGED events
      BY <3>1, <2>0, <2>1 DEF FilesInv, FileInv
    <3>2. CASE \E e : /\ events' = Append(events, e)
                      /\ e.previous \in 0 .. Len(events)
      BY <3>2, <2>0, <2>1, EventAppended DEF FilesInv, FileInv
    <3> QED
      BY <3>1, <3>2, <2>1
  <2>3. OpFile(p)'
    <3>1. CASE Write(p)
      BY <3>1, Continuations DEF OpFile, Over, Is
    <3>2. CASE SavePlan(p)
      BY <3>2, Continuations DEF OpFile, Over, Is
    <3>3. CASE AddApproval(p)
      BY <3>3, <2>0, <2>1, Continuations DEF OpFile, GoneTo, Is
    <3> QED
      BY <1>3, <3>1, <3>2, <3>3
  <2> QED
    BY <2>0, <2>1, <2>2, <2>3, FilesGrow
\* The tool writes the file before the execution is recorded.
<1>4. ASSUME NEW p \in Processes, RunTool(p) PROVE FilesInv'
  <2>0. /\ OpFile(p) /\ op[p] \in Operation /\ runs \in Nat
        /\ op[p].pc = "run" /\ op[p].attempt \in Nat \ {0}
        /\ \A q \in Processes \ {p} : op'[q] = op[q]
        /\ Len(events) \in Nat
    <3>1. OpFile(p) /\ op[p] \in Operation /\ runs \in Nat
          /\ op[p].pc = "run"
          /\ \A q \in Processes \ {p} : op'[q] = op[q]
          /\ Len(events) \in Nat
      BY <1>4 DEF FilesInv, SeparationInv, Types, RunTool, Goes
    <3>2. op[p].attempt \in Nat
      BY <3>1 DEF Operation
    <3> QED
      BY <3>1, <3>2 DEF OpFile
  <2>1. /\ DOMAIN artifacts' = DOMAIN artifacts \cup {op[p].attempt}
        /\ \A n \in DOMAIN artifacts' :
              artifacts'[n] \in {artifacts[n], runs + 1}
        /\ \A n \in DOMAIN artifacts' :
              artifacts'[n] = runs + 1 \/ n \in DOMAIN artifacts
        /\ runs' = runs + 1 /\ UNCHANGED <<executions, events>>
    BY <1>4 DEF RunTool
  <2>2. FileInv'
    <3>1. ASSUME NEW n \in DOMAIN artifacts'
          PROVE  n \in Nat \ {0} /\ artifacts'[n] \in 0 .. runs'
      BY <3>1, <2>0, <2>1 DEF FilesInv, FileInv
    <3>2. ASSUME NEW e \in executions
          PROVE  /\ e.actor \in Actors
                 /\ e.attempt \in DOMAIN artifacts'
                 /\ e.id \in 1 .. runs'
      BY <3>2, <2>0, <2>1 DEF FilesInv, FileInv
    <3> QED
      BY <3>1, <3>2, <2>1 DEF FilesInv, FileInv
  <2>3. OpFile(p)'
    <3>1. GoneTo(op'[p], p, "add_execution") /\ op'[p].id = runs + 1
      BY <1>4, Continuations
    <3> QED
      BY <3>1, <2>0, <2>1 DEF GoneTo, Is, OpFile
  <2> QED
    BY <2>0, <2>1, <2>2, <2>3, FilesGrow
<1>5. ASSUME NEW p \in Processes, AddExecution(p) PROVE FilesInv'
  <2>0. /\ OpFile(p) /\ op[p] \in Operation /\ runs \in Nat
        /\ op[p].pc = "add_execution" /\ op[p].actor \in Actors
        /\ \A q \in Processes \ {p} : op'[q] = op[q]
        /\ Len(events) \in Nat /\ events \in Seq(Events)
    BY <1>5 DEF FilesInv, SeparationInv, Types, AddExecution, Goes, OpInv
  <2>1. /\ UNCHANGED <<artifacts, runs>>
        /\ Logged("execution_recorded", op[p].actor, TRUE)
        /\ executions' = executions \cup {[actor |-> op[p].actor,
                                           attempt |-> op[p].attempt,
                                           id |-> op[p].id]}
    BY <1>5 DEF AddExecution
  <2>2. FileInv' /\ Len(events) <= Len(events')
    <3>1. /\ Len(events') = Len(events) + 1
          /\ \A i \in DOMAIN events' : events'[i].previous \in 0 .. i - 1
      <4>1. \E e : /\ events' = Append(events, e)
                   /\ e.previous \in 0 .. Len(events)
        BY <2>0, <2>1, LoggedEvent
      <4> QED
        BY <4>1, <2>0, EventAppended DEF FilesInv
    <3>2. op[p].attempt \in DOMAIN artifacts /\ op[p].id \in 1 .. runs
      BY <2>0 DEF OpFile
    <3> QED
      BY <3>1, <3>2, <2>0, <2>1 DEF FilesInv, FileInv
  <2>3. OpFile(p)'
    BY <1>5, <2>0, <2>1, Continuations DEF OpFile, Is
  <2> QED
    BY <2>0, <2>1, <2>2, <2>3, FilesGrow
\* The event that was the last when it was read may have followers by now.
<1>6. ASSUME NEW p \in Processes, InsertEvent(p) PROVE FilesInv'
  <2>0. /\ OpFile(p) /\ op[p] \in Operation /\ runs \in Nat
        /\ op[p].pc = "insert_event"
        /\ \A q \in Processes \ {p} : op'[q] = op[q]
        /\ Len(events) \in Nat /\ events \in Seq(Events)
    BY <1>6 DEF FilesInv, SeparationInv, Types, InsertEvent, Goes
  <2>1. /\ UNCHANGED <<artifacts, executions, runs>>
        /\ events' = Append(events,
                            Event("validation_completed", op[p].actor,
                                  op[p].to = "awaiting_closure_approval",
                                  op[p].previous))
    BY <1>6 DEF InsertEvent
  <2>2. op[p].previous \in Nat /\ op[p].previous <= Len(events)
    BY <2>0 DEF OpFile, Operation
  <2>3. FileInv' /\ Len(events) <= Len(events')
    <3> DEFINE e == Event("validation_completed", op[p].actor,
                          op[p].to = "awaiting_closure_approval",
                          op[p].previous)
    <3>1. e.previous = op[p].previous
      BY DEF Event
    <3>2. events' = Append(events, e)
      BY <2>1
    <3> HIDE DEF e
    <3>3. e.previous \in 0 .. Len(events)
      BY <3>1, <2>0, <2>2
    <3>4. /\ Len(events') = Len(events) + 1
          /\ \A i \in DOMAIN events' : events'[i].previous \in 0 .. i - 1
      BY <3>2, <3>3, <2>0, EventAppended DEF FilesInv
    <3> QED
      BY <3>4, <2>0, <2>1 DEF FilesInv, FileInv
  <2>4. OpFile(p)'
    BY <1>6, <2>0, <2>1, Continuations DEF OpFile, GoneTo, Is
  <2> QED
    BY <2>0, <2>1, <2>3, <2>4, FilesGrow
<1>7. ASSUME NEW n \in DOMAIN artifacts, Damage(n) PROVE FilesInv'
  <2>1. /\ UNCHANGED <<executions, events, op, runs>>
        /\ DOMAIN artifacts' = DOMAIN artifacts
        /\ \A m \in DOMAIN artifacts : artifacts'[m] \in {artifacts[m], 0}
    BY <1>7 DEF Damage
  <2>2. runs \in Nat
    BY DEF SeparationInv, Types
  <2> QED
    BY <2>1, <2>2 DEF FilesInv, FileInv, OpFile
<1>8. CASE UNCHANGED vars
  BY <1>8 DEF vars, FilesInv, FileInv, OpFile
<1> QED
  BY <1>1, <1>2, <1>3, <1>4, <1>5, <1>6, <1>7, <1>8 DEF Next, Continue

\* There are no files and no events at the start.
LEMMA FilesInit == Init => FilesInv
BY DEF Init, FilesInv, FileInv, OpFile, Idle

\* However many processes work on an item, its rows keep their types, every
\* execution on record has written a file and every event names one before it
\* (execution.py:16-91, store.py:134-184).
THEOREM WorkItemTypes == Spec => []TypeOK
<1>2. SeparationInv /\ FilesInv => TypeOK
  <2> SUFFICES ASSUME SeparationInv, FilesInv PROVE TypeOK
    OBVIOUS
  <2>1. ASSUME NEW p \in Processes
        PROVE  /\ op[p].pc \in PCs
               /\ op[p].actor \in People
               /\ op[p].to \in WORK_STATES /\ op[p].from \in WORK_STATES
               /\ op[p].attempt \in Nat
               /\ op[p].to = "validating" => op[p].attempt \in DOMAIN artifacts
    BY <2>1 DEF SeparationInv, Types, Operation, FilesInv, OpFile
  <2>2. /\ item \in [state : WORK_STATES \cup {"absent"}, created_by : People,
                     retry_count : Nat]
        /\ planner \in People
        /\ \A i \in DOMAIN approvals : approvals[i] \in Approvals
    BY DEF SeparationInv, Types
  <2> QED
    BY <2>1, <2>2 DEF TypeOK, FilesInv, FileInv
<1>3. SeparationInv /\ FilesInv /\ [Next]_vars
         => SeparationInv' /\ FilesInv'
  BY SeparationNext, FilesNext
<1> QED
  BY SeparationInit, FilesInit, <1>2, <1>3, PTL DEF Spec

-----------------------------------------------------------------------------
(* What the events show of a closed item, for any number of processes      *)

\* Event h approves the execution that event i records, by somebody else.
Ran(h, i) ==
    /\ h \in Saying("execution_approval") /\ i \in Saying("execution_recorded")
    /\ h < i /\ events[h].actor # events[i].actor

\* Event j records that this execution passed a validation by somebody else.
Passed(h, i, j) ==
    /\ Ran(h, i)
    /\ j \in Saying("validation_completed")
    /\ i < j /\ events[i].actor # events[j].actor

RanBy(a) == \E h, i \in DOMAIN events : Ran(h, i) /\ events[i].actor = a
RanByOther(a) == \E h, i \in DOMAIN events : Ran(h, i) /\ events[i].actor # a
WasPassed == \E h, i, j \in DOMAIN events : Passed(h, i, j)
PassedForOther(a) == \E h, i, j \in DOMAIN events :
                        Passed(h, i, j) /\ events[h].actor # a
Shown == \E h, i, j, k \in DOMAIN events :
            /\ Passed(h, i, j)
            /\ k \in Saying("closure_approval")
            /\ j < k /\ events[k].actor # events[h].actor

\* What the events show of the rows.
LogRows ==
    /\ \A n \in Granted("execution") :
          \E h \in Saying("execution_approval") :
             events[h].actor = approvals[n].actor
    /\ \A h \in Saying("execution_approval") :
          \E n \in DOMAIN approvals : approvals[n].actor = events[h].actor
    /\ \A x \in executions : RanBy(x.actor)
    /\ executions # {} => \E x \in executions :
                             \A y \in executions : y.id <= x.id
    /\ item.state = "awaiting_closure_approval" => WasPassed
    /\ item.state = "closed" => Shown

\* What the events show of an operation o in progress.
LogOp(o) ==
    /\ o.pc = "read_prior" => WasPassed
    /\ o.to = "closed" /\ o.pc = "record" => PassedForOther(o.actor)
    /\ o.to = "closed" /\ o.pc \in {"check", "write"} => Shown
    /\ o.to = "awaiting_closure_approval" =>
          \/ o.pc \in {"read_last", "insert_event"} /\ RanByOther(o.actor)
          \/ o.pc \in {"check", "write"} /\ WasPassed

LogInv == LogRows /\ \A p \in Processes : LogOp(op[p])

\* An event at the end leaves those before it where they are.
LEMMA EventsGrow ==
    ASSUME events \in Seq(Events), NEW e, events' = Append(events, e)
    PROVE  /\ Len(events) + 1 \in DOMAIN events'
           /\ events'[Len(events) + 1] = e
           /\ \A i \in DOMAIN events : /\ i \in DOMAIN events'
                                       /\ events'[i] = events[i]
                                       /\ i < Len(events) + 1
           /\ \A kind : \A i \in Saying(kind) :
                 /\ i \in DOMAIN events /\ i \in Saying(kind)'
           /\ \A kind : \A i \in Saying(kind)' :
                 i \in Saying(kind) \/ i = Len(events) + 1
<1>1. /\ Len(events) \in Nat
      /\ DOMAIN events = 1 .. Len(events)
      /\ DOMAIN events' = 1 .. Len(events) + 1
      /\ events'[Len(events) + 1] = e
      /\ \A i \in DOMAIN events : events'[i] = events[i]
  OBVIOUS
<1>2. \A i \in DOMAIN events : i \in DOMAIN events' /\ i < Len(events) + 1
  BY <1>1
<1>3. ASSUME NEW kind, NEW i \in Saying(kind)
      PROVE  i \in DOMAIN events /\ i \in Saying(kind)'
  BY <1>1, <1>2 DEF Saying
<1>4. ASSUME NEW kind, NEW i \in Saying(kind)'
      PROVE  i \in Saying(kind) \/ i = Len(events) + 1
  BY <1>1 DEF Saying
<1> QED
  BY <1>1, <1>2, <1>3, <1>4

\* What the events have shown they go on showing.
LEMMA ShownForGood ==
    ASSUME events \in Seq(Events),
           UNCHANGED events \/ \E e : events' = Append(events, e)
    PROVE  /\ \A h, i : Ran(h, i) => Ran(h, i)'
           /\ \A h, i, j : Passed(h, i, j) => Passed(h, i, j)'
           /\ \A a : RanBy(a) => RanBy(a)'
           /\ \A a : RanByOther(a) => RanByOther(a)'
           /\ WasPassed => WasPassed'
           /\ \A a : PassedForOther(a) => PassedForOther(a)'
           /\ Shown => Shown'
<1>1. /\ \A i \in DOMAIN events : i \in DOMAIN events' /\ events'[i] = events[i]
      /\ \A kind : \A i \in Saying(kind) :
            i \in DOMAIN events /\ i \in Saying(kind)'
  <2>1. CASE UNCHANGED events
    BY <2>1 DEF Saying
  <2>2. CASE \E e : events' = Append(events, e)
    BY <2>2, EventsGrow
  <2> QED
    BY <2>1, <2>2
<1>2. ASSUME NEW h, NEW i, Ran(h, i) PROVE Ran(h, i)'
  BY <1>1, <1>2 DEF Ran
<1>3. ASSUME NEW h, NEW i, NEW j, Passed(h, i, j) PROVE Passed(h, i, j)'
  <2>1. Ran(h, i) /\ Ran(h, i)' /\ i \in DOMAIN events /\ j \in DOMAIN events
    BY <1>1, <1>2, <1>3 DEF Passed, Ran
  <2> QED
    BY <2>1, <1>1, <1>3 DEF Passed
<1>5. ASSUME NEW a, RanBy(a) PROVE RanBy(a)'
  BY <1>1, <1>2, <1>5 DEF RanBy
<1>6. ASSUME NEW a, RanByOther(a) PROVE RanByOther(a)'
  BY <1>1, <1>2, <1>6 DEF RanByOther
<1>7. ASSUME WasPassed PROVE WasPassed'
  BY <1>1, <1>3, <1>7 DEF WasPassed
<1>8. ASSUME NEW a, PassedForOther(a) PROVE PassedForOther(a)'
  BY <1>1, <1>3, <1>8 DEF PassedForOther
<1>9. ASSUME Shown PROVE Shown'
  BY <1>1, <1>3, <1>9 DEF Shown
<1> QED
  BY <1>2, <1>3, <1>5, <1>6, <1>7, <1>8, <1>9

\* An operation keeps what the events showed of it.
LEMMA OperationsShown ==
    ASSUME events \in Seq(Events), NEW o, LogOp(o),
           UNCHANGED events \/ \E e : events' = Append(events, e)
    PROVE  LogOp(o)'
<1>1. /\ WasPassed => WasPassed'
      /\ Shown => Shown'
      /\ PassedForOther(o.actor) => PassedForOther(o.actor)'
      /\ RanByOther(o.actor) => RanByOther(o.actor)'
  BY ShownForGood
<1> QED
  BY <1>1 DEF LogOp

\* So do the operations other than the one whose step it is.
LEMMA LogStep ==
    ASSUME SeparationInv, LogInv, NEW p \in Processes, NEW o, Goes(p, o),
           UNCHANGED events \/ \E e : events' = Append(events, e),
           LogRows', LogOp(o)'
    PROVE  LogInv'
<1>1. /\ events \in Seq(Events)
      /\ op'[p] = o /\ \A q \in Processes \ {p} : op'[q] = op[q]
  BY DEF SeparationInv, Types, Goes
<1>2. ASSUME NEW q \in Processes PROVE LogOp(op[q])'
  <2>1. PICK r : r = op'[q]
    OBVIOUS
  <2>2. LogOp(r)'
    <3>1. CASE q = p
      BY <3>1, <2>1, <1>1
    <3>2. CASE q # p
      <4>1. LogOp(r)
        BY <3>2, <2>1, <1>1 DEF LogInv
      <4> QED
        BY <4>1, <1>1, OperationsShown
    <3> QED
      BY <3>1, <3>2
  <2> QED
    BY <2>1, <2>2 DEF LogOp, PassedForOther, RanByOther
<1> QED
  BY <1>2 DEF LogInv

\* A step that leaves the rows and the events alone shows nothing new.
LEMMA LogLocal ==
    ASSUME SeparationInv, LogInv, NEW p \in Processes, NEW o, Goes(p, o),
           UNCHANGED <<item, approvals, executions, events>>, LogOp(o)
    PROVE  LogInv'
<1>1. LogRows'
  <2>1. /\ WasPassed' <=> WasPassed
        /\ Shown' <=> Shown
        /\ \A a : RanBy(a)' <=> RanBy(a)
        /\ \A kind : Saying(kind)' = Saying(kind)
        /\ Granted("execution")' = Granted("execution")
    BY DEF WasPassed, Shown, RanBy, Passed, Ran, Saying, Granted
  <2> QED
    BY <2>1 DEF LogInv, LogRows
<1>2. LogOp(o)'
  BY OperationsShown DEF SeparationInv, Types
<1> QED
  BY <1>1, <1>2, LogStep

\* Reads and checks.
LEMMA LogReading ==
    ASSUME SeparationInv, FilesInv, LogInv, NEW p \in Processes,
           \/ \E a \in Actors :
                 \/ Triage(p, a) \/ Plan(p, a) \/ Execute(p, a)
                 \/ Validate(p, a)
                 \/ \E d \in Decisions :
                       ApproveExecution(p, a, d) \/ ApproveClosure(p, a, d)
           \/ Check(p) \/ ReadPriorActors(p) \/ ReadApprovals(p)
           \/ Reread(p) \/ RunTool(p) \/ ExecutionFails(p) \/ Fallback(p)
           \/ ReadExecution(p) \/ ReadLastEvent(p) \/ Crash(p)
    PROVE  LogInv'
<1>1. /\ UNCHANGED <<item, approvals, executions, events>>
      /\ \E o : Goes(p, o)
  BY DEF Triage, Plan, Execute, Validate, ApproveExecution, ApproveClosure,
         Check, ReadPriorActors, ReadApprovals, Reread, RunTool,
         ExecutionFails, Fallback, ReadExecution, ReadLastEvent, Crash
<1>2. PICK o : Goes(p, o)
  BY <1>1
<1>3. o = op'[p] /\ op[p] \in Operation /\ LogOp(op[p]) /\ LogRows
  BY <1>2 DEF Goes, SeparationInv, Types, LogInv
<1>4. LogOp(o)
  <2>1. ASSUME NEW a \in Actors,
               Triage(p, a) \/ Plan(p, a) \/ Execute(p, a) \/ Validate(p, a)
        PROVE  LogOp(o)
    BY <2>1, <1>3, Beginnings DEF LogOp, Is
  <2>2. ASSUME NEW a \in Actors, NEW d \in Decisions, ApproveExecution(p, a, d)
        PROVE  LogOp(o)
    BY <2>2, <1>3, Beginnings DEF LogOp, Is
  <2>3. ASSUME NEW a \in Actors, NEW d \in Decisions, ApproveClosure(p, a, d)
        PROVE  LogOp(o)
    <3>1. WasPassed
      BY <2>3, <1>3 DEF ApproveClosure, Reads, LogRows
    <3> QED
      BY <3>1, <2>3, <1>3, Beginnings DEF LogOp, Is
  <2>4. CASE Check(p)
    BY <2>4, <1>3, Continuations DEF Check, GoneTo, Over, Is, LogOp
  <2>5. CASE ReadPriorActors(p)
    <3>1. CASE Over(o)
      BY <3>1 DEF Over, Is, LogOp
    <3>2. CASE /\ GoneTo(o, p, "record")
               /\ op[p].actor \notin {approvals[i].actor : i \in DOMAIN approvals}
      <4>1. op[p].pc = "read_prior" /\ op[p].to # "awaiting_closure_approval"
        BY <2>5, <1>3 DEF ReadPriorActors, LogOp
      <4>2. PICK h \in DOMAIN events, i \in DOMAIN events, j \in DOMAIN events :
               Passed(h, i, j)
        BY <4>1, <1>3 DEF LogOp, WasPassed
      <4>3. h \in Saying("execution_approval")
        BY <4>2 DEF Passed, Ran
      <4>4. events[h].actor # op[p].actor
        BY <4>3, <3>2, <1>3 DEF LogRows
      <4>5. PassedForOther(op[p].actor)
        BY <4>2, <4>4 DEF PassedForOther
      <4> QED
        BY <4>1, <4>5, <3>2 DEF GoneTo, Is, LogOp
    <3> QED
      BY <3>1, <3>2, <2>5, <1>3, Continuations
  <2>6. CASE ReadApprovals(p)
    BY <2>6, <1>3, Continuations DEF Over, Is, LogOp
  <2>7. CASE Reread(p)
    BY <2>7, <1>3, Continuations DEF Reread, Is, LogOp
  <2>8. CASE RunTool(p)
    BY <2>8, <1>3, Continuations DEF RunTool, GoneTo, Is, LogOp
  <2>9. CASE ExecutionFails(p)
    BY <2>9, <1>3, Continuations DEF ExecutionFails, GoneTo, Is, LogOp
  <2>10. CASE Fallback(p)
    BY <2>10, <1>3, Continuations DEF Is, LogOp
  <2>11. CASE ReadExecution(p)
    <3>1. CASE o = Idle
      BY <3>1 DEF Idle, LogOp
    <3>2. CASE o # Idle
      <4>0. op[p].pc = "validate" /\ executions # {}
        BY <2>11 DEF ReadExecution, SeparationInv, OpInv
      <4>1. /\ op[p].actor # latest_execution.actor
            /\ \E to : o = [op[p] EXCEPT !.pc = "read_last", !.to = to]
        <5>1. \A r : Goes(p, r) => o = r
          BY <1>2, <1>3 DEF Goes, SeparationInv, Types
        <5> QED
          BY <5>1, <3>2, <2>11 DEF ReadExecution
      <4>2. latest_execution \in executions
        BY <4>0, <1>3 DEF LogRows, latest_execution
      <4>3. RanByOther(op[p].actor)
        BY <4>1, <4>2, <1>3 DEF LogRows, RanBy, RanByOther
      <4>4. o.pc = "read_last" /\ o.actor = op[p].actor
        BY <4>1, <1>3 DEF Operation
      <4> QED
        BY <4>3, <4>4 DEF LogOp
    <3> QED
      BY <3>1, <3>2
  <2>12. CASE ReadLastEvent(p)
    BY <2>12, <1>3, Continuations DEF ReadLastEvent, GoneTo, Is, LogOp
  <2>13. CASE Crash(p)
    BY <2>13, <1>3, Continuations DEF Over, Is, LogOp
  <2> QED
    BY <2>1, <2>2, <2>3, <2>4, <2>5, <2>6, <2>7, <2>8, <2>9, <2>10, <2>11,
       <2>12, <2>13
<1> QED
  BY <1>1, <1>2, <1>4, LogLocal
\* A step that appends an event and leaves approvals and executions alone.
LEMMA LogRowsKept ==
    ASSUME SeparationInv, LogInv, UNCHANGED <<approvals, executions>>,
           NEW e, events' = Append(events, e),
           e.kind = "execution_approval" => ~e.positive,
           item'.state = "awaiting_closure_approval" => WasPassed,
           item'.state = "closed" => Shown
    PROVE  LogRows'
<1>1. events \in Seq(Events) /\ LogRows
  BY DEF SeparationInv, Types, LogInv
<1>2. /\ WasPassed => WasPassed'
      /\ Shown => Shown'
      /\ \A a : RanBy(a) => RanBy(a)'
  BY <1>1, ShownForGood
<1>3. Saying("execution_approval")' = Saying("execution_approval")
  BY <1>1, EventsGrow DEF Saying
<1>4. \A h \in Saying("execution_approval") : events'[h] = events[h]
  BY <1>1, EventsGrow DEF Saying
<1>5. Granted("execution")' = Granted("execution")
  BY DEF Granted
<1>6. \A h \in Saying("execution_approval")' :
         \E n \in DOMAIN approvals' : approvals'[n].actor = events'[h].actor
  BY <1>1, <1>3, <1>4 DEF LogRows
<1>7. ASSUME NEW n \in Granted("execution")'
      PROVE  \E h \in Saying("execution_approval")' :
                events'[h].actor = approvals'[n].actor
  <2>1. n \in Granted("execution")
    BY <1>5, <1>7
  <2>2. PICK h \in Saying("execution_approval") :
           events[h].actor = approvals[n].actor
    BY <2>1, <1>1 DEF LogRows
  <2> QED
    BY <2>2, <1>3, <1>4
<1>8. ASSUME NEW x \in executions' PROVE RanBy(x.actor)'
  BY <1>1, <1>2 DEF LogRows
<1> QED
  BY <1>1, <1>2, <1>6, <1>7, <1>8 DEF LogRows

\* Ingestion, transitions and plans.
LEMMA LogWriting ==
    ASSUME SeparationInv, LogInv, NEW p \in Processes,
           (\E a \in Actors : Ingest(p, a)) \/ Write(p) \/ SavePlan(p)
    PROVE  LogInv'
<1>0. /\ events \in Seq(Events) /\ LogRows /\ LogOp(op[p])
      /\ op[p] \in Operation /\ op \in [Processes -> Operation]
  BY DEF SeparationInv, Types, LogInv
<1>1. ASSUME NEW kind \in Kinds \ {"execution_approval"},
             Logged(kind, NoActor, TRUE)
      PROVE  \E e : /\ events' = Append(events, e)
                    /\ e.kind # "execution_approval"
  BY <1>0, <1>1, LoggedEvent
<1>2. ASSUME NEW a \in Actors, Ingest(p, a) PROVE LogInv'
  <2>1. PICK e : events' = Append(events, e) /\ e.kind # "execution_approval"
    BY <1>1, <1>2, Names DEF Ingest
  <2>2. item'.state = "new"
    BY <1>2 DEF Ingest, SeparationInv, Types
  <2>3. LogRows'
    BY <1>2, <2>1, <2>2, LogRowsKept DEF Ingest
  <2>4. Goes(p, op[p])
    BY <1>2, <1>0 DEF Ingest, Goes
  <2>5. PICK o : o = op[p]
    OBVIOUS
  <2>6. LogOp(o)'
    BY <2>5, <2>1, <1>0, OperationsShown
  <2> QED
    BY <2>1, <2>3, <2>4, <2>5, <2>6, LogStep
<1>3. ASSUME Write(p) PROVE LogInv'
  <2>1. PICK e : events' = Append(events, e) /\ e.kind # "execution_approval"
    BY <1>1, <1>3, Names DEF Write
  <2>2. item'.state = op[p].to /\ op[p].pc = "write"
    BY <1>3 DEF Write, SeparationInv, Types
  <2>3. LogRows'
    BY <1>0, <1>3, <2>1, <2>2, LogRowsKept DEF Write, LogOp
  <2>4. PICK o : Goes(p, o)
    BY <1>3 DEF Write
  <2>5. o = op'[p]
    BY <2>4, <1>0 DEF Goes
  <2>6. LogOp(o)
    BY <1>3, <2>5, Continuations DEF Over, Is, LogOp
  <2>7. LogOp(o)'
    BY <2>1, <2>6, <1>0, OperationsShown
  <2> QED
    BY <2>1, <2>3, <2>4, <2>7, LogStep
<1>4. ASSUME SavePlan(p) PROVE LogInv'
  <2>1. /\ UNCHANGED <<item, approvals, executions>>
        /\ UNCHANGED events \/ Logged("plan_created", NoActor, TRUE)
    BY <1>4 DEF SavePlan
  <2>2. PICK o : Goes(p, o)
    BY <1>4 DEF SavePlan
  <2>3. o = op'[p]
    BY <2>2, <1>0 DEF Goes
  <2>4. LogOp(o)
    BY <1>4, <2>3, Continuations DEF Over, Is, LogOp
  <2>5. CASE UNCHANGED events
    BY <2>1, <2>2, <2>4, <2>5, LogLocal
  <2>6. CASE Logged("plan_created", NoActor, TRUE)
    <3>1. PICK e : events' = Append(events, e) /\ e.kind # "execution_approval"
      BY <1>1, <2>6, Names
    <3>2. LogRows'
      BY <1>0, <2>1, <3>1, LogRowsKept DEF LogRows
    <3>3. LogOp(o)'
      BY <3>1, <2>4, <1>0, OperationsShown
    <3> QED
      BY <3>1, <3>2, <3>3, <2>2, LogStep
  <2> QED
    BY <2>1, <2>5, <2>6
<1> QED
  BY <1>2, <1>3, <1>4

\* A decision is recorded with the event that says so.
LEMMA LogApproving ==
    ASSUME SeparationInv, LogInv, NEW p \in Processes, AddApproval(p)
    PROVE  LogInv'
<1>0. /\ events \in Seq(Events) /\ approvals \in Seq(Approvals)
      /\ LogRows /\ LogOp(op[p])
      /\ op[p] \in Operation /\ op \in [Processes -> Operation]
      /\ op[p].pc = "record" /\ op[p].approval \in Approvals
      /\ op[p].approval.actor = op[p].actor
      /\ op[p].to = "closed" => /\ op[p].approval.stage = "closure"
                                /\ op[p].approval.decision = "approved"
      /\ UNCHANGED <<item, executions>>
      /\ approvals' = Append(approvals, op[p].approval)
  BY DEF SeparationInv, Types, LogInv, AddApproval, OpInv
<1> DEFINE n == Len(approvals) + 1
           k == Len(events) + 1
<1>1. PICK kind \in {"execution_approval", "closure_approval"}, yes \in BOOLEAN :
         /\ Logged(kind, op[p].actor, yes)
         /\ kind = "execution_approval" <=> op[p].approval.stage = "execution"
         /\ yes <=> op[p].approval.decision = "approved"
  BY ApprovalEvent
<1>2. PICK e : /\ events' = Append(events, e)
               /\ e.kind = kind /\ e.actor = op[p].actor
               /\ e.positive <=> yes
  <2> DEFINE e == Event(kind, op[p].actor, yes, Len(events))
  <2>1. e.kind = kind /\ e.actor = op[p].actor /\ e.positive = yes
    BY DEF Event
  <2>2. events' = Append(events, e)
    BY <1>1 DEF Logged
  <2> HIDE DEF e
  <2> QED
    BY <2>1, <2>2
<1>3. /\ k \in DOMAIN events' /\ events'[k] = e
      /\ \A i \in DOMAIN events : /\ i \in DOMAIN events'
                                  /\ events'[i] = events[i] /\ i < k
      /\ \A s : \A i \in Saying(s) : i \in DOMAIN events /\ i \in Saying(s)'
      /\ \A s : \A i \in Saying(s)' : i \in Saying(s) \/ i = k
  BY <1>0, <1>2, EventsGrow
<1>4. /\ n \in DOMAIN approvals' /\ approvals'[n] = op[p].approval
      /\ \A i \in DOMAIN approvals : /\ i \in DOMAIN approvals'
                                     /\ approvals'[i] = approvals[i]
      /\ DOMAIN approvals' = DOMAIN approvals \cup {n}
  BY <1>0
<1> HIDE DEF n, k
<1>5. ASSUME NEW m \in Granted("execution")'
      PROVE  \E h \in Saying("execution_approval")' :
                events'[h].actor = approvals'[m].actor
  <2>1. CASE m = n
    <3>1. op[p].approval.stage = "execution" /\ op[p].approval.decision = "approved"
      BY <2>1, <1>4, <1>5 DEF Granted
    <3>2. k \in Saying("execution_approval")'
      BY <3>1, <1>1, <1>2, <1>3 DEF Saying
    <3> QED
      BY <3>2, <2>1, <1>0, <1>2, <1>3, <1>4
  <2>2. CASE m \in DOMAIN approvals
    <3>1. m \in Granted("execution")
      BY <2>2, <1>4, <1>5 DEF Granted
    <3> QED
      BY <3>1, <2>2, <1>0, <1>3, <1>4 DEF LogRows
  <2> QED
    BY <2>1, <2>2, <1>4, <1>5 DEF Granted
<1>6. ASSUME NEW h \in Saying("execution_approval")'
      PROVE  \E m \in DOMAIN approvals' : approvals'[m].actor = events'[h].actor
  <2>1. CASE h = k
    BY <2>1, <1>0, <1>2, <1>3, <1>4
  <2>2. CASE h \in Saying("execution_approval")
    BY <2>2, <1>0, <1>3, <1>4 DEF LogRows
  <2> QED
    BY <2>1, <2>2, <1>3, <1>6
<1>7. /\ WasPassed => WasPassed'
      /\ Shown => Shown'
      /\ \A a : RanBy(a) => RanBy(a)'
      /\ \A h, i, j : Passed(h, i, j) => Passed(h, i, j)'
  BY <1>0, <1>2, ShownForGood
<1>8. LogRows'
  BY <1>0, <1>5, <1>6, <1>7 DEF LogRows
<1>9. PICK o : Goes(p, o)
  BY DEF AddApproval
<1>10. o = op'[p] /\ GoneTo(o, p, "check")
  BY <1>0, <1>9, Continuations DEF Goes
<1>11. LogOp(o)'
  <2>1. o.pc = "check" /\ o.to = op[p].to /\ o.to # "awaiting_closure_approval"
    BY <1>0, <1>10 DEF GoneTo, Is, LogOp
  <2>2. ASSUME op[p].to = "closed" PROVE Shown'
    <3>1. PICK h \in DOMAIN events, i \in DOMAIN events, j \in DOMAIN events :
             Passed(h, i, j) /\ events[h].actor # op[p].actor
      BY <2>2, <1>0 DEF LogOp, PassedForOther
    <3>2. Passed(h, i, j)' /\ h \in DOMAIN events' /\ i \in DOMAIN events'
          /\ j \in DOMAIN events' /\ j < k /\ events'[h] = events[h]
      BY <3>1, <1>3, <1>7
    <3>3. k \in Saying("closure_approval")'
      BY <2>2, <1>0, <1>1, <1>2, <1>3 DEF Saying
    <3> QED
      BY <3>1, <3>2, <3>3, <1>2, <1>3 DEF Shown
  <2> QED
    BY <2>1, <2>2 DEF LogOp
<1> QED
  BY <1>2, <1>8, <1>9, <1>11, LogStep
\* An execution is recorded after the approval that allowed it.
LEMMA LogExecuting ==
    ASSUME SeparationInv, FilesInv, FilesInv', LogInv, NEW p \in Processes,
           AddExecution(p)
    PROVE  LogInv'
<1>0. /\ events \in Seq(Events) /\ LogRows /\ LogOp(op[p])
      /\ op[p] \in Operation /\ op \in [Processes -> Operation]
      /\ Approved(op[p].actor)
      /\ UNCHANGED <<item, approvals>>
      /\ Logged("execution_recorded", op[p].actor, TRUE)
  BY DEF SeparationInv, Types, LogInv, AddExecution, OpInv
<1> DEFINE x == [actor |-> op[p].actor, attempt |-> op[p].attempt,
                 id |-> op[p].id]
<1>1. executions' = executions \cup {x} /\ x.actor = op[p].actor
  BY DEF AddExecution
<1>2. PICK e : /\ events' = Append(events, e)
               /\ e.kind = "execution_recorded" /\ e.actor = op[p].actor
               /\ e.positive
  <2> DEFINE e == Event("execution_recorded", op[p].actor, TRUE, Len(events))
  <2>1. e.kind = "execution_recorded" /\ e.actor = op[p].actor /\ e.positive
    BY DEF Event
  <2>2. events' = Append(events, e)
    BY <1>0 DEF Logged
  <2> HIDE DEF e
  <2> QED
    BY <2>1, <2>2
<1>k. PICK k : k = Len(events) + 1
  OBVIOUS
<1>3. /\ k \in DOMAIN events' /\ events'[k] = e
      /\ \A i \in DOMAIN events : /\ i \in DOMAIN events'
                                  /\ events'[i] = events[i] /\ i < k
      /\ \A s : \A i \in Saying(s) : i \in DOMAIN events /\ i \in Saying(s)'
  BY <1>0, <1>2, <1>k, EventsGrow
<1> HIDE DEF x
<1>4. PICK h \in Saying("execution_approval") : events[h].actor # op[p].actor
  BY <1>0 DEF LogRows, Approved
<1>5. k \in Saying("execution_recorded")'
  BY <1>2, <1>3 DEF Saying
<1>a. PICK a : a = op[p].actor
  OBVIOUS
<1>6. RanBy(a)'
  <2>1. /\ h \in Saying("execution_approval")' /\ h \in DOMAIN events'
        /\ h < k /\ events'[h] = events[h]
    BY <1>3, <1>4
  <2>2. Ran(h, k)'
    BY <2>1, <1>2, <1>3, <1>4, <1>5 DEF Ran
  <2> QED
    BY <2>1, <2>2, <1>2, <1>3, <1>a DEF RanBy
<1>7. \E y \in executions' : \A z \in executions' : z.id <= y.id
  <2>1. \A z \in executions' : z.id \in Nat
    BY DEF FilesInv, FileInv
  <2>2. CASE executions = {}
    BY <2>1, <2>2, <1>1
  <2>3. CASE executions # {}
    <3>1. PICK y \in executions : \A z \in executions : z.id <= y.id
      BY <2>3, <1>0 DEF LogRows
    <3>2. CASE x.id <= y.id
      BY <3>1, <3>2, <1>1
    <3>3. CASE ~(x.id <= y.id)
      BY <3>1, <3>3, <2>1, <1>1
    <3> QED
      BY <3>2, <3>3
  <2> QED
    BY <2>2, <2>3
<1>8. LogRows'
  <2>1. /\ WasPassed => WasPassed'
        /\ Shown => Shown'
        /\ \A b : RanBy(b) => RanBy(b)'
    BY <1>0, <1>2, ShownForGood
  <2>2. /\ Saying("execution_approval")' = Saying("execution_approval")
        /\ \A i \in Saying("execution_approval") : events'[i] = events[i]
    BY <1>0, <1>2, EventsGrow DEF Saying
  <2>3. Granted("execution")' = Granted("execution")
    BY <1>0 DEF Granted
  <2>4. ASSUME NEW y \in executions' PROVE RanBy(y.actor)'
    <3>1. CASE y \in executions
      BY <3>1, <2>1, <1>0 DEF LogRows
    <3>2. CASE y = x
      <4>1. y.actor = a
        BY <3>2, <1>1, <1>a
      <4> QED
        BY <4>1, <1>6
    <3> QED
      BY <3>1, <3>2, <1>1
  <2> QED
    BY <2>1, <2>2, <2>3, <2>4, <1>0, <1>7 DEF LogRows
<1>9. PICK o : Goes(p, o)
  BY DEF AddExecution
<1>10. o = op'[p]
  BY <1>0, <1>9 DEF Goes
<1>11. LogOp(o)'
  <2>1. LogOp(o)
    BY <1>10, Continuations DEF Is, LogOp
  <2> QED
    BY <2>1, <1>0, <1>2, OperationsShown
<1> QED
  BY <1>2, <1>8, <1>9, <1>11, LogStep

\* The event of a validation follows the execution that it is about.
LEMMA LogValidating ==
    ASSUME SeparationInv, LogInv, NEW p \in Processes, InsertEvent(p)
    PROVE  LogInv'
<1>0. /\ events \in Seq(Events) /\ LogRows /\ LogOp(op[p])
      /\ op[p] \in Operation /\ op \in [Processes -> Operation]
      /\ op[p].pc = "insert_event"
      /\ UNCHANGED <<item, approvals, executions>>
  BY DEF SeparationInv, Types, LogInv, InsertEvent
<1>1. PICK e : /\ events' = Append(events, e)
               /\ e.kind = "validation_completed" /\ e.actor = op[p].actor
               /\ op[p].to = "awaiting_closure_approval" => e.positive
  <2> DEFINE e == Event("validation_completed", op[p].actor,
                        op[p].to = "awaiting_closure_approval",
                        op[p].previous)
  <2>1. /\ e.kind = "validation_completed" /\ e.actor = op[p].actor
        /\ op[p].to = "awaiting_closure_approval" => e.positive
    BY DEF Event
  <2>2. events' = Append(events, e)
    BY DEF InsertEvent
  <2> HIDE DEF e
  <2> QED
    BY <2>1, <2>2
<1>k. PICK k : k = Len(events) + 1
  OBVIOUS
<1>2. /\ k \in DOMAIN events' /\ events'[k] = e
      /\ \A i \in DOMAIN events : /\ i \in DOMAIN events'
                                  /\ events'[i] = events[i] /\ i < k
  BY <1>0, <1>1, <1>k, EventsGrow
<1>3. LogRows'
  <2>1. e.kind # "execution_approval"
    BY <1>1
  <2> QED
    BY <2>1, <1>0, <1>1, LogRowsKept DEF LogRows
<1>4. PICK o : Goes(p, o)
  BY DEF InsertEvent
<1>5. o = op'[p] /\ GoneTo(o, p, "check")
  BY <1>0, <1>4, Continuations DEF Goes
<1>6. LogOp(o)'
  <2>1. o.pc = "check" /\ o.to = op[p].to /\ o.to # "closed"
    <3>1. op[p].to # "closed"
      BY <1>0 DEF SeparationInv, OpInv
    <3> QED
      BY <3>1, <1>5 DEF GoneTo, Is
  <2>2. ASSUME op[p].to = "awaiting_closure_approval" PROVE WasPassed'
    <3>1. PICK h \in DOMAIN events, i \in DOMAIN events :
             Ran(h, i) /\ events[i].actor # op[p].actor
      BY <2>2, <1>0 DEF LogOp, RanByOther
    <3>2. Ran(h, i)'
      BY <3>1, <1>0, <1>1, ShownForGood
    <3>3. k \in Saying("validation_completed")'
      BY <2>2, <1>1, <1>2 DEF Saying
    <3>4. Passed(h, i, k)'
      BY <3>1, <3>2, <3>3, <1>1, <1>2 DEF Passed
    <3> QED
      BY <3>4, <1>2 DEF WasPassed
  <2> QED
    BY <2>1, <2>2 DEF LogOp
<1> QED
  BY <1>1, <1>3, <1>4, <1>6, LogStep

\* Every step keeps what the events show.
LEMMA LogNext ==
    ASSUME SeparationInv, FilesInv, FilesInv', LogInv, [Next]_vars
    PROVE  LogInv'
<1>1. ASSUME NEW p \in Processes,
             (\E a \in Actors : Begin(p, a)) \/ Continue(p) \/ Crash(p)
      PROVE  LogInv'
  BY <1>1, LogReading, LogWriting, LogApproving, LogExecuting, LogValidating
  DEF Begin, Continue
<1>2. CASE UNCHANGED <<item, approvals, executions, events, op>>
  BY <1>2 DEF LogInv, LogRows, LogOp, Granted, Saying, RanBy, RanByOther,
              WasPassed, PassedForOther, Shown, Passed, Ran
<1>3. ASSUME NEW n \in DOMAIN artifacts, Damage(n) PROVE LogInv'
  BY <1>2, <1>3 DEF Damage
<1>4. CASE UNCHANGED vars
  BY <1>2, <1>4 DEF vars
<1> QED
  BY <1>1, <1>3, <1>4 DEF Next

\* However many processes read, decide, execute and validate at once, the events
\* of a closed item show an approved execution by somebody else than who approved
\* it, its validation by somebody else than who executed it and an approval of
\* the closure by somebody else than who approved the execution, in this order
\* (workflow.py:149-283).
THEOREM ClosuresAreLogged == Spec => []ClosureIsLogged
<1>1. Init => SeparationInv /\ FilesInv /\ LogInv
  <2>1. Init => LogInv
    BY DEF Init, LogInv, LogRows, LogOp, Granted, Saying, Idle
  <2> QED
    BY <2>1, SeparationInit, FilesInit
<1>2. SeparationInv /\ FilesInv /\ LogInv /\ [Next]_vars
         => (SeparationInv /\ FilesInv /\ LogInv)'
  BY SeparationNext, FilesNext, LogNext
<1>3. LogInv => ClosureIsLogged
  BY DEF LogInv, LogRows, Shown, Passed, Ran, ClosureIsLogged
<1> QED
  BY <1>1, <1>2, <1>3, PTL DEF Spec
-----------------------------------------------------------------------------
(* One process at a time: the budget, the evidence and the table of        *)
(* transitions                                                             *)

Single == \A p, q \in Processes : p = q

\* The attempts that can be made: the first is made whatever the budget is.
Attempts == IF MaxRetries = 0 THEN 1 ELSE MaxRetries

\* The last execution on record has been validated.
Validated ==
    \E i \in DOMAIN events :
        /\ events[i].kind = "validation_completed" /\ events[i].positive
        /\ \A j \in i .. Len(events) : events[j].kind # "execution_recorded"

\* a has no part in what is on record, the approvals at `rows` among it.
Independent(a, rows) ==
    a \notin {approvals[i].actor : i \in rows}
                \cup {item.created_by, latest_execution.actor}

ClosureApproved ==
    LET closure == approvals[Len(approvals)]
    IN  /\ closure.stage = "closure"
        /\ closure.decision = "approved"
        /\ Independent(closure.actor, 1 .. Len(approvals) - 1)

\* Where the item is has been paid for: by attempts that are left, by the
\* evidence and by the decision.
ItemInv ==
    /\ item.retry_count <= Attempts
    /\ item.state \in {"approved", "executing"} => item.retry_count < Attempts
    /\ planner = NoActor
          \/ item.state \in {"planned", "awaiting_execution_approval"}
          => item.retry_count = 0
    /\ \A e \in executions :
          \/ e.attempt <= item.retry_count
          \/ item.state = "executing" /\ e.attempt = item.retry_count + 1
    /\ \A e, f \in executions : e.attempt = f.attempt => e = f
    /\ item.state \in {"awaiting_closure_approval", "closed"} => Validated
    /\ item.state = "closed" => ClosureApproved

\* The item is still where the operation found it.
Place(p) ==
    /\ op[p].pc = "write" => <<item.state, op[p].to>> \in ALLOWED_TRANSITIONS
    /\ op[p].pc = "save_plan" => item.state = "triaged"
    /\ op[p].pc = "read_prior" => item.state = "awaiting_closure_approval"
    /\ op[p].pc = "record" =>
          item.state = IF op[p].approval.stage = "closure"
                       THEN "awaiting_closure_approval"
                       ELSE "awaiting_execution_approval"
    /\ op[p].pc = "read_approvals" \/ op[p].to = "executing" =>
          item.state = "approved"
    /\ op[p].next = "reread" <=> op[p].to = "executing"
    /\ op[p].next = "await" <=> op[p].to = "planned"
    /\ op[p].to = "planned" => item.state = "triaged" /\ item.retry_count = 0
    /\ op[p].to = "awaiting_execution_approval" => item.state = "planned"
    /\ op[p].pc \in {"validate", "read_last", "insert_event"}
          \/ op[p].to = "awaiting_closure_approval" => item.state = "validating"
    /\ op[p].to = "closed" => item.state = "awaiting_closure_approval"
    /\ op[p].to = "approved" => /\ item.retry_count < Attempts
                                /\ op[p].attempt < Attempts

\* The attempt that is being made is the next one, and only the process that
\* makes it takes the item out of "executing".
Attempt(p) ==
    /\ op[p].attempt # 0 => /\ op[p].attempt = item.retry_count + 1
                            /\ item.state = "executing"
    /\ op[p].pc = "reread" => item.state = "executing" /\ op[p].attempt = 0
    /\ op[p].pc \in {"run", "add_execution", "fallback"}
          \/ op[p].to = "validating" => op[p].attempt # 0
    /\ op[p].pc \in {"reread", "run", "add_execution"} =>
          \A e \in executions : e.attempt <= item.retry_count
    /\ item.state = "executing" =>
          \/ op[p].pc \in {"idle", "reread"}
          \/ op[p].attempt # 0
          \/ op[p].pc = "check" /\ op[p].to = "triaged"
    /\ op[p].pc = "validate" => op[p].retries = item.retry_count

\* What the operation has found of validations and approvals is the last word on
\* them.
Evidence(p) ==
    /\ op[p].to = "awaiting_closure_approval" /\ op[p].pc \in {"check", "write"}
          => Validated
    /\ op[p].to = "closed" /\ op[p].pc = "record" =>
          Independent(op[p].actor, DOMAIN approvals)
    /\ op[p].to = "closed" /\ op[p].pc \in {"check", "write"} =>
          ClosureApproved

SoloInv == ItemInv /\ \A p \in Processes : Place(p) /\ Attempt(p) /\ Evidence(p)

\* What the steps of a single process start from.
LEMMA SoloFacts ==
    ASSUME SeparationInv, FilesInv, SoloInv, NEW p \in Processes
    PROVE  /\ op[p] \in Operation /\ op[p].attempt \in Nat
           /\ item.retry_count \in Nat
           /\ item.state \in WORK_STATES \cup {"absent"}
           /\ events \in Seq(Events) /\ approvals \in Seq(Approvals)
           /\ \A e \in executions : e.attempt \in Nat
           /\ MaxRetries \in Nat /\ Attempts \in Nat \ {0}
           /\ MaxRetries <= Attempts
           /\ ItemInv /\ Place(p) /\ Attempt(p) /\ Evidence(p) /\ OpInv(p)
           /\ RowsInv
<1>1. /\ op[p] \in Operation /\ item.retry_count \in Nat
      /\ item.state \in WORK_STATES \cup {"absent"}
      /\ events \in Seq(Events) /\ approvals \in Seq(Approvals)
  BY DEF SeparationInv, Types
<1>2. op[p].attempt \in Nat
  BY <1>1 DEF Operation
<1>3. MaxRetries \in Nat /\ Attempts \in Nat \ {0} /\ MaxRetries <= Attempts
  BY BoundAssumption DEF Attempts
<1>4. \A e \in executions : e.attempt \in Nat
  BY DEF FilesInv, FileInv
<1> QED
  BY <1>1, <1>2, <1>3, <1>4 DEF SoloInv, SeparationInv

\* With one process there is nothing to keep for the others.
LEMMA SoloStep ==
    ASSUME Single, NEW p \in Processes, ItemInv', Place(p)', Attempt(p)',
           Evidence(p)'
    PROVE  SoloInv'
BY DEF SoloInv, Single

\* A step that leaves the tables alone changes nothing they say.
LEMMA SoloSame ==
    ASSUME UNCHANGED <<item, planner, approvals, executions, events>>
    PROVE  /\ ItemInv' <=> ItemInv
           /\ Validated' <=> Validated
           /\ ClosureApproved' <=> ClosureApproved
           /\ \A a, rows : Independent(a, rows)' <=> Independent(a, rows)
<1>1. Validated' <=> Validated
  BY DEF Validated
<1>2. latest_execution' = latest_execution
  BY DEF latest_execution
<1>3. \A a, rows : Independent(a, rows)' <=> Independent(a, rows)
  BY <1>2 DEF Independent
<1>4. ClosureApproved' <=> ClosureApproved
  BY <1>2 DEF ClosureApproved, Independent
<1>5. ItemInv' <=> ItemInv
  BY <1>1, <1>4 DEF ItemInv
<1> QED
  BY <1>1, <1>3, <1>4, <1>5

\* An operation that is over owes nothing.
LEMMA SoloOver ==
    ASSUME NEW p \in Processes, Over(op'[p])
    PROVE  Place(p)' /\ Attempt(p)' /\ Evidence(p)'
BY DEF Over, Is, Place, Attempt, Evidence

\* The steps that leave the tables alone.
LEMMA SoloReading ==
    ASSUME Single, SeparationInv, FilesInv, SoloInv, NEW p \in Processes,
           \/ \E a \in Actors :
                 \/ Triage(p, a) \/ Plan(p, a) \/ Execute(p, a)
                 \/ Validate(p, a)
                 \/ \E d \in Decisions :
                       ApproveExecution(p, a, d) \/ ApproveClosure(p, a, d)
           \/ Check(p) \/ ReadPriorActors(p) \/ ReadApprovals(p)
           \/ Reread(p) \/ RunTool(p) \/ ExecutionFails(p) \/ Fallback(p)
           \/ ReadExecution(p) \/ ReadLastEvent(p) \/ Crash(p)
    PROVE  SoloInv'
<1>0. /\ op[p] \in Operation /\ op[p].attempt \in Nat
      /\ item.retry_count \in Nat
      /\ MaxRetries \in Nat /\ Attempts \in Nat \ {0}
      /\ MaxRetries <= Attempts
      /\ ItemInv /\ Place(p) /\ Attempt(p) /\ Evidence(p) /\ OpInv(p)
  BY SoloFacts
<1>1. UNCHANGED <<item, planner, approvals, executions, events>>
  BY DEF Triage, Plan, Execute, Validate, ApproveExecution, ApproveClosure,
         Check, ReadPriorActors, ReadApprovals, Reread, RunTool,
         ExecutionFails, Fallback, ReadExecution, ReadLastEvent, Crash
<1>2. /\ ItemInv' /\ (Validated' <=> Validated)
      /\ ClosureApproved' <=> ClosureApproved
      /\ \A a, rows : Independent(a, rows)' <=> Independent(a, rows)
  BY <1>0, <1>1, SoloSame
<1>3. /\ item' = item /\ executions' = executions /\ events' = events
      /\ approvals' = approvals
  BY <1>1
<1>4. ASSUME Place(p)', Attempt(p)', Evidence(p)' PROVE SoloInv'
  BY <1>2, <1>4, SoloStep
<1>5. ASSUME Over(op'[p]) PROVE SoloInv'
  BY <1>4, <1>5, SoloOver
\* The operations that begin find the item where they look for it.
<1>6. ASSUME NEW a \in Actors, Triage(p, a) PROVE SoloInv'
  <2>1. Is(op'[p], "check", "triaged", "idle", 0)
    BY <1>6, Beginnings
  <2> QED
    BY <2>1, <1>3, <1>4 DEF Is, Place, Attempt, Evidence
<1>7. ASSUME NEW a \in Actors, Plan(p, a) PROVE SoloInv'
  <2>1. Is(op'[p], "save_plan", "new", "idle", 0) /\ item.state = "triaged"
    BY <1>7, Beginnings DEF Plan, Reads
  <2> QED
    BY <2>1, <1>3, <1>4 DEF Is, Place, Attempt, Evidence
<1>8. ASSUME NEW a \in Actors, Execute(p, a) PROVE SoloInv'
  <2>1. /\ Is(op'[p], "read_approvals", "new", "idle", 0)
        /\ item.state = "approved"
    BY <1>8, Beginnings DEF Execute, Reads
  <2> QED
    BY <2>1, <1>3, <1>4 DEF Is, Place, Attempt, Evidence
<1>9. ASSUME NEW a \in Actors, Validate(p, a) PROVE SoloInv'
  <2>1. /\ Is(op'[p], "validate", "new", "idle", 0)
        /\ op'[p].retries = item.retry_count
        /\ item.state = "validating"
    BY <1>9, Beginnings DEF Validate, Reads
  <2> QED
    BY <2>1, <1>3, <1>4 DEF Is, Place, Attempt, Evidence
<1>10. ASSUME NEW a \in Actors, NEW d \in Decisions, ApproveExecution(p, a, d)
       PROVE  SoloInv'
  <2>1. /\ Is(op'[p], "record",
              IF d = "approved" THEN "approved" ELSE "manual_review",
              "idle", 0)
        /\ op'[p].approval.stage = "execution"
    BY <1>10, Beginnings
  <2>2. item.state = "awaiting_execution_approval" /\ item.retry_count = 0
    BY <1>10, <1>0 DEF ApproveExecution, Reads, ItemInv
  <2> QED
    BY <2>1, <2>2, <1>0, <1>3, <1>4 DEF Is, Place, Attempt, Evidence
<1>11. ASSUME NEW a \in Actors, NEW d \in Decisions, ApproveClosure(p, a, d)
       PROVE  SoloInv'
  <2>1. /\ Is(op'[p], "read_prior",
              IF d = "approved" THEN "closed" ELSE "manual_review", "idle", 0)
        /\ item.state = "awaiting_closure_approval"
    BY <1>11, Beginnings DEF ApproveClosure, Reads
  <2> QED
    BY <2>1, <1>3, <1>4 DEF Is, Place, Attempt, Evidence
\* The operations that go on find it where they left it.
<1>12. ASSUME Check(p) PROVE SoloInv'
  <2>0. op[p].pc = "check"
    BY <1>12 DEF Check
  <2>1. CASE /\ <<item.state, op[p].to>> \in ALLOWED_TRANSITIONS
             /\ GoneTo(op'[p], p, "write")
    <3>1. <<"executing", "triaged">> \notin ALLOWED_TRANSITIONS
      BY DEF ALLOWED_TRANSITIONS
    <3>2. Place(p)'
      BY <2>0, <2>1, <1>0, <1>3 DEF GoneTo, Is, Place
    <3>3. Attempt(p)'
      BY <2>0, <2>1, <3>1, <1>0, <1>3 DEF GoneTo, Is, Attempt
    <3>4. Evidence(p)'
      BY <2>0, <2>1, <1>0, <1>2 DEF GoneTo, Is, Evidence
    <3> QED
      BY <3>2, <3>3, <3>4, <1>4
  <2>2. CASE op[p].to = "validating" /\ GoneTo(op'[p], p, "fallback")
    BY <2>0, <2>2, <1>0, <1>3, <1>4 DEF GoneTo, Is, Place, Attempt, Evidence
  <2> QED
    BY <1>12, <2>1, <2>2, <1>5, Continuations
<1>13. ASSUME ReadPriorActors(p) PROVE SoloInv'
  <2>0. /\ op[p].pc = "read_prior" /\ op[p].approval.stage = "closure"
        /\ op[p].actor # item.created_by
    BY <1>13, <1>0 DEF ReadPriorActors, OpInv
  <2>1. CASE /\ GoneTo(op'[p], p, "record")
             /\ op[p].actor \notin {approvals[i].actor : i \in DOMAIN approvals}
                                      \cup {latest_execution.actor}
    <3>1. Independent(op[p].actor, DOMAIN approvals)
      BY <2>0, <2>1 DEF Independent
    <3>2. Independent(op[p].actor, DOMAIN approvals)'
      BY <3>1, <1>2, <1>3, <2>1 DEF GoneTo
    <3>3. Place(p)'
      BY <2>0, <2>1, <1>0, <1>3 DEF GoneTo, Is, Place
    <3>4. Attempt(p)'
      BY <2>0, <2>1, <1>0, <1>3 DEF GoneTo, Is, Place, Attempt
    <3>5. Evidence(p)'
      BY <2>0, <2>1, <3>2 DEF GoneTo, Is, Evidence
    <3> QED
      BY <3>3, <3>4, <3>5, <1>4
  <2> QED
    BY <1>13, <2>1, <1>5, Continuations
<1>14. ASSUME ReadApprovals(p) PROVE SoloInv'
  <2>0. op[p].pc = "read_approvals"
    BY <1>14 DEF ReadApprovals
  <2>1. CASE Is(op'[p], "check", "executing", "reread", 0)
    BY <2>0, <2>1, <1>0, <1>3, <1>4 DEF Is, Place, Attempt, Evidence
  <2> QED
    BY <1>14, <2>1, <1>5, Continuations
<1>15. ASSUME Reread(p) PROVE SoloInv'
  <2>0. op[p].pc = "reread" /\ op[p].to = "new"
    BY <1>15 DEF Reread, FilesInv, OpFile
  <2>1. Is(op'[p], "run", "new", op[p].next, item.retry_count + 1)
    BY <1>15, <2>0, Continuations
  <2> QED
    BY <2>0, <2>1, <1>0, <1>3, <1>4 DEF Is, Place, Attempt, Evidence
<1>16. ASSUME RunTool(p) PROVE SoloInv'
  <2>0. op[p].pc = "run" /\ op[p].to = "new"
    BY <1>16 DEF RunTool, FilesInv, OpFile
  <2>1. GoneTo(op'[p], p, "add_execution")
    BY <1>16, Continuations
  <2> QED
    BY <2>0, <2>1, <1>0, <1>3, <1>4 DEF GoneTo, Is, Place, Attempt, Evidence
<1>17. ASSUME ExecutionFails(p) PROVE SoloInv'
  <2>0. \/ op[p].pc \in {"run", "add_execution"}
        \/ op[p].pc \in {"check", "write"} /\ op[p].to = "validating"
    BY <1>17 DEF ExecutionFails
  <2>1. GoneTo(op'[p], p, "fallback")
    BY <1>17, Continuations
  <2>2. op[p].attempt # 0 /\ item.state = "executing"
    BY <2>0, <1>0 DEF Attempt
  <2>3. op[p].to # "awaiting_closure_approval" /\ op[p].to # "closed"
    BY <2>2, <1>0 DEF Place
  <2> QED
    BY <2>1, <2>2, <2>3, <1>0, <1>3, <1>4
    DEF GoneTo, Is, Place, Attempt, Evidence
<1>18. ASSUME Fallback(p) PROVE SoloInv'
  <2>0. op[p].pc = "fallback"
    BY <1>18 DEF Fallback
  <2>1. Is(op'[p], "check",
           IF op[p].attempt < MaxRetries THEN "approved" ELSE "manual_review",
           "idle", op[p].attempt)
    BY <1>18, Continuations
  <2>2. /\ op[p].attempt # 0 /\ op[p].attempt = item.retry_count + 1
        /\ item.state = "executing"
    BY <2>0, <1>0 DEF Attempt
  <2> QED
    BY <2>1, <2>2, <1>0, <1>3, <1>4 DEF Is, Place, Attempt, Evidence
<1>19. ASSUME ReadExecution(p) PROVE SoloInv'
  <2>0. /\ op[p].pc = "validate" /\ item.state = "validating"
        /\ op[p].retries = item.retry_count /\ op[p].attempt = 0
        /\ op[p].next = "idle"
    <3>1. op[p].pc = "validate"
      BY <1>19 DEF ReadExecution
    <3>2. /\ item.state = "validating" /\ op[p].retries = item.retry_count
          /\ op[p].attempt = 0
          /\ op[p].next # "reread" /\ op[p].next # "await"
      BY <3>1, <1>0 DEF Place, Attempt
    <3> QED
      BY <3>1, <3>2, <1>0 DEF Operation
  <2>1. ASSUME NEW to \in {"awaiting_closure_approval", "approved",
                           "manual_review"},
               Is(op'[p], "read_last", to, op[p].next, op[p].attempt),
               to = "approved" => op[p].retries < MaxRetries
        PROVE  SoloInv'
    BY <2>0, <2>1, <1>0, <1>3, <1>4 DEF Is, Place, Attempt, Evidence
  <2> QED
    BY <1>19, <2>1, <1>5, Continuations
<1>20. ASSUME ReadLastEvent(p) PROVE SoloInv'
  <2>0. op[p].pc = "read_last"
    BY <1>20 DEF ReadLastEvent
  <2>1. GoneTo(op'[p], p, "insert_event") /\ op'[p].previous = Len(events)
    BY <1>20, Continuations
  <2>2. op[p].to # "closed"
    BY <2>0, <1>0 DEF Place
  <2> QED
    BY <2>0, <2>1, <2>2, <1>0, <1>3, <1>4
    DEF GoneTo, Is, Place, Attempt, Evidence
<1>21. ASSUME Crash(p) PROVE SoloInv'
  BY <1>5, <1>21, Continuations
<1> QED
  BY <1>6, <1>7, <1>8, <1>9, <1>10, <1>11, <1>12, <1>13, <1>14, <1>15, <1>16,
     <1>17, <1>18, <1>19, <1>20, <1>21

\* A validation that is passed is the last word until an execution is recorded.
LEMMA ValidationStands ==
    ASSUME events \in Seq(Events), NEW e, events' = Append(events, e)
    PROVE  /\ e.kind = "validation_completed" /\ e.positive => Validated'
           /\ e.kind # "execution_recorded" /\ Validated => Validated'
<1> DEFINE n == Len(events) + 1
<1>2. /\ Len(events) \in Nat
      /\ Len(events') = n /\ DOMAIN events' = 1 .. n
      /\ events'[n] = e
      /\ \A i \in DOMAIN events : events'[i] = events[i]
      /\ DOMAIN events = 1 .. Len(events)
  OBVIOUS
<1>3. ASSUME e.kind = "validation_completed", e.positive PROVE Validated'
  <2>1. n \in DOMAIN events' /\ \A j \in n .. Len(events') : j = n
    BY <1>2
  <2>2. events'[n].kind = "validation_completed" /\ events'[n].positive
    BY <1>2, <1>3
  <2> QED
    BY <2>1, <2>2 DEF Validated
<1>4. ASSUME e.kind # "execution_recorded", Validated PROVE Validated'
  <2>1. PICK i \in DOMAIN events :
           /\ events[i].kind = "validation_completed" /\ events[i].positive
           /\ \A j \in i .. Len(events) : events[j].kind # "execution_recorded"
    BY <1>4 DEF Validated
  <2>2. /\ i \in DOMAIN events'
        /\ events'[i].kind = "validation_completed" /\ events'[i].positive
    BY <2>1, <1>2
  <2>3. ASSUME NEW j \in i .. Len(events')
        PROVE  events'[j].kind # "execution_recorded"
    <3>1. CASE j \in i .. Len(events)
      BY <3>1, <2>1, <1>2
    <3>2. CASE j = n
      BY <3>2, <1>2, <1>4
    <3> QED
      BY <3>1, <3>2, <2>1, <1>2
  <2> QED
    BY <2>2, <2>3 DEF Validated
<1> QED
  BY <1>3, <1>4

\* The transition is one of the table's, and it takes the item where the
\* attempts, the evidence and the decision allow it to be.
LEMMA SoloWriting ==
    ASSUME Single, SeparationInv, FilesInv, SoloInv, NEW p \in Processes,
           Write(p)
    PROVE  SoloInv'
<1>0. /\ op[p] \in Operation /\ op[p].attempt \in Nat
      /\ item.retry_count \in Nat /\ Attempts \in Nat \ {0}
      /\ events \in Seq(Events)
      /\ \A e \in executions : e.attempt \in Nat
      /\ ItemInv /\ Place(p) /\ Attempt(p) /\ Evidence(p) /\ OpInv(p)
      /\ RowsInv
      /\ op[p].pc = "write"
      /\ <<item.state, op[p].to>> \in ALLOWED_TRANSITIONS
  BY SoloFacts DEF Write, Place
<1>1. /\ item'.state = op[p].to
      /\ item'.created_by = item.created_by
      /\ item'.retry_count = IF op[p].attempt = 0 THEN item.retry_count
                                                  ELSE op[p].attempt
      /\ UNCHANGED <<planner, approvals, executions>>
      /\ events' = Append(events, Event("state_transition", NoActor, TRUE,
                                        Len(events)))
  BY DEF Write, Logged, SeparationInv, Types
<1>2. Validated => Validated'
  <2>1. Event("state_transition", NoActor, TRUE, Len(events)).kind
           = "state_transition"
    BY DEF Event
  <2> QED
    BY <2>1, <1>0, <1>1, ValidationStands
<1>3. ClosureApproved' <=> ClosureApproved
  <2>1. latest_execution' = latest_execution
    BY <1>1 DEF latest_execution
  <2> QED
    BY <2>1, <1>1 DEF ClosureApproved, Independent
\* An attempt is only ever written by the process that makes it.
<1>4. /\ item.state = "executing" => /\ op[p].attempt = item.retry_count + 1
                                     /\ op[p].attempt # 0
      /\ item.state # "executing" => op[p].attempt = 0
  BY <1>0 DEF Attempt
<1>5. ItemInv'
  <2>1. item'.retry_count <= Attempts
    BY <1>0, <1>1, <1>4 DEF ItemInv
  <2>2. item'.state \in {"approved", "executing"}
           => item'.retry_count < Attempts
    <3>1. CASE op[p].to = "approved"
      BY <3>1, <1>0, <1>1 DEF Place
    <3>2. CASE op[p].to = "executing"
      BY <3>2, <1>0, <1>1, <1>4 DEF Place, ItemInv
    <3> QED
      BY <3>1, <3>2, <1>1
  <2>3. planner' = NoActor
           \/ item'.state \in {"planned", "awaiting_execution_approval"}
           => item'.retry_count = 0
    <3>1. CASE planner = NoActor
      BY <3>1, <1>0, <1>1, <1>4 DEF RowsInv, ItemInv
    <3>2. CASE op[p].to \in {"planned", "awaiting_execution_approval"}
      BY <3>2, <1>0, <1>1, <1>4 DEF Place, ItemInv
    <3> QED
      BY <3>1, <3>2, <1>1
  <2>4. \A e \in executions : e.attempt <= item'.retry_count
    BY <1>0, <1>1, <1>4 DEF ItemInv
  <2>5. item'.state \in {"awaiting_closure_approval", "closed"} => Validated'
    BY <1>0, <1>1, <1>2 DEF Place, Evidence, ItemInv
  <2>6. item'.state = "closed" => ClosureApproved'
    BY <1>0, <1>1, <1>3 DEF Evidence
  <2>7. \A e, f \in executions : e.attempt = f.attempt => e = f
    BY <1>0 DEF ItemInv
  <2> QED
    BY <2>1, <2>2, <2>3, <2>4, <2>5, <2>6, <2>7, <1>1, <1>2 DEF ItemInv
<1>6. CASE op[p].next = "await" /\ Is(op'[p], "check",
                                      "awaiting_execution_approval", "idle", 0)
  <2>1. item'.state = "planned"
    BY <1>6, <1>0, <1>1 DEF Place
  <2>2. Place(p)' /\ Attempt(p)' /\ Evidence(p)'
    BY <1>6, <2>1 DEF Is, Place, Attempt, Evidence
  <2> QED
    BY <2>2, <1>5, SoloStep
<1>7. CASE op[p].next = "reread" /\ Is(op'[p], "reread", "new", "idle", 0)
  <2>1. /\ item'.state = "executing" /\ item.state = "approved"
        /\ item'.retry_count = item.retry_count
    BY <1>7, <1>0, <1>1, <1>4 DEF Place
  <2>2. \A e \in executions' : e.attempt <= item'.retry_count
    BY <2>1, <1>0, <1>1 DEF ItemInv
  <2>3. Place(p)' /\ Attempt(p)' /\ Evidence(p)'
    BY <1>7, <2>1, <2>2 DEF Is, Place, Attempt, Evidence
  <2> QED
    BY <2>3, <1>5, SoloStep
<1>8. CASE Over(op'[p])
  BY <1>5, <1>8, SoloOver, SoloStep
<1> QED
  BY <1>6, <1>7, <1>8, Continuations

\* The other steps that change the tables.
LEMMA SoloRecording ==
    ASSUME Single, SeparationInv, FilesInv, SoloInv, NEW p \in Processes,
           \/ \E a \in Actors : Ingest(p, a)
           \/ SavePlan(p) \/ AddApproval(p) \/ AddExecution(p) \/ InsertEvent(p)
    PROVE  SoloInv'
<1>0. /\ op[p] \in Operation /\ op[p].attempt \in Nat
      /\ item.retry_count \in Nat /\ Attempts \in Nat \ {0}
      /\ events \in Seq(Events) /\ approvals \in Seq(Approvals)
      /\ \A e \in executions : e.attempt \in Nat
      /\ ItemInv /\ Place(p) /\ Attempt(p) /\ Evidence(p) /\ OpInv(p)
      /\ RowsInv
  BY SoloFacts
<1>1. ASSUME NEW a \in Actors, Ingest(p, a) PROVE SoloInv'
  <2>1. /\ op'[p] = Idle
        /\ executions' = {} /\ planner = NoActor
        /\ item'.state = "new" /\ item'.retry_count = item.retry_count
        /\ UNCHANGED <<planner, approvals>>
    BY <1>1, <1>0 DEF Ingest, OpInv, RowsInv, SeparationInv, Types
  <2>3. item.retry_count = 0
    BY <2>1, <1>0 DEF ItemInv
  <2>4. ItemInv'
    BY <2>1, <2>3, <1>0 DEF ItemInv
  <2>5. Over(op'[p])
    BY <2>1 DEF Over, Is, Idle
  <2> QED
    BY <2>4, <2>5, SoloOver, SoloStep
<1>2. ASSUME SavePlan(p) PROVE SoloInv'
  <2>0. /\ op[p].pc = "save_plan" /\ item.state = "triaged"
        /\ UNCHANGED <<item, approvals, executions>>
    BY <1>2, <1>0 DEF SavePlan, Place
  <2>1. CASE planner # NoActor
    <3>1. UNCHANGED <<item, planner, approvals, executions, events>>
          /\ Over(op'[p])
      BY <2>1, <1>2, Continuations DEF SavePlan
    <3> QED
      BY <3>1, <1>0, SoloSame, SoloOver, SoloStep
  <2>2. CASE planner = NoActor
    <3>3. item.retry_count = 0
      BY <2>2, <1>0 DEF ItemInv
    <3>4. ItemInv'
      BY <2>0, <3>3, <1>0 DEF ItemInv
    <3>5. Is(op'[p], "check", "planned", "await", 0) \/ Over(op'[p])
      BY <1>2, Continuations
    <3>6. CASE Is(op'[p], "check", "planned", "await", 0)
      <4>1. Place(p)' /\ Attempt(p)' /\ Evidence(p)'
        BY <3>6, <2>0, <3>3 DEF Is, Place, Attempt, Evidence
      <4> QED
        BY <4>1, <3>4, SoloStep
    <3> QED
      BY <3>4, <3>5, <3>6, SoloOver, SoloStep
  <2> QED
    BY <2>1, <2>2
<1>3. ASSUME AddApproval(p) PROVE SoloInv'
  <2>0. /\ op[p].pc = "record"
        /\ item.state \in {"awaiting_closure_approval",
                           "awaiting_execution_approval"}
        /\ UNCHANGED <<item, planner, executions>>
        /\ approvals' = Append(approvals, op[p].approval)
    BY <1>3, <1>0 DEF AddApproval, Place
  <2>1. Validated => Validated'
    <3>1. PICK kind \in {"execution_approval", "closure_approval"},
               yes \in BOOLEAN : Logged(kind, op[p].actor, yes)
      BY <1>3, ApprovalEvent
    <3>2. Event(kind, op[p].actor, yes, Len(events)).kind = kind
      BY DEF Event
    <3> QED
      BY <3>1, <3>2, <1>0, ValidationStands DEF Logged
  <2>2. ItemInv'
    BY <2>0, <2>1, <1>0 DEF ItemInv
  <2>3. GoneTo(op'[p], p, "check")
    BY <1>3, Continuations
  <2>4. ASSUME op[p].to = "closed" PROVE ClosureApproved'
    <3>1. /\ op[p].approval.stage = "closure"
          /\ op[p].approval.decision = "approved"
          /\ op[p].approval.actor = op[p].actor
          /\ Independent(op[p].actor, DOMAIN approvals)
      BY <2>0, <2>4, <1>0 DEF OpInv, Evidence
    <3>2. /\ Len(approvals') = Len(approvals) + 1
          /\ approvals'[Len(approvals')] = op[p].approval
          /\ Len(approvals') - 1 = Len(approvals)
          /\ DOMAIN approvals = 1 .. Len(approvals)
          /\ \A i \in DOMAIN approvals : approvals'[i] = approvals[i]
      <4>1. op[p].approval \in Approvals
        BY <2>0, <1>0 DEF OpInv
      <4> QED
        BY <4>1, <2>0, <1>0
    <3>3. latest_execution' = latest_execution
      BY <2>0 DEF latest_execution
    <3>4. {approvals'[i].actor : i \in 1 .. Len(approvals') - 1}
             = {approvals[i].actor : i \in DOMAIN approvals}
      BY <3>2
    <3>5. op[p].actor \notin
             {approvals'[i].actor : i \in 1 .. Len(approvals') - 1}
                \cup {item'.created_by, latest_execution'.actor}
      BY <3>1, <3>3, <3>4, <2>0 DEF Independent
    <3>6. /\ approvals'[Len(approvals')].stage = "closure"
          /\ approvals'[Len(approvals')].decision = "approved"
          /\ approvals'[Len(approvals')].actor = op[p].actor
      BY <3>1, <3>2
    <3> QED
      BY ONLY <3>5, <3>6 DEF ClosureApproved, Independent
  <2>5. Place(p)'
    BY <2>0, <2>3, <1>0 DEF GoneTo, Is, Place
  <2>6. Attempt(p)'
    BY <2>0, <2>3, <1>0 DEF GoneTo, Is, Attempt
  <2>7. Evidence(p)'
    <3>1. op[p].to # "awaiting_closure_approval"
      BY <2>0, <1>0 DEF Place
    <3> QED
      BY <3>1, <2>0, <2>3, <2>4 DEF GoneTo, Is, Evidence
  <2> QED
    BY <2>2, <2>5, <2>6, <2>7, SoloStep
<1>4. ASSUME AddExecution(p) PROVE SoloInv'
  <2> DEFINE new == [actor |-> op[p].actor, attempt |-> op[p].attempt,
                     id |-> op[p].id]
  <2>0. /\ op[p].pc = "add_execution"
        /\ op[p].attempt = item.retry_count + 1
        /\ item.state = "executing"
        /\ \A e \in executions : e.attempt <= item.retry_count
        /\ UNCHANGED <<item, planner, approvals>>
        /\ executions' = executions \cup {new}
        /\ new.attempt = op[p].attempt
    BY <1>4, <1>0 DEF AddExecution, Attempt
  <2> HIDE DEF new
  <2>2. ItemInv'
    <3>1. \A e \in executions' : \/ e.attempt <= item.retry_count
                                 \/ e.attempt = item.retry_count + 1
      BY <2>0
    <3>2. \A e, f \in executions' : e.attempt = f.attempt => e = f
      BY <2>0, <1>0 DEF ItemInv
    <3> QED
      BY <3>1, <3>2, <2>0, <1>0 DEF ItemInv
  <2>3. Is(op'[p], "check", "validating", "idle", op[p].attempt)
    BY <1>4, Continuations
  <2>4. Place(p)' /\ Attempt(p)' /\ Evidence(p)'
    BY <2>0, <2>3, <1>0 DEF Is, Place, Attempt, Evidence
  <2> QED
    BY <2>2, <2>4, SoloStep
<1>5. ASSUME InsertEvent(p) PROVE SoloInv'
  <2>0. /\ op[p].pc = "insert_event" /\ item.state = "validating"
        /\ UNCHANGED <<item, planner, approvals, executions>>
        /\ events' = Append(events,
                            Event("validation_completed", op[p].actor,
                                  op[p].to = "awaiting_closure_approval",
                                  op[p].previous))
    BY <1>5, <1>0 DEF InsertEvent, Place
  <2>1. op[p].to = "awaiting_closure_approval" => Validated'
    <3> DEFINE e == Event("validation_completed", op[p].actor,
                          op[p].to = "awaiting_closure_approval",
                          op[p].previous)
    <3>1. /\ e.kind = "validation_completed"
          /\ op[p].to = "awaiting_closure_approval" => e.positive
      BY DEF Event
    <3>2. events' = Append(events, e)
      BY <2>0
    <3> HIDE DEF e
    <3> QED
      BY <3>1, <3>2, <1>0, ValidationStands
  <2>2. ItemInv'
    BY <2>0, <1>0 DEF ItemInv
  <2>3. GoneTo(op'[p], p, "check")
    BY <1>5, Continuations
  <2>4. op[p].to # "closed"
    BY <2>0, <1>0 DEF Place
  <2>5. Place(p)' /\ Attempt(p)' /\ Evidence(p)'
    BY <2>0, <2>1, <2>3, <2>4, <1>0 DEF GoneTo, Is, Place, Attempt, Evidence
  <2> QED
    BY <2>2, <2>5, SoloStep
<1> QED
  BY <1>1, <1>2, <1>3, <1>4, <1>5

\* Every step of a single process keeps the invariant.
LEMMA SoloNext ==
    ASSUME Single, SeparationInv, FilesInv, SoloInv, [Next]_vars
    PROVE  SoloInv'
<1>1. ASSUME NEW p \in Processes,
             (\E a \in Actors : Begin(p, a)) \/ Continue(p) \/ Crash(p)
      PROVE  SoloInv'
  BY <1>1, SoloReading, SoloWriting, SoloRecording DEF Begin, Continue
<1>2. CASE UNCHANGED <<item, planner, approvals, executions, events, op>>
  <2>1. ItemInv'
    BY <1>2, SoloSame DEF SoloInv
  <2>2. ASSUME NEW p \in Processes
        PROVE  Place(p)' /\ Attempt(p)' /\ Evidence(p)'
    <3>1. Place(p) /\ Attempt(p) /\ Evidence(p)
      BY DEF SoloInv
    <3>2. op' = op /\ item' = item /\ executions' = executions
          /\ events' = events /\ approvals' = approvals
      BY <1>2
    <3>3. Independent(op[p].actor, DOMAIN approvals)'
             <=> Independent(op[p].actor, DOMAIN approvals)
      BY <3>2 DEF Independent, latest_execution
    <3>4. /\ Validated' <=> Validated
          /\ ClosureApproved' <=> ClosureApproved
      BY <1>2, SoloSame
    <3> QED
      BY <3>1, <3>2, <3>3, <3>4 DEF Place, Attempt, Evidence
  <2> QED
    BY <2>1, <2>2 DEF SoloInv
<1>3. ASSUME NEW n \in DOMAIN artifacts, Damage(n) PROVE SoloInv'
  BY <1>2, <1>3 DEF Damage
<1> QED
  BY <1>1, <1>2, <1>3 DEF Next, vars

\* Nothing has been attempted, validated or decided at the start.
LEMMA SoloInit == Init => FilesInv /\ SoloInv
<1> SUFFICES ASSUME Init PROVE FilesInv /\ SoloInv
  OBVIOUS
<1>1. FilesInv
  BY FilesInit
<1>2. Attempts \in Nat \ {0}
  BY BoundAssumption DEF Attempts
<1>3. ItemInv
  BY <1>2 DEF Init, ItemInv
<1>4. ASSUME NEW p \in Processes PROVE Place(p) /\ Attempt(p) /\ Evidence(p)
  BY DEF Init, Place, Attempt, Evidence, Idle
<1> QED
  BY <1>1, <1>3, <1>4 DEF SoloInv

\* What a single process keeps throughout, for any budget.
LEMMA SoloInvariant ==
    Single => (Spec => [](SeparationInv /\ FilesInv /\ SoloInv))
<1> SUFFICES ASSUME Single
             PROVE  Spec => [](SeparationInv /\ FilesInv /\ SoloInv)
  OBVIOUS
<1>1. Init => SeparationInv /\ FilesInv /\ SoloInv
  BY SeparationInit, SoloInit
<1>2. SeparationInv /\ FilesInv /\ SoloInv /\ [Next]_vars
         => (SeparationInv /\ FilesInv /\ SoloInv)'
  BY SeparationNext, FilesNext, SoloNext
<1> QED
  BY <1>1, <1>2, PTL DEF Spec

\* One process at a time makes no more attempts than the budget, which the
\* schema of a work item puts at one or more (schemas/work-item.schema.json:54),
\* and none twice, whatever fails, crashes or is damaged on the way
\* (workflow.py:187-217, 240-251).
THEOREM AttemptsWithinBudget ==
    Single /\ MaxRetries > 0 => (Spec => []WithinBudget)
<1> SUFFICES ASSUME Single, MaxRetries > 0 PROVE Spec => []WithinBudget
  OBVIOUS
<1>1. SeparationInv /\ FilesInv /\ SoloInv => WithinBudget
  <2> SUFFICES ASSUME SeparationInv, FilesInv, SoloInv PROVE WithinBudget
    OBVIOUS
  <2>1. /\ item.retry_count \in Nat /\ \A e \in executions : e.attempt \in Nat
        /\ ItemInv
    BY DEF SeparationInv, Types, FilesInv, FileInv, SoloInv
  <2>2. Attempts = MaxRetries /\ MaxRetries \in Nat
    BY BoundAssumption DEF Attempts
  <2> QED
    BY <2>1, <2>2 DEF ItemInv, WithinBudget
<1> QED
  BY SoloInvariant, <1>1, PTL

\* One process at a time closes an item only when its last execution has been
\* validated since and somebody who had no part in it has approved the closure
\* (workflow.py:219-283).
THEOREM ClosureIsEvidenced == Single => (Spec => []ClosedIsEvidenced)
<1> SUFFICES ASSUME Single PROVE Spec => []ClosedIsEvidenced
  OBVIOUS
<1>1. SeparationInv /\ FilesInv /\ SoloInv => ClosedIsEvidenced
  BY DEF SeparationInv, RowsInv, Reviewable, SoloInv, ItemInv, Validated,
         ClosureApproved, Independent, ClosedIsEvidenced
<1> QED
  BY SoloInvariant, <1>1, PTL

\* One process at a time changes the state of an item only as the table allows
\* (lifecycle.py, store.py:265-310); two do not, as a run shows.
THEOREM TableIsObeyed == Single => (Spec => TransitionsAllowed)
<1> SUFFICES ASSUME Single PROVE Spec => TransitionsAllowed
  OBVIOUS
<1> DEFINE Obeyed ==
      \/ item'.state = item.state
      \/ item.state = "absent" /\ item'.state = "new"
      \/ <<item.state, item'.state>> \in ALLOWED_TRANSITIONS
<1>1. ASSUME SeparationInv, SoloInv, [Next]_vars PROVE Obeyed
  <2>1. CASE item' = item
    BY <2>1
  <2>2. ASSUME NEW p \in Processes, NEW a \in Actors, Ingest(p, a)
        PROVE  Obeyed
    <3>1. item'.state = "new" /\ item.state = "absent"
      BY <1>1, <2>2 DEF Ingest, SeparationInv, Types
    <3> QED
      BY <3>1
  <2>3. ASSUME NEW p \in Processes, Write(p) PROVE Obeyed
    <3>1. item'.state = op[p].to
      BY <1>1, <2>3 DEF Write, SeparationInv, Types
    <3>2. <<item.state, op[p].to>> \in ALLOWED_TRANSITIONS
      <4>1. op[p].pc = "write" /\ Place(p)
        BY <1>1, <2>3 DEF Write, SoloInv
      <4> QED
        BY <4>1 DEF Place
    <3> QED
      BY <3>1, <3>2
  <2>4. CASE UNCHANGED vars
    BY <2>1, <2>4 DEF vars
  <2>5. ASSUME NEW p \in Processes, NEW a \in Actors, Begin(p, a)
        PROVE  Ingest(p, a) \/ item' = item
    BY <2>5 DEF Begin, Triage, Plan, Execute, Validate, ApproveExecution,
                ApproveClosure
  <2>6. ASSUME NEW p \in Processes, Continue(p) PROVE Write(p) \/ item' = item
    BY <2>6 DEF Continue, Check, SavePlan, ReadPriorActors, AddApproval,
                ReadApprovals, Reread, RunTool, AddExecution, ExecutionFails,
                Fallback, ReadExecution, ReadLastEvent, InsertEvent
  <2>7. ASSUME NEW p \in Processes, Crash(p) PROVE item' = item
    BY <2>7 DEF Crash
  <2>8. ASSUME NEW n \in DOMAIN artifacts, Damage(n) PROVE item' = item
    BY <2>8 DEF Damage
  <2> HIDE DEF Obeyed
  <2>9. CASE Next
    BY <2>9, <2>1, <2>2, <2>3, <2>5, <2>6, <2>7, <2>8 DEF Next
  <2> QED
    BY <1>1, <2>4, <2>9
<1>2. SeparationInv /\ FilesInv /\ SoloInv
         /\ (SeparationInv /\ FilesInv /\ SoloInv)' /\ [Next]_vars
         => [Obeyed]_vars
  BY <1>1
<1>3. Spec => [][Obeyed]_vars
  BY SoloInvariant, <1>2, PTL DEF Spec
<1> QED
  BY <1>3 DEF TransitionsAllowed
=============================================================================
