-------------------------- MODULE OnboardingProofs --------------------------
(***************************************************************************)
(* What the lifecycle lock gives the onboarding of repositories, for any   *)
(* repositories, people, processes and bounds.  Whatever overlaps, the     *)
(* files keep their shape, and while no process dies the event trail bears *)
(* out what is active, the entry a task works under and that a resumption  *)
(* was approved afresh.  If the commands of the CLI do not overlap, so     *)
(* that none works from an old copy of the registry, or if there is one    *)
(* repository, so that none writes an old entry of another back, registry  *)
(* and records agree.                                                      *)
(***************************************************************************)
EXTENDS Onboarding, FiniteSetTheorems, TLAPS

People == Actors \cup {NoActor}

Records(n) == [state : ONBOARDING_STATES \cup {"none"}, branch : Branches,
               sha : 0 .. n, contract : Contracts \cup {NoContract},
               assessor : People, approver : People]

\* Nobody approves a record without a contract.
Proper(record) ==
    record.state \in {"awaiting_onboarding_approval", "approved", "active"} =>
        record.contract \in Contracts

Entries == [status : {"active", "suspended", "absent"}, branch : Branches,
            contract : Contracts \cup {NoContract}]

EventTypes == {"none", "discovered", "assessed", "replaced", "approved",
               "activated", "smoke_failed", "suspended", "resumed"}

Events == [type : EventTypes, actor : People,
           contract : Contracts \cup {NoContract}]

Inside == {"save_record", "append_event"}

Work == [pc : {"idle", "opened"} \cup Inside, actor : People,
         registry : [Repos -> Entries],
         repo : Repos \cup {CHOOSE r \in Repos : TRUE},
         record : Records(moves), event : Events]

\* What an operation in progress needs to go on.
OpInv(p) ==
    /\ op[p].pc = "opened" => op[p].actor \in Actors
    /\ op[p].pc \in Inside => /\ op[p].repo \in Repos
                              /\ Len(events[op[p].repo]) < MaxEvents
    /\ op[p].pc = "save_record" => Proper(op[p].record)

Exclusive ==
    \A p, q \in Processes :
        op[p].pc \in Inside /\ op[q].pc \in Inside => p = q

TypeInv ==
    /\ moves \in Nat /\ faults \in Nat
    /\ heads \in [Branches -> 0 .. moves]
    /\ records \in [Repos -> Records(moves)]
    /\ \A r \in Repos : Proper(records[r])
    /\ overlay \in [Repos -> Entries]
    /\ events \in [Repos -> Seq(Events)]
    /\ \A r \in Repos : Len(events[r]) <= MaxEvents
    /\ tasks \in [Repos -> Entries]
    /\ op \in [Processes -> Work]
    /\ \A p \in Processes : OpInv(p)
    /\ Exclusive

-----------------------------------------------------------------------------
(* Types                                                                   *)

\* The values the actions start from have their types.
LEMMA Defaults ==
    ASSUME moves \in Nat, heads \in [Branches -> 0 .. moves],
           overlay \in [Repos -> Entries]
    PROVE  /\ NoRecord \in Records(moves) /\ Proper(NoRecord)
           /\ NoEntry \in Entries /\ BaseEntry \in Entries
           /\ Registry \in [Repos -> Entries]
           /\ \A type \in EventTypes, a \in People,
                 c \in Contracts \cup {NoContract} :
                    Event(type, a, c) \in Events
           /\ Idle \in Work
           /\ Idle.pc = "idle"
<1>1. NoRecord \in Records(moves) /\ Proper(NoRecord)
  BY BaseAssumption DEF NoRecord, Records, People, Proper
<1>2. BaseContract \in Contracts
  BY ContractAssumption DEF BaseContract
<1>3. NoEntry \in Entries /\ BaseEntry \in Entries
  BY <1>2, BaseAssumption DEF NoEntry, BaseEntry, Entries
<1>4. Registry \in [Repos -> Entries]
  BY <1>3 DEF Registry
<1>5. \A type \in EventTypes, a \in People, c \in Contracts \cup {NoContract} :
         Event(type, a, c) \in Events
  BY DEF Event, Events
<1>6. Event("none", NoActor, NoContract) \in Events
  BY <1>5 DEF EventTypes, People
<1>7. Idle \in Work /\ Idle.pc = "idle"
  BY <1>1, <1>3, <1>6 DEF Idle, Work, People
<1> QED
  BY <1>1, <1>3, <1>4, <1>5, <1>7

\* At the start every file is empty and nobody is at work.
LEMMA TypeInit == Init => TypeInv
<1> SUFFICES ASSUME Init PROVE TypeInv
  OBVIOUS
<1>1. moves \in Nat /\ faults \in Nat /\ heads \in [Branches -> 0 .. moves]
  BY DEF Init
<1>2. NoEntry \in Entries
  BY BaseAssumption DEF NoEntry, Entries
<1>3. overlay \in [Repos -> Entries] /\ tasks \in [Repos -> Entries]
  BY <1>2 DEF Init
<1>4. /\ NoRecord \in Records(moves) /\ Proper(NoRecord)
      /\ Idle \in Work /\ Idle.pc = "idle"
  BY <1>1, <1>3, Defaults
<1>5. records \in [Repos -> Records(moves)] /\ \A r \in Repos : Proper(records[r])
  BY <1>4 DEF Init
<1>6. events \in [Repos -> Seq(Events)] /\ \A r \in Repos : Len(events[r]) <= MaxEvents
  BY BoundAssumption DEF Init
<1>7. op \in [Processes -> Work] /\ \A p \in Processes : op[p].pc = "idle"
  BY <1>4 DEF Init
<1>8. (\A p \in Processes : OpInv(p)) /\ Exclusive
  BY <1>7 DEF OpInv, Exclusive, Inside
<1> QED
  BY <1>1, <1>3, <1>5, <1>6, <1>7, <1>8 DEF Init, TypeInv

\* An operation leaves a record to save, or an event to append.
LEMMA SavesType ==
    ASSUME TypeInv, NEW p \in Processes, NEW r \in Repos,
           NEW record \in Records(moves), NEW event \in Events,
           SavesRecord(p, r, record, event)
    PROVE  /\ op' \in [Processes -> Work]
           /\ op'[p].pc = "save_record" /\ op'[p].repo = r
           /\ op'[p].record = record
           /\ \A q \in Processes : q # p => op'[q] = op[q]
<1> DEFINE w == [op[p] EXCEPT !.pc = "save_record", !.repo = r,
                              !.record = record, !.event = event]
<1>1. op \in [Processes -> Work] /\ op[p] \in Work
  BY DEF TypeInv
<1>2. w \in Work /\ w.pc = "save_record" /\ w.repo = r /\ w.record = record
  BY <1>1 DEF Work, Inside
<1>3. op' = [op EXCEPT ![p] = w]
  BY DEF SavesRecord
<1> HIDE DEF w
<1> QED
  BY <1>1, <1>2, <1>3

\* The same of an event.
LEMMA AppendsType ==
    ASSUME TypeInv, NEW p \in Processes, NEW r \in Repos, NEW event \in Events,
           AppendsEvent(p, r, event)
    PROVE  /\ op' \in [Processes -> Work]
           /\ op'[p].pc = "append_event" /\ op'[p].repo = r
           /\ \A q \in Processes : q # p => op'[q] = op[q]
<1> DEFINE w == [Idle EXCEPT !.pc = "append_event", !.repo = r,
                             !.event = event]
<1>1. op \in [Processes -> Work] /\ Idle \in Work
  BY Defaults DEF TypeInv
<1>2. w \in Work /\ w.pc = "append_event" /\ w.repo = r
  BY <1>1 DEF Work, Inside
<1>3. op' = [op EXCEPT ![p] = w]
  BY DEF AppendsEvent
<1> HIDE DEF w
<1> QED
  BY <1>1, <1>2, <1>3

\* The overlay is written whole.
LEMMA OverlayType ==
    ASSUME NEW registry \in [Repos -> Entries], NEW r \in Repos,
           NEW entry \in Entries, NoEntry \in Entries,
           save_overlay(registry, r, entry)
    PROVE  /\ overlay' \in [Repos -> Entries]
           /\ \A q \in Repos : q # r =>
                 overlay'[q] = IF q \in Base /\ registry[q].status = "active"
                               THEN NoEntry ELSE registry[q]
           /\ overlay'[r] = IF r \in Base /\ entry.status = "active"
                            THEN NoEntry ELSE entry
BY DEF save_overlay

\* A process that enters the lock is the only one inside.
LEMMA Entering ==
    ASSUME TypeInv, NEW p \in Processes, NEW r \in Repos, Enters(p, r),
           op' \in [Processes -> Work],
           \A q \in Processes : q # p => op'[q] = op[q],
           \/ op'[p].pc = "idle"
           \/ op'[p].pc = "append_event" /\ op'[p].repo = r
           \/ /\ op'[p].pc = "save_record" /\ op'[p].repo = r
              /\ Proper(op'[p].record),
           records' \in [Repos -> Records(moves)],
           \A q \in Repos : Proper(records'[q]),
           overlay' \in [Repos -> Entries], tasks' \in [Repos -> Entries],
           UNCHANGED <<events, heads, moves, faults>>
    PROVE  TypeInv'
<1>1. /\ Len(events[r]) < MaxEvents
      /\ \A q \in Processes : op[q].pc \in {"idle", "opened"}
  BY DEF Enters, Unlocked
<1>2. \A q \in Processes : OpInv(q)'
  <2> SUFFICES ASSUME NEW q \in Processes PROVE OpInv(q)'
    OBVIOUS
  <2>1. CASE q = p
    BY <2>1, <1>1 DEF OpInv, Inside
  <2>2. CASE q # p
    BY <2>2 DEF TypeInv, OpInv
  <2> QED
    BY <2>1, <2>2
<1>3. Exclusive'
  BY <1>1 DEF Exclusive, Inside
<1>4. Work' = Work /\ Records(moves)' = Records(moves)
  BY DEF Work, Records
<1> QED
  BY <1>2, <1>3, <1>4 DEF TypeInv, Proper

\* Opening, giving up and dying change one operation only.
LEMMA OutsideType ==
    ASSUME TypeInv, NEW p \in Processes, NEW w \in Work,
           op' = [op EXCEPT ![p] = w],
           w.pc = "idle" \/ (w.pc = "opened" /\ w.actor \in Actors),
           faults' \in Nat,
           UNCHANGED <<records, events, overlay, tasks, heads, moves>>
    PROVE  TypeInv'
<1>1. op \in [Processes -> Work]
  BY DEF TypeInv
<1>2. op' \in [Processes -> Work] /\ op'[p] = w
      /\ \A q \in Processes : q # p => op'[q] = op[q]
  BY <1>1
<1>3. \A q \in Processes : OpInv(q)'
  <2> SUFFICES ASSUME NEW q \in Processes PROVE OpInv(q)'
    OBVIOUS
  <2>1. CASE q = p
    BY <2>1, <1>2 DEF OpInv, Inside
  <2>2. CASE q # p
    BY <2>2, <1>2 DEF TypeInv, OpInv
  <2> QED
    BY <2>1, <2>2
<1>4. Exclusive'
  BY <1>2 DEF TypeInv, Exclusive, Inside
<1>5. Work' = Work /\ Records(moves)' = Records(moves)
  BY DEF Work, Records
<1> QED
  BY <1>2, <1>3, <1>4, <1>5 DEF TypeInv, Proper

\* The writes that follow come from the process that is inside.
LEMMA FollowingType ==
    ASSUME TypeInv, NEW p \in Processes, SaveRecord(p) \/ append_event(p)
    PROVE  TypeInv'
<1>t. /\ op \in [Processes -> Work] /\ op[p] \in Work
      /\ events \in [Repos -> Seq(Events)]
      /\ records \in [Repos -> Records(moves)]
      /\ op[p].record \in Records(moves) /\ op[p].event \in Events
  BY DEF TypeInv, Work
<1>p. /\ op[p].pc \in Inside /\ op[p].repo \in Repos
      /\ Len(events[op[p].repo]) < MaxEvents
      /\ \A q \in Processes : q # p => op[q].pc \notin Inside
  BY DEF SaveRecord, append_event, TypeInv, OpInv, Inside, Exclusive
<1>5. CASE SaveRecord(p)
  <2> DEFINE r == op[p].repo
  <2>1. /\ AppendsEvent(p, r, op[p].event)
        /\ records' = [records EXCEPT ![r] = op[p].record]
        /\ UNCHANGED <<events, overlay, tasks, heads, moves, faults>>
        /\ op[p].pc = "save_record"
    BY <1>5 DEF SaveRecord
  <2>2. /\ op' \in [Processes -> Work]
        /\ op'[p].pc = "append_event" /\ op'[p].repo = r
        /\ \A q \in Processes : q # p => op'[q] = op[q]
    BY <2>1, <1>p, <1>t, AppendsType
  <2>3. /\ records' \in [Repos -> Records(moves)]
        /\ \A q \in Repos : Proper(records'[q])
    <3>1. Proper(op[p].record) /\ \A q \in Repos : Proper(records[q])
      BY <2>1 DEF TypeInv, OpInv
    <3> QED
      BY <2>1, <1>t, <1>p, <3>1
  <2>4. \A q \in Processes : OpInv(q)'
    BY <2>1, <2>2, <1>p DEF OpInv, Inside, TypeInv
  <2>5. Exclusive'
    BY <2>2, <1>p DEF Exclusive
  <2>6. Work' = Work /\ Records(moves)' = Records(moves)
    BY <2>1 DEF Work, Records
  <2> QED
    BY <2>1, <2>2, <2>3, <2>4, <2>5, <2>6 DEF TypeInv, Proper
<1>6. CASE append_event(p)
  <2> DEFINE r == op[p].repo
  <2>1. /\ op' = [op EXCEPT ![p] = Idle]
        /\ events' = [events EXCEPT ![r] = Append(events[r], op[p].event)]
        /\ UNCHANGED <<records, overlay, tasks, heads, moves, faults>>
    BY <1>6 DEF append_event
  <2>2. Idle \in Work /\ Idle.pc = "idle"
    BY Defaults DEF TypeInv
  <2>3. /\ op' \in [Processes -> Work] /\ op'[p].pc = "idle"
        /\ \A q \in Processes : q # p => op'[q] = op[q]
    BY <2>1, <2>2, <1>t
  <2>4. /\ Append(events[r], op[p].event) \in Seq(Events)
        /\ Len(Append(events[r], op[p].event)) <= MaxEvents
    <3>1. events[r] \in Seq(Events)
      BY <1>t, <1>p
    <3> HIDE DEF r
    <3>2. Len(Append(events[r], op[p].event)) = Len(events[r]) + 1
      BY <3>1, <1>t
    <3>3. Len(events[r]) \in Nat /\ MaxEvents \in Nat /\ Len(events[r]) < MaxEvents
      BY <3>1, <1>p, BoundAssumption DEF r
    <3> QED
      BY <3>1, <3>2, <3>3, <1>t
  <2>5. /\ events' \in [Repos -> Seq(Events)]
        /\ \A q \in Repos : Len(events'[q]) <= MaxEvents
    BY <2>1, <2>4, <1>t, <1>p DEF TypeInv
  <2>6. \A q \in Processes : OpInv(q)'
    <3> SUFFICES ASSUME NEW q \in Processes PROVE OpInv(q)'
      OBVIOUS
    <3>1. CASE q = p
      BY <3>1, <2>3 DEF OpInv, Inside
    <3>2. CASE q # p
      BY <3>2, <2>3, <1>p DEF OpInv, Inside, TypeInv
    <3> QED
      BY <3>1, <3>2
  <2>7. Exclusive'
    BY <2>3, <1>p DEF Exclusive, Inside
  <2>8. Work' = Work /\ Records(moves)' = Records(moves)
    BY <2>1 DEF Work, Records
  <2> QED
    BY <2>1, <2>3, <2>5, <2>6, <2>7, <2>8 DEF TypeInv, Proper
<1> QED
  BY <1>5, <1>6

\* A push makes a commit that nothing has seen.
LEMMA PushType ==
    ASSUME TypeInv, NEW branch \in Branches, Push(branch)
    PROVE  TypeInv'
<1>1. /\ moves \in Nat /\ moves' = moves + 1
      /\ heads' = [heads EXCEPT ![branch] = moves + 1]
      /\ UNCHANGED <<records, events, overlay, tasks, op, faults>>
  BY DEF Push, TypeInv
<1>2. 0 .. moves \subseteq 0 .. moves'
  BY <1>1
<1>3. heads' \in [Branches -> 0 .. moves']
  BY <1>1, <1>2 DEF TypeInv
<1>4. Records(moves) \subseteq Records(moves') /\ Records(moves)' = Records(moves')
  BY <1>2 DEF Records
<1>5. Work \subseteq Work'
  BY <1>4 DEF Work
<1>6. records' \in [Repos -> Records(moves')] /\ op' \in [Processes -> Work']
  BY <1>1, <1>4, <1>5 DEF TypeInv
<1>7. (\A p \in Processes : OpInv(p)') /\ Exclusive'
  BY <1>1 DEF TypeInv, OpInv, Exclusive
<1> QED
  BY <1>1, <1>3, <1>4, <1>6, <1>7 DEF TypeInv, Proper

\* A record that is written whole is the only one that changes.
LEMMA RecordsType ==
    ASSUME TypeInv, NEW r \in Repos, NEW record \in Records(moves),
           Proper(record), records' = [records EXCEPT ![r] = record]
    PROVE  /\ records' \in [Repos -> Records(moves)]
           /\ \A q \in Repos : Proper(records'[q])
           /\ records'[r] = record
           /\ \A q \in Repos : q # r => records'[q] = records[q]
BY DEF TypeInv

\* Every operation on a repository leaves the files with their types.
LEMMA OperationType ==
    ASSUME TypeInv, NEW p \in Processes, NEW r \in Repos, Operation(p, r)
    PROVE  TypeInv'
<1>e. Enters(p, r)
  BY DEF Operation, Discover, Assess, set_contract, Approve, Activate, Suspend,
         resume_onboarding, start
<1>t. /\ records \in [Repos -> Records(moves)] /\ overlay \in [Repos -> Entries]
      /\ records[r] \in Records(moves) /\ Proper(records[r])
      /\ op \in [Processes -> Work] /\ op[p] \in Work
      /\ op[p].registry \in [Repos -> Entries] /\ op[p].actor \in Actors
      /\ heads \in [Branches -> 0 .. moves] /\ tasks \in [Repos -> Entries]
      /\ \A q \in Repos : Proper(records[q])
  <2>1. op[p].pc = "opened"
    BY <1>e DEF Enters
  <2> QED
    BY <2>1 DEF TypeInv, OpInv, Work
<1>d. /\ NoRecord \in Records(moves) /\ Proper(NoRecord)
      /\ NoEntry \in Entries /\ Idle \in Work /\ Idle.pc = "idle"
      /\ \A type \in EventTypes, a \in Actors, c \in Contracts \cup {NoContract} :
            Event(type, a, c) \in Events
  BY Defaults DEF TypeInv, People
<1>a. ASSUME NEW type \in EventTypes, NEW c \in Contracts \cup {NoContract},
             AppendsEvent(p, r, Event(type, op[p].actor, c))
      PROVE  /\ op' \in [Processes -> Work]
             /\ op'[p].pc = "append_event" /\ op'[p].repo = r
             /\ \A q \in Processes : q # p => op'[q] = op[q]
  BY <1>a, <1>t, <1>d, AppendsType
<1>i. ASSUME op' = [op EXCEPT ![p] = Idle]
      PROVE  /\ op' \in [Processes -> Work] /\ op'[p].pc = "idle"
             /\ \A q \in Processes : q # p => op'[q] = op[q]
  BY <1>i, <1>t, <1>d
<1>1. ASSUME NEW branch \in Branches, Discover(p, r, branch) PROVE TypeInv'
  <2>0. UNCHANGED <<events, overlay, tasks, heads, moves, faults>>
    BY <1>1 DEF Discover
  <2>1. CASE records[r].state = "none"
    <3> DEFINE record == [NoRecord EXCEPT !.state = "discovered",
                                          !.branch = branch]
    <3>1. record \in Records(moves) /\ Proper(record)
      BY <1>d DEF Records, ONBOARDING_STATES, Proper
    <3>2. records' = [records EXCEPT ![r] = record]
      BY <1>1, <2>1 DEF Discover
    <3> HIDE DEF record
    <3>3. /\ records' \in [Repos -> Records(moves)]
          /\ \A q \in Repos : Proper(records'[q])
      BY <3>1, <3>2, RecordsType
    <3>4. /\ op' \in [Processes -> Work]
          /\ op'[p].pc = "append_event" /\ op'[p].repo = r
          /\ \A q \in Processes : q # p => op'[q] = op[q]
      BY <1>1, <2>1, <1>a DEF Discover, EventTypes
    <3> QED
      BY <2>0, <3>3, <3>4, <1>e, <1>t, Entering
  <2>2. CASE records[r].state # "none"
    <3> DEFINE record == [records[r] EXCEPT !.branch = branch]
    <3>1. record \in Records(moves) /\ Proper(record)
      BY <1>t DEF Records, Proper
    <3>2. records' = [records EXCEPT ![r] = record]
      BY <1>1, <2>2 DEF Discover
    <3> HIDE DEF record
    <3>3. /\ records' \in [Repos -> Records(moves)]
          /\ \A q \in Repos : Proper(records'[q])
      BY <3>1, <3>2, RecordsType
    <3>4. /\ op' \in [Processes -> Work] /\ op'[p].pc = "idle"
          /\ \A q \in Processes : q # p => op'[q] = op[q]
      BY <1>1, <2>2, <1>i DEF Discover
    <3> QED
      BY <2>0, <3>3, <3>4, <1>e, <1>t, Entering
  <2> QED
    BY <2>1, <2>2
<1>2. ASSUME NEW contract \in Contracts \cup {NoContract}, Assess(p, r, contract)
      PROVE  TypeInv'
  <2> DEFINE record == [records[r] EXCEPT
                           !.state = IF contract = NoContract
                                     THEN "assessment_blocked"
                                     ELSE "awaiting_onboarding_approval",
                           !.sha = heads[records[r].branch],
                           !.contract = contract,
                           !.assessor = op[p].actor,
                           !.approver = NoActor]
  <2>1. records' = [records EXCEPT ![r] = record]
        /\ UNCHANGED <<events, overlay, tasks, heads, moves, faults>>
    BY <1>2 DEF Assess
  <2>2. heads[records[r].branch] \in 0 .. moves
    BY <1>t DEF Records
  <2>3. record \in Records(moves) /\ Proper(record)
    BY <2>2, <1>t DEF Records, ONBOARDING_STATES, Proper, People
  <2> HIDE DEF record
  <2>4. /\ records' \in [Repos -> Records(moves)]
        /\ \A q \in Repos : Proper(records'[q])
    BY <2>1, <2>3, RecordsType
  <2>5. /\ op' \in [Processes -> Work]
        /\ op'[p].pc = "append_event" /\ op'[p].repo = r
        /\ \A q \in Processes : q # p => op'[q] = op[q]
    BY <1>2, <1>a DEF Assess, EventTypes
  <2> QED
    BY <2>1, <2>4, <2>5, <1>e, <1>t, Entering
<1>3. ASSUME NEW contract \in Contracts, set_contract(p, r, contract)
      PROVE  TypeInv'
  <2> DEFINE record == [records[r] EXCEPT
                           !.state = "awaiting_onboarding_approval",
                           !.contract = contract, !.approver = NoActor]
  <2>1. records' = [records EXCEPT ![r] = record]
        /\ UNCHANGED <<events, overlay, tasks, heads, moves, faults>>
    BY <1>3 DEF set_contract
  <2>2. record \in Records(moves) /\ Proper(record)
    BY <1>t DEF Records, ONBOARDING_STATES, Proper, People
  <2> HIDE DEF record
  <2>3. /\ records' \in [Repos -> Records(moves)]
        /\ \A q \in Repos : Proper(records'[q])
    BY <2>1, <2>2, RecordsType
  <2>4. /\ op' \in [Processes -> Work]
        /\ op'[p].pc = "append_event" /\ op'[p].repo = r
        /\ \A q \in Processes : q # p => op'[q] = op[q]
    BY <1>3, <1>a DEF set_contract, EventTypes
  <2> QED
    BY <2>1, <2>3, <2>4, <1>e, <1>t, Entering
<1>4. ASSUME Approve(p, r) PROVE TypeInv'
  <2> DEFINE record == [records[r] EXCEPT !.state = "approved",
                                          !.approver = op[p].actor]
  <2>1. records' = [records EXCEPT ![r] = record]
        /\ UNCHANGED <<events, overlay, tasks, heads, moves, faults>>
    BY <1>4, <1>t DEF Approve
  <2>2. record \in Records(moves) /\ Proper(record)
    BY <1>4, <1>t DEF Approve, Records, ONBOARDING_STATES, Proper, People
  <2> HIDE DEF record
  <2>3. /\ records' \in [Repos -> Records(moves)]
        /\ \A q \in Repos : Proper(records'[q])
    BY <2>1, <2>2, RecordsType
  <2>4. records[r].contract \in Contracts \cup {NoContract}
    BY <1>t DEF Records
  <2>5. /\ op' \in [Processes -> Work]
        /\ op'[p].pc = "append_event" /\ op'[p].repo = r
        /\ \A q \in Processes : q # p => op'[q] = op[q]
    BY <1>4, <2>4, <1>a DEF Approve, EventTypes
  <2> QED
    BY <2>1, <2>3, <2>5, <1>e, <1>t, Entering
<1>5. ASSUME NEW passed \in BOOLEAN, Activate(p, r, passed) PROVE TypeInv'
  <2>0. UNCHANGED <<events, tasks, heads, moves, faults>>
        /\ records[r].state = "approved"
    BY <1>5 DEF Activate
  <2>c. records[r].contract \in Contracts
    BY <2>0, <1>t DEF Proper
  <2>1. CASE passed
    <3> DEFINE record == [records[r] EXCEPT !.state = "active"]
               entry == [status |-> "active", branch |-> records[r].branch,
                         contract |-> records[r].contract]
               event == Event("activated", op[p].actor, records[r].contract)
    <3>1. /\ save_overlay(op[p].registry, r, entry)
          /\ SavesRecord(p, r, record, event)
          /\ records' = records
      BY <1>5, <2>1 DEF Activate
    <3>2. record \in Records(moves) /\ Proper(record)
      BY <1>t, <2>c DEF Records, ONBOARDING_STATES, Proper
    <3>3. entry \in Entries /\ event \in Events
      BY <1>t, <1>d, <2>c DEF Entries, Records, EventTypes
    <3> HIDE DEF record, entry, event
    <3>4. overlay' \in [Repos -> Entries]
      BY <3>1, <3>3, <1>t, <1>d, OverlayType
    <3>5. /\ op' \in [Processes -> Work]
          /\ op'[p].pc = "save_record" /\ op'[p].repo = r
          /\ Proper(op'[p].record)
          /\ \A q \in Processes : q # p => op'[q] = op[q]
      BY <3>1, <3>2, <3>3, SavesType
    <3> QED
      BY <2>0, <3>1, <3>4, <3>5, <1>e, <1>t, Entering
  <2>2. CASE ~passed
    <3> DEFINE record == [records[r] EXCEPT !.state = "smoke_failed"]
    <3>1. records' = [records EXCEPT ![r] = record] /\ overlay' = overlay
      BY <1>5, <2>2 DEF Activate
    <3>2. record \in Records(moves) /\ Proper(record)
      BY <1>t DEF Records, ONBOARDING_STATES, Proper
    <3> HIDE DEF record
    <3>3. /\ records' \in [Repos -> Records(moves)]
          /\ \A q \in Repos : Proper(records'[q])
      BY <3>1, <3>2, RecordsType
    <3>4. /\ op' \in [Processes -> Work]
          /\ op'[p].pc = "append_event" /\ op'[p].repo = r
          /\ \A q \in Processes : q # p => op'[q] = op[q]
      BY <1>5, <2>2, <2>c, <1>a DEF Activate, EventTypes
    <3> QED
      BY <2>0, <3>1, <3>3, <3>4, <1>e, <1>t, Entering
  <2> QED
    BY <2>1, <2>2
<1>6. ASSUME Suspend(p, r) PROVE TypeInv'
  <2> DEFINE old == op[p].registry[r]
             known == IF records[r].state # "none" THEN records[r]
                      ELSE [NoRecord EXCEPT !.branch = old.branch,
                                            !.contract = old.contract]
             entry == [old EXCEPT !.status = "suspended"]
             record == [known EXCEPT !.state = "suspended"]
             event == Event("suspended", op[p].actor, NoContract)
  <2>1. /\ save_overlay(op[p].registry, r, entry)
        /\ SavesRecord(p, r, record, event)
        /\ UNCHANGED <<records, events, tasks, heads, moves, faults>>
    BY <1>6 DEF Suspend
  <2>2. old \in Entries
    BY <1>t
  <2>3. known \in Records(moves)
    BY <2>2, <1>t, <1>d DEF Records, Entries
  <2>4. entry \in Entries /\ event \in Events
    BY <2>2, <1>t, <1>d DEF Entries, EventTypes
  <2> HIDE DEF known
  <2>5. record \in Records(moves) /\ Proper(record)
    BY <2>3 DEF Records, ONBOARDING_STATES, Proper
  <2> HIDE DEF record, entry, event
  <2>6. overlay' \in [Repos -> Entries]
    BY <2>1, <2>4, <1>t, <1>d, OverlayType
  <2>7. /\ op' \in [Processes -> Work]
        /\ op'[p].pc = "save_record" /\ op'[p].repo = r
        /\ Proper(op'[p].record)
        /\ \A q \in Processes : q # p => op'[q] = op[q]
    BY <2>1, <2>4, <2>5, SavesType
  <2> QED
    BY <2>1, <2>6, <2>7, <1>e, <1>t, Entering
<1>7. ASSUME resume_onboarding(p, r) PROVE TypeInv'
  <2> DEFINE record == [records[r] EXCEPT !.state = "discovered",
                           !.assessor = NoActor, !.approver = NoActor]
  <2>1. records' = [records EXCEPT ![r] = record]
        /\ UNCHANGED <<events, overlay, tasks, heads, moves, faults>>
    BY <1>7 DEF resume_onboarding
  <2>2. record \in Records(moves) /\ Proper(record)
    BY <1>t DEF Records, ONBOARDING_STATES, Proper, People
  <2> HIDE DEF record
  <2>3. /\ records' \in [Repos -> Records(moves)]
        /\ \A q \in Repos : Proper(records'[q])
    BY <2>1, <2>2, RecordsType
  <2>4. /\ op' \in [Processes -> Work]
        /\ op'[p].pc = "append_event" /\ op'[p].repo = r
        /\ \A q \in Processes : q # p => op'[q] = op[q]
    BY <1>7, <1>a DEF resume_onboarding, EventTypes
  <2> QED
    BY <2>1, <2>3, <2>4, <1>e, <1>t, Entering
<1>8. ASSUME start(p, r) PROVE TypeInv'
  <2>1. /\ tasks' = [tasks EXCEPT ![r] = op[p].registry[r]]
        /\ op' = [op EXCEPT ![p] = Idle]
        /\ UNCHANGED <<records, events, overlay, heads, moves, faults>>
    BY <1>8 DEF start
  <2>2. tasks' \in [Repos -> Entries]
    BY <2>1, <1>t
  <2>3. /\ op' \in [Processes -> Work] /\ op'[p].pc = "idle"
        /\ \A q \in Processes : q # p => op'[q] = op[q]
    BY <2>1, <1>i
  <2> QED
    BY <2>1, <2>2, <2>3, <1>e, <1>t, Entering
<1> QED
  BY <1>1, <1>2, <1>3, <1>4, <1>5, <1>6, <1>7, <1>8 DEF Operation

\* Every step leaves the files with their types.
LEMMA TypeNext == TypeInv /\ [Next]_vars => TypeInv'
<1> SUFFICES ASSUME TypeInv, [Next]_vars PROVE TypeInv'
  OBVIOUS
<1>d. /\ Registry \in [Repos -> Entries] /\ Idle \in Work /\ Idle.pc = "idle"
      /\ faults \in Nat
  BY Defaults DEF TypeInv
<1>1. ASSUME NEW p \in Processes, NEW a \in Actors, Open(p, a) PROVE TypeInv'
  <2> DEFINE w == [Idle EXCEPT !.pc = "opened", !.actor = a,
                               !.registry = Registry]
  <2>1. /\ op' = [op EXCEPT ![p] = w]
        /\ UNCHANGED <<records, events, overlay, tasks, heads, moves, faults>>
    BY <1>1 DEF Open
  <2>2. w \in Work /\ w.pc = "opened" /\ w.actor = a
    BY <1>d DEF Work, People
  <2> HIDE DEF w
  <2> QED
    BY <2>1, <2>2, <1>d, OutsideType
<1>2. ASSUME NEW p \in Processes, Refused(p) \/ Crash(p) PROVE TypeInv'
  <2>1. /\ op' = [op EXCEPT ![p] = Idle] /\ faults' \in Nat
        /\ UNCHANGED <<records, events, overlay, tasks, heads, moves>>
    BY <1>2, <1>d DEF Refused, Crash
  <2> QED
    BY <2>1, <1>d, OutsideType
<1>3. CASE UNCHANGED vars
  BY <1>3 DEF vars, TypeInv, OpInv, Exclusive, Work, Records, Proper
<1> QED
  BY <1>1, <1>2, <1>3, OperationType, FollowingType, PushType DEF Next

\* The lock lets one process in at a time, and the files keep their shape,
\* however many commands overlap and whichever of them die.
THEOREM TypeCorrect == Spec => []TypeOK
<1>1. TypeInv => TypeOK
  <2> SUFFICES ASSUME TypeInv PROVE TypeOK
    OBVIOUS
  <2> DEFINE S == {p \in Processes : op[p].pc \in {"save_record", "append_event"}}
  <2>1. Cardinality(S) <= 1
    <3>1. CASE S = {}
      BY <3>1, FS_EmptySet
    <3>2. CASE S # {}
      <4>1. PICK p \in S : TRUE
        BY <3>2
      <4>2. S = {p}
        BY DEF TypeInv, Exclusive, Inside
      <4>3. Cardinality({p}) = 1
        BY FS_Singleton
      <4> QED
        BY <4>2, <4>3
    <3> QED
      BY <3>1, <3>2
  <2>2. \A r \in Repos :
           /\ records[r] \in Records(moves) /\ overlay[r] \in Entries
           /\ Proper(records[r]) /\ Len(events[r]) <= MaxEvents
    BY DEF TypeInv
  <2> HIDE DEF S
  <2>3. \A r \in Repos : tasks[r] \in Entries
    BY DEF TypeInv
  <2> QED
    BY <2>1, <2>2, <2>3 DEF TypeOK, S, Records, Entries, Proper, People
<1> QED
  BY <1>1, TypeInit, TypeNext, PTL DEF Spec

-----------------------------------------------------------------------------
(* Commands that do not overlap, or a registry of one repository           *)

Single == \A p, q \in Processes : p = q
Lone == \A r, s \in Repos : r = s

\* No operation writes back an old entry of another repository.
Orderly == Single \/ Lone

Saving(r) == \E p \in Processes : op[p].pc = "save_record" /\ op[p].repo = r

\* An old copy of the registry does not hide that an undiscovered repository is
\* active, and with a single process there are none ...
CopiesInv ==
    \A p \in Processes : op[p].pc = "opened" =>
        /\ Single => op[p].registry = Registry
        /\ \A r \in Active(Registry) :
              faults = 0 /\ records[r].state = "none" /\ ~Saving(r) =>
                  r \in Active(op[p].registry)

\* ... nobody approves an assessment of his own, and no contract is in force that
\* was not approved ...
RecordsInv ==
    /\ \A r \in Repos :
          records[r].state \in {"approved", "active"} =>
              records[r].approver # records[r].assessor
    /\ \A r \in Repos \ Base :
          records[r].state = "active" /\ overlay[r].status = "active" =>
              overlay[r].contract = records[r].contract

\* ... and what is about to be saved agrees with what the registry says already.
Agreed(record, r) ==
    /\ record.state = "active" <=> r \in Active(Registry)
    /\ record.state \notin {"none", "approved"}
    /\ record.state = "active" =>
          /\ record.approver # record.assessor
          /\ r \notin Base => overlay[r].contract = record.contract

SavingInv ==
    \A p \in Processes :
        op[p].pc = "save_record" => Agreed(op[p].record, op[p].repo)

RegistryInv ==
    faults = 0 =>
        \A r \in Repos :
            records[r].state # "none" /\ ~Saving(r) =>
                (records[r].state = "active" <=> r \in Active(Registry))

AgreeInv == CopiesInv /\ RecordsInv /\ SavingInv /\ RegistryInv

\* What the registry knows as active.
LEMMA ActiveOf ==
    ASSUME NEW r \in Repos
    PROVE  /\ r \in Active(Registry) <=>
                 \/ overlay[r].status = "active"
                 \/ overlay[r] = NoEntry /\ r \in Base
           /\ overlay[r].status = "active" => Registry[r] = overlay[r]
BY DEF Active, Registry, NoEntry, BaseEntry

\* At the start there is nothing to disagree on.
LEMMA AgreeInit == Init => AgreeInv
<1> SUFFICES ASSUME Init PROVE AgreeInv
  OBVIOUS
<1>1. \A p \in Processes : op[p].pc = "idle"
  BY DEF Init, Idle
<1>2. \A r \in Repos : records[r].state = "none"
  BY DEF Init, NoRecord
<1> QED
  BY <1>1, <1>2 DEF AgreeInv, CopiesInv, RecordsInv, SavingInv, RegistryInv

\* What holds of the other processes while one of them is in the lock.
Alone(p) == \A q \in Processes : q # p => /\ op'[q] = op[q]
                                          /\ op[q].pc \in {"idle", "opened"}

\* An operation that writes a record and leaves the registry alone.
LEMMA RecordStep ==
    ASSUME TypeInv, AgreeInv, NEW p \in Processes, NEW r \in Repos,
           op[p].pc = "opened", Alone(p),
           NEW record \in Records(moves), records' = [records EXCEPT ![r] = record],
           record.state = "active" <=> records[r].state = "active",
           record.state # "none",
           record.state = "active" => record.contract = records[r].contract,
           record.state \in {"approved", "active"} =>
               record.approver # record.assessor,
           faults = 0 /\ records[r].state = "none" => r \notin Active(Registry),
           op'[p].pc \in {"idle", "append_event"},
           overlay' = overlay, faults' = faults
    PROVE  AgreeInv'
<1>1. /\ records'[r] = record
      /\ \A q \in Repos : q # r => records'[q] = records[q]
  BY DEF TypeInv
<1>2. /\ \A q \in Processes : op[q].pc \in {"idle", "opened"}
      /\ \A q \in Processes : op'[q].pc \in {"idle", "opened", "append_event"}
      /\ \A q \in Processes : op'[q].pc = "opened" => op'[q] = op[q]
  BY DEF Alone
<1>3. Registry' = Registry /\ Active(Registry)' = Active(Registry)
  BY DEF Registry, Active
<1>4. RecordsInv'
  BY <1>1 DEF AgreeInv, RecordsInv
<1>5. SavingInv'
  BY <1>2 DEF SavingInv
<1>6. \A q \in Repos : ~Saving(q)
  BY <1>2 DEF Saving
<1>7. RegistryInv'
  <2> SUFFICES ASSUME faults = 0, NEW q \in Repos, records'[q].state # "none"
               PROVE  records'[q].state = "active" <=> q \in Active(Registry)
    BY <1>3 DEF RegistryInv
  <2>1. records[q].state # "none" =>
           (records[q].state = "active" <=> q \in Active(Registry))
    BY <1>6 DEF AgreeInv, RegistryInv
  <2> QED
    BY <2>1, <1>1
<1>8. CopiesInv'
  <2> SUFFICES ASSUME NEW q \in Processes, op'[q].pc = "opened"
               PROVE  /\ Single => op'[q].registry = Registry
                      /\ \A s \in Active(Registry) :
                            faults = 0 /\ records'[s].state = "none" =>
                                s \in Active(op'[q].registry)
    BY <1>3 DEF CopiesInv
  <2>1. op'[q] = op[q]
    BY <1>2
  <2>2. \A s \in Active(Registry) : records'[s].state = "none" =>
                                       records[s].state = "none" /\ ~Saving(s)
    BY <1>1, <1>6 DEF Active
  <2> QED
    BY <2>1, <2>2 DEF AgreeInv, CopiesInv
<1> QED
  BY <1>4, <1>5, <1>7, <1>8 DEF AgreeInv

\* An operation that writes the overlay from a copy that is not old, or knows of
\* no other repository: the others stay what they were.
LEMMA OverlayStep ==
    ASSUME Orderly, TypeInv, AgreeInv, NEW p \in Processes, NEW r \in Repos,
           op[p].pc = "opened", Alone(p), NEW entry \in Entries,
           entry.status # "absent",
           save_overlay(op[p].registry, r, entry),
           records' = records, faults' = faults,
           op'[p].pc = "save_record", op'[p].repo = r,
           op'[p].record.state = "active" <=> entry.status = "active",
           op'[p].record.state \notin {"none", "approved"},
           op'[p].record.state = "active" =>
              /\ op'[p].record.approver # op'[p].record.assessor
              /\ op'[p].record.contract = entry.contract
              /\ records[r].state # "active"
    PROVE  AgreeInv'
<1>1. /\ op[p].registry \in [Repos -> Entries]
      /\ NoEntry \in Entries /\ overlay \in [Repos -> Entries]
  BY Defaults DEF TypeInv, Work
<1>2. /\ overlay' \in [Repos -> Entries]
      /\ \A q \in Repos : q # r =>
            overlay'[q] = IF q \in Base /\ op[p].registry[q].status = "active"
                          THEN NoEntry ELSE op[p].registry[q]
      /\ overlay'[r] = IF r \in Base /\ entry.status = "active"
                       THEN NoEntry ELSE entry
  BY <1>1, OverlayType
<1>3. \A q \in Repos : q # r =>
         /\ q \in Active(Registry)' <=> q \in Active(Registry)
         /\ q \notin Base => overlay'[q] = overlay[q]
  <2> SUFFICES ASSUME NEW q \in Repos, q # r
               PROVE  /\ q \in Active(Registry)' <=> q \in Active(Registry)
                      /\ q \notin Base => overlay'[q] = overlay[q]
    OBVIOUS
  <2>0. op[p].registry = Registry
    BY DEF Orderly, Lone, AgreeInv, CopiesInv
  <2>1. Registry[q] = IF overlay[q] # NoEntry THEN overlay[q]
                      ELSE IF q \in Base THEN BaseEntry ELSE NoEntry
    BY DEF Registry
  <2>2. BaseEntry.status = "active" /\ NoEntry.status = "absent"
    BY DEF BaseEntry, NoEntry
  <2>3. q \in Active(Registry)' <=>
           \/ overlay'[q].status = "active"
           \/ overlay'[q] = NoEntry /\ q \in Base
    BY <2>2 DEF Active, Registry, BaseEntry
  <2>4. q \in Active(Registry) <=>
           \/ overlay[q].status = "active"
           \/ overlay[q] = NoEntry /\ q \in Base
    BY ActiveOf
  <2>5. CASE q \in Base
    BY <2>0, <2>1, <2>2, <2>3, <2>4, <2>5, <1>2
  <2>6. CASE q \notin Base
    BY <2>0, <2>1, <2>2, <2>3, <2>4, <2>6, <1>2
  <2> QED
    BY <2>5, <2>6
<1>4. r \in Active(Registry)' <=> entry.status = "active"
  <2>1. NoEntry.status = "absent"
    BY DEF NoEntry
  <2>2. r \in Active(Registry)' <=>
           \/ overlay'[r].status = "active"
           \/ overlay'[r] = NoEntry /\ r \in Base
    BY <2>1 DEF Active, Registry, BaseEntry
  <2> QED
    BY <2>1, <2>2, <1>2
<1>5. /\ \A q \in Processes : q # p => op'[q].pc \in {"idle", "opened"}
      /\ \A q \in Processes : op'[q].pc = "opened" => q # p /\ op'[q] = op[q]
      /\ \A q \in Processes : op[q].pc # "save_record"
  BY DEF Alone
<1>6. RecordsInv'
  <2>1. ASSUME NEW q \in Repos \ Base, records[q].state = "active",
               overlay'[q].status = "active"
        PROVE  overlay'[q].contract = records[q].contract
    <3>1. CASE q # r
      BY <3>1, <2>1, <1>3 DEF AgreeInv, RecordsInv
    <3>2. CASE q = r
      BY <3>2, <2>1, <1>2
    <3> QED
      BY <3>1, <3>2
  <2> QED
    BY <2>1 DEF AgreeInv, RecordsInv
<1>7. SavingInv'
  BY <1>2, <1>4, <1>5 DEF SavingInv, Agreed
<1>8. RegistryInv'
  <2> SUFFICES ASSUME faults = 0, NEW q \in Repos, records[q].state # "none",
                      ~Saving(q)'
               PROVE  records[q].state = "active" <=> q \in Active(Registry)'
    BY DEF RegistryInv
  <2>1. q # r
    BY DEF Saving
  <2>2. ~Saving(q)
    BY <1>5 DEF Saving
  <2>3. records[q].state = "active" <=> q \in Active(Registry)
    BY <2>2 DEF AgreeInv, RegistryInv
  <2> QED
    BY <2>1, <2>3, <1>3
<1>9. CopiesInv'
  <2> SUFFICES ASSUME NEW q \in Processes, op'[q].pc = "opened"
               PROVE  /\ ~Single
                      /\ \A s \in Active(Registry)' : Saving(s)'
    BY DEF CopiesInv
  <2>1. ~Single
    BY <1>5 DEF Single
  <2>2. \A s \in Active(Registry)' : s = r
    BY <2>1 DEF Orderly, Lone, Active
  <2> QED
    BY <2>1, <2>2 DEF Saving
<1> QED
  BY <1>6, <1>7, <1>8, <1>9 DEF AgreeInv

\* What an operation that saves or appends next holds.
LEMMA Holds ==
    ASSUME TypeInv, NEW p \in Processes, NEW r \in Repos, NEW event
    PROVE  /\ AppendsEvent(p, r, event) =>
                 /\ op'[p].pc = "append_event" /\ op'[p].repo = r
                 /\ op'[p].event = event
                 /\ \A q \in Processes : q # p => op'[q] = op[q]
           /\ \A record : SavesRecord(p, r, record, event) =>
                 /\ op'[p].pc = "save_record" /\ op'[p].repo = r
                 /\ op'[p].event = event /\ op'[p].record = record
                 /\ \A q \in Processes : q # p => op'[q] = op[q]
           /\ op' = [op EXCEPT ![p] = Idle] =>
                 /\ op'[p].pc = "idle"
                 /\ \A q \in Processes : q # p => op'[q] = op[q]
<1>t. op \in [Processes -> Work] /\ op[p] \in Work /\ Idle.pc = "idle"
  BY Defaults DEF TypeInv
<1>1. ASSUME AppendsEvent(p, r, event)
      PROVE  /\ op'[p].pc = "append_event" /\ op'[p].repo = r
             /\ op'[p].event = event
             /\ \A q \in Processes : q # p => op'[q] = op[q]
  <2> DEFINE w == [Idle EXCEPT !.pc = "append_event", !.repo = r,
                               !.event = event]
  <2>1. op' = [op EXCEPT ![p] = w]
    BY <1>1 DEF AppendsEvent
  <2>2. w.pc = "append_event" /\ w.repo = r /\ w.event = event
    BY DEF Idle
  <2> HIDE DEF w
  <2> QED
    BY <2>1, <2>2, <1>t
<1>2. ASSUME NEW record, SavesRecord(p, r, record, event)
      PROVE  /\ op'[p].pc = "save_record" /\ op'[p].repo = r
             /\ op'[p].event = event /\ op'[p].record = record
             /\ \A q \in Processes : q # p => op'[q] = op[q]
  <2> DEFINE w == [op[p] EXCEPT !.pc = "save_record", !.repo = r,
                                !.record = record, !.event = event]
  <2>1. op' = [op EXCEPT ![p] = w]
    BY <1>2 DEF SavesRecord
  <2>2. /\ w.pc = "save_record" /\ w.repo = r
        /\ w.record = record /\ w.event = event
    BY <1>t DEF Work
  <2> HIDE DEF w
  <2> QED
    BY <2>1, <2>2, <1>t
<1> QED
  BY <1>1, <1>2, <1>t

\* A step that writes nothing, ends no save and opens at most an up-to-date copy.
LEMMA OutsideStep ==
    ASSUME TypeInv, AgreeInv, NEW p \in Processes, op[p].pc # "save_record",
           op'[p].pc = "idle" \/ (op'[p].pc = "opened" /\ op'[p].registry = Registry),
           \A q \in Processes : q # p => op'[q] = op[q],
           UNCHANGED <<records, overlay, faults>>
    PROVE  AgreeInv'
<1>1. Registry' = Registry /\ Active(Registry)' = Active(Registry)
  BY DEF Registry, Active
<1>2. \A r : Saving(r)' <=> Saving(r)
  BY DEF Saving
<1>3. CopiesInv'
  <2> SUFFICES ASSUME NEW q \in Processes, op'[q].pc = "opened"
               PROVE  /\ Single => op'[q].registry = Registry
                      /\ \A r \in Active(Registry) :
                            faults = 0 /\ records[r].state = "none"
                            /\ ~Saving(r) => r \in Active(op'[q].registry)
    BY <1>1, <1>2 DEF CopiesInv
  <2>1. CASE q = p
    BY <2>1
  <2>2. CASE q # p
    BY <2>2 DEF AgreeInv, CopiesInv
  <2> QED
    BY <2>1, <2>2
<1>4. RecordsInv' /\ RegistryInv'
  BY <1>1, <1>2 DEF AgreeInv, RecordsInv, RegistryInv
<1>5. SavingInv'
  BY <1>1 DEF AgreeInv, SavingInv, Agreed
<1> QED
  BY <1>3, <1>4, <1>5 DEF AgreeInv

\* Every operation on a repository keeps the agreement.
LEMMA AgreeOperation ==
    ASSUME Orderly, TypeInv, AgreeInv, NEW p \in Processes, NEW r \in Repos,
           Operation(p, r)
    PROVE  AgreeInv'
<1>e. /\ op[p].pc = "opened"
      /\ \A q \in Processes : op[q].pc \in {"idle", "opened"}
  BY DEF Operation, Discover, Assess, set_contract, Approve, Activate, Suspend,
         resume_onboarding, start, Enters, Unlocked
<1>t. /\ records[r] \in Records(moves) /\ Proper(records[r])
      /\ op \in [Processes -> Work] /\ op[p] \in Work
      /\ op[p].registry \in [Repos -> Entries] /\ op[p].actor \in Actors
      /\ heads \in [Branches -> 0 .. moves]
      /\ NoRecord \in Records(moves) /\ Idle.pc = "idle"
      /\ NoActor \notin Actors
  BY <1>e, Defaults, AbsenceAssumption
  DEF TypeInv, OpInv, Work
<1>a. records[r].state \in {"approved", "active"} =>
         records[r].approver # records[r].assessor
  BY DEF AgreeInv, RecordsInv
<1>d. /\ \A event : AppendsEvent(p, r, event) =>
            op'[p].pc = "append_event" /\ Alone(p)
      /\ \A record, event : SavesRecord(p, r, record, event) =>
            /\ op'[p].pc = "save_record" /\ op'[p].repo = r
            /\ op'[p].record = record /\ Alone(p)
      /\ op' = [op EXCEPT ![p] = Idle] => op'[p].pc = "idle" /\ Alone(p)
  BY <1>e, Holds DEF Alone
<1>1. ASSUME NEW branch \in Branches, Discover(p, r, branch) PROVE AgreeInv'
  <2>0. /\ UNCHANGED <<overlay, faults>>
        /\ faults = 0 /\ records[r].state = "none" => r \notin Active(Registry)
    BY <1>1, <1>e DEF Discover, AgreeInv, CopiesInv, Saving
  <2>1. CASE records[r].state = "none"
    <3> DEFINE record == [NoRecord EXCEPT !.state = "discovered",
                                          !.branch = branch]
    <3>1. record \in Records(moves) /\ record.state = "discovered"
      BY <1>t DEF Records, ONBOARDING_STATES
    <3>2. records' = [records EXCEPT ![r] = record]
      BY <1>1, <2>1 DEF Discover
    <3>3. op'[p].pc = "append_event" /\ Alone(p)
      BY <1>1, <2>1, <1>d DEF Discover
    <3> HIDE DEF record
    <3> QED
      BY <2>0, <2>1, <3>1, <3>2, <3>3, <1>e, RecordStep
  <2>2. CASE records[r].state # "none"
    <3> DEFINE record == [records[r] EXCEPT !.branch = branch]
    <3>1. /\ record \in Records(moves) /\ record.state = records[r].state
          /\ record.contract = records[r].contract
          /\ record.approver = records[r].approver
          /\ record.assessor = records[r].assessor
      BY <1>t DEF Records
    <3>2. records' = [records EXCEPT ![r] = record]
      BY <1>1, <2>2 DEF Discover
    <3>3. op'[p].pc = "idle" /\ Alone(p)
      BY <1>1, <2>2, <1>d DEF Discover
    <3> HIDE DEF record
    <3>4. record.state \in {"approved", "active"} =>
             record.approver # record.assessor
      BY <3>1, <1>a
    <3> QED
      BY <2>0, <2>2, <3>1, <3>2, <3>3, <3>4, <1>e, RecordStep
  <2> QED
    BY <2>1, <2>2
<1>2. ASSUME NEW contract \in Contracts \cup {NoContract}, Assess(p, r, contract)
      PROVE  AgreeInv'
  <2> DEFINE record == [records[r] EXCEPT
                           !.state = IF contract = NoContract
                                     THEN "assessment_blocked"
                                     ELSE "awaiting_onboarding_approval",
                           !.sha = heads[records[r].branch],
                           !.contract = contract,
                           !.assessor = op[p].actor,
                           !.approver = NoActor]
  <2>1. /\ records' = [records EXCEPT ![r] = record]
        /\ UNCHANGED <<overlay, faults>>
        /\ records[r].state \in {"discovered", "assessment_blocked",
                                 "smoke_failed"}
    BY <1>2 DEF Assess
  <2>2. heads[records[r].branch] \in 0 .. moves
    BY <1>t DEF Records
  <2>3. record \in Records(moves)
        /\ record.state \in {"assessment_blocked",
                             "awaiting_onboarding_approval"}
    BY <2>2, <1>t DEF Records, ONBOARDING_STATES, People
  <2>4. op'[p].pc = "append_event" /\ Alone(p)
    BY <1>2, <1>d DEF Assess
  <2> HIDE DEF record
  <2> QED
    BY <2>1, <2>3, <2>4, <1>e, RecordStep
<1>3. ASSUME NEW contract \in Contracts, set_contract(p, r, contract)
      PROVE  AgreeInv'
  <2> DEFINE record == [records[r] EXCEPT
                           !.state = "awaiting_onboarding_approval",
                           !.contract = contract, !.approver = NoActor]
  <2>1. /\ records' = [records EXCEPT ![r] = record]
        /\ UNCHANGED <<overlay, faults>>
        /\ records[r].state \in {"assessment_blocked", "smoke_failed",
                                 "awaiting_onboarding_approval"}
    BY <1>3 DEF set_contract
  <2>2. record \in Records(moves)
        /\ record.state = "awaiting_onboarding_approval"
    BY <1>t DEF Records, ONBOARDING_STATES, People
  <2>3. op'[p].pc = "append_event" /\ Alone(p)
    BY <1>3, <1>d DEF set_contract
  <2> HIDE DEF record
  <2> QED
    BY <2>1, <2>2, <2>3, <1>e, RecordStep
<1>4. ASSUME Approve(p, r) PROVE AgreeInv'
  <2> DEFINE record == [records[r] EXCEPT !.state = "approved",
                                          !.approver = op[p].actor]
  <2>1. /\ records' = [records EXCEPT ![r] = record]
        /\ UNCHANGED <<overlay, faults>>
        /\ records[r].state = "awaiting_onboarding_approval"
        /\ op[p].actor # records[r].assessor
    BY <1>4 DEF Approve
  <2>2. /\ record \in Records(moves) /\ record.state = "approved"
        /\ record.approver = op[p].actor
        /\ record.assessor = records[r].assessor
    BY <1>t DEF Records, ONBOARDING_STATES, People
  <2>3. op'[p].pc = "append_event" /\ Alone(p)
    BY <1>4, <1>d DEF Approve
  <2> HIDE DEF record
  <2> QED
    BY <2>1, <2>2, <2>3, <1>e, RecordStep
<1>5. ASSUME NEW passed \in BOOLEAN, Activate(p, r, passed) PROVE AgreeInv'
  <2>0. faults' = faults /\ records[r].state = "approved"
    BY <1>5 DEF Activate
  <2>1. CASE passed
    <3> DEFINE record == [records[r] EXCEPT !.state = "active"]
               entry == [status |-> "active", branch |-> records[r].branch,
                         contract |-> records[r].contract]
               event == Event("activated", op[p].actor, records[r].contract)
    <3>1. /\ save_overlay(op[p].registry, r, entry)
          /\ SavesRecord(p, r, record, event)
          /\ records' = records
      BY <1>5, <2>1 DEF Activate
    <3>2. /\ record \in Records(moves) /\ record.state = "active"
          /\ record.contract = records[r].contract
          /\ record.approver = records[r].approver
          /\ record.assessor = records[r].assessor
      BY <1>t DEF Records, ONBOARDING_STATES
    <3>3. /\ entry \in Entries /\ entry.status = "active"
          /\ entry.contract = records[r].contract
      BY <1>t DEF Entries, Records
    <3> HIDE DEF record, entry, event
    <3>4. /\ op'[p].pc = "save_record" /\ op'[p].repo = r
          /\ op'[p].record = record /\ Alone(p)
      BY <3>1, <1>d
    <3> QED
      BY <2>0, <3>1, <3>2, <3>3, <3>4, <1>a, <1>e, OverlayStep
  <2>2. CASE ~passed
    <3> DEFINE record == [records[r] EXCEPT !.state = "smoke_failed"]
    <3>1. records' = [records EXCEPT ![r] = record] /\ overlay' = overlay
      BY <1>5, <2>2 DEF Activate
    <3>2. record \in Records(moves) /\ record.state = "smoke_failed"
      BY <1>t DEF Records, ONBOARDING_STATES
    <3>3. op'[p].pc = "append_event" /\ Alone(p)
      BY <1>5, <2>2, <1>d DEF Activate
    <3> HIDE DEF record
    <3> QED
      BY <2>0, <3>1, <3>2, <3>3, <1>e, RecordStep
  <2> QED
    BY <2>1, <2>2
<1>6. ASSUME Suspend(p, r) PROVE AgreeInv'
  <2> DEFINE old == op[p].registry[r]
             known == IF records[r].state # "none" THEN records[r]
                      ELSE [NoRecord EXCEPT !.branch = old.branch,
                                            !.contract = old.contract]
             entry == [old EXCEPT !.status = "suspended"]
             record == [known EXCEPT !.state = "suspended"]
             event == Event("suspended", op[p].actor, NoContract)
  <2>1. /\ save_overlay(op[p].registry, r, entry)
        /\ SavesRecord(p, r, record, event)
        /\ UNCHANGED <<records, faults>>
    BY <1>6 DEF Suspend
  <2>2. old \in Entries
    BY <1>t
  <2>3. known \in Records(moves)
    BY <2>2, <1>t DEF Records, Entries
  <2>4. entry \in Entries /\ entry.status = "suspended"
    BY <2>2, <1>t DEF Entries
  <2> HIDE DEF known
  <2>5. record \in Records(moves) /\ record.state = "suspended"
    BY <2>3 DEF Records, ONBOARDING_STATES
  <2> HIDE DEF record, entry, event
  <2>6. /\ op'[p].pc = "save_record" /\ op'[p].repo = r
        /\ op'[p].record = record /\ Alone(p)
    BY <2>1, <1>d
  <2> QED
    BY <2>1, <2>4, <2>5, <2>6, <1>e, OverlayStep
<1>7. ASSUME resume_onboarding(p, r) PROVE AgreeInv'
  <2> DEFINE record == [records[r] EXCEPT !.state = "discovered",
                           !.assessor = NoActor, !.approver = NoActor]
  <2>1. /\ records' = [records EXCEPT ![r] = record]
        /\ UNCHANGED <<overlay, faults>> /\ records[r].state = "suspended"
    BY <1>7 DEF resume_onboarding
  <2>2. record \in Records(moves) /\ record.state = "discovered"
    BY <1>t DEF Records, ONBOARDING_STATES, People
  <2>3. op'[p].pc = "append_event" /\ Alone(p)
    BY <1>7, <1>d DEF resume_onboarding
  <2> HIDE DEF record
  <2> QED
    BY <2>1, <2>2, <2>3, <1>e, RecordStep
<1>8. ASSUME start(p, r) PROVE AgreeInv'
  <2>1. /\ op'[p].pc = "idle" /\ Alone(p)
        /\ UNCHANGED <<records, overlay, faults>>
    BY <1>8, <1>d DEF start
  <2> QED
    BY <2>1, <1>e, OutsideStep DEF Alone
<1> QED
  BY <1>1, <1>2, <1>3, <1>4, <1>5, <1>6, <1>7, <1>8 DEF Operation

\* Saving the record makes it what the registry says already.
LEMMA AgreeSave ==
    ASSUME TypeInv, AgreeInv, NEW p \in Processes, SaveRecord(p)
    PROVE  AgreeInv'
<1> DEFINE r == op[p].repo
           record == op[p].record
<1>1. /\ op[p].pc = "save_record" /\ r \in Repos
      /\ records' = [records EXCEPT ![r] = record]
      /\ AppendsEvent(p, r, op[p].event)
      /\ UNCHANGED <<overlay, faults>>
      /\ Agreed(record, r)
  BY DEF SaveRecord, TypeInv, OpInv, Inside, AgreeInv, SavingInv
<1>2. /\ records'[r] = record
      /\ \A q \in Repos : q # r => records'[q] = records[q]
  BY <1>1 DEF TypeInv
<1>3. /\ op'[p].pc = "append_event"
      /\ \A q \in Processes : q # p => op'[q] = op[q]
  BY <1>1, Holds
<1>4. \A q \in Processes : q # p => op[q].pc # "save_record"
  BY <1>1 DEF TypeInv, Exclusive, Inside
<1>5. Active(Registry)' = Active(Registry)
  BY <1>1 DEF Registry, Active
<1>6. \A q \in Repos : q # r => ~Saving(q)
  BY <1>4 DEF Saving, r
<1> HIDE DEF record, r
<1>7. RecordsInv'
  BY <1>1, <1>2 DEF AgreeInv, RecordsInv, Agreed
<1>8. SavingInv'
  BY <1>3, <1>4 DEF SavingInv
<1>9. RegistryInv'
  <2> SUFFICES ASSUME faults = 0, NEW q \in Repos, records'[q].state # "none"
               PROVE  records'[q].state = "active" <=> q \in Active(Registry)
    BY <1>1, <1>5 DEF RegistryInv
  <2>1. CASE q = r
    BY <2>1, <1>1, <1>2 DEF Agreed
  <2>2. CASE q # r
    BY <2>2, <1>2, <1>6 DEF AgreeInv, RegistryInv
  <2> QED
    BY <2>1, <2>2
<1>10. CopiesInv'
  <2> SUFFICES ASSUME NEW q \in Processes, op'[q].pc = "opened"
               PROVE  /\ Single => op'[q].registry = Registry
                      /\ \A s \in Active(Registry) :
                            faults = 0 /\ records'[s].state = "none" =>
                                s \in Active(op'[q].registry)
    BY <1>1, <1>5 DEF CopiesInv, Registry
  <2>1. op'[q] = op[q]
    BY <1>3
  <2>2. ASSUME NEW s \in Active(Registry), records'[s].state = "none"
        PROVE  records[s].state = "none" /\ ~Saving(s)
    <3>1. s # r
      BY <1>1, <1>2, <2>2 DEF Agreed
    <3> QED
      BY <1>2, <1>6, <2>2, <3>1 DEF Active
  <2> QED
    BY <2>1, <2>2 DEF AgreeInv, CopiesInv
<1> QED
  BY <1>7, <1>8, <1>9, <1>10 DEF AgreeInv

\* Every step keeps the agreement.
LEMMA AgreeNext ==
    ASSUME Orderly, TypeInv, AgreeInv, [Next]_vars PROVE AgreeInv'
<1>t. /\ op \in [Processes -> Work] /\ Idle.pc = "idle" /\ faults \in Nat
  BY Defaults DEF TypeInv
<1>1. ASSUME NEW p \in Processes, NEW a \in Actors, Open(p, a) PROVE AgreeInv'
  <2> DEFINE w == [Idle EXCEPT !.pc = "opened", !.actor = a,
                               !.registry = Registry]
  <2>1. /\ op' = [op EXCEPT ![p] = w] /\ op[p].pc = "idle"
        /\ UNCHANGED <<records, overlay, faults>>
    BY <1>1 DEF Open
  <2>2. w.pc = "opened" /\ w.registry = Registry
    BY DEF Idle
  <2> HIDE DEF w
  <2>3. /\ op'[p].pc = "opened" /\ op'[p].registry = Registry
        /\ \A q \in Processes : q # p => op'[q] = op[q]
    BY <2>1, <2>2, <1>t
  <2> QED
    BY <2>1, <2>3, OutsideStep
<1>2. ASSUME NEW p \in Processes, Refused(p) \/ append_event(p) PROVE AgreeInv'
  <2>1. /\ op' = [op EXCEPT ![p] = Idle] /\ op[p].pc # "save_record"
        /\ UNCHANGED <<records, overlay, faults>>
    BY <1>2 DEF Refused, append_event
  <2>2. op'[p].pc = "idle" /\ \A q \in Processes : q # p => op'[q] = op[q]
    BY <2>1, <1>t
  <2> QED
    BY <2>1, <2>2, OutsideStep
<1>3. ASSUME NEW p \in Processes, Crash(p) PROVE AgreeInv'
  <2>1. /\ op' = [op EXCEPT ![p] = Idle] /\ faults' # 0
        /\ UNCHANGED <<records, overlay>>
    BY <1>3, <1>t DEF Crash
  <2>2. op'[p].pc = "idle" /\ \A q \in Processes : q # p => op'[q] = op[q]
    BY <2>1, <1>t
  <2>3. Registry' = Registry /\ Active(Registry)' = Active(Registry)
    BY <2>1 DEF Registry, Active
  <2>4. CopiesInv' /\ RecordsInv' /\ RegistryInv'
    BY <2>1, <2>2, <2>3 DEF AgreeInv, CopiesInv, RecordsInv, RegistryInv
  <2>5. SavingInv'
    BY <2>1, <2>2, <2>3 DEF AgreeInv, SavingInv, Agreed
  <2> QED
    BY <2>4, <2>5 DEF AgreeInv
<1>4. CASE UNCHANGED <<records, overlay, op, faults>>
  <2>1. Registry' = Registry
    BY <1>4 DEF Registry
  <2> QED
    BY <1>4, <2>1 DEF AgreeInv, CopiesInv, RecordsInv, SavingInv, RegistryInv,
                      Saving, Active, Agreed
<1> QED
  BY <1>1, <1>2, <1>3, <1>4, AgreeOperation, AgreeSave DEF Next, Push, vars

-----------------------------------------------------------------------------
(* Theorems                                                                *)

\* The induction behind the theorems that follow.
LEMMA AgreeAlways == ASSUME Orderly PROVE Spec => [](TypeInv /\ AgreeInv)
<1>1. TypeInv /\ AgreeInv /\ [Next]_vars => (TypeInv /\ AgreeInv)'
  BY TypeNext, AgreeNext
<1> QED
  BY <1>1, TypeInit, AgreeInit, PTL DEF Spec

\* If commands do not overlap, or there is only one repository to bring back an
\* old entry of, registry and records agree on what is active once an operation
\* is over, as long as no process died in one.
THEOREM RegistryIsTrue == Orderly => (Spec => []RegistryAgrees)
<1>1. TypeInv /\ AgreeInv => RegistryAgrees
  BY DEF AgreeInv, RegistryInv, RegistryAgrees, Unlocked, Saving
<1>2. ASSUME Orderly PROVE Spec => []RegistryAgrees
  <2>1. Spec => [](TypeInv /\ AgreeInv)
    BY <1>2, AgreeAlways
  <2> QED
    BY <2>1, <1>1, PTL
<1> QED
  BY <1>2

\* If commands do not overlap, or there is only one repository, a discovered
\* repository is never worked on under a contract other than the approved one,
\* whichever process dies in between.
THEOREM EntriesAreApproved == Orderly => (Spec => []EntryIsApproved)
<1>1. TypeInv /\ AgreeInv => EntryIsApproved
  <2> SUFFICES ASSUME TypeInv, AgreeInv, NEW r \in Active(Registry) \ Base,
                      records[r].state = "active"
               PROVE  /\ Registry[r].contract = records[r].contract
                      /\ records[r].approver # records[r].assessor
    BY DEF EntryIsApproved
  <2>1. r \in Repos \ Base
    BY DEF Active
  <2>2. overlay[r].status = "active" /\ Registry[r] = overlay[r]
    BY <2>1, ActiveOf
  <2> QED
    BY <2>1, <2>2 DEF AgreeInv, RecordsInv
<1>2. ASSUME Orderly PROVE Spec => []EntryIsApproved
  <2>1. Spec => [](TypeInv /\ AgreeInv)
    BY <1>2, AgreeAlways
  <2> QED
    BY <2>1, <1>1, PTL
<1> QED
  BY <1>2

-----------------------------------------------------------------------------
(* What the trail of a repository bears witness to                         *)

\* What may follow an assessment until the repository is active.
Following == {"replaced", "approved", "smoke_failed"}

\* The last assessment in trail e is by a, and still stands.
AssessedBy(e, a) ==
    \E i \in DOMAIN e :
        /\ e[i].type = "assessed" /\ e[i].actor = a
        /\ \A k \in i + 1 .. Len(e) : e[k].type \in Following

\* Trail e bears out a record that is on its way to active.
Vouched(record, e) ==
    /\ record.state \in {"assessment_blocked", "awaiting_onboarding_approval",
                         "approved", "smoke_failed"} =>
          AssessedBy(e, record.assessor)
    /\ record.state = "approved" =>
          /\ Len(e) > 0
          /\ e[Len(e)].type = "approved"
          /\ e[Len(e)].contract = record.contract
          /\ e[Len(e)].actor # record.assessor
          /\ e[Len(e)].actor = record.approver

\* Trail e shows an approval of the contract by somebody other than the last
\* assessor.
Approval(e, contract) ==
    \E i, j \in DOMAIN e :
        /\ i < j
        /\ e[i].type = "assessed"
        /\ e[j].type = "approved"
        /\ e[j].contract = contract
        /\ e[i].actor # e[j].actor
        /\ \A k \in i + 1 .. j - 1 : e[k].type \in Following

EntryVouched(entry, e) ==
    entry.status = "active" => Approval(e, entry.contract)

\* An assessment and an approval between events i and j ...
Renewed(e, i, j) ==
    \E k, l \in i + 1 .. j - 1 : /\ k < l
                                 /\ e[k].type = "assessed"
                                 /\ e[l].type = "approved"

\* ... since every suspension so far, and before every activation after one.
Renews(e) ==
    \A i \in DOMAIN e : e[i].type = "suspended" => Renewed(e, i, Len(e) + 1)
Fresh(e) ==
    \A i, j \in DOMAIN e :
        i < j /\ e[i].type = "suspended" /\ e[j].type = "activated" =>
            Renewed(e, i, j)

\* No operation on r is between its first write and its event.
Settled(r) == \A p \in Processes : op[p].pc \in Inside => op[p].repo # r

\* What the operation of p will leave behind is borne out, and so is the copy
\* of the registry it works from, however old.
OpTrail(p) ==
    /\ op[p].pc = "opened" =>
          \A r \in Repos \ Base : EntryVouched(op[p].registry[r], events[r])
    /\ op[p].pc = "save_record" => op[p].record.state \in {"active", "suspended"}
    /\ op[p].pc = "append_event" =>
          Vouched(records[op[p].repo],
                  Append(events[op[p].repo], op[p].event))
    /\ op[p].pc \in Inside /\ op[p].event.type = "activated" =>
          Renews(events[op[p].repo])

Trails ==
    /\ \A r \in Repos : Settled(r) => Vouched(records[r], events[r])
    /\ \A p \in Processes : OpTrail(p)
    /\ \A r \in Repos \ Base : EntryVouched(overlay[r], events[r])
    /\ \A r \in Repos : Fresh(events[r])

TrailInv == faults = 0 => Trails

\* Appending an event leaves the events before it alone.
LEMMA Appended ==
    ASSUME NEW e \in Seq(Events), NEW x \in Events
    PROVE  /\ Len(e) \in Nat /\ DOMAIN e = 1 .. Len(e)
           /\ Append(e, x) \in Seq(Events)
           /\ Len(Append(e, x)) = Len(e) + 1
           /\ DOMAIN Append(e, x) = 1 .. Len(e) + 1
           /\ \A i \in 1 .. Len(e) : Append(e, x)[i] = e[i]
           /\ Append(e, x)[Len(e) + 1] = x
OBVIOUS

\* An approval in a trail stays there.
LEMMA ApprovalKept ==
    ASSUME NEW e \in Seq(Events), NEW x \in Events, NEW contract,
           Approval(e, contract)
    PROVE  Approval(Append(e, x), contract)
<1> DEFINE f == Append(e, x)
<1>1. /\ Len(e) \in Nat /\ DOMAIN e = 1 .. Len(e)
      /\ DOMAIN f = 1 .. Len(e) + 1
      /\ \A i \in 1 .. Len(e) : f[i] = e[i]
  BY Appended
<1> HIDE DEF f
<1>2. PICK i, j \in 1 .. Len(e) :
         /\ i < j
         /\ e[i].type = "assessed"
         /\ e[j].type = "approved"
         /\ e[j].contract = contract
         /\ e[i].actor # e[j].actor
         /\ \A k \in i + 1 .. j - 1 : e[k].type \in Following
  BY <1>1 DEF Approval
<1>3. \A k \in i + 1 .. j - 1 : k \in 1 .. Len(e)
  BY <1>1
<1>4. /\ i \in DOMAIN f /\ j \in DOMAIN f /\ f[i] = e[i] /\ f[j] = e[j]
      /\ \A k \in i + 1 .. j - 1 : f[k].type \in Following
  BY <1>1, <1>2, <1>3
<1>5. Approval(f, contract)
  BY <1>2, <1>4 DEF Approval
<1> QED
  BY <1>5 DEF f

\* An assessment still stands after an event that may follow it.
LEMMA AssessedKept ==
    ASSUME NEW e \in Seq(Events), NEW x \in Events, NEW a,
           AssessedBy(e, a), x.type \in Following
    PROVE  AssessedBy(Append(e, x), a)
<1> DEFINE f == Append(e, x)
<1>1. /\ Len(e) \in Nat /\ DOMAIN e = 1 .. Len(e)
      /\ Len(f) = Len(e) + 1 /\ DOMAIN f = 1 .. Len(e) + 1
      /\ \A i \in 1 .. Len(e) : f[i] = e[i]
      /\ f[Len(e) + 1] = x
  BY Appended
<1> HIDE DEF f
<1>2. PICK i \in 1 .. Len(e) :
         /\ e[i].type = "assessed" /\ e[i].actor = a
         /\ \A k \in i + 1 .. Len(e) : e[k].type \in Following
  BY <1>1 DEF AssessedBy
<1>3. i \in DOMAIN f /\ f[i].type = "assessed" /\ f[i].actor = a
  BY <1>1, <1>2
<1>4. ASSUME NEW k \in i + 1 .. Len(f) PROVE f[k].type \in Following
  <2>1. k \in i + 1 .. Len(e) \/ k = Len(e) + 1
    BY <1>1, <1>2
  <2> QED
    BY <1>1, <1>2, <2>1
<1>5. AssessedBy(f, a)
  BY <1>3, <1>4 DEF AssessedBy
<1> QED
  BY <1>5 DEF f

\* A fresh assessment is the last one of its trail.
LEMMA AssessedNow ==
    ASSUME NEW e \in Seq(Events), NEW x \in Events, x.type = "assessed"
    PROVE  AssessedBy(Append(e, x), x.actor)
<1> DEFINE f == Append(e, x)
<1>1. /\ Len(e) \in Nat /\ Len(f) = Len(e) + 1
      /\ DOMAIN f = 1 .. Len(e) + 1 /\ f[Len(e) + 1] = x
  BY Appended
<1> HIDE DEF f
<1>2. AssessedBy(f, x.actor)
  BY <1>1 DEF AssessedBy
<1> QED
  BY <1>2 DEF f

\* The trail of an approved record shows the approval of its contract, and that
\* assessment and approval came after every suspension.
LEMMA ApprovedTrail ==
    ASSUME NEW e \in Seq(Events), NEW record, Vouched(record, e),
           record.state = "approved"
    PROVE  Approval(e, record.contract) /\ Renews(e)
<1> DEFINE n == Len(e)
<1>1. n \in Nat /\ DOMAIN e = 1 .. n
  OBVIOUS
<1>2. /\ n > 0 /\ e[n].type = "approved"
      /\ e[n].contract = record.contract /\ e[n].actor # record.assessor
  BY DEF Vouched
<1>3. PICK i \in 1 .. n :
         /\ e[i].type = "assessed" /\ e[i].actor = record.assessor
         /\ \A k \in i + 1 .. n : e[k].type \in Following
  BY <1>1 DEF Vouched, AssessedBy
<1> HIDE DEF n
<1>4. i < n /\ n \in 1 .. n
  BY <1>1, <1>2, <1>3
<1>5. \A k \in i + 1 .. n - 1 : e[k].type \in Following
  BY <1>1, <1>3
<1>6. Approval(e, record.contract)
  BY <1>1, <1>2, <1>3, <1>4, <1>5 DEF Approval
<1>7. ASSUME NEW m \in 1 .. n, e[m].type = "suspended"
      PROVE  Renewed(e, m, n + 1)
  <2>1. m < i
    <3>1. m \notin i + 1 .. n
      BY <1>3, <1>7 DEF Following
    <3> QED
      BY <1>1, <1>3, <1>7, <3>1
  <2>2. i \in m + 1 .. (n + 1) - 1 /\ n \in m + 1 .. (n + 1) - 1
    BY <1>1, <1>4, <2>1
  <2> QED
    BY <1>2, <1>3, <1>4, <2>2 DEF Renewed
<1> QED
  BY <1>1, <1>6, <1>7 DEF Renews, n

\* A trail stays fresh if an activation is appended only after a renewal.
LEMMA FreshKept ==
    ASSUME NEW e \in Seq(Events), NEW x \in Events, Fresh(e),
           x.type = "activated" => Renews(e)
    PROVE  Fresh(Append(e, x))
<1> DEFINE f == Append(e, x)
<1>1. /\ Len(e) \in Nat /\ DOMAIN e = 1 .. Len(e)
      /\ DOMAIN f = 1 .. Len(e) + 1
      /\ \A i \in 1 .. Len(e) : f[i] = e[i]
      /\ f[Len(e) + 1] = x
  BY Appended
<1> HIDE DEF f
<1>2. ASSUME NEW i \in DOMAIN f, NEW j \in DOMAIN f, i < j,
             f[i].type = "suspended", f[j].type = "activated"
      PROVE  Renewed(f, i, j)
  <2>1. i \in 1 .. Len(e) /\ f[i] = e[i]
    BY <1>1, <1>2
  <2>2. Renewed(e, i, j)
    <3>1. CASE j \in 1 .. Len(e)
      BY <1>1, <1>2, <2>1, <3>1 DEF Fresh
    <3>2. CASE j = Len(e) + 1
      BY <1>1, <1>2, <2>1, <3>2 DEF Renews
    <3> QED
      BY <1>1, <3>1, <3>2
  <2>3. \A k \in i + 1 .. j - 1 : k \in 1 .. Len(e)
    BY <1>1
  <2> QED
    BY <1>1, <2>2, <2>3 DEF Renewed
<1>3. Fresh(f)
  BY <1>2 DEF Fresh
<1> QED
  BY <1>3 DEF f

-----------------------------------------------------------------------------
(* Every step leaves a trail                                               *)

\* Nothing happened yet.
LEMMA TrailInit == Init => Trails
<1> SUFFICES ASSUME Init PROVE Trails
  OBVIOUS
<1>1. /\ \A p \in Processes : op[p].pc = "idle"
      /\ \A r \in Repos : /\ records[r].state = "none"
                          /\ overlay[r].status = "absent"
                          /\ DOMAIN events[r] = {}
  BY DEF Init, Idle, NoRecord, NoEntry
<1> QED
  BY <1>1 DEF Trails, OpTrail, Inside, Vouched, EntryVouched, Fresh

\* An operation that got the lock finds every trail complete.
LEMMA TrailsComplete ==
    ASSUME Trails, NEW p \in Processes, NEW r \in Repos, Enters(p, r)
    PROVE  /\ \A q \in Processes : op[q].pc \notin Inside
           /\ \A s \in Repos : Vouched(records[s], events[s])
BY DEF Trails, Enters, Unlocked, Settled, Inside

\* A new record whose event is due.
LEMMA RecordTrail ==
    ASSUME TypeInv, Trails, NEW p \in Processes, NEW r \in Repos, Enters(p, r),
           NEW record, NEW event,
           records' = [records EXCEPT ![r] = record],
           AppendsEvent(p, r, event),
           UNCHANGED <<events, overlay>>,
           Vouched(record, Append(events[r], event)),
           event.type # "activated"
    PROVE  Trails'
<1>1. /\ op'[p].pc = "append_event" /\ op'[p].repo = r /\ op'[p].event = event
      /\ \A q \in Processes : q # p => op'[q] = op[q]
  BY Holds
<1>2. /\ records'[r] = record
      /\ \A s \in Repos : s # r => records'[s] = records[s]
  BY DEF TypeInv
<1>3. /\ \A q \in Processes : op[q].pc \notin Inside
      /\ \A s \in Repos : Vouched(records[s], events[s])
  BY TrailsComplete
<1>4. ASSUME NEW s \in Repos, Settled(s)' PROVE Vouched(records[s], events[s])'
  <2>1. s # r
    BY <1>1, <1>4 DEF Settled, Inside
  <2> QED
    BY <1>2, <1>3, <2>1
<1>5. OpTrail(p)'
  BY <1>1, <1>2 DEF OpTrail
<1>6. ASSUME NEW q \in Processes, q # p PROVE OpTrail(q)'
  <2>1. op'[q] = op[q] /\ op[q].pc \notin Inside
    BY <1>1, <1>3, <1>6
  <2> QED
    BY <2>1 DEF Trails, OpTrail, Inside
<1> QED
  BY <1>4, <1>5, <1>6 DEF Trails

\* A new entry whose record is due.
LEMMA EntryTrail ==
    ASSUME TypeInv, Trails, NEW p \in Processes, NEW r \in Repos, Enters(p, r),
           NEW entry \in Entries, NEW record, NEW event,
           save_overlay(op[p].registry, r, entry),
           SavesRecord(p, r, record, event),
           UNCHANGED <<records, events>>,
           record.state \in {"active", "suspended"},
           EntryVouched(entry, events[r]),
           event.type = "activated" => Renews(events[r])
    PROVE  Trails'
<1>1. /\ op'[p].pc = "save_record" /\ op'[p].repo = r
      /\ op'[p].event = event /\ op'[p].record = record
      /\ \A q \in Processes : q # p => op'[q] = op[q]
  BY Holds
<1>2. /\ \A q \in Processes : op[q].pc \notin Inside
      /\ \A s \in Repos : Vouched(records[s], events[s])
  BY TrailsComplete
<1>3. /\ op[p].pc = "opened" /\ op[p].registry \in [Repos -> Entries]
      /\ NoEntry \in Entries
  BY Defaults DEF Enters, TypeInv, Work
<1>4. ASSUME NEW s \in Repos \ Base PROVE EntryVouched(overlay'[s], events[s])
  <2>1. overlay'[s] = IF s = r THEN entry ELSE op[p].registry[s]
    BY <1>3, OverlayType
  <2>2. EntryVouched(op[p].registry[s], events[s])
    BY <1>3 DEF Trails, OpTrail
  <2> QED
    BY <2>1, <2>2
<1>5. OpTrail(p)'
  BY <1>1 DEF OpTrail
<1>6. ASSUME NEW q \in Processes, q # p PROVE OpTrail(q)'
  <2>1. op'[q] = op[q] /\ op[q].pc \notin Inside
    BY <1>1, <1>2, <1>6
  <2> QED
    BY <2>1 DEF Trails, OpTrail, Inside
<1> QED
  BY <1>2, <1>4, <1>5, <1>6 DEF Trails

\* A step that writes neither file nor event and takes no lock.
LEMMA OutsideTrail ==
    ASSUME TypeInv, Trails, NEW p \in Processes, op[p].pc \notin Inside,
           \A q \in Processes : q # p => op'[q] = op[q],
           \/ op'[p].pc = "idle"
           \/ /\ op'[p].pc = "opened"
              /\ \A r \in Repos \ Base :
                    EntryVouched(op'[p].registry[r], events[r]),
           \A r \in Repos : \A e :
               Vouched(records[r], e) => Vouched(records'[r], e),
           UNCHANGED <<events, overlay>>
    PROVE  Trails'
<1>1. \A r \in Repos : Settled(r)' => Settled(r)
  BY DEF Settled
<1>2. OpTrail(p)'
  BY DEF OpTrail, Inside
<1>3. ASSUME NEW q \in Processes, q # p PROVE OpTrail(q)'
  <2>1. op'[q] = op[q] /\ OpTrail(q)
    BY <1>3 DEF Trails
  <2>2. op[q].pc = "append_event" => op[q].repo \in Repos
    BY DEF TypeInv, OpInv, Inside
  <2> QED
    BY <2>1, <2>2 DEF OpTrail
<1> QED
  BY <1>1, <1>2, <1>3 DEF Trails

\* Every operation, whatever registry it works from, keeps the trails.
LEMMA TrailOperation ==
    ASSUME TypeInv, Trails, NEW p \in Processes, NEW r \in Repos,
           Operation(p, r)
    PROVE  Trails'
<1>e. Enters(p, r)
  BY DEF Operation, Discover, Assess, set_contract, Approve, Activate, Suspend,
         resume_onboarding, start
<1>t. /\ records[r] \in Records(moves) /\ events[r] \in Seq(Events)
      /\ records \in [Repos -> Records(moves)]
      /\ op[p] \in Work /\ op[p].pc = "opened" /\ op[p].actor \in People
      /\ op[p].registry \in [Repos -> Entries]
      /\ NoActor \in People
      /\ \A type \in EventTypes, a \in People,
            c \in Contracts \cup {NoContract} : Event(type, a, c) \in Events
      /\ \A type, a, c : /\ Event(type, a, c).type = type
                         /\ Event(type, a, c).actor = a
                         /\ Event(type, a, c).contract = c
  BY <1>e, Defaults DEF TypeInv, Work, Enters, People, Event
<1>v. Vouched(records[r], events[r])
  BY <1>e, TrailsComplete
<1>c. records[r].contract \in Contracts \cup {NoContract}
  BY <1>t DEF Records
<1>1. ASSUME NEW branch \in Branches, Discover(p, r, branch) PROVE Trails'
  <2>1. CASE records[r].state = "none"
    <3> DEFINE record == [NoRecord EXCEPT !.state = "discovered",
                                          !.branch = branch]
               event == Event("discovered", op[p].actor, NoContract)
    <3>1. /\ records' = [records EXCEPT ![r] = record]
          /\ AppendsEvent(p, r, event)
          /\ UNCHANGED <<events, overlay>>
      BY <1>1, <2>1 DEF Discover
    <3>2. record.state = "discovered" /\ event.type # "activated"
      BY <1>t DEF NoRecord
    <3> HIDE DEF record, event
    <3>3. Vouched(record, Append(events[r], event))
      BY <3>2 DEF Vouched
    <3> QED
      BY <1>e, <3>1, <3>2, <3>3, RecordTrail
  <2>2. CASE records[r].state # "none"
    <3>1. /\ records' = [records EXCEPT ![r].branch = branch]
          /\ op' = [op EXCEPT ![p] = Idle]
          /\ UNCHANGED <<events, overlay>>
      BY <1>1, <2>2 DEF Discover
    <3>2. /\ op'[p].pc = "idle"
          /\ \A q \in Processes : q # p => op'[q] = op[q]
      BY <3>1, Holds
    <3>3. ASSUME NEW s \in Repos
          PROVE  /\ records'[s].state = records[s].state
                 /\ records'[s].assessor = records[s].assessor
                 /\ records'[s].contract = records[s].contract
                 /\ records'[s].approver = records[s].approver
      BY <1>t, <3>1 DEF Records
    <3>4. \A s \in Repos : \A e : Vouched(records[s], e) => Vouched(records'[s], e)
      BY <3>3 DEF Vouched
    <3> QED
      BY <1>t, <3>1, <3>2, <3>4, OutsideTrail DEF Inside
  <2> QED
    BY <2>1, <2>2
<1>2. ASSUME NEW contract \in Contracts \cup {NoContract},
             Assess(p, r, contract)
      PROVE  Trails'
  <2> DEFINE record == [records[r] EXCEPT
                           !.state = IF contract = NoContract
                                     THEN "assessment_blocked"
                                     ELSE "awaiting_onboarding_approval",
                           !.sha = heads[records[r].branch],
                           !.contract = contract,
                           !.assessor = op[p].actor,
                           !.approver = NoActor]
             event == Event("assessed", op[p].actor, contract)
  <2>1. /\ records' = [records EXCEPT ![r] = record]
        /\ AppendsEvent(p, r, event)
        /\ UNCHANGED <<events, overlay>>
    BY <1>2 DEF Assess
  <2>2. /\ record.state # "approved" /\ record.assessor = op[p].actor
        /\ event \in Events
        /\ event.type = "assessed" /\ event.actor = op[p].actor
    BY <1>t DEF Records, EventTypes
  <2> HIDE DEF record, event
  <2>3. Vouched(record, Append(events[r], event))
    BY <1>t, <2>2, AssessedNow DEF Vouched
  <2> QED
    BY <1>e, <2>1, <2>2, <2>3, RecordTrail
<1>3. ASSUME NEW contract \in Contracts, set_contract(p, r, contract)
      PROVE  Trails'
  <2> DEFINE record == [records[r] EXCEPT
                           !.state = "awaiting_onboarding_approval",
                           !.contract = contract, !.approver = NoActor]
             event == Event("replaced", op[p].actor, contract)
  <2>1. /\ records' = [records EXCEPT ![r] = record]
        /\ AppendsEvent(p, r, event)
        /\ UNCHANGED <<events, overlay>>
        /\ records[r].state \in {"assessment_blocked", "smoke_failed",
                                 "awaiting_onboarding_approval"}
    BY <1>3 DEF set_contract
  <2>2. /\ record.state # "approved" /\ record.assessor = records[r].assessor
        /\ event \in Events /\ event.type = "replaced"
    BY <1>t DEF Records, EventTypes
  <2> HIDE DEF record, event
  <2>3. Vouched(record, Append(events[r], event))
    BY <1>t, <1>v, <2>1, <2>2, AssessedKept DEF Vouched, Following
  <2> QED
    BY <1>e, <2>1, <2>2, <2>3, RecordTrail
<1>4. ASSUME Approve(p, r) PROVE Trails'
  <2> DEFINE record == [records[r] EXCEPT !.state = "approved",
                                          !.approver = op[p].actor]
             event == Event("approved", op[p].actor, records[r].contract)
             trail == Append(events[r], event)
  <2>1. /\ records' = [records EXCEPT ![r] = record]
        /\ AppendsEvent(p, r, event)
        /\ UNCHANGED <<events, overlay>>
        /\ records[r].state = "awaiting_onboarding_approval"
        /\ op[p].actor # records[r].assessor
    BY <1>4 DEF Approve
  <2>2. /\ record.state = "approved"
        /\ record.assessor = records[r].assessor
        /\ record.contract = records[r].contract
        /\ record.approver = op[p].actor
        /\ event \in Events /\ event.type = "approved"
        /\ event.actor = op[p].actor /\ event.contract = records[r].contract
    BY <1>t, <1>c DEF Records, EventTypes
  <2> HIDE DEF record, event
  <2>3. AssessedBy(trail, record.assessor)
    BY <1>t, <1>v, <2>1, <2>2, AssessedKept DEF Vouched, Following
  <2>4. Len(trail) > 0 /\ trail[Len(trail)] = event
    BY <1>t, <2>2, Appended
  <2>5. Vouched(record, trail)
    BY <2>1, <2>2, <2>3, <2>4 DEF Vouched
  <2> QED
    BY <1>e, <2>1, <2>2, <2>5, RecordTrail
<1>5. ASSUME NEW passed \in BOOLEAN, Activate(p, r, passed) PROVE Trails'
  <2>0. records[r].state = "approved" /\ events' = events
    BY <1>5 DEF Activate
  <2>1. CASE passed
    <3> DEFINE record == [records[r] EXCEPT !.state = "active"]
               entry == [status |-> "active", branch |-> records[r].branch,
                         contract |-> records[r].contract]
               event == Event("activated", op[p].actor, records[r].contract)
    <3>1. /\ save_overlay(op[p].registry, r, entry)
          /\ SavesRecord(p, r, record, event)
          /\ records' = records
      BY <1>5, <2>1 DEF Activate
    <3>2. /\ record.state = "active" /\ entry \in Entries
          /\ entry.contract = records[r].contract
      BY <1>t DEF Records, Entries
    <3>3. Approval(events[r], records[r].contract) /\ Renews(events[r])
      BY <1>t, <1>v, <2>0, ApprovedTrail
    <3> HIDE DEF record, entry, event
    <3>4. EntryVouched(entry, events[r])
      BY <3>2, <3>3 DEF EntryVouched
    <3> QED
      BY <1>e, <2>0, <3>1, <3>2, <3>3, <3>4, EntryTrail
  <2>2. CASE ~passed
    <3> DEFINE record == [records[r] EXCEPT !.state = "smoke_failed"]
               event == Event("smoke_failed", op[p].actor, records[r].contract)
    <3>1. /\ records' = [records EXCEPT ![r] = record]
          /\ AppendsEvent(p, r, event)
          /\ overlay' = overlay
      BY <1>5, <2>2 DEF Activate
    <3>2. /\ record.state = "smoke_failed"
          /\ record.assessor = records[r].assessor
          /\ event \in Events /\ event.type = "smoke_failed"
      BY <1>t, <1>c DEF Records, EventTypes
    <3> HIDE DEF record, event
    <3>3. Vouched(record, Append(events[r], event))
      BY <1>t, <1>v, <2>0, <3>2, AssessedKept DEF Vouched, Following
    <3> QED
      BY <1>e, <2>0, <3>1, <3>2, <3>3, RecordTrail
  <2> QED
    BY <2>1, <2>2
<1>6. ASSUME Suspend(p, r) PROVE Trails'
  <2> DEFINE old == op[p].registry[r]
             known == IF records[r].state # "none" THEN records[r]
                      ELSE [NoRecord EXCEPT !.branch = old.branch,
                                            !.contract = old.contract]
             entry == [old EXCEPT !.status = "suspended"]
             record == [known EXCEPT !.state = "suspended"]
             event == Event("suspended", op[p].actor, NoContract)
  <2>1. /\ save_overlay(op[p].registry, r, entry)
        /\ SavesRecord(p, r, record, event)
        /\ UNCHANGED <<records, events>>
    BY <1>6 DEF Suspend
  <2>2. old \in Entries /\ NoRecord \in Records(moves)
    BY <1>t, Defaults DEF TypeInv
  <2>3. known \in Records(moves)
    BY <1>t, <2>2 DEF Records, Entries
  <2>4. /\ entry \in Entries /\ entry.status = "suspended"
        /\ event.type = "suspended"
    BY <1>t, <2>2 DEF Entries
  <2> HIDE DEF known
  <2>5. record.state = "suspended"
    BY <2>3 DEF Records
  <2> HIDE DEF record, entry, event
  <2>6. EntryVouched(entry, events[r])
    BY <2>4 DEF EntryVouched
  <2> QED
    BY <1>e, <2>1, <2>4, <2>5, <2>6, EntryTrail
<1>7. ASSUME resume_onboarding(p, r) PROVE Trails'
  <2> DEFINE record == [records[r] EXCEPT !.state = "discovered",
                           !.assessor = NoActor, !.approver = NoActor]
             event == Event("resumed", op[p].actor, NoContract)
  <2>1. /\ records' = [records EXCEPT ![r] = record]
        /\ AppendsEvent(p, r, event)
        /\ UNCHANGED <<events, overlay>>
    BY <1>7 DEF resume_onboarding
  <2>2. record.state = "discovered" /\ event.type = "resumed"
    BY <1>t DEF Records
  <2> HIDE DEF record, event
  <2>3. Vouched(record, Append(events[r], event))
    BY <2>2 DEF Vouched
  <2> QED
    BY <1>e, <2>1, <2>2, <2>3, RecordTrail
<1>8. ASSUME start(p, r) PROVE Trails'
  <2>1. /\ op' = [op EXCEPT ![p] = Idle]
        /\ UNCHANGED <<records, events, overlay>>
    BY <1>8 DEF start
  <2>2. op'[p].pc = "idle" /\ \A q \in Processes : q # p => op'[q] = op[q]
    BY <2>1, Holds
  <2> QED
    BY <1>t, <2>1, <2>2, OutsideTrail DEF Inside
<1> QED
  BY <1>1, <1>2, <1>3, <1>4, <1>5, <1>6, <1>7, <1>8 DEF Operation

\* Saving the record leaves its event due.
LEMMA TrailSave ==
    ASSUME TypeInv, Trails, NEW p \in Processes, SaveRecord(p)
    PROVE  Trails'
<1> DEFINE r == op[p].repo
           record == op[p].record
<1>1. /\ op[p].pc = "save_record" /\ r \in Repos
      /\ records' = [records EXCEPT ![r] = record]
      /\ AppendsEvent(p, r, op[p].event)
      /\ UNCHANGED <<events, overlay>>
      /\ record.state \in {"active", "suspended"}
      /\ op[p].event.type = "activated" => Renews(events[r])
  BY DEF SaveRecord, TypeInv, OpInv, Inside, Trails, OpTrail
<1>2. /\ op'[p].pc = "append_event" /\ op'[p].repo = r
      /\ op'[p].event = op[p].event
      /\ \A q \in Processes : q # p => op'[q] = op[q]
  BY <1>1, Holds
<1> HIDE DEF r, record
<1>3. /\ records'[r] = record
      /\ \A s \in Repos : s # r => records'[s] = records[s]
  BY <1>1 DEF TypeInv
<1>4. \A q \in Processes : q # p => op[q].pc \notin Inside
  BY <1>1 DEF TypeInv, Exclusive, Inside
<1>5. ASSUME NEW s \in Repos, Settled(s)' PROVE Vouched(records[s], events[s])'
  <2>1. s # r
    BY <1>2, <1>5 DEF Settled, Inside
  <2>2. Settled(s)
    BY <1>4, <2>1 DEF Settled, r
  <2> QED
    BY <1>1, <1>3, <2>1, <2>2 DEF Trails
<1>6. OpTrail(p)'
  BY <1>1, <1>2, <1>3 DEF OpTrail, Vouched
<1>7. ASSUME NEW q \in Processes, q # p PROVE OpTrail(q)'
  <2>1. op'[q] = op[q] /\ op[q].pc \notin Inside
    BY <1>2, <1>4, <1>7
  <2> QED
    BY <1>1, <2>1 DEF Trails, OpTrail, Inside
<1> QED
  BY <1>1, <1>5, <1>6, <1>7 DEF Trails

\* Appending the event completes the trail.
LEMMA TrailAppend ==
    ASSUME TypeInv, Trails, NEW p \in Processes, append_event(p)
    PROVE  Trails'
<1> DEFINE r == op[p].repo
           event == op[p].event
<1>1. /\ op[p].pc = "append_event" /\ r \in Repos
      /\ events' = [events EXCEPT ![r] = Append(@, event)]
      /\ op' = [op EXCEPT ![p] = Idle]
      /\ UNCHANGED <<records, overlay>>
      /\ Vouched(records[r], Append(events[r], event))
      /\ event.type = "activated" => Renews(events[r])
  BY DEF append_event, TypeInv, OpInv, Inside, Trails, OpTrail
<1>2. op'[p].pc = "idle" /\ \A q \in Processes : q # p => op'[q] = op[q]
  BY <1>1, Holds
<1>3. events[r] \in Seq(Events) /\ event \in Events
  BY <1>1 DEF TypeInv, Work
<1>4. \A q \in Processes : q # p => op[q].pc \notin Inside
  BY <1>1 DEF TypeInv, Exclusive, Inside
<1> HIDE DEF event
<1>5. /\ events'[r] = Append(events[r], event)
      /\ \A s \in Repos : s # r => events'[s] = events[s]
  BY <1>1 DEF TypeInv
<1>6. ASSUME NEW s \in Repos, Settled(s)' PROVE Vouched(records[s], events[s])'
  <2>1. CASE s = r
    BY <1>1, <1>5, <2>1
  <2>2. CASE s # r
    <3>1. Settled(s)
      BY <1>4, <2>2 DEF Settled
    <3> QED
      BY <1>1, <1>5, <2>2, <3>1 DEF Trails
  <2> QED
    BY <2>1, <2>2
<1>7. \A s \in Repos : \A entry :
         EntryVouched(entry, events[s]) => EntryVouched(entry, events'[s])
  BY <1>3, <1>5, ApprovalKept DEF EntryVouched
<1> HIDE DEF r
<1>8. ASSUME NEW q \in Processes PROVE OpTrail(q)'
  <2>1. CASE q = p
    BY <1>2, <2>1 DEF OpTrail, Inside
  <2>2. CASE q # p
    <3>1. op'[q] = op[q] /\ op[q].pc \notin Inside
      BY <1>2, <1>4, <2>2
    <3> QED
      BY <1>7, <3>1 DEF Trails, OpTrail, Inside
  <2> QED
    BY <2>1, <2>2
<1>9. ASSUME NEW s \in Repos PROVE Fresh(events'[s])
  BY <1>1, <1>3, <1>5, FreshKept DEF Trails
<1> QED
  BY <1>1, <1>6, <1>7, <1>8, <1>9 DEF Trails

\* Every step that is not the death of a process keeps the trails.
LEMMA TrailNext == TypeInv /\ TrailInv /\ [Next]_vars => TrailInv'
<1> SUFFICES ASSUME TypeInv, TrailInv, [Next]_vars, faults' = 0
             PROVE  Trails'
  BY DEF TrailInv
<1>t. /\ op \in [Processes -> Work] /\ faults \in Nat
      /\ Registry \in [Repos -> Entries] /\ Idle.pc = "idle"
  BY Defaults DEF TypeInv
<1>1. ASSUME NEW p \in Processes, NEW a \in Actors, Open(p, a) PROVE Trails'
  <2> DEFINE w == [Idle EXCEPT !.pc = "opened", !.actor = a,
                               !.registry = Registry]
  <2>1. /\ op' = [op EXCEPT ![p] = w] /\ op[p].pc = "idle"
        /\ UNCHANGED <<records, events, overlay, faults>>
    BY <1>1 DEF Open
  <2>2. w.pc = "opened" /\ w.registry = Registry
    BY DEF Idle
  <2> HIDE DEF w
  <2>3. /\ op'[p].pc = "opened" /\ op'[p].registry = Registry
        /\ \A q \in Processes : q # p => op'[q] = op[q]
    BY <1>t, <2>1, <2>2
  <2>4. Trails
    BY <2>1 DEF TrailInv
  <2>5. ASSUME NEW r \in Repos \ Base
        PROVE  EntryVouched(Registry[r], events[r])
    <3>1. Registry[r] = overlay[r]
      BY DEF Registry
    <3> QED
      BY <2>4, <3>1 DEF Trails
  <2> QED
    BY <2>1, <2>3, <2>4, <2>5, OutsideTrail DEF Inside
<1>2. ASSUME NEW p \in Processes, NEW r \in Repos, Operation(p, r)
      PROVE  Trails'
  <2>1. ASSUME NEW x, Discover(p, r, x) \/ Assess(p, r, x)
                        \/ set_contract(p, r, x) \/ Activate(p, r, x)
        PROVE  faults' = faults
    BY <2>1 DEF Discover, Assess, set_contract, Activate
  <2>2. \/ Approve(p, r) \/ Suspend(p, r) \/ resume_onboarding(p, r)
        \/ start(p, r)
        => faults' = faults
    BY DEF Approve, Suspend, resume_onboarding, start
  <2>3. Trails
    BY <1>2, <2>1, <2>2 DEF Operation, TrailInv
  <2> QED
    BY <1>2, <2>3, TrailOperation
<1>3. ASSUME NEW p \in Processes, Refused(p) PROVE Trails'
  <2>1. /\ op[p].pc = "opened" /\ op' = [op EXCEPT ![p] = Idle]
        /\ UNCHANGED <<records, events, overlay, faults>>
    BY <1>3 DEF Refused
  <2>2. op'[p].pc = "idle" /\ \A q \in Processes : q # p => op'[q] = op[q]
    BY <1>t, <2>1
  <2> QED
    BY <2>1, <2>2, OutsideTrail DEF Inside, TrailInv
<1>4. ASSUME NEW p \in Processes, SaveRecord(p) PROVE Trails'
  BY <1>4, TrailSave DEF SaveRecord, TrailInv
<1>5. ASSUME NEW p \in Processes, append_event(p) PROVE Trails'
  BY <1>5, TrailAppend DEF append_event, TrailInv
<1>6. ASSUME NEW p \in Processes, Crash(p) PROVE Trails'
  BY <1>6, <1>t DEF Crash
<1>7. ASSUME NEW branch \in Branches, Push(branch) PROVE Trails'
  BY <1>7 DEF Push, TrailInv, Trails, OpTrail, Settled
<1>8. CASE UNCHANGED vars
  BY <1>8 DEF vars, TrailInv, Trails, OpTrail, Settled
<1> QED
  BY <1>1, <1>2, <1>3, <1>4, <1>5, <1>6, <1>7, <1>8 DEF Next

\* As long as no process dies, every trail bears out what it should.
LEMMA TrailAlways == Spec => []TrailInv
<1>1. Init => TrailInv
  BY TrailInit DEF TrailInv
<1> QED
  BY <1>1, TypeInit, TypeNext, TrailNext, PTL DEF Spec

\* Whatever commands overlap and whatever old registry is written back, a
\* repository that was onboarded is active only under a contract that somebody
\* other than its last assessor has approved as it is.
THEOREM ActiveIsApproved == Spec => []ActiveWasApproved
<1>1. TrailInv => ActiveWasApproved
  <2> SUFFICES ASSUME TrailInv, faults = 0, NEW r \in Active(Registry) \ Base
               PROVE  Approval(events[r], Registry[r].contract)
    BY DEF ActiveWasApproved, Approval, Following
  <2>1. r \in Repos \ Base /\ overlay[r].status = "active"
    BY ActiveOf DEF Active
  <2>2. Registry[r] = overlay[r]
    BY <2>1, ActiveOf
  <2> QED
    BY <2>1, <2>2 DEF TrailInv, Trails, EntryVouched
<1> QED
  BY <1>1, TrailAlways, PTL

\* Whatever commands overlap, a repository that was suspended is assessed and
\* approved afresh before it is activated again.
THEOREM ResumptionsAreFresh == Spec => []ResumptionIsFresh
<1>1. TrailInv => ResumptionIsFresh
  BY DEF TrailInv, Trails, ResumptionIsFresh, Fresh, Renewed
<1> QED
  BY <1>1, TrailAlways, PTL
-----------------------------------------------------------------------------
(* The entry a task works under                                            *)

\* Trail e shows a complete activation of the contract.
Activated(e, contract) ==
    \E i, j, k \in DOMAIN e :
        /\ i < j /\ k = j + 1
        /\ e[i].type = "assessed"
        /\ e[j].type = "approved"
        /\ e[k].type = "activated"
        /\ e[j].contract = contract
        /\ e[k].contract = contract
        /\ e[i].actor # e[j].actor
        /\ e[j].actor # e[k].actor
        /\ \A n \in i + 1 .. j - 1 : e[n].type \in Following

\* The operation of p is about to complete an activation of r.
Completes(p, r, contract) ==
    /\ op[p].pc \in Inside /\ op[p].repo = r
    /\ Activated(Append(events[r], op[p].event), contract)

\* An active entry of r was put in force by an activation that is complete but,
\* perhaps, for its event.
InForce(entry, r) ==
    entry.status = "active" =>
        \/ Activated(events[r], entry.contract)
        \/ \E p \in Processes : Completes(p, r, entry.contract)

\* Every entry that a task may get is in force, and that of a task was.
Tasked ==
    \A r \in Repos \ Base :
        /\ InForce(overlay[r], r)
        /\ \A p \in Processes :
              op[p].pc = "opened" => InForce(op[p].registry[r], r)
        /\ tasks[r] # NoEntry => Activated(events[r], tasks[r].contract)

TaskInv == faults = 0 => Tasked

\* An activation in a trail stays there.
LEMMA ActivationKept ==
    ASSUME NEW e \in Seq(Events), NEW x \in Events, NEW contract,
           Activated(e, contract)
    PROVE  Activated(Append(e, x), contract)
<1> DEFINE f == Append(e, x)
<1>1. /\ Len(e) \in Nat /\ DOMAIN e = 1 .. Len(e)
      /\ DOMAIN f = 1 .. Len(e) + 1
      /\ \A i \in 1 .. Len(e) : f[i] = e[i]
  BY Appended
<1> HIDE DEF f
<1>2. PICK i, j, k \in 1 .. Len(e) :
         /\ i < j /\ k = j + 1
         /\ e[i].type = "assessed"
         /\ e[j].type = "approved"
         /\ e[k].type = "activated"
         /\ e[j].contract = contract
         /\ e[k].contract = contract
         /\ e[i].actor # e[j].actor
         /\ e[j].actor # e[k].actor
         /\ \A n \in i + 1 .. j - 1 : e[n].type \in Following
  BY <1>1 DEF Activated
<1>3. \A n \in i + 1 .. j - 1 : n \in 1 .. Len(e)
  BY <1>1
<1>4. /\ i \in DOMAIN f /\ j \in DOMAIN f /\ k \in DOMAIN f
      /\ f[i] = e[i] /\ f[j] = e[j] /\ f[k] = e[k]
      /\ \A n \in i + 1 .. j - 1 : f[n].type \in Following
  BY <1>1, <1>2, <1>3
<1>5. Activated(f, contract)
  BY <1>2, <1>4 DEF Activated
<1> QED
  BY <1>5 DEF f

\* The event of an activation by somebody other than the approver completes it.
LEMMA ActivationDue ==
    ASSUME NEW e \in Seq(Events), NEW x \in Events, NEW record,
           Vouched(record, e), record.state = "approved",
           x.type = "activated", x.contract = record.contract,
           x.actor # record.approver
    PROVE  Activated(Append(e, x), record.contract)
<1> DEFINE f == Append(e, x)
           n == Len(e)
<1>1. /\ n \in Nat /\ DOMAIN e = 1 .. n
      /\ DOMAIN f = 1 .. n + 1
      /\ \A i \in 1 .. n : f[i] = e[i]
      /\ f[n + 1] = x
  BY Appended
<1>2. /\ n > 0 /\ e[n].type = "approved"
      /\ e[n].contract = record.contract
      /\ e[n].actor # record.assessor /\ e[n].actor = record.approver
  BY DEF Vouched
<1>3. PICK i \in 1 .. n :
         /\ e[i].type = "assessed" /\ e[i].actor = record.assessor
         /\ \A k \in i + 1 .. n : e[k].type \in Following
  BY <1>1 DEF Vouched, AssessedBy
<1> HIDE DEF f, n
<1>4. i < n
  BY <1>1, <1>2, <1>3
<1>5. \A k \in i + 1 .. n - 1 : k \in 1 .. n /\ e[k].type \in Following
  BY <1>1, <1>3
<1>6. /\ i \in DOMAIN f /\ n \in DOMAIN f /\ n + 1 \in DOMAIN f
      /\ f[i] = e[i] /\ f[n] = e[n] /\ f[n + 1] = x
      /\ \A k \in i + 1 .. n - 1 : f[k].type \in Following
  BY <1>1, <1>2, <1>4, <1>5
<1>7. Activated(f, record.contract)
  BY <1>2, <1>3, <1>4, <1>6 DEF Activated
<1> QED
  BY <1>7 DEF f

\* While nobody is inside the lock, what is in force has its event.
LEMMA ForceIsComplete ==
    ASSUME Tasked, NEW p \in Processes, NEW r \in Repos, Enters(p, r),
           NEW s \in Repos \ Base
    PROVE  /\ overlay[s].status = "active" =>
                 Activated(events[s], overlay[s].contract)
           /\ \A q \in Processes :
                 op[q].pc = "opened" /\ op[q].registry[s].status = "active" =>
                     Activated(events[s], op[q].registry[s].contract)
<1>1. \A q \in Processes : op[q].pc \notin Inside
  BY DEF Enters, Unlocked, Inside
<1> QED
  BY <1>1 DEF Tasked, InForce, Completes

\* An operation leaves the others and the trails alone, and in the lock it works
\* from its registry no more.
LEMMA OperationKeeps ==
    ASSUME TypeInv, NEW p \in Processes, NEW r \in Repos, Operation(p, r)
    PROVE  /\ Enters(p, r)
           /\ events' = events
           /\ op'[p].pc # "opened"
           /\ \A q \in Processes : q # p => op'[q] = op[q]
<1>h. ASSUME \/ op' = [op EXCEPT ![p] = Idle]
             \/ \E event : AppendsEvent(p, r, event)
             \/ \E record, event : SavesRecord(p, r, record, event)
      PROVE  /\ op'[p].pc # "opened"
             /\ \A q \in Processes : q # p => op'[q] = op[q]
  BY <1>h, Holds
<1>1. ASSUME NEW branch \in Branches, Discover(p, r, branch)
      PROVE  /\ Enters(p, r) /\ events' = events
             /\ \/ op' = [op EXCEPT ![p] = Idle]
                \/ \E event : AppendsEvent(p, r, event)
  <2>1. CASE records[r].state = "none"
    BY <1>1, <2>1 DEF Discover
  <2>2. CASE records[r].state # "none"
    BY <1>1, <2>2 DEF Discover
  <2> QED
    BY <2>1, <2>2
<1>2. ASSUME NEW x, Assess(p, r, x) \/ set_contract(p, r, x)
      PROVE  /\ Enters(p, r) /\ events' = events
             /\ \E event : AppendsEvent(p, r, event)
  BY <1>2 DEF Assess, set_contract
<1>3. ASSUME Approve(p, r) \/ resume_onboarding(p, r)
      PROVE  /\ Enters(p, r) /\ events' = events
             /\ \E event : AppendsEvent(p, r, event)
  BY <1>3 DEF Approve, resume_onboarding
<1>4. ASSUME NEW passed \in BOOLEAN, Activate(p, r, passed)
      PROVE  /\ Enters(p, r) /\ events' = events
             /\ \/ \E event : AppendsEvent(p, r, event)
                \/ \E record, event : SavesRecord(p, r, record, event)
  <2>1. CASE passed
    BY <1>4, <2>1 DEF Activate
  <2>2. CASE ~passed
    BY <1>4, <2>2 DEF Activate
  <2> QED
    BY <2>1, <2>2
<1>5. ASSUME Suspend(p, r)
      PROVE  /\ Enters(p, r) /\ events' = events
             /\ \E record, event : SavesRecord(p, r, record, event)
  BY <1>5 DEF Suspend
<1>6. ASSUME start(p, r)
      PROVE  /\ Enters(p, r) /\ events' = events
             /\ op' = [op EXCEPT ![p] = Idle]
  BY <1>6 DEF start
<1> QED
  BY <1>h, <1>1, <1>2, <1>3, <1>4, <1>5, <1>6 DEF Operation

\* Under the lock nothing is put in force but by an activation, and a task gets
\* nothing that is not in force.
LEMMA TaskOperation ==
    ASSUME TypeInv, Trails, Tasked, NEW p \in Processes, NEW r \in Repos,
           Operation(p, r)
    PROVE  Tasked'
<1>e. /\ Enters(p, r) /\ op[p].pc = "opened"
      /\ events' = events
      /\ op'[p].pc # "opened"
      /\ \A q \in Processes : q # p => op'[q] = op[q]
  BY OperationKeeps DEF Enters
<1>t. /\ records[r] \in Records(moves) /\ events[r] \in Seq(Events)
      /\ op[p].registry \in [Repos -> Entries] /\ NoEntry \in Entries
      /\ op[p].actor \in People
      /\ \A type \in EventTypes, a \in People,
            c \in Contracts \cup {NoContract} : Event(type, a, c) \in Events
      /\ \A type, a, c : /\ Event(type, a, c).type = type
                         /\ Event(type, a, c).actor = a
                         /\ Event(type, a, c).contract = c
  BY Defaults DEF TypeInv, Work, Event
<1>k. ASSUME overlay' = overlay
      PROVE  \A s \in Repos \ Base : InForce(overlay[s], s)'
  BY <1>k, <1>e, ForceIsComplete DEF InForce
<1>s. ASSUME NEW entry \in Entries, save_overlay(op[p].registry, r, entry),
             r \in Repos \ Base => InForce(entry, r)'
      PROVE  \A s \in Repos \ Base : InForce(overlay[s], s)'
  <2> SUFFICES ASSUME NEW s \in Repos \ Base PROVE InForce(overlay[s], s)'
    OBVIOUS
  <2>1. overlay'[s] = IF s = r THEN entry ELSE op[p].registry[s]
    BY <1>s, <1>t, OverlayType
  <2>2. CASE s = r
    BY <1>s, <2>1, <2>2 DEF InForce, Completes
  <2>3. CASE s # r
    BY <1>e, <2>1, <2>3, ForceIsComplete DEF InForce
  <2> QED
    BY <2>2, <2>3
<1>1. \A s \in Repos \ Base : InForce(overlay[s], s)'
  <2>1. ASSUME NEW branch \in Branches, Discover(p, r, branch)
        PROVE  overlay' = overlay
    BY <2>1 DEF Discover
  <2>2. ASSUME NEW x, Assess(p, r, x) \/ set_contract(p, r, x)
        PROVE  overlay' = overlay
    BY <2>2 DEF Assess, set_contract
  <2>3. Approve(p, r) \/ resume_onboarding(p, r) \/ start(p, r) =>
           overlay' = overlay
    BY DEF Approve, resume_onboarding, start
  <2>4. ASSUME NEW passed \in BOOLEAN, Activate(p, r, passed)
        PROVE  \A s \in Repos \ Base : InForce(overlay[s], s)'
    <3>1. CASE passed
      <4>1. PICK event, entry, record :
               /\ event = Event("activated", op[p].actor, records[r].contract)
               /\ entry = [status |-> "active", branch |-> records[r].branch,
                           contract |-> records[r].contract]
               /\ record = [records[r] EXCEPT !.state = "active"]
        OBVIOUS
      <4>2. /\ save_overlay(op[p].registry, r, entry)
            /\ SavesRecord(p, r, record, event)
            /\ records[r].state = "approved"
            /\ op[p].actor # records[r].approver
        BY <2>4, <3>1, <4>1 DEF Activate
      <4>3. /\ event \in Events /\ event.type = "activated"
            /\ event.actor = op[p].actor
            /\ event.contract = records[r].contract
        <5>1. /\ "activated" \in EventTypes
              /\ records[r].contract \in Contracts \cup {NoContract}
          BY <1>t DEF EventTypes, Records
        <5> QED
          BY <1>t, <4>1, <5>1
      <4>4. Activated(Append(events[r], event), records[r].contract)
        <5>1. Vouched(records[r], events[r])
          BY <1>e, TrailsComplete
        <5> QED
          BY <1>t, <4>2, <4>3, <5>1, ActivationDue
      <4>5. /\ op'[p].pc = "save_record" /\ op'[p].repo = r
            /\ op'[p].event = event
        <5>1. SavesRecord(p, r, record, event)
          BY <4>2
        <5> QED
          BY <5>1, Holds
      <4>6. entry \in Entries /\ entry.contract = records[r].contract
        BY <1>t, <4>1 DEF Entries, Records
      <4>7. Completes(p, r, entry.contract)'
        BY <1>e, <4>4, <4>5, <4>6 DEF Completes, Inside
      <4> QED
        BY <1>s, <4>2, <4>6, <4>7 DEF InForce
    <3>2. CASE ~passed
      BY <2>4, <3>2, <1>k DEF Activate
    <3> QED
      BY <3>1, <3>2
  <2>5. ASSUME Suspend(p, r)
        PROVE  \A s \in Repos \ Base : InForce(overlay[s], s)'
    <3>1. PICK entry : entry = [op[p].registry[r] EXCEPT !.status = "suspended"]
      OBVIOUS
    <3>2. save_overlay(op[p].registry, r, entry)
      BY <2>5, <3>1 DEF Suspend
    <3>3. entry \in Entries /\ entry.status = "suspended"
      BY <1>t, <3>1 DEF Entries
    <3> QED
      BY <1>s, <3>2, <3>3 DEF InForce
  <2> QED
    BY <1>k, <2>1, <2>2, <2>3, <2>4, <2>5 DEF Operation
<1>2. ASSUME NEW s \in Repos \ Base, NEW q \in Processes, op'[q].pc = "opened"
      PROVE  InForce(op[q].registry[s], s)'
  BY <1>2, <1>e, ForceIsComplete DEF InForce
<1>3. ASSUME NEW s \in Repos \ Base, tasks'[s] # NoEntry
      PROVE  Activated(events[s], tasks[s].contract)'
  <2>1. CASE start(p, r)
    <3>1. /\ tasks' = [tasks EXCEPT ![r] = op[p].registry[r]]
          /\ op[p].registry[r].status = "active"
      BY <2>1 DEF start, Active
    <3>2. CASE s = r
      <4>1. tasks'[s] = op[p].registry[s]
        BY <3>1, <3>2 DEF TypeInv
      <4> QED
        BY <1>e, <3>1, <3>2, <4>1, ForceIsComplete
    <3>3. CASE s # r
      BY <1>e, <1>3, <3>1, <3>3 DEF TypeInv, Tasked
    <3> QED
      BY <3>2, <3>3
  <2>2. CASE ~start(p, r)
    <3>1. ASSUME NEW x, Discover(p, r, x) \/ Assess(p, r, x)
                          \/ set_contract(p, r, x) \/ Activate(p, r, x)
          PROVE  tasks' = tasks
      BY <3>1 DEF Discover, Assess, set_contract, Activate
    <3>2. Approve(p, r) \/ Suspend(p, r) \/ resume_onboarding(p, r) =>
             tasks' = tasks
      BY DEF Approve, Suspend, resume_onboarding
    <3>3. tasks' = tasks
      BY <2>2, <3>1, <3>2 DEF Operation
    <3> QED
      BY <1>e, <1>3, <3>3 DEF Tasked
  <2> QED
    BY <2>1, <2>2
<1> QED
  BY <1>1, <1>2, <1>3 DEF Tasked

\* Saving the record leaves the event of the activation due.
LEMMA TaskSave ==
    ASSUME TypeInv, Tasked, NEW p \in Processes, SaveRecord(p)
    PROVE  Tasked'
<1>1. /\ op[p].pc = "save_record" /\ op[p].repo \in Repos
      /\ AppendsEvent(p, op[p].repo, op[p].event)
      /\ UNCHANGED <<events, overlay, tasks>>
  BY DEF SaveRecord, TypeInv, OpInv, Inside
<1>2. /\ op'[p].pc = "append_event" /\ op'[p].repo = op[p].repo
      /\ op'[p].event = op[p].event
      /\ \A q \in Processes : q # p => op'[q] = op[q]
  BY <1>1, Holds
<1>3. ASSUME NEW s \in Repos, NEW entry, InForce(entry, s)
      PROVE  \/ entry.status # "active"
             \/ Activated(events'[s], entry.contract)
             \/ \E q \in Processes :
                   /\ op'[q].pc \in Inside /\ op'[q].repo = s
                   /\ Activated(Append(events'[s], op'[q].event), entry.contract)
  BY <1>1, <1>2, <1>3 DEF InForce, Completes, Inside
<1>4. \A s \in Repos \ Base : InForce(overlay[s], s)'
  BY <1>1, <1>3 DEF Tasked, InForce, Completes
<1>5. ASSUME NEW s \in Repos \ Base, NEW q \in Processes, op'[q].pc = "opened"
      PROVE  InForce(op[q].registry[s], s)'
  <2>1. op'[q] = op[q] /\ InForce(op[q].registry[s], s)
    BY <1>2, <1>5 DEF Tasked
  <2> QED
    BY <1>3, <2>1 DEF InForce, Completes
<1> QED
  BY <1>1, <1>4, <1>5 DEF Tasked

\* The event completes the activation.
LEMMA TaskAppend ==
    ASSUME TypeInv, Tasked, NEW p \in Processes, append_event(p)
    PROVE  Tasked'
<1>1. /\ op[p].pc = "append_event" /\ op[p].repo \in Repos
      /\ events' = [events EXCEPT ![op[p].repo] = Append(@, op[p].event)]
      /\ op' = [op EXCEPT ![p] = Idle]
      /\ UNCHANGED <<overlay, tasks>>
      /\ op[p].event \in Events
  BY DEF append_event, TypeInv, OpInv, Inside, Work
<1>2. op'[p].pc = "idle" /\ \A q \in Processes : q # p => op'[q] = op[q]
  BY <1>1, Holds
<1>3. \A q \in Processes : op[q].pc \in Inside => q = p
  BY <1>1 DEF TypeInv, Exclusive, Inside
<1>4. /\ events'[op[p].repo] = Append(events[op[p].repo], op[p].event)
      /\ \A s \in Repos : s # op[p].repo => events'[s] = events[s]
      /\ \A s \in Repos : events[s] \in Seq(Events)
  BY <1>1 DEF TypeInv
<1>5. \A s \in Repos : \A c :
         Activated(events[s], c) => Activated(events'[s], c)
  BY <1>1, <1>4, ActivationKept
<1>6. ASSUME NEW s \in Repos, NEW entry, InForce(entry, s),
             entry.status = "active"
      PROVE  Activated(events'[s], entry.contract)
  BY <1>3, <1>4, <1>5, <1>6 DEF InForce, Completes
<1>7. \A s \in Repos \ Base : InForce(overlay[s], s)'
  BY <1>1, <1>6 DEF Tasked, InForce
<1>8. ASSUME NEW s \in Repos \ Base, NEW q \in Processes, op'[q].pc = "opened"
      PROVE  InForce(op[q].registry[s], s)'
  <2>1. op'[q] = op[q] /\ InForce(op[q].registry[s], s)
    BY <1>2, <1>8 DEF Tasked
  <2> QED
    BY <1>6, <2>1 DEF InForce
<1>9. ASSUME NEW s \in Repos \ Base, tasks'[s] # NoEntry
      PROVE  Activated(events[s], tasks[s].contract)'
  BY <1>1, <1>5, <1>9 DEF Tasked
<1> QED
  BY <1>7, <1>8, <1>9 DEF Tasked

\* Opening the registry copies what is in force, and giving up drops the copy.
LEMMA TaskOutside ==
    ASSUME TypeInv, Tasked, NEW p \in Processes, op[p].pc \notin Inside,
           \A q \in Processes : q # p => op'[q] = op[q],
           \/ op'[p].pc = "idle"
           \/ /\ op'[p].pc = "opened"
              /\ \A r \in Repos \ Base : op'[p].registry[r] = overlay[r],
           UNCHANGED <<events, overlay, tasks>>
    PROVE  Tasked'
<1>1. ASSUME NEW s \in Repos, NEW entry, InForce(entry, s)
      PROVE  \/ entry.status # "active"
             \/ Activated(events'[s], entry.contract)
             \/ \E q \in Processes :
                   /\ op'[q].pc \in Inside /\ op'[q].repo = s
                   /\ Activated(Append(events'[s], op'[q].event), entry.contract)
  BY <1>1 DEF InForce, Completes
<1>2. \A s \in Repos \ Base : InForce(overlay[s], s)'
  BY <1>1 DEF Tasked, InForce, Completes
<1>3. ASSUME NEW s \in Repos \ Base, NEW q \in Processes, op'[q].pc = "opened"
      PROVE  InForce(op[q].registry[s], s)'
  <2>1. CASE q = p
    BY <1>2, <1>3, <2>1 DEF InForce, Completes
  <2>2. CASE q # p
    <3>1. op'[q] = op[q] /\ InForce(op[q].registry[s], s)
      BY <1>3, <2>2 DEF Tasked
    <3> QED
      BY <1>1, <3>1 DEF InForce, Completes
  <2> QED
    BY <2>1, <2>2
<1> QED
  BY <1>2, <1>3 DEF Tasked

\* Every step that is not the death of a process keeps what is in force.
LEMMA TaskNext == TypeInv /\ TrailInv /\ TaskInv /\ [Next]_vars => TaskInv'
<1> SUFFICES ASSUME TypeInv, TrailInv, TaskInv, [Next]_vars, faults' = 0
             PROVE  Tasked'
  BY DEF TaskInv
<1>t. op \in [Processes -> Work] /\ faults \in Nat /\ Idle.pc = "idle"
  BY Defaults DEF TypeInv
<1>1. ASSUME NEW p \in Processes, NEW a \in Actors, Open(p, a) PROVE Tasked'
  <2>1. PICK w : w = [Idle EXCEPT !.pc = "opened", !.actor = a,
                                  !.registry = Registry]
    OBVIOUS
  <2>2. /\ op' = [op EXCEPT ![p] = w] /\ op[p].pc = "idle"
        /\ UNCHANGED <<events, overlay, tasks, faults>>
    BY <1>1, <2>1 DEF Open
  <2>3. w.pc = "opened" /\ w.registry = Registry
    BY <2>1 DEF Idle
  <2>4. /\ op'[p].pc = "opened" /\ op'[p].registry = Registry
        /\ \A q \in Processes : q # p => op'[q] = op[q]
    BY <1>t, <2>2, <2>3
  <2>5. \A r \in Repos \ Base : Registry[r] = overlay[r]
    BY DEF Registry
  <2> QED
    BY <2>2, <2>4, <2>5, TaskOutside DEF Inside, TaskInv
<1>2. ASSUME NEW p \in Processes, NEW r \in Repos, Operation(p, r)
      PROVE  Tasked'
  <2>1. ASSUME NEW x, Discover(p, r, x) \/ Assess(p, r, x)
                        \/ set_contract(p, r, x) \/ Activate(p, r, x)
        PROVE  faults' = faults
    BY <2>1 DEF Discover, Assess, set_contract, Activate
  <2>2. \/ Approve(p, r) \/ Suspend(p, r) \/ resume_onboarding(p, r)
        \/ start(p, r)
        => faults' = faults
    BY DEF Approve, Suspend, resume_onboarding, start
  <2>3. Trails /\ Tasked
    BY <1>2, <2>1, <2>2 DEF Operation, TrailInv, TaskInv
  <2> QED
    BY <1>2, <2>3, TaskOperation
<1>3. ASSUME NEW p \in Processes, Refused(p) PROVE Tasked'
  <2>1. /\ op[p].pc = "opened" /\ op' = [op EXCEPT ![p] = Idle]
        /\ UNCHANGED <<events, overlay, tasks, faults>>
    BY <1>3 DEF Refused
  <2>2. op'[p].pc = "idle" /\ \A q \in Processes : q # p => op'[q] = op[q]
    BY <1>t, <2>1
  <2> QED
    BY <2>1, <2>2, TaskOutside DEF Inside, TaskInv
<1>4. ASSUME NEW p \in Processes, SaveRecord(p) PROVE Tasked'
  BY <1>4, TaskSave DEF SaveRecord, TaskInv
<1>5. ASSUME NEW p \in Processes, append_event(p) PROVE Tasked'
  BY <1>5, TaskAppend DEF append_event, TaskInv
<1>6. ASSUME NEW p \in Processes, Crash(p) PROVE Tasked'
  BY <1>6, <1>t DEF Crash
<1>7. ASSUME NEW branch \in Branches, Push(branch) PROVE Tasked'
  BY <1>7 DEF Push, TaskInv, Tasked, InForce, Completes
<1>8. CASE UNCHANGED vars
  BY <1>8 DEF vars, TaskInv, Tasked, InForce, Completes
<1> QED
  BY <1>1, <1>2, <1>3, <1>4, <1>5, <1>6, <1>7, <1>8 DEF Next

\* Whatever commands overlap, however old the registry that start works from and
\* whatever old entry was written back, the entry of a task was put in force by
\* a complete activation of the contract that was approved.
THEOREM TasksAreActivated == Spec => []TaskWasActivated
<1>1. Init => TaskInv
  <2> SUFFICES ASSUME Init PROVE Tasked
    BY DEF TaskInv
  <2>1. /\ \A p \in Processes : op[p].pc = "idle"
        /\ \A r \in Repos : overlay[r].status = "absent" /\ tasks[r] = NoEntry
    BY DEF Init, Idle, NoEntry
  <2> QED
    BY <2>1 DEF Tasked, InForce
<1>2. TaskInv => TaskWasActivated
  BY DEF TaskInv, Tasked, Activated, Following, TaskWasActivated
<1>3. Spec => []TaskInv
  BY <1>1, TypeInit, TypeNext, TrailAlways, TaskNext, PTL DEF Spec
<1> QED
  BY <1>2, <1>3, PTL
=============================================================================
