------------------------- MODULE LifecycleLockProofs -------------------------
(***************************************************************************)
(* Theorems about LifecycleLock, for any number of processes, saves and    *)
(* crashes: the operations behind the lock are serialized, none is refused *)
(* as stale and no reader finds half a record.                             *)
(***************************************************************************)
EXTENDS LifecycleLock, TLAPS

\* Who is behind the lock holds it, and what he has in memory is what is on
\* disk, or that and one save more.
HolderInv ==
    \A p \in Processes :
        /\ pc[p] \in Section \cup {"leaving"} => lock = p
        /\ pc[p] = "working" => copy[p] = state
        /\ pc[p] \in {"writing", "filling", "replacing"} =>
              /\ copy[p].whole
              /\ copy[p].saves = Append(state.saves, p)
        /\ pc[p] = "replacing" => temporary = copy[p]

LockInv == TypeOK /\ HolderInv /\ state.whole

\* Nothing is locked, written or loaded at the start.
LEMMA InitLock == Init => LockInv
<1> SUFFICES ASSUME Init PROVE LockInv
    OBVIOUS
<1>1. state = [whole |-> TRUE, saves |-> <<>>, updated_at |-> 0]
    BY DEF Init, Content
<1>2. Torn = [whole |-> FALSE, saves |-> <<>>, updated_at |-> 0]
    BY DEF Torn
<1>0. <<>> \in Seq(Processes) /\ clock = 0 /\ 0 \in 0..clock
    BY DEF Init
<1>3. Torn \in Contents /\ state \in Contents
    BY <1>0, <1>1, <1>2 DEF Contents
<1>4. TypeOK
    BY <1>3 DEF Init, TypeOK
<1>5. HolderInv
    BY DEF Init, HolderInv, Section
<1> QED
    BY <1>1, <1>4, <1>5 DEF LockInv

\* A record stays one when the clock goes on.
LEMMA ContentsGrow ==
    ASSUME NEW r, r \in Contents, clock \in Nat,
           clock' = clock \/ clock' = clock + 1
    PROVE  r \in Contents'
BY DEF Contents

\* The record with one save more is a record.
LEMMA SavedContent ==
    ASSUME NEW p \in Processes, NEW r, r \in Contents, clock \in Nat,
           clock' = clock + 1
    PROVE  /\ Content(Append(r.saves, p), clock') \in Contents'
           /\ Content(Append(r.saves, p), clock').whole
           /\ Content(Append(r.saves, p), clock').saves = Append(r.saves, p)
BY DEF Contents, Content

\* A process that drops the lock leaves it to nobody or to its holder.
LEMMA DroppedType ==
    ASSUME TypeOK, NEW p \in Processes
    PROVE  Dropped(p) \in Processes \cup {Nobody}
BY DEF Dropped, TypeOK

\* Every step keeps the types.
LEMMA TypeNext == TypeOK /\ [Next]_vars => TypeOK'
<1> SUFFICES ASSUME TypeOK, [Next]_vars PROVE TypeOK'
    OBVIOUS
<1>t. Torn \in Contents
    BY DEF Torn, Contents, TypeOK
<1>1. ASSUME UNCHANGED vars PROVE TypeOK'
    BY <1>1 DEF vars, TypeOK, Contents
<1>2. ASSUME NEW p \in Processes, Open(p) PROVE TypeOK'
    BY <1>2 DEF Open, Goes, TypeOK, Contents
<1>3. ASSUME NEW p \in Processes, TryLock(p) PROVE TypeOK'
    BY <1>3 DEF TryLock, Goes, TypeOK, Contents, Section
<1>4. ASSUME NEW p \in Processes, Timeout(p) PROVE TypeOK'
    BY <1>4 DEF Timeout, Goes, TypeOK, Contents
<1>5. ASSUME NEW p \in Processes, Unlock(p) \/ UnlockRaises(p) PROVE TypeOK'
    BY <1>5, DroppedType DEF Unlock, UnlockRaises, Goes, TypeOK, Contents
<1>6. ASSUME NEW p \in Processes, Close(p) PROVE TypeOK'
    BY <1>6, <1>t, DroppedType DEF Close, Goes, Forgets, TypeOK, Contents
<1>7. ASSUME NEW p \in Processes, Load(p) PROVE TypeOK'
    BY <1>7 DEF Load, Goes, TypeOK, Contents, Section
<1>8. ASSUME NEW p \in Processes, Save(p) PROVE TypeOK'
  <2>1. CASE state.updated_at = copy[p].updated_at
    <3>1. /\ clock' = clock + 1
          /\ copy' = [copy EXCEPT
                        ![p] = Content(Append(copy[p].saves, p), clock')]
          /\ pc' = [pc EXCEPT ![p] = "writing"]
          /\ UNCHANGED <<lock, late, state, temporary, faults>>
        BY <1>8, <2>1 DEF Save, Goes
    <3>2. /\ clock \in Nat /\ copy \in [Processes -> Contents]
          /\ state \in Contents /\ temporary \in Contents
        BY DEF TypeOK
    <3>3. Content(Append(copy[p].saves, p), clock') \in Contents'
        BY <3>1, <3>2, SavedContent
    <3>4. \A q \in Processes : copy[q] \in Contents'
        BY <3>1, <3>2, ContentsGrow
    <3>5. copy' \in [Processes -> Contents']
        BY <3>1, <3>2, <3>3, <3>4
    <3>6. state' \in Contents' /\ temporary' \in Contents'
        BY <3>1, <3>2, ContentsGrow
    <3>7. pc' \in [Processes -> Section \cup {"outside", "trying", "leaving",
                                              "closing"}]
        BY <3>1 DEF TypeOK, Section
    <3> QED
        BY <3>1, <3>2, <3>5, <3>6, <3>7 DEF TypeOK
  <2>2. CASE state.updated_at # copy[p].updated_at
    BY <1>8, <2>2 DEF Save, Goes, TypeOK, Contents
  <2> QED
    BY <2>1, <2>2
<1>9. ASSUME NEW p \in Processes, Truncate(p) PROVE TypeOK'
    BY <1>9, <1>t DEF Truncate, Goes, TypeOK, Contents, Section
<1>10. ASSUME NEW p \in Processes, Fill(p) PROVE TypeOK'
    BY <1>10 DEF Fill, Goes, TypeOK, Contents, Section
<1>11. ASSUME NEW p \in Processes, Replace(p) PROVE TypeOK'
    BY <1>11, <1>t DEF Replace, Goes, TypeOK, Contents, Section
<1>12. ASSUME NEW p \in Processes, Leave(p) PROVE TypeOK'
    BY <1>12 DEF Leave, Goes, TypeOK, Contents
<1>13. ASSUME NEW p \in Processes, DeadlinePasses(p) PROVE TypeOK'
    BY <1>13 DEF DeadlinePasses, TypeOK, Contents
<1>14. ASSUME NEW p \in Processes, Crash(p) PROVE TypeOK'
    BY <1>14, <1>t, DroppedType DEF Crash, Goes, Forgets, TypeOK, Contents
<1> QED
    BY <1>1, <1>2, <1>3, <1>4, <1>5, <1>6, <1>7, <1>8, <1>9, <1>10, <1>11,
       <1>12, <1>13, <1>14 DEF Next, Continue

\* Every step keeps the holder's view of the record.  A step of one process
\* cannot disturb another behind the lock, because there is none.
LEMMA HolderNext ==
    TypeOK /\ LockInv /\ [Next]_vars => HolderInv' /\ state'.whole
<1> SUFFICES ASSUME TypeOK, LockInv, [Next]_vars
             PROVE  HolderInv' /\ state'.whole
    OBVIOUS
<1>h. HolderInv /\ state.whole
    BY DEF LockInv
<1>n. \A q \in Processes : q # Nobody
    BY NobodyAssumption
<1>1. ASSUME UNCHANGED vars PROVE HolderInv' /\ state'.whole
    BY <1>1, <1>h DEF vars, HolderInv
<1>2. ASSUME NEW p \in Processes, Open(p) PROVE HolderInv' /\ state'.whole
    BY <1>2, <1>h DEF Open, Goes, HolderInv, Section, TypeOK
<1>3. ASSUME NEW p \in Processes, TryLock(p) PROVE HolderInv' /\ state'.whole
    BY <1>3, <1>h, <1>n DEF TryLock, Goes, HolderInv, Section, TypeOK
<1>4. ASSUME NEW p \in Processes, Timeout(p) PROVE HolderInv' /\ state'.whole
    BY <1>4, <1>h DEF Timeout, Goes, HolderInv, Section, TypeOK
<1>5. ASSUME NEW p \in Processes, Unlock(p) \/ UnlockRaises(p)
      PROVE  HolderInv' /\ state'.whole
    BY <1>5, <1>h DEF Unlock, UnlockRaises, Dropped, Goes, HolderInv, Section,
                      TypeOK
<1>6. ASSUME NEW p \in Processes, Close(p) PROVE HolderInv' /\ state'.whole
    BY <1>6, <1>h DEF Close, Dropped, Forgets, Goes, HolderInv, Section, TypeOK
<1>7. ASSUME NEW p \in Processes, Load(p) PROVE HolderInv' /\ state'.whole
    BY <1>7, <1>h DEF Load, Goes, HolderInv, Section, TypeOK
<1>8. ASSUME NEW p \in Processes, Save(p) PROVE HolderInv' /\ state'.whole
  <2>1. CASE state.updated_at = copy[p].updated_at
    <3>1. /\ clock' = clock + 1
          /\ copy' = [copy EXCEPT
                        ![p] = Content(Append(copy[p].saves, p), clock')]
          /\ pc[p] = "working"
          /\ pc' = [pc EXCEPT ![p] = "writing"]
          /\ UNCHANGED <<lock, late, state, temporary, faults>>
        BY <1>8, <2>1 DEF Save, Goes
    <3>2. /\ Content(Append(copy[p].saves, p), clock').whole
          /\ Content(Append(copy[p].saves, p), clock').saves
                = Append(copy[p].saves, p)
        BY DEF Content
    <3>3. copy[p] = state
        BY <3>1, <1>h DEF HolderInv
    <3>4. copy'[p].whole /\ copy'[p].saves = Append(state.saves, p)
        BY <3>1, <3>2, <3>3 DEF TypeOK
    <3> QED
        BY <3>1, <3>4, <1>h DEF HolderInv, Section, TypeOK
  <2>2. CASE state.updated_at # copy[p].updated_at
    BY <1>8, <2>2, <1>h DEF Save, Goes, HolderInv, Section, TypeOK
  <2> QED
    BY <2>1, <2>2
<1>9. ASSUME NEW p \in Processes, Truncate(p) PROVE HolderInv' /\ state'.whole
    BY <1>9, <1>h DEF Truncate, Goes, HolderInv, Section, TypeOK
<1>10. ASSUME NEW p \in Processes, Fill(p) PROVE HolderInv' /\ state'.whole
    BY <1>10, <1>h DEF Fill, Goes, HolderInv, Section, TypeOK
<1>11. ASSUME NEW p \in Processes, Replace(p)
       PROVE  HolderInv' /\ state'.whole
    BY <1>11, <1>h DEF Replace, Goes, HolderInv, Section, TypeOK
<1>12. ASSUME NEW p \in Processes, Leave(p) PROVE HolderInv' /\ state'.whole
    BY <1>12, <1>h DEF Leave, Goes, HolderInv, Section, TypeOK
<1>13. ASSUME NEW p \in Processes, DeadlinePasses(p)
       PROVE  HolderInv' /\ state'.whole
    BY <1>13, <1>h DEF DeadlinePasses, HolderInv
<1>14. ASSUME NEW p \in Processes, Crash(p) PROVE HolderInv' /\ state'.whole
    BY <1>14, <1>h DEF Crash, Dropped, Forgets, Goes, HolderInv, Section,
                       TypeOK
<1> QED
    BY <1>1, <1>2, <1>3, <1>4, <1>5, <1>6, <1>7, <1>8, <1>9, <1>10, <1>11,
       <1>12, <1>13, <1>14 DEF Next, Continue

\* LockInv holds in every state.
THEOREM LockIsKept == Spec => []LockInv
<1>1. Init => LockInv
    BY InitLock
<1>2. LockInv /\ [Next]_vars => LockInv'
    BY TypeNext, HolderNext DEF LockInv
<1> QED
    BY <1>1, <1>2, PTL DEF Spec

\* Every variable keeps its shape.
THEOREM TypeCorrect == Spec => []TypeOK
<1>1. LockInv => TypeOK
    BY DEF LockInv
<1> QED
    BY <1>1, LockIsKept, PTL

\* No operation is refused because its record is stale.
THEOREM NoSaveIsStale == Spec => []NothingIsStale
<1>1. LockInv => NothingIsStale
    BY DEF LockInv, HolderInv, NothingIsStale
<1> QED
    BY <1>1, LockIsKept, PTL

\* Whoever reads without the lock finds a whole record.
THEOREM ReadersAreServed == Spec => []ReadersSeeWholeState
<1>1. LockInv => ReadersSeeWholeState
    BY DEF LockInv, ReadersSeeWholeState
<1> QED
    BY <1>1, LockIsKept, PTL

\* A step of one process enters, saves or leaves, or is none of the abstract
\* specification's concern.
LEMMA StepRefines ==
    LockInv /\ [Next]_vars => [Atomic!Next]_<<lock, state.saves>>
<1> SUFFICES ASSUME LockInv, [Next]_vars
             PROVE  Atomic!Next \/ UNCHANGED <<lock, state.saves>>
    OBVIOUS
<1>h. HolderInv
    BY DEF LockInv
<1>1. ASSUME UNCHANGED vars PROVE UNCHANGED <<lock, state.saves>>
    BY <1>1 DEF vars
<1>2. ASSUME NEW p \in Processes, TryLock(p) PROVE Atomic!Enter(p)
    BY <1>2 DEF TryLock, Atomic!Enter
<1>3. ASSUME NEW p \in Processes, Unlock(p) \/ Close(p) \/ Crash(p)
      PROVE  Atomic!Leave(p) \/ UNCHANGED <<lock, state.saves>>
    BY <1>3 DEF Unlock, Close, Crash, Dropped, Atomic!Leave
<1>4. ASSUME NEW p \in Processes, Replace(p) PROVE Atomic!Save(p)
  <2>1. lock = p /\ temporary.saves = Append(state.saves, p)
    BY <1>4, <1>h DEF Replace, Goes, HolderInv, Section
  <2> QED
    BY <1>4, <2>1 DEF Replace, Atomic!Save
<1>5. ASSUME NEW p \in Processes,
             \/ Open(p) \/ Timeout(p) \/ UnlockRaises(p) \/ Load(p) \/ Save(p)
             \/ Truncate(p) \/ Fill(p) \/ Leave(p) \/ DeadlinePasses(p)
      PROVE  UNCHANGED <<lock, state.saves>>
    BY <1>5 DEF Open, Timeout, UnlockRaises, Load, Save, Truncate, Fill, Leave,
                DeadlinePasses
<1> QED
    BY <1>1, <1>2, <1>3, <1>4, <1>5 DEF Next, Continue, Atomic!Next

\* The operations behind the lock are atomic towards each other, and no save is
\* lost: LifecycleLock implements AtomicMutations.
THEOREM MutationsAreSerialized == Spec => Serialized
<1>1. Init => Atomic!Init
    BY DEF Init, Content, Atomic!Init
<1> QED
    BY <1>1, StepRefines, LockIsKept, PTL DEF Spec, Serialized, Atomic!Spec
=============================================================================
