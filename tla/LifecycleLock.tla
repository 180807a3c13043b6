--------------------------- MODULE LifecycleLock ---------------------------
(***************************************************************************)
(* The lock of locking.py and what development.py does behind it.  Every   *)
(* mutating operation opens the lock file, polls for an OS lock on it      *)
(* until a deadline, loads a record, saves it any number of times, and     *)
(* unlocks and closes the file, also when it raises.  A save compares the  *)
(* time stamp of the record on disk with the one that was loaded, writes a *)
(* temporary file next to the record and renames it.  A process may die    *)
(* between any two of these steps; the OS then drops its lock.             *)
(*                                                                         *)
(* Task states and onboarding records are saved in the same way and behind *)
(* the same lock; here is one record.                                      *)
(***************************************************************************)
EXTENDS Naturals, Sequences

CONSTANTS
    Processes,  \* command-line processes
    Nobody,
    MaxSaves,   \* bound: saves in a behaviour, hence in an operation
    MaxFaults   \* bound: processes that die

ASSUME NobodyAssumption == Nobody \notin Processes
ASSUME BoundAssumption == MaxSaves \in Nat /\ MaxFaults \in Nat

VARIABLES
    pc,         \* where each process is
    lock,       \* the process that holds the OS lock on the lock file
    late,       \* whether the deadline of each process has passed
    state,      \* state.json
    temporary,  \* state.json.tmp
    copy,       \* the record each process has in memory
    clock,      \* time stamps given out so far
    faults

vars == <<pc, lock, late, state, temporary, copy, clock, faults>>

-----------------------------------------------------------------------------
\* A record: who has saved it so far and the stamp of the last save; `whole`
\* tells a file that was written to its end from one that is empty, partly
\* written or not there.
Content(saves, stamp) == [whole |-> TRUE, saves |-> saves, updated_at |-> stamp]
Torn == [whole |-> FALSE, saves |-> <<>>, updated_at |-> 0]

Goes(p, from, to) == pc[p] = from /\ pc' = [pc EXCEPT ![p] = to]

\* The OS drops the lock of a handle that is closed.
Dropped(p) == IF lock = p THEN Nobody ELSE lock

-----------------------------------------------------------------------------
(* FileMutex                                                               *)

Open(p) ==
    /\ Goes(p, "outside", "trying")
    /\ UNCHANGED <<lock, late, state, temporary, copy, clock, faults>>

\* Mutant: LOCK_SH for LOCK_EX.
TryLockShared(p) ==
    /\ Goes(p, "trying", "loading")
    /\ lock' = p
    /\ late' = [late EXCEPT ![p] = FALSE]
    /\ UNCHANGED <<state, temporary, copy, clock, faults>>

\* The attempt that succeeds; it may still do so after the deadline.
TryLock(p) ==
    /\ Goes(p, "trying", "loading")
    /\ lock = Nobody
    /\ lock' = p
    /\ late' = [late EXCEPT ![p] = FALSE]
    /\ UNCHANGED <<state, temporary, copy, clock, faults>>

DeadlinePasses(p) ==
    /\ pc[p] = "trying"
    /\ ~late[p]
    /\ late' = [late EXCEPT ![p] = TRUE]
    /\ UNCHANGED <<pc, lock, state, temporary, copy, clock, faults>>

\* An attempt that fails after the deadline closes the handle and raises.
Timeout(p) ==
    /\ Goes(p, "trying", "outside")
    /\ lock # Nobody
    /\ late[p]
    /\ late' = [late EXCEPT ![p] = FALSE]
    /\ UNCHANGED <<lock, state, temporary, copy, clock, faults>>

Unlock(p) ==
    /\ Goes(p, "leaving", "closing")
    /\ lock' = Dropped(p)
    /\ UNCHANGED <<late, state, temporary, copy, clock, faults>>

UnlockRaises(p) ==
    /\ Goes(p, "leaving", "closing")
    /\ UNCHANGED <<lock, late, state, temporary, copy, clock, faults>>

\* The process ends, or goes on to another operation, and forgets the record.
Forgets(p) ==
    /\ copy' = [copy EXCEPT ![p] = Torn]
    /\ late' = [late EXCEPT ![p] = FALSE]

\* Mutant: the handle is closed only after an unlock that worked.
CloseUnlocked(p) ==
    /\ Goes(p, "closing", "outside")
    /\ Forgets(p)
    /\ UNCHANGED <<lock, state, temporary, clock, faults>>

Close(p) ==
    /\ Goes(p, "closing", "outside")
    /\ Forgets(p)
    /\ lock' = Dropped(p)
    /\ UNCHANGED <<state, temporary, clock, faults>>

-----------------------------------------------------------------------------
(* The operation: load, save, save, ...                                    *)

Load(p) ==
    /\ Goes(p, "loading", "working")
    /\ copy' = [copy EXCEPT ![p] = state]
    /\ UNCHANGED <<lock, late, state, temporary, clock, faults>>

\* A record that somebody saved since it was loaded is not overwritten.
Save(p) ==
    /\ clock < MaxSaves
    /\ IF state.updated_at = copy[p].updated_at
       THEN /\ Goes(p, "working", "writing")
            /\ clock' = clock + 1
            /\ copy' = [copy EXCEPT
                          ![p] = Content(Append(@.saves, p), clock')]
       ELSE /\ Goes(p, "working", "leaving")
            /\ UNCHANGED <<clock, copy>>
    /\ UNCHANGED <<lock, late, state, temporary, faults>>

\* Mutant: the record itself is opened for writing.
TruncateInPlace(p) ==
    /\ Goes(p, "writing", "filling")
    /\ state' = Torn
    /\ UNCHANGED <<lock, late, temporary, copy, clock, faults>>

\* write_text opens the temporary file, which empties it, and fills it.
Truncate(p) ==
    /\ Goes(p, "writing", "filling")
    /\ temporary' = Torn
    /\ UNCHANGED <<lock, late, state, copy, clock, faults>>

\* Mutant: the file gets a stamp of its own, which the process does not keep.
FillStampedAgain(p) ==
    /\ Goes(p, "filling", "replacing")
    /\ temporary' = [copy[p] EXCEPT !.updated_at = clock + 1]
    /\ UNCHANGED <<lock, late, state, copy, clock, faults>>

Fill(p) ==
    /\ Goes(p, "filling", "replacing")
    /\ temporary' = copy[p]
    /\ UNCHANGED <<lock, late, state, copy, clock, faults>>

Replace(p) ==
    /\ Goes(p, "replacing", "working")
    /\ state' = temporary
    /\ temporary' = Torn
    /\ UNCHANGED <<lock, late, copy, clock, faults>>

Section == {"loading", "working", "writing", "filling", "replacing"}

\* The operation is done, or raises between two steps.
Leave(p) ==
    /\ pc[p] \in Section
    /\ Goes(p, pc[p], "leaving")
    /\ UNCHANGED <<lock, late, state, temporary, copy, clock, faults>>

Crash(p) ==
    /\ pc[p] # "outside"
    /\ faults < MaxFaults
    /\ faults' = faults + 1
    /\ Goes(p, pc[p], "outside")
    /\ Forgets(p)
    /\ lock' = Dropped(p)
    /\ UNCHANGED <<state, temporary, clock>>

-----------------------------------------------------------------------------
Init ==
    /\ pc = [p \in Processes |-> "outside"]
    /\ lock = Nobody
    /\ late = [p \in Processes |-> FALSE]
    /\ state = Content(<<>>, 0)
    /\ temporary = Torn
    /\ copy = [p \in Processes |-> Torn]
    /\ clock = 0
    /\ faults = 0

\* What a process does once it has started.
Continue(p) ==
    \/ TryLock(p) \/ Timeout(p) \/ Unlock(p) \/ UnlockRaises(p) \/ Close(p)
    \/ Load(p) \/ Save(p) \/ Truncate(p) \/ Fill(p) \/ Replace(p) \/ Leave(p)

Next == \E p \in Processes :
            Open(p) \/ Continue(p) \/ DeadlinePasses(p) \/ Crash(p)

Spec == Init /\ [][Next]_vars

\* A process that has started runs, and time passes.  Nobody has to start one.
\* An operation makes one or two saves; MaxSaves stands for that limit.
FairSpec ==
    /\ Spec
    /\ \A p \in Processes : WF_vars(Continue(p)) /\ WF_vars(DeadlinePasses(p))

-----------------------------------------------------------------------------
(* Properties                                                              *)

Contents == [whole : BOOLEAN, saves : Seq(Processes), updated_at : 0..clock]

\* Every variable has the shape of what it models, and no record carries a
\* stamp that was not given out.
TypeOK ==
    /\ pc \in [Processes -> Section \cup {"outside", "trying", "leaving",
                                          "closing"}]
    /\ lock \in Processes \cup {Nobody}
    /\ late \in [Processes -> BOOLEAN]
    /\ state \in Contents
    /\ temporary \in Contents
    /\ copy \in [Processes -> Contents]
    /\ clock \in Nat
    /\ faults \in Nat

\* The commands that only show or monitor read without the lock: whenever they
\* look, and whoever died while saving, the record is a whole one.
ReadersSeeWholeState == state.whole

\* "stale development task mutation rejected" is an answer nobody gets: between
\* two steps of the operation the record in memory is the one on disk.
NothingIsStale == \A p \in Processes : pc[p] = "working" => copy[p] = state

\* Behind the lock nothing is lost: operations are serialized as the abstract
\* specification demands, and every save has those before it in it, whatever
\* process died while it saved or timed out while it waited.
Atomic == INSTANCE AtomicMutations WITH owner <- lock, saves <- state.saves
Serialized == Atomic!Spec

\* A process that waits for the lock gets it or a TimeoutError, and whatever an
\* operation runs into, an unlock that fails included, its lock is released.
LockMovesOn ==
    \A p \in Processes : /\ (pc[p] = "trying") ~> (pc[p] # "trying")
                         /\ (lock = p) ~> (lock # p)
=============================================================================
