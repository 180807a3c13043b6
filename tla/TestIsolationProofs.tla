------------------------ MODULE TestIsolationProofs ------------------------
(***************************************************************************)
(* The result of a test contract is what its containers said, and none of  *)
(* them outlives the operation, for contracts of any length, any number of *)
(* tests and any number of faults.                                         *)
(***************************************************************************)
EXTENDS TestIsolation, TLAPS

\* There are names for the rest of the contract.
RoomInv ==
    /\ test.pc # "idle" => /\ test.command \in 1..Commands
                           /\ Len(test.results) = test.command - 1
                           /\ test.outcome = "none"
    /\ test.pc \in {"daemon", "image"} =>
          used + Commands - test.command + 1 <= NameCount
    /\ test.pc \in {"run", "rm"} =>
          /\ used + Commands - test.command <= NameCount
          /\ test.name = used
          /\ used >= 1

\* Names that have not been generated are free.
FreshInv == \A n \in Names : n > used => containers[n] = NoContainer

\* A result on record: an earlier container, ended, with code 0.
Settled(result) ==
    /\ result.name <= used
    /\ test.pc \in {"run", "rm"} => result.name # test.name
    /\ test.pc # "idle" \/ test.outcome = "passed" =>
          /\ containers[result.name].state = "gone"
          /\ containers[result.name].code = "zero"

ResultInv ==
    /\ \A i \in DOMAIN test.results : Settled(test.results[i])
    /\ \A i, j \in DOMAIN test.results :
          test.results[i].name = test.results[j].name => i = j
    /\ test.outcome = "passed" => Len(test.results) = Commands

\* Without a fault the daemon has nothing to do but for the test.
WatchInv ==
    faults = 0 =>
        \A n \in Names :
            containers[n].state \in {"asked", "created", "running"} =>
                /\ n = test.name
                /\ \/ test.pc = "run"
                   \/ test.pc = "rm" /\ containers[n].state # "asked"

\* The container a docker run waits for goes with an exit code.
ExitInv ==
    test.pc = "run" /\ containers[test.name].state = "gone" =>
        containers[test.name].code # "none"

IInv == TypeOK /\ RoomInv /\ FreshInv /\ ResultInv /\ WatchInv /\ ExitInv

-----------------------------------------------------------------------------
\* There are finitely many names.
LEMMA NameCountType == NameCount \in Nat /\ Commands \in Nat /\ Commands >= 1
BY CommandsAssumption, BoundAssumption DEF NameCount

\* The invariant holds at the start.
LEMMA InitInv == Init => IInv
<1> SUFFICES ASSUME Init PROVE IInv
  OBVIOUS
<1>1. TypeOK
  BY NameCountType, BoundAssumption
  DEF Init, TypeOK, NoTest, NoContainer, ContainerStates
<1>2. RoomInv /\ ResultInv
  BY DEF Init, NoTest, RoomInv, ResultInv
<1>3. FreshInv /\ WatchInv /\ ExitInv
  BY DEF Init, FreshInv, WatchInv, ExitInv, NoContainer, NoTest
<1> QED
  BY <1>1, <1>2, <1>3 DEF IInv

\* What the record of an operation looks like after a result is appended.
LEMMA RecordedTest ==
    ASSUME IInv, test.pc = "run", NEW code \in {"zero", "other"},
           Recorded(code)
    PROVE  /\ test'.name = test.name
           /\ test'.results =
                Append(test.results, [name |-> test.name, code |-> code])
           /\ \/ /\ test'.pc = "daemon"
                 /\ test'.command = test.command + 1
                 /\ test'.outcome = "none"
                 /\ code = "zero"
                 /\ test.command < Commands
              \/ /\ test'.pc = "idle"
                 /\ test'.command = test.command
                 /\ test'.outcome = IF code = "zero" THEN "passed" ELSE "failed"
                 /\ code = "zero" => test.command = Commands
           /\ test' \in [pc : {"idle", "daemon", "image", "run", "rm"},
                         command : 0..Commands, name : {0} \cup Names,
                         results : Seq(Results),
                         outcome : {"none", "passed", "failed", "raised",
                                    "died"}]
<1> DEFINE results == Append(test.results, [name |-> test.name, code |-> code])
<1>t. /\ test \in [pc : {"idle", "daemon", "image", "run", "rm"},
                   command : 0..Commands, name : {0} \cup Names,
                   results : Seq(Results),
                   outcome : {"none", "passed", "failed", "raised", "died"}]
      /\ test.command \in 1..Commands
      /\ test.name \in Names
      /\ test.outcome = "none"
  BY NameCountType DEF IInv, TypeOK, RoomInv, Names
<1>1. results \in Seq(Results)
  BY <1>t DEF Results
<1>2. CASE code = "zero" /\ test.command < Commands
  <2>1. test' = [test EXCEPT !.pc = "daemon", !.results = results,
                             !.command = test.command + 1]
    BY <1>2 DEF Recorded
  <2>2. test.command + 1 \in 0..Commands
    BY <1>2, <1>t, NameCountType
  <2> HIDE DEF results
  <2>3. /\ test'.name = test.name /\ test'.results = results
        /\ test'.pc = "daemon" /\ test'.command = test.command + 1
        /\ test'.outcome = test.outcome
    BY <1>t, <2>1
  <2>4. test' \in [pc : {"idle", "daemon", "image", "run", "rm"},
                   command : 0..Commands, name : {0} \cup Names,
                   results : Seq(Results),
                   outcome : {"none", "passed", "failed", "raised", "died"}]
    BY <1>t, <1>1, <2>1, <2>2
  <2> QED
    BY <1>2, <1>t, <2>3, <2>4 DEF results
<1>3. CASE ~(code = "zero" /\ test.command < Commands)
  <2> DEFINE outcome == IF code = "zero" THEN "passed" ELSE "failed"
  <2>1. test' = [test EXCEPT !.pc = "idle", !.results = results,
                             !.outcome = outcome]
    BY <1>3 DEF Recorded
  <2>2. outcome \in {"passed", "failed"}
    OBVIOUS
  <2>3. code = "zero" => test.command = Commands
    BY <1>3, <1>t, NameCountType
  <2> HIDE DEF results, outcome
  <2>4. /\ test'.name = test.name /\ test'.results = results
        /\ test'.pc = "idle" /\ test'.command = test.command
        /\ test'.outcome = outcome
    BY <1>t, <2>1
  <2>5. test' \in [pc : {"idle", "daemon", "image", "run", "rm"},
                   command : 0..Commands, name : {0} \cup Names,
                   results : Seq(Results),
                   outcome : {"none", "passed", "failed", "raised", "died"}]
    BY <1>t, <1>1, <2>1, <2>2
  <2> QED
    BY <2>3, <2>4, <2>5 DEF results, outcome
<1> QED
  BY <1>2, <1>3

-----------------------------------------------------------------------------
(* Every step, for each part of the invariant                              *)

\* The record of the operation and the containers keep their shape.
LEMMA TypeNext == IInv /\ [Next]_vars => TypeOK'
<1> SUFFICES ASSUME IInv, [Next]_vars PROVE TypeOK'
  OBVIOUS
<1> DEFINE T == [pc : {"idle", "daemon", "image", "run", "rm"},
                 command : 0..Commands, name : {0} \cup Names,
                 results : Seq(Results),
                 outcome : {"none", "passed", "failed", "raised", "died"}]
           C == [state : ContainerStates, code : {"none", "zero", "other"},
                 watched : BOOLEAN]
<1>t. /\ test \in T /\ containers \in [Names -> C]
      /\ used \in 0..NameCount /\ faults \in 0..MaxFaults
      /\ test.name \in {0} \cup Names
      /\ test.pc \in {"run", "rm"} => test.name \in Names
  BY NameCountType DEF IInv, TypeOK, RoomInv, Names
<1>f. Fails => faults' \in 0..MaxFaults
  BY <1>t, BoundAssumption DEF Fails
<1>e. \A outcome \in {"raised", "died"} : Ends(outcome) => test' \in T
  BY <1>t DEF Ends
<1>s. \A n \in Names, x \in C : [containers EXCEPT ![n] = x] \in [Names -> C]
  BY <1>t
<1>1. CASE UNCHANGED vars
  BY <1>1, <1>t DEF vars, TypeOK
<1>2. CASE Begin
  <2>1. NoTest \in T /\ 1 \in 0..Commands
    BY NameCountType DEF NoTest
  <2>2. [NoTest EXCEPT !.pc = "daemon", !.command = 1] \in T
    BY <2>1
  <2> QED
    BY <1>2, <1>t, <2>2 DEF Begin, TypeOK
<1>3. CASE CheckDaemon
  <2>1. test' \in T
    BY <1>3, <1>t DEF CheckDaemon
  <2> QED
    BY <1>3, <1>t, <2>1 DEF CheckDaemon, TypeOK
<1>4. CASE CheckImage
  <2>1. used + 1 \in Names /\ used + 1 \in 0..NameCount
    BY <1>4, <1>t, NameCountType DEF CheckImage, IInv, RoomInv, At, Names
  <2>2. test' \in T
    BY <1>4, <1>t, <2>1 DEF CheckImage
  <2>3. [NoContainer EXCEPT !.state = "asked", !.watched = TRUE] \in C
    BY DEF NoContainer, ContainerStates
  <2>4. containers' \in [Names -> C]
    BY <1>4, <1>s, <2>1, <2>3 DEF CheckImage
  <2> QED
    BY <1>4, <1>t, <2>1, <2>2, <2>4 DEF CheckImage, TypeOK
<1>5. CASE CheckFails
  BY <1>5, <1>t, <1>f, <1>e DEF CheckFails, Raises, TypeOK
<1>6. CASE Return
  <2>1. containers[test.name].code \in {"zero", "other"} => test' \in T
    BY <1>6, RecordedTest DEF Return, At
  <2>2. containers[test.name].code \in {"zero", "other"}
    BY <1>6, <1>t DEF Return, At, IInv, ExitInv
  <2>3. [containers[test.name] EXCEPT !.watched = FALSE] \in C
    BY <1>6, <1>t DEF Return, At
  <2>4. containers' \in [Names -> C]
    BY <1>6, <1>s, <1>t, <2>3 DEF Return, At
  <2> QED
    BY <1>6, <1>t, <2>1, <2>2, <2>4 DEF Return, TypeOK
<1>7. CASE RunFails
  <2>1. test' \in T
    BY <1>7, RecordedTest DEF RunFails, At
  <2>2. containers' \in [Names -> C]
    <3> DEFINE x == [containers[test.name] EXCEPT !.state = "gone",
                                                  !.watched = FALSE]
    <3>1. test.name \in Names
      BY <1>7, <1>t DEF RunFails, At
    <3>2. x \in C
      BY <3>1, <1>t DEF ContainerStates
    <3>3. containers' = [containers EXCEPT ![test.name] = x]
      BY <1>7, <3>1, <1>t DEF RunFails
    <3> QED
      BY <3>1, <3>2, <3>3, <1>s
  <2> QED
    BY <1>7, <1>t, <1>f, <2>1, <2>2 DEF RunFails, TypeOK
<1>8. CASE Timeout
  <2>1. test' \in T
    BY <1>8, <1>t DEF Timeout
  <2>2. containers' \in [Names -> C]
    <3> DEFINE n == test.name
               x == IF containers[n].state = "asked" THEN "gone"
                    ELSE containers[n].state
    <3>1. n \in Names /\ x \in ContainerStates
      BY <1>8, <1>t DEF Timeout, At, ContainerStates
    <3>2. \/ containers' = [containers EXCEPT ![n].watched = FALSE,
                                              ![n].state = x]
          \/ containers' = [containers EXCEPT ![n].watched = FALSE]
      BY <1>8 DEF Timeout, ClientIsKilled
    <3> HIDE DEF n, x
    <3>3. CASE containers' = [containers EXCEPT ![n].watched = FALSE,
                                                ![n].state = x]
      <4>1. [containers[n] EXCEPT !.watched = FALSE, !.state = x] \in C
        BY <3>1, <1>t
      <4> HIDE DEF C
      <4> QED
        BY <3>3, <3>1, <4>1, <1>t
    <3>4. CASE containers' = [containers EXCEPT ![n].watched = FALSE]
      BY <3>1, <3>4, <1>t
    <3> QED
      BY <3>2, <3>3, <3>4
  <2>3. faults' \in 0..MaxFaults
    BY <1>8, <1>t, <1>f DEF Timeout, ClientIsKilled
  <2> QED
    BY <1>8, <1>t, <2>1, <2>2, <2>3 DEF Timeout, TypeOK
<1>9. CASE Remove
  <2>1. containers' \in [Names -> C]
    BY <1>9, <1>t DEF Remove, At, ContainerStates
  <2> QED
    BY <1>9, <1>t, <1>e, <2>1 DEF Remove, Raises, TypeOK
<1>10. CASE RemoveFails
  BY <1>10, <1>t, <1>f, <1>e DEF RemoveFails, Raises, TypeOK
<1>11. CASE Die
  BY <1>11, <1>t, <1>f, <1>e DEF Die, TypeOK
<1>12. ASSUME NEW n \in Names, Create(n) \/ StartContainer(n)
       PROVE  TypeOK'
  <2>1. containers' \in [Names -> C]
    BY <1>12, <1>t DEF Create, StartContainer, Moves, ContainerStates
  <2> QED
    BY <1>12, <1>t, <2>1 DEF Create, StartContainer, Moves, TypeOK
<1>13. ASSUME NEW n \in Names, NEW code \in {"zero", "other"}, Exit(n, code)
       PROVE  TypeOK'
  <2>1. containers' \in [Names -> C]
    BY <1>13, <1>t DEF Exit, ContainerStates
  <2> QED
    BY <1>13, <1>t, <2>1 DEF Exit, TypeOK
<1> QED
  BY <1>1, <1>2, <1>3, <1>4, <1>5, <1>6, <1>7, <1>8, <1>9, <1>10, <1>11,
    <1>12, <1>13 DEF Next, Operate

\* The steps after which the operation is where it was, or over.
Over == test'.pc = "idle" /\ test'.outcome \in {"raised", "died"}
        /\ test'.results = test.results /\ used' = used

LEMMA OverSteps ==
    ASSUME IInv, CheckFails \/ Remove \/ RemoveFails \/ Die
    PROVE  Over
<1>1. test \in [pc : {"idle", "daemon", "image", "run", "rm"},
                command : 0..Commands, name : {0} \cup Names,
                results : Seq(Results),
                outcome : {"none", "passed", "failed", "raised", "died"}]
  BY DEF IInv, TypeOK
<1>2. used' = used /\ (Ends("raised") \/ Ends("died"))
  BY DEF CheckFails, Remove, RemoveFails, Die, Raises
<1> QED
  BY <1>1, <1>2 DEF Ends, Over

\* The time limit moves the operation on to the removal of the container.
LEMMA TimeoutTest ==
    ASSUME IInv, Timeout
    PROVE  /\ test.pc = "run" /\ test'.pc = "rm" /\ used' = used
           /\ test'.command = test.command /\ test'.name = test.name
           /\ test'.results = test.results /\ test'.outcome = test.outcome
<1>1. test \in [pc : {"idle", "daemon", "image", "run", "rm"},
                command : 0..Commands, name : {0} \cup Names,
                results : Seq(Results),
                outcome : {"none", "passed", "failed", "raised", "died"}]
  BY DEF IInv, TypeOK
<1> QED
  BY <1>1 DEF Timeout, At

\* The daemon leaves the operation alone.
LEMMA DaemonSteps ==
    ASSUME NEW n \in Names,
           \/ Create(n) \/ StartContainer(n)
           \/ \E code \in {"zero", "other"} : Exit(n, code)
    PROVE  UNCHANGED <<test, used, faults>>
BY DEF Create, StartContainer, Exit, Moves

\* There stay names for the rest of the contract.
LEMMA RoomNext == IInv /\ [Next]_vars => RoomInv'
<1> SUFFICES ASSUME IInv, [Next]_vars PROVE RoomInv'
  OBVIOUS
<1>t. /\ test \in [pc : {"idle", "daemon", "image", "run", "rm"},
                   command : 0..Commands, name : {0} \cup Names,
                   results : Seq(Results),
                   outcome : {"none", "passed", "failed", "raised", "died"}]
      /\ used \in Nat /\ NameCount \in Nat
      /\ Commands \in Nat /\ Commands >= 1
  BY NameCountType DEF IInv, TypeOK
<1>1. CASE UNCHANGED <<test, used>>
  BY <1>1 DEF IInv, RoomInv
<1>2. CASE Begin
  BY <1>2, <1>t DEF Begin, NoTest, RoomInv
<1>3. CASE CheckDaemon
  BY <1>3, <1>t DEF CheckDaemon, At, IInv, RoomInv
<1>4. CASE CheckImage
  BY <1>4, <1>t DEF CheckImage, At, IInv, RoomInv
<1>5. CASE Return \/ RunFails
  <2>1. PICK code \in {"zero", "other"} : Recorded(code)
    BY <1>5, <1>t, NameCountType
    DEF Return, RunFails, At, IInv, ExitInv, TypeOK, RoomInv, Names
  <2>2. test.pc = "run" /\ used' = used
    BY <1>5 DEF Return, RunFails, At
  <2>3. /\ Len(test'.results) = Len(test.results) + 1
        /\ test'.name = test.name
    BY <1>t, <2>1, <2>2, RecordedTest
  <2>4. /\ test.command \in 1..Commands
        /\ Len(test.results) = test.command - 1
        /\ used + Commands - test.command <= NameCount
    BY <2>2 DEF IInv, RoomInv
  <2>5. \/ /\ test'.pc = "daemon" /\ test'.outcome = "none"
           /\ test'.command = test.command + 1
           /\ test.command < Commands
        \/ test'.pc = "idle"
    BY <2>1, <2>2, RecordedTest
  <2>6. CASE test'.pc = "daemon" /\ test'.outcome = "none"
             /\ test'.command = test.command + 1 /\ test.command < Commands
    <3>1. /\ test'.command \in 1..Commands
          /\ Len(test'.results) = test'.command - 1
          /\ used' + Commands - test'.command + 1 <= NameCount
      <4> DEFINE c == test.command
                 l == Len(test.results)
                 m == Len(test'.results)
      <4>1. /\ c \in 1..Commands /\ l = c - 1 /\ m = l + 1
            /\ used' = used /\ used + Commands - c <= NameCount
            /\ test'.command = c + 1 /\ c < Commands
        BY <2>2, <2>3, <2>4, <2>6
      <4> HIDE DEF c, l, m
      <4>2. /\ test'.command \in 1..Commands /\ m = test'.command - 1
            /\ used' + Commands - test'.command + 1 <= NameCount
        BY <4>1, <1>t
      <4> QED
        BY <4>2 DEF m
    <3> QED
      BY <2>6, <3>1 DEF RoomInv
  <2>7. CASE test'.pc = "idle"
    BY <2>7 DEF RoomInv
  <2> QED
    BY <2>5, <2>6, <2>7
<1>6. CASE Timeout
  BY <1>6, <1>t, TimeoutTest DEF IInv, RoomInv
<1>7. CASE CheckFails \/ Remove \/ RemoveFails \/ Die
  BY <1>7, OverSteps DEF Over, RoomInv
<1> QED
  BY <1>1, <1>2, <1>3, <1>4, <1>5, <1>6, <1>7, DaemonSteps
  DEF Next, Operate, vars

\* What a step does to a container whose name has been generated.
LEMMA ContainerSteps ==
    ASSUME IInv, [Next]_vars, NEW n \in Names
    PROVE  /\ containers[n].state = "gone" =>
                 /\ containers'[n].state = "gone"
                 /\ containers'[n].code = containers[n].code
           /\ n > used' => containers'[n] = NoContainer
<1>t. /\ containers \in [Names -> [state : ContainerStates,
                                   code : {"none", "zero", "other"},
                                   watched : BOOLEAN]]
      /\ used \in Nat /\ Names \subseteq Nat
      /\ n > used => containers[n] = NoContainer
      /\ test.pc \in {"run", "rm"} => test.name = used /\ used >= 1
      /\ NameCount \in Nat
  BY NameCountType DEF IInv, TypeOK, FreshInv, RoomInv, Names
<1>1. CASE UNCHANGED <<containers, used>>
  BY <1>1, <1>t
<1>2. CASE CheckImage
  <2>1. containers' = [containers EXCEPT
           ![used + 1] = [NoContainer EXCEPT !.state = "asked",
                                             !.watched = TRUE]]
        /\ used' = used + 1
    BY <1>2 DEF CheckImage
  <2>2. containers[n].state = "gone" => n <= used
    BY <1>t DEF NoContainer
  <2> QED
    BY <1>t, <2>1, <2>2
<1>3. CASE Return \/ RunFails \/ Timeout \/ Remove
  <2>1. /\ used' = used
        /\ test.name = used
        /\ n # used => containers'[n] = containers[n]
    BY <1>3, <1>t
    DEF Return, RunFails, Timeout, Remove, At, ClientIsKilled
  <2>2. ASSUME n = used, containers[n].state = "gone"
        PROVE  /\ containers'[n].state = "gone"
               /\ containers'[n].code = containers[n].code
    BY <1>3, <1>t, <2>1, <2>2
    DEF Return, RunFails, Timeout, Remove, At, ClientIsKilled, Alive
  <2> QED
    BY <1>t, <2>1, <2>2
<1>4. ASSUME NEW m \in Names,
             \/ Create(m) \/ StartContainer(m)
             \/ \E code \in {"zero", "other"} : Exit(m, code)
      PROVE  /\ used' = used
             /\ n # m => containers'[n] = containers[n]
             /\ containers[m].state \in {"asked", "created", "running"}
  BY <1>4, <1>t DEF Create, StartContainer, Exit, Moves
<1>5. ASSUME NEW m \in Names,
             \/ Create(m) \/ StartContainer(m)
             \/ \E code \in {"zero", "other"} : Exit(m, code)
      PROVE  /\ containers[n].state = "gone" =>
                 /\ containers'[n].state = "gone"
                 /\ containers'[n].code = containers[n].code
             /\ n > used' => containers'[n] = NoContainer
  <2>1. /\ used' = used
        /\ n # m => containers'[n] = containers[n]
        /\ containers[m].state \in {"asked", "created", "running"}
    BY <1>4, <1>5
  <2>2. n > used => n # m
    BY <1>t, <2>1 DEF NoContainer
  <2> QED
    BY <1>t, <2>1, <2>2
<1> QED
  BY <1>1, <1>2, <1>3, <1>5
  DEF Next, Operate, vars, Begin, CheckDaemon, CheckFails, RemoveFails, Die

\* A new name is a free one.
LEMMA FreshNext == IInv /\ [Next]_vars => FreshInv'
BY ContainerSteps DEF FreshInv

\* A container that docker run waits for does not lose its exit code.
LEMMA ExitNext == IInv /\ [Next]_vars => ExitInv'
<1> SUFFICES ASSUME IInv, [Next]_vars, test'.pc = "run",
                    containers'[test'.name].state = "gone"
             PROVE  containers'[test'.name].code # "none"
  BY DEF ExitInv
<1>t. /\ test \in [pc : {"idle", "daemon", "image", "run", "rm"},
                   command : 0..Commands, name : {0} \cup Names,
                   results : Seq(Results),
                   outcome : {"none", "passed", "failed", "raised", "died"}]
      /\ containers \in [Names -> [state : ContainerStates,
                                   code : {"none", "zero", "other"},
                                   watched : BOOLEAN]]
      /\ used \in Nat /\ NameCount \in Nat
      /\ Commands \in Nat /\ Commands >= 1
      /\ test.pc = "run" => test.name \in Names
  BY NameCountType DEF IInv, TypeOK, RoomInv, Names
<1>1. CASE UNCHANGED <<test, containers>>
  BY <1>1 DEF IInv, ExitInv
<1>2. CASE CheckImage
  <2>1. used + 1 \in Names
    BY <1>2, <1>t DEF CheckImage, IInv, RoomInv, At, Names
  <2>2. test'.name = used + 1 /\ containers'[used + 1].state = "asked"
    BY <1>2, <1>t, <2>1 DEF CheckImage, NoContainer
  <2> QED
    BY <2>2
<1>3. CASE Begin \/ CheckDaemon
  BY <1>3, <1>t DEF Begin, CheckDaemon, NoTest
<1>4. CASE Return \/ RunFails
  <2>1. PICK code \in {"zero", "other"} : Recorded(code)
    BY <1>4, <1>t DEF Return, RunFails, At, IInv, ExitInv
  <2>2. test'.pc # "run"
    BY <1>4, <2>1, RecordedTest DEF Return, RunFails, At
  <2> QED
    BY <2>2
<1>5. CASE Timeout
  BY <1>5, TimeoutTest
<1>6. CASE CheckFails \/ Remove \/ RemoveFails \/ Die
  BY <1>6, OverSteps DEF Over
<1>7. ASSUME NEW n \in Names, Create(n) \/ StartContainer(n)
      PROVE  containers'[test'.name].code # "none"
  <2>1. test' = test /\ containers'[n].state # "gone"
    BY <1>7, <1>t DEF Create, StartContainer, Moves
  <2>2. n # test.name => containers'[test.name] = containers[test.name]
    BY <1>7, <1>t DEF Create, StartContainer, Moves
  <2> QED
    BY <1>t, <2>1, <2>2 DEF IInv, ExitInv
<1>8. ASSUME NEW n \in Names, NEW code \in {"zero", "other"}, Exit(n, code)
      PROVE  containers'[test'.name].code # "none"
  <2>1. test' = test /\ containers'[n].code = code
    BY <1>8, <1>t DEF Exit
  <2>2. n # test.name => containers'[test.name] = containers[test.name]
    BY <1>8, <1>t DEF Exit
  <2> QED
    BY <1>t, <2>1, <2>2 DEF IInv, ExitInv
<1> QED
  BY <1>1, <1>2, <1>3, <1>4, <1>5, <1>6, <1>7, <1>8 DEF Next, Operate, vars

\* Without a fault nothing is left for the daemon to do but for the test.
LEMMA WatchNext == IInv /\ [Next]_vars => WatchInv'
<1> SUFFICES ASSUME IInv, [Next]_vars, faults' = 0, NEW n \in Names,
                    containers'[n].state \in {"asked", "created", "running"}
             PROVE  /\ n = test'.name
                    /\ \/ test'.pc = "run"
                       \/ test'.pc = "rm" /\ containers'[n].state # "asked"
  BY DEF WatchInv
<1>t. /\ test \in [pc : {"idle", "daemon", "image", "run", "rm"},
                   command : 0..Commands, name : {0} \cup Names,
                   results : Seq(Results),
                   outcome : {"none", "passed", "failed", "raised", "died"}]
      /\ containers \in [Names -> [state : ContainerStates,
                                   code : {"none", "zero", "other"},
                                   watched : BOOLEAN]]
      /\ used \in Nat /\ faults \in Nat
      /\ test.pc \in {"run", "rm"} => test.name \in Names
  BY NameCountType, BoundAssumption DEF IInv, TypeOK, RoomInv, Names
<1>f. faults = 0 /\ ~Fails
  <2>1. ~Fails
    BY <1>t DEF Fails
  <2> QED
    BY <1>t, <2>1
    DEF Next, Operate, vars, Begin, CheckDaemon, CheckImage, CheckFails,
      Return, RunFails, Timeout, ClientIsKilled, Remove, RemoveFails, Die,
      Create, StartContainer, Exit, Moves
<1>w. \A m \in Names :
         containers[m].state \in {"asked", "created", "running"} =>
             /\ m = test.name
             /\ \/ test.pc = "run"
                \/ test.pc = "rm" /\ containers[m].state # "asked"
  BY <1>f DEF IInv, WatchInv
<1>1. CASE UNCHANGED <<test, containers>>
  BY <1>1, <1>w
<1>2. CASE CheckImage
  <2>1. n # used + 1 => containers'[n] = containers[n]
    BY <1>2, <1>t DEF CheckImage
  <2>2. test'.pc = "run" /\ test'.name = used + 1 /\ test.pc = "image"
    BY <1>2, <1>t DEF CheckImage, At
  <2> QED
    BY <1>w, <2>1, <2>2
<1>3. CASE Begin \/ CheckDaemon
  BY <1>3, <1>w DEF Begin, CheckDaemon, At
<1>4. CASE Return
  <2>1. /\ test.pc = "run" /\ containers[test.name].state = "gone"
        /\ containers'[n].state = containers[n].state
    BY <1>4, <1>t DEF Return, At
  <2> QED
    BY <1>w, <2>1
<1>5. CASE Timeout
  <2>1. /\ n # test.name => containers'[n] = containers[n]
        /\ containers'[test.name].state # "asked"
    BY <1>5, <1>t, <1>f DEF Timeout, ClientIsKilled, At
  <2> QED
    BY <1>5, <1>w, <2>1, TimeoutTest
<1>6. CASE Remove
  <2>1. /\ n # test.name => containers'[n] = containers[n]
        /\ test.pc = "rm"
        /\ containers'[test.name].state =
              IF Alive(test.name) THEN "gone" ELSE containers[test.name].state
    BY <1>6, <1>t DEF Remove, At
  <2>2. containers'[test.name].state \notin {"asked", "created", "running"}
    BY <1>t, <1>w, <2>1 DEF Alive
  <2> QED
    BY <1>w, <2>1, <2>2
<1>7. ASSUME NEW m \in Names,
             \/ Create(m) \/ StartContainer(m)
             \/ \E code \in {"zero", "other"} : Exit(m, code)
      PROVE  /\ n = test'.name
             /\ \/ test'.pc = "run"
                \/ test'.pc = "rm" /\ containers'[n].state # "asked"
  <2>1. /\ test' = test
        /\ containers[m].state \in {"asked", "created", "running"}
        /\ containers'[m].state # "asked"
        /\ n # m => containers'[n] = containers[n]
    BY <1>7, <1>t DEF Create, StartContainer, Exit, Moves
  <2> QED
    BY <1>w, <2>1
<1> QED
  BY <1>1, <1>2, <1>3, <1>4, <1>5, <1>6, <1>7, <1>f
  DEF Next, Operate, vars, CheckFails, RunFails, RemoveFails, Die

\* The results on record stay what the containers said.
LEMMA ResultNext == IInv /\ [Next]_vars => ResultInv'
<1> SUFFICES ASSUME IInv, [Next]_vars PROVE ResultInv'
  OBVIOUS
<1> DEFINE SettledNext(result) ==
              /\ result.name <= used'
              /\ test'.pc \in {"run", "rm"} => result.name # test'.name
              /\ test'.pc # "idle" \/ test'.outcome = "passed" =>
                    /\ containers'[result.name].state = "gone"
                    /\ containers'[result.name].code = "zero"
<1>t. /\ test \in [pc : {"idle", "daemon", "image", "run", "rm"},
                   command : 0..Commands, name : {0} \cup Names,
                   results : Seq(Results),
                   outcome : {"none", "passed", "failed", "raised", "died"}]
      /\ used \in Nat /\ Names \subseteq Nat
      /\ test.pc \in {"run", "rm"} => test.name = used /\ used \in Names
      /\ test.pc # "idle" => test.outcome = "none"
      /\ Commands \in Nat /\ Commands >= 1
      /\ \A i \in DOMAIN test.results : test.results[i].name \in Names
  <2>1. \A i \in DOMAIN test.results : test.results[i] \in Results
    BY DEF IInv, TypeOK
  <2> QED
    BY <2>1, NameCountType DEF IInv, TypeOK, RoomInv, Names, Results
<1>r. /\ \A i \in DOMAIN test.results : Settled(test.results[i])
      /\ \A i, j \in DOMAIN test.results :
            test.results[i].name = test.results[j].name => i = j
      /\ test.outcome = "passed" => Len(test.results) = Commands
  BY DEF IInv, ResultInv
<1>g. \A n \in Names : containers[n].state = "gone" =>
         /\ containers'[n].state = "gone"
         /\ containers'[n].code = containers[n].code
  BY ContainerSteps
\* Steps that record nothing and do not bring the operation back to life.
<1>1. ASSUME test'.results = test.results, used' >= used, used' \in Nat,
             test'.outcome = "passed" => test.outcome = "passed",
             test'.pc # "idle" => test.pc # "idle",
             test'.pc \in {"run", "rm"} =>
                 \/ test.pc \in {"run", "rm"} /\ test'.name = test.name
                 \/ test'.name > used
      PROVE  ResultInv'
  <2>1. ASSUME NEW i \in DOMAIN test.results
        PROVE  SettledNext(test.results[i])
    <3> DEFINE n == test.results[i].name
    <3>1. /\ Settled(test.results[i])
          /\ n \in Nat /\ n <= used
          /\ test.pc \in {"run", "rm"} => n # test.name
      BY <1>r, <1>t DEF Settled
    <3>2. n <= used' /\ (test'.pc \in {"run", "rm"} => n # test'.name)
      <4> HIDE DEF n
      <4>1. n <= used' /\ (test'.name > used => n # test'.name)
        BY <1>1, <1>t, <3>1
      <4> QED
        BY <1>1, <3>1, <4>1
    <3>3. test'.pc # "idle" \/ test'.outcome = "passed" =>
             /\ containers'[test.results[i].name].state = "gone"
             /\ containers'[test.results[i].name].code = "zero"
      BY <1>1, <1>g, <1>t, <3>1 DEF Settled
    <3> QED
      BY <3>2, <3>3
  <2> QED
    BY <1>1, <1>r, <2>1 DEF ResultInv, Settled
<1>2. CASE UNCHANGED <<test, used>>
  BY <1>1, <1>2, <1>t
<1>3. CASE Begin
  BY <1>3 DEF Begin, NoTest, ResultInv
<1>4. CASE CheckDaemon
  BY <1>1, <1>4, <1>t DEF CheckDaemon, At
<1>5. CASE CheckImage
  <2>1. /\ test'.results = test.results /\ used' = used + 1
        /\ test'.outcome = test.outcome /\ test.pc = "image"
        /\ test'.name = used + 1
    BY <1>5, <1>t DEF CheckImage, At
  <2> QED
    BY <1>1, <1>t, <2>1
<1>6. CASE Timeout
  BY <1>1, <1>6, <1>t, TimeoutTest
<1>7. CASE CheckFails \/ Remove \/ RemoveFails \/ Die
  BY <1>1, <1>7, <1>t, OverSteps DEF Over
<1>8. CASE Return \/ RunFails
  <2>1. PICK code \in {"zero", "other"} :
           /\ Recorded(code)
           /\ code = "zero" => /\ containers[test.name].state = "gone"
                              /\ containers[test.name].code = "zero"
    BY <1>8, <1>t, NameCountType
    DEF Return, RunFails, At, IInv, ExitInv, TypeOK
  <2>2. test.pc = "run" /\ used' = used /\ test.outcome = "none"
    BY <1>8, <1>t DEF Return, RunFails, At
  <2> DEFINE result == [name |-> test.name, code |-> code]
             n == Len(test.results)
  <2>3. /\ test'.results = Append(test.results, result)
        /\ test'.pc \notin {"run", "rm"}
        /\ test'.pc # "idle" \/ test'.outcome = "passed" => code = "zero"
        /\ test'.outcome = "passed" => test.command = Commands
    BY <2>1, <2>2, RecordedTest
  <2>4. /\ n \in Nat /\ DOMAIN test.results = 1..n
        /\ DOMAIN test'.results = 1..(n + 1)
        /\ \A i \in 1..n : test'.results[i] = test.results[i]
        /\ test'.results[n + 1] = result
        /\ result.name = test.name
    BY <1>t, <2>3
  <2>5. n = test.command - 1
    BY <2>2 DEF IInv, RoomInv
  <2> HIDE DEF result, n
  <2>6. ASSUME NEW i \in 1..n
        PROVE  /\ SettledNext(test'.results[i])
               /\ test'.results[i].name # test.name
    <3>1. /\ Settled(test.results[i])
          /\ test.results[i].name \in Names
          /\ test'.results[i] = test.results[i]
      BY <1>r, <1>t, <2>4
    <3>2. /\ test.results[i].name <= used'
          /\ test.results[i].name # test.name
          /\ containers'[test.results[i].name].state = "gone"
          /\ containers'[test.results[i].name].code = "zero"
      BY <1>g, <2>2, <3>1 DEF Settled
    <3> QED
      BY <2>3, <3>1, <3>2
  <2>7. SettledNext(test'.results[n + 1])
    <3>1. code = "zero" => /\ containers'[test.name].state = "gone"
                           /\ containers'[test.name].code = "zero"
      BY <1>g, <1>t, <2>1, <2>2
    <3> QED
      BY <1>t, <2>2, <2>3, <2>4, <3>1
  <2>8. \A i \in DOMAIN test'.results : SettledNext(test'.results[i])
    BY <2>4, <2>6, <2>7
  <2>9. \A i, j \in DOMAIN test'.results :
           test'.results[i].name = test'.results[j].name => i = j
    BY <1>r, <2>4, <2>6
  <2>10. test'.outcome = "passed" => Len(test'.results) = Commands
    BY <1>t, <2>3, <2>4, <2>5
  <2> QED
    BY <2>8, <2>9, <2>10 DEF ResultInv, Settled
<1> QED
  BY <1>2, <1>3, <1>4, <1>5, <1>6, <1>7, <1>8, DaemonSteps
  DEF Next, Operate, vars

-----------------------------------------------------------------------------
(* The theorems                                                            *)

\* Every step preserves the invariant.
LEMMA NextInv == IInv /\ [Next]_vars => IInv'
BY TypeNext, RoomNext, FreshNext, ResultNext, WatchNext, ExitNext DEF IInv

\* The record of the operation and the containers keep their shape; the
\* operation never runs past its contract or out of names.
THEOREM TypeCorrect == Spec => []TypeOK
<1>1. IInv => TypeOK
  BY DEF IInv
<1> QED
  BY <1>1, InitInv, NextInv, PTL DEF Spec

\* For a contract of any length and any number of faults, "passed" is what
\* every command's own container said.
THEOREM PassedIsRun == Spec => []PassedWasRun
<1>1. IInv => PassedWasRun
  <2> SUFFICES ASSUME IInv, test.outcome = "passed" PROVE PassedWasRun
    BY DEF PassedWasRun
  <2>1. /\ Len(test.results) = Commands
        /\ DOMAIN test.results = 1..Commands
    BY DEF IInv, ResultInv, TypeOK
  <2> QED
    BY <2>1 DEF IInv, ResultInv, Settled, PassedWasRun
<1> QED
  BY <1>1, InitInv, NextInv, PTL DEF Spec

\* No container outlives its test, wherever the time limit strikes, while
\* nothing fails.
THEOREM NoneIsLeft == Spec => []NothingIsLeftRunning
<1>1. IInv => NothingIsLeftRunning
  BY DEF IInv, WatchInv, NothingIsLeftRunning, Alive
<1> QED
  BY <1>1, InitInv, NextInv, PTL DEF Spec
=============================================================================
