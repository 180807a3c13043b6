--------------------------- MODULE TestIsolation ---------------------------
(***************************************************************************)
(* The test contract of a task, run in containers: the loop over the       *)
(* commands in DevelopmentController.test, execute_test_command, and       *)
(* DockerTestRunner with the Docker daemon behind it.                      *)
(*                                                                         *)
(* "docker run" is a client of the daemon: it asks for a container, starts *)
(* it and waits for its end.  Whoever kills the client, or dies with it    *)
(* running, leaves the daemon to go on with what it was asked.             *)
(***************************************************************************)
EXTENDS Integers, Sequences

CONSTANTS
    Commands,   \* the number of commands in the contract
    MaxTests,   \* bound on the tests started
    MaxFaults   \* bound on failed calls, late answers and deaths

ASSUME CommandsAssumption == Commands \in Nat \ {0}
ASSUME BoundAssumption == MaxTests \in Nat /\ MaxFaults \in Nat

VARIABLES
    test,        \* the controller
    containers,  \* what the daemon has of each container name
    used,        \* the number of container names generated
    faults       \* the faults so far

vars == <<test, containers, used, faults>>

-----------------------------------------------------------------------------
(* State                                                                   *)

\* Every container gets a name of its own.
NameCount == Commands * MaxTests

Names == 1..NameCount

\* "asked": the daemon has the request to create it; "gone": it ended and
\* --rm removed it, or "docker rm --force" did.
ContainerStates == {"absent", "asked", "created", "running", "gone"}

\* Its exit code, and whether the docker run that watches it is alive.
NoContainer == [state |-> "absent", code |-> "none", watched |-> FALSE]

Alive(n) == containers[n].state \in {"created", "running"}

\* "test" is the operation, "outcome" how the last one ended.
NoTest == [pc |-> "idle", command |-> 0, name |-> 0, results |-> <<>>,
           outcome |-> "none"]

Init ==
    /\ test = NoTest
    /\ containers = [n \in Names |-> NoContainer]
    /\ used = 0
    /\ faults = 0

Fails ==
    /\ faults < MaxFaults
    /\ faults' = faults + 1

At(pc) == test.pc = pc

\* The operation ends; an exception leaves the task where it was.
Ends(outcome) ==
    test' = [test EXCEPT !.pc = "idle", !.outcome = outcome]

Raises == Ends("raised")

-----------------------------------------------------------------------------
(* The controller                                                          *)

Begin ==
    /\ At("idle")
    /\ used + Commands <= NameCount
    /\ test' = [NoTest EXCEPT !.pc = "daemon", !.command = 1]
    /\ UNCHANGED <<containers, used, faults>>

\* ensure_available, before every command: the daemon answers ...
CheckDaemon ==
    /\ At("daemon")
    /\ test' = [test EXCEPT !.pc = "image"]
    /\ UNCHANGED <<containers, used, faults>>

\* ... and has the pinned image; docker run is started under a fresh name.
CheckImage ==
    /\ At("image")
    /\ used' = used + 1
    /\ test' = [test EXCEPT !.pc = "run", !.name = used + 1]
    /\ containers' = [containers EXCEPT
           ![used + 1] = [NoContainer EXCEPT !.state = "asked",
                                             !.watched = TRUE]]
    /\ UNCHANGED faults

\* No daemon, no image, an unsafe path or no docker executable: no fallback.
CheckFails ==
    /\ test.pc \in {"daemon", "image"}
    /\ Raises
    /\ Fails
    /\ UNCHANGED <<containers, used>>

\* Mutant of Recorded: only the last command decides.
RecordedOfLast(code) ==
    LET results == Append(test.results, [name |-> test.name, code |-> code])
    IN  IF test.command < Commands
        THEN test' = [test EXCEPT !.pc = "daemon", !.results = results,
                                  !.command = @ + 1]
        ELSE test' = [test EXCEPT !.pc = "idle", !.results = results,
                          !.outcome = IF code = "zero" THEN "passed"
                                                       ELSE "failed"]

\* Mutant of Recorded: the loop runs once too often.
RecordedOnceMore(code) ==
    LET results == Append(test.results, [name |-> test.name, code |-> code])
    IN  IF code = "zero" /\ test.command <= Commands
        THEN test' = [test EXCEPT !.pc = "daemon", !.results = results,
                                  !.command = @ + 1]
        ELSE test' = [test EXCEPT !.pc = "idle", !.results = results,
                          !.outcome = IF code = "zero" THEN "passed"
                                                       ELSE "failed"]

\* An exit code is recorded: the first that is not 0 ends the contract.
Recorded(code) ==
    LET results == Append(test.results, [name |-> test.name, code |-> code])
    IN  IF code = "zero" /\ test.command < Commands
        THEN test' = [test EXCEPT !.pc = "daemon", !.results = results,
                                  !.command = @ + 1]
        ELSE test' = [test EXCEPT !.pc = "idle", !.results = results,
                          !.outcome = IF code = "zero" THEN "passed"
                                                       ELSE "failed"]

\* docker run returns the exit code of the container.
Return ==
    /\ At("run")
    /\ containers[test.name].state = "gone"
    /\ Recorded(containers[test.name].code)
    /\ containers' = [containers EXCEPT ![test.name].watched = FALSE]
    /\ UNCHANGED <<used, faults>>

\* docker run fails before there is a container: its own exit code counts.
RunFails ==
    /\ At("run")
    /\ containers[test.name].state = "asked"
    /\ Recorded("other")
    /\ containers' = [containers EXCEPT ![test.name].state = "gone",
                                        ![test.name].watched = FALSE]
    /\ Fails
    /\ UNCHANGED used

\* The client dies, and with it, as a rule, a request the daemon has not
\* served; a late answer is a fault.
ClientIsKilled ==
    LET asked == containers[test.name].state = "asked"
    IN  \/ /\ containers' = [containers EXCEPT
                  ![test.name].watched = FALSE,
                  ![test.name].state = IF asked THEN "gone" ELSE @]
           /\ UNCHANGED faults
        \/ /\ asked
           /\ containers' = [containers EXCEPT ![test.name].watched = FALSE]
           /\ Fails

\* Mutant of Timeout: the exception is raised before the container is removed.
TimeoutRaises ==
    /\ At("run")
    /\ ClientIsKilled
    /\ Raises
    /\ UNCHANGED used

\* Mutant of Timeout: the limit applies to the reading of the output only.
TimeoutAfterExit ==
    /\ At("run")
    /\ containers[test.name].state = "gone"
    /\ ClientIsKilled
    /\ test' = [test EXCEPT !.pc = "rm"]
    /\ UNCHANGED used

\* test_timeout_seconds are over: the client is killed.
Timeout ==
    /\ At("run")
    /\ ClientIsKilled
    /\ test' = [test EXCEPT !.pc = "rm"]
    /\ UNCHANGED used

\* docker rm --force; that there is no such container is not looked at.
Remove ==
    /\ At("rm")
    /\ containers' = [containers EXCEPT
           ![test.name].state = IF Alive(test.name) THEN "gone" ELSE @]
    /\ Raises
    /\ UNCHANGED <<used, faults>>

\* It fails, or takes more than its 20 seconds: nobody tries again.
RemoveFails ==
    /\ At("rm")
    /\ Raises
    /\ Fails
    /\ UNCHANGED <<containers, used>>

\* The controller dies; a docker run it has started lives on.
Die ==
    /\ test.pc # "idle"
    /\ Ends("died")
    /\ Fails
    /\ UNCHANGED <<containers, used>>

-----------------------------------------------------------------------------
(* The daemon                                                              *)

Moves(n, from, to) ==
    /\ containers[n].state = from
    /\ containers' = [containers EXCEPT ![n].state = to]
    /\ UNCHANGED <<test, used, faults>>

Create(n) == Moves(n, "asked", "created")

\* The client asks for the start once the container is there.
StartContainer(n) ==
    /\ containers[n].watched
    /\ Moves(n, "created", "running")

\* The tests end by themselves; some never do.
Exit(n, code) ==
    /\ containers[n].state = "running"
    /\ containers' = [containers EXCEPT ![n].state = "gone", ![n].code = code]
    /\ UNCHANGED <<test, used, faults>>

\* The steps of the operation that need nobody's answer for ever.
Operate ==
    \/ CheckDaemon \/ CheckImage \/ Return \/ Timeout \/ Remove

Next ==
    \/ Begin \/ Operate
    \/ CheckFails \/ RunFails \/ RemoveFails \/ Die
    \/ \E n \in Names :
          \/ Create(n) \/ StartContainer(n)
          \/ \E code \in {"zero", "other"} : Exit(n, code)

Spec == Init /\ [][Next]_vars

\* The calls of the controller have time limits: none waits for ever.  Nothing
\* is assumed of the daemon or of the tests.
FairSpec == Spec /\ WF_vars(Operate)

-----------------------------------------------------------------------------
(* Properties                                                              *)

Results == [name : Names, code : {"zero", "other"}]

\* The controller and the daemon are in states docker and the code know, and no
\* test takes more names than its contract has commands.
TypeOK ==
    /\ test \in [pc : {"idle", "daemon", "image", "run", "rm"},
                 command : 0..Commands, name : {0} \cup Names,
                 results : Seq(Results),
                 outcome : {"none", "passed", "failed", "raised", "died"}]
    /\ containers \in [Names -> [state : ContainerStates,
                                 code : {"none", "zero", "other"},
                                 watched : BOOLEAN]]
    /\ used \in 0..NameCount
    /\ faults \in 0..MaxFaults

\* "Passed" is what the containers said, all of them: every command of the
\* contract ran to its end, in a container of its own, and ended with 0.
PassedWasRun ==
    test.outcome = "passed" =>
        /\ Len(test.results) = Commands
        /\ \A i \in 1..Commands :
              containers[test.results[i].name].code = "zero"
        /\ \A i, j \in 1..Commands :
              test.results[i].name = test.results[j].name => i = j

\* Whatever a command does, and whenever the time limit strikes, a container is
\* alive only while the operation that started it watches over it, as long as
\* Docker does what it is asked and the controller is not killed.
NothingIsLeftRunning ==
    faults = 0 =>
        \A n \in Names :
            Alive(n) => test.pc \in {"run", "rm"} /\ test.name = n

\* A test comes to an end, whatever hangs inside the container or the daemon.
TestEnds == test.pc # "idle" ~> test.pc = "idle"
=============================================================================
