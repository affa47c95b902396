---------------------------- MODULE MCProcMan ----------------------------
(***************************************************************************)
(* Small systems around the process manager, one in each part of the run.  *)
(* Task 0 is the kernel task, 1 the scheduler's, 2 the process manager and *)
(* 3 the file system server, as at boot; 4 and 5 are programs.  Tasks 6    *)
(* and 7 are created in part "life", and in part "races" 6 is init.        *)
(***************************************************************************)
EXTENDS Sleepers

CONSTANT Parts
VARIABLE part

allVars == <<part, vars, sleepers>>

MCTask == 0..MaxTask
MCPayload == [type : Type, value : 0..(Word - 1)]
Command1(from, type, value) ==
  [from |-> from, to |-> PROCMAN, payload |-> [type |-> type, value |-> value]]
FileRequest(from) ==
  [from |-> from, to |-> 3, payload |-> [type |-> "pcMorecore", value |-> 0]]
FileAnswer == [from |-> 3, payload |-> [type |-> "prOk", value |-> 0]]

MCAnswers == {FileAnswer}

\* Processes that come and go: the file system announces itself, 4 starts
\* threads and processes, 4 and every created task die; 5 is init, which never
\* blocks.
LifeCalls == {Command1(3, "pcSetRootFS", 0), Command1(4, "pcStartThread", 0),
              Command1(4, "pcGetRootFS", 0), FileRequest(4),
              Command1(3, "pcMorecore", 0)}
             \cup {Command1(t, "pcDie", 0) : t \in {4} \cup 6..MaxTask}

\* Delays and waits and their races: 3 is a server that delays itself, 4 calls
\* it, delays itself and waits for 5 or for a task that never existed; 6 never
\* blocks.
RaceCalls == {Command1(3, "pcDelay", 1), Command1(4, "pcDelay", 2),
              Command1(4, "pcDie", 0), FileRequest(4),
              Command1(4, "pcWaitDie", 5), Command1(5, "pcDelay", 2),
              Command1(5, "pcDie", 0), Command1(4, "pcWaitDie", Word - 1)}

\* A server that delays itself, and its client.
DelayCalls == {Command1(3, "pcDelay", 1), FileRequest(4)}

\* A program that waits for two others, as the shell does for its commands.
WaitCalls == {Command1(4, "pcWaitDie", 5), Command1(4, "pcWaitDie", 3),
              Command1(5, "pcDie", 0)}

Races == INSTANCE Sleepers WITH Boot <- 0..6, Launchers <- {}, Calls <- RaceCalls
Delays == INSTANCE Sleepers WITH Launchers <- {}, Calls <- DelayCalls
Waits == INSTANCE Sleepers WITH Launchers <- {}, Calls <- WaitCalls

AllInit == /\ part \in Parts
           /\ IF part = "races" THEN Races!SleepersInit ELSE SleepersInit

AllNext == /\ \/ part = "life" /\ Next
              \/ part = "races" /\ Races!Next
              \/ part = "delays" /\ Delays!Next
              \/ part = "waits" /\ Waits!Next
           /\ Recorded /\ UNCHANGED part

AllSpec == AllInit /\ [][AllNext]_allVars

=============================================================================
