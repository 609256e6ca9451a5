------------------------- MODULE NativeBridgeProofs -------------------------
(***************************************************************************)
(* Proofs about the Python bridge and the client it runs: composed with it,*)
(* the client keeps what it promises, the bridge adds its own, and both    *)
(* are what a coordinator takes a client for (ClientRun).                  *)
(***************************************************************************)
EXTENDS NativeBridge, RemoteClientProofs

(* The client starts after its files are written and never runs once the   *)
(* call has left its try block.                                            *)
ProcessInv ==
  /\ at \in {"prepare", "start", "wait", "cleanup", "done"}
  /\ child \in {"none", "running", "printed", "silent"}
  /\ outcome \in Outcomes /\ mishaps \subseteq {"crash", "unlink"}
  /\ at \in {"prepare", "start"} => child = "none"
  /\ at = "wait" => child # "none"
  /\ at \in {"cleanup", "done"} => child # "running" /\ outcome # "none"
  /\ at \notin {"cleanup", "done"} => outcome = "none"
  /\ at = "wait" /\ child = "silent" => "crash" \in mishaps
  /\ at # "done" => "unlink" \notin mishaps

ScriptsInv ==
  /\ scripts \in 0..Steps
  /\ at \in {"start", "wait"} /\ Mutating => scripts = Steps
  /\ at = "done" /\ "unlink" \notin mishaps => scripts = 0

PlanInv ==
  /\ planFile \in BOOLEAN
  /\ at = "prepare" => Mutating /\ ~planFile
  /\ at \in {"start", "wait"} /\ Mutating => planFile
  /\ at = "done" /\ "unlink" \notin mishaps => ~planFile

FilesInv == ScriptsInv /\ PlanInv

(* A client that was never started has sent nothing, and one that printed  *)
(* its result is over.                                                     *)
ChildInv ==
  /\ child = "none" => \A n \in Nodes : executed[n] = <<>> /\ job[n] = Idle
  /\ child = "printed" => pc = "done"

(* The outcome is the printed report, unless something went wrong outside  *)
(* the protocol.                                                           *)
OutcomeInv ==
  /\ outcome = "returned" =>
       /\ child = "printed"
       /\ status = "succeeded" \/ (status = "failed" /\ data # None)
  /\ outcome \in {"error", "unavailable"} /\ mishaps = {} /\ Mutating =>
       \/ child = "none"
       \/ child = "printed" /\ status = "failed" /\ data = None

BridgeInv == ProcessInv /\ FilesInv /\ ChildInv /\ OutcomeInv

-----------------------------------------------------------------------------
(* A run of the bridge is, for the client, a run of the client.            *)
LEMMA BridgeStepIsClientStep == [BridgeNext]_allVars => [Next]_vars
<1>1. ASSUME \/ WriteScript \/ WritePlan \/ WriteFileFails \/ Start \/ StartFails
             \/ ClientExits \/ DeadlineKills \/ NoStructuredResult \/ ParseResult
             \/ Cleanup \/ CleanupFails \/ ClientCrashes
      PROVE  UNCHANGED vars
  BY <1>1
     DEF WriteScript, WritePlan, WriteFileFails, Start, StartFails, ClientExits,
         DeadlineKills, NoStructuredResult, ParseResult, Cleanup, CleanupFails,
         ClientCrashes
<1>2. ASSUME ClientRuns \/ EditorsMove
      PROVE  Next
  BY <1>2 DEF ClientRuns, EditorsMove, Next
<1>3. UNCHANGED allVars => UNCHANGED vars
  BY DEF allVars
<1> QED
  BY <1>1, <1>2, <1>3 DEF BridgeNext, Bridge

(* So what was proved of the client alone holds in the composition.        *)
THEOREM BridgeRunsClient == BridgeSpec => Spec
<1>1. BridgeInit => Init
  BY DEF BridgeInit
<1> QED
  BY <1>1, BridgeStepIsClientStep, PTL DEF BridgeSpec, Spec

-----------------------------------------------------------------------------
LEMMA StepsNatural == Steps \in Nat /\ 0 < Steps
  BY ConstantsAssumption

LEMMA BridgeInitInv == BridgeInit => BridgeInv
<1> SUFFICES ASSUME BridgeInit
             PROVE  BridgeInv
  OBVIOUS
<1>1. ProcessInv
  BY DEF BridgeInit, ProcessInv, Outcomes, Mutating
<1>2. ScriptsInv
  BY StepsNatural DEF BridgeInit, ScriptsInv, Mutating
<1>3. PlanInv
  BY DEF BridgeInit, PlanInv, Mutating
<1>4. ChildInv /\ OutcomeInv
  BY DEF BridgeInit, Init, ChildInv, OutcomeInv
<1> QED
  BY <1>1, <1>2, <1>3, <1>4 DEF BridgeInv, FilesInv

(* The client and the nodes leave the subcommand alone.                    *)
LEMMA ModeKept == [Next]_vars => mode' = mode
  BY DEF Next, Client, Environment, PongArrives, DiscoveryEnds, DiscoveryFails,
         SelectNode, NoVerifiedNode, Accepted, ConnectionTimesOut, StreamFails, OpenFails,
         WriteProbe, ProbeRejected, ProbeMatches, WriteCommand, Write, SetupFails,
         WriteFails, ResultLost, Abandon, ResultArrives, ReadFragment,
         NodeExecutes, NodeAnswers, vars, taskVars

(* What the parsed result says of the report.                              *)
LEMMA Classified ==
  ASSUME ClientInv, pc = "done"
  PROVE  /\ Classify \in Outcomes \ {"none"}
         /\ Classify = "returned" =>
              status = "succeeded" \/ (status = "failed" /\ data # None)
         /\ Classify \in {"error", "unavailable"} => status = "failed" /\ data = None
<1>1. status \in {"succeeded", "failed", "outcome_unknown"}
  BY DEF ClientInv, TypeOK, ReportInv
<1>2. CASE status = "outcome_unknown"
  <2>1. Classify = "outcome_unknown"
    BY <1>2 DEF Classify
  <2> QED
    BY <2>1 DEF Outcomes
<1>3. CASE status = "failed" /\ data = None /\ Mutating
  <2>1. Classify = "error"
    BY <1>3 DEF Classify
  <2> QED
    BY <1>3, <2>1 DEF Outcomes
<1>4. CASE status = "failed" /\ data = None /\ ~Mutating
  <2>1. Classify = "unavailable"
    BY <1>4 DEF Classify
  <2> QED
    BY <1>4, <2>1 DEF Outcomes
<1>5. CASE status = "succeeded" \/ (status = "failed" /\ data # None)
  <2>1. Classify = "returned"
    BY <1>5 DEF Classify
  <2> QED
    BY <1>5, <2>1 DEF Outcomes
<1> QED
  BY <1>1, <1>2, <1>3, <1>4, <1>5

(* Steps of the bridge process, which leave client and nodes alone.        *)
LEMMA BridgeKeeps ==
  ASSUME BridgeInv, ClientInv,
         \/ WriteScript \/ WritePlan \/ WriteFileFails \/ Start \/ StartFails
         \/ ClientExits \/ DeadlineKills \/ NoStructuredResult \/ ParseResult
         \/ Cleanup \/ CleanupFails \/ ClientCrashes
  PROVE  BridgeInv'
<1> USE DEF BridgeInv, FilesInv, Mutating
<1>1. UNCHANGED <<mode, pc, status, data, job, executed>>
  BY DEF WriteScript, WritePlan, WriteFileFails, Start, StartFails, ClientExits,
         DeadlineKills, NoStructuredResult, ParseResult, Cleanup, CleanupFails,
         ClientCrashes, vars, taskVars, clientVars, reportVars, nodeVars
<1>2. CASE WriteScript \/ WritePlan \/ Start
  <2>1. /\ at \in {"prepare", "start"} /\ outcome' = outcome /\ mishaps' = mishaps
        /\ \/ at' = at /\ child' = child /\ at = "prepare" /\ planFile' = planFile
              /\ scripts < Steps /\ scripts' = scripts + 1
           \/ at' = "start" /\ child' = child /\ planFile' = TRUE
              /\ scripts = Steps /\ scripts' = scripts
           \/ at' = "wait" /\ child' = "running" /\ at = "start"
              /\ UNCHANGED <<planFile, scripts>>
    BY <1>2 DEF WriteScript, WritePlan, Start
  <2>2. ProcessInv'
    BY <2>1 DEF ProcessInv
  <2>3. ScriptsInv'
    BY <1>1, <2>1, StepsNatural DEF ScriptsInv
  <2>4. PlanInv'
    <3>1. CASE at' = at /\ at = "prepare" /\ planFile' = planFile
      BY <1>1, <2>1, <3>1 DEF PlanInv
    <3>2. CASE at' = "start" /\ planFile' = TRUE
      BY <3>2 DEF PlanInv
    <3>3. CASE at' = "wait" /\ at = "start" /\ planFile' = planFile
      BY <1>1, <3>3 DEF PlanInv
    <3> QED
      BY <2>1, <3>1, <3>2, <3>3
  <2>5. ChildInv' /\ OutcomeInv'
    BY <1>1, <2>1 DEF ProcessInv, ChildInv, OutcomeInv
  <2> QED
    BY <2>2, <2>3, <2>4, <2>5
<1>3. CASE WriteFileFails \/ StartFails
  <2>1. /\ at \in {"prepare", "start"} /\ at' = "cleanup" /\ child' = child
        /\ outcome' \in {"error", "unavailable"} /\ mishaps' = mishaps
        /\ \/ scripts < Steps /\ scripts' = scripts + 1 /\ planFile' = planFile
           \/ planFile' = TRUE /\ scripts' = scripts
           \/ UNCHANGED <<scripts, planFile>>
    BY <1>3 DEF WriteFileFails, StartFails, Leave
  <2>2. ProcessInv'
    BY <2>1 DEF ProcessInv, Outcomes
  <2>3. ScriptsInv'
    BY <2>1, StepsNatural DEF ScriptsInv
  <2>4. PlanInv'
    BY <2>1 DEF PlanInv
  <2>5. ChildInv' /\ OutcomeInv'
    BY <1>1, <2>1 DEF ProcessInv, ChildInv, OutcomeInv
  <2> QED
    BY <2>2, <2>3, <2>4, <2>5
<1>4. CASE ClientExits \/ ClientCrashes
  <2>1. /\ child = "running" /\ UNCHANGED <<at, scripts, planFile, outcome>>
        /\ \/ child' = "printed" /\ pc = "done" /\ mishaps' = mishaps
           \/ child' = "silent" /\ mishaps' = mishaps \cup {"crash"}
    BY <1>4 DEF ClientExits, ClientCrashes
  <2>2. at = "wait" /\ outcome = "none"
    BY <2>1 DEF ProcessInv
  <2>3. ProcessInv' /\ FilesInv'
    BY <1>1, <2>1, <2>2 DEF ProcessInv, ScriptsInv, PlanInv
  <2>4. ChildInv' /\ OutcomeInv'
    BY <1>1, <2>1, <2>2 DEF ChildInv, OutcomeInv
  <2> QED
    BY <2>3, <2>4
<1>5. CASE DeadlineKills \/ NoStructuredResult
  <2>1. /\ at = "wait" /\ at' = "cleanup" /\ child' = "silent"
        /\ UNCHANGED <<scripts, planFile, mishaps>>
        /\ \/ outcome' = (IF Mutating THEN "outcome_unknown" ELSE "unavailable")
           \/ outcome' = "error" /\ child = "silent"
    BY <1>5 DEF DeadlineKills, NoStructuredResult, Leave
  <2>2. ProcessInv' /\ FilesInv'
    BY <1>1, <2>1 DEF ProcessInv, ScriptsInv, PlanInv, Outcomes
  <2>3. ChildInv' /\ OutcomeInv'
    BY <1>1, <2>1 DEF ProcessInv, ChildInv, OutcomeInv
  <2> QED
    BY <2>2, <2>3
<1>6. CASE ParseResult
  <2>1. /\ at = "wait" /\ at' = "cleanup" /\ child = "printed" /\ child' = child
        /\ outcome' = Classify /\ UNCHANGED <<scripts, planFile, mishaps>>
    BY <1>6 DEF ParseResult, Leave
  <2>2. /\ outcome' \in Outcomes \ {"none"}
        /\ outcome' = "returned" =>
             status = "succeeded" \/ (status = "failed" /\ data # None)
        /\ outcome' \in {"error", "unavailable"} => status = "failed" /\ data = None
    BY <2>1, Classified DEF ChildInv
  <2>3. ProcessInv' /\ FilesInv'
    BY <1>1, <2>1, <2>2 DEF ProcessInv, ScriptsInv, PlanInv
  <2>4. ChildInv' /\ OutcomeInv'
    BY <1>1, <2>1, <2>2 DEF ChildInv, OutcomeInv
  <2> QED
    BY <2>3, <2>4
<1>7. CASE Cleanup
  <2>1. /\ at = "cleanup" /\ at' = "done" /\ planFile' = FALSE /\ scripts' = 0
        /\ UNCHANGED <<child, outcome, mishaps>>
    BY <1>7 DEF Cleanup
  <2>2. ProcessInv'
    BY <2>1 DEF ProcessInv
  <2>3. ScriptsInv'
    BY <2>1, StepsNatural DEF ProcessInv, ScriptsInv
  <2>4. PlanInv'
    BY <2>1 DEF PlanInv
  <2>5. ChildInv' /\ OutcomeInv'
    BY <1>1, <2>1 DEF ChildInv, OutcomeInv
  <2> QED
    BY <2>2, <2>3, <2>4, <2>5
<1>8. CASE CleanupFails
  <2>1. /\ at = "cleanup" /\ at' = "done" /\ outcome' = "error" /\ child' = child
        /\ mishaps' = mishaps \cup {"unlink"}
        /\ \/ UNCHANGED <<planFile, scripts>>
           \/ planFile' = FALSE /\ scripts' \in 1..scripts
    BY <1>8 DEF CleanupFails
  <2>2. ProcessInv'
    BY <2>1 DEF ProcessInv, Outcomes
  <2>3. ScriptsInv'
    BY <2>1, StepsNatural DEF ProcessInv, ScriptsInv
  <2>4. PlanInv'
    BY <2>1 DEF PlanInv
  <2>5. ChildInv' /\ OutcomeInv'
    BY <1>1, <2>1 DEF ChildInv, OutcomeInv
  <2> QED
    BY <2>2, <2>3, <2>4, <2>5
<1> QED
  BY <1>2, <1>3, <1>4, <1>5, <1>6, <1>7, <1>8

(* Only a running client moves; the nodes move at any time, but a node that*)
(* was never sent anything has nothing to do.                              *)
LEMMA ClientAndNodesKeep ==
  ASSUME BridgeInv, ClientRuns \/ EditorsMove
  PROVE  BridgeInv'
<1> USE DEF BridgeInv, FilesInv, Mutating
<1>1. UNCHANGED bridgeVars /\ mode' = mode
  BY ModeKept DEF ClientRuns, EditorsMove, Next
<1>2. ProcessInv' /\ FilesInv'
  BY <1>1 DEF ProcessInv, ScriptsInv, PlanInv, bridgeVars
<1>3. CASE ClientRuns
  <2>1. child = "running" /\ outcome = "none"
    BY <1>3 DEF ClientRuns, ProcessInv
  <2> QED
    BY <1>1, <1>2, <2>1 DEF ChildInv, OutcomeInv, bridgeVars
<1>4. CASE EditorsMove
  <2>1. UNCHANGED <<pc, status, data>>
    BY <1>4 DEF EditorsMove, Environment, PongArrives, NodeExecutes, NodeAnswers,
                reportVars
  <2>2. ASSUME \A n \in Nodes : job[n] = Idle
        PROVE  UNCHANGED <<job, executed>>
    <3>1. ASSUME NEW n \in Nodes
          PROVE  ~NodeExecutes(n) /\ ~NodeAnswers(n)
      BY <2>2 DEF NodeExecutes, NodeAnswers, Idle
    <3>2. PongArrives
      BY <1>4, <3>1 DEF EditorsMove, Environment
    <3> QED
      BY <3>2 DEF PongArrives, nodeVars
  <2> QED
    BY <1>1, <1>2, <2>1, <2>2 DEF ChildInv, OutcomeInv, bridgeVars
<1> QED
  BY <1>3, <1>4

LEMMA BridgeStepKeeps == BridgeInv /\ ClientInv /\ [BridgeNext]_allVars => BridgeInv'
<1> SUFFICES ASSUME BridgeInv, ClientInv, [BridgeNext]_allVars
             PROVE  BridgeInv'
  OBVIOUS
<1>1. CASE UNCHANGED allVars
  <2>1. UNCHANGED <<bridgeVars, mode, pc, status, data, job, executed>>
    BY <1>1 DEF allVars, vars, taskVars, clientVars, reportVars, nodeVars
  <2>2. ProcessInv' /\ FilesInv'
    BY <2>1 DEF BridgeInv, FilesInv, ProcessInv, ScriptsInv, PlanInv, Mutating,
                bridgeVars
  <2>3. ChildInv' /\ OutcomeInv'
    BY <2>1 DEF BridgeInv, ChildInv, OutcomeInv, Mutating, bridgeVars
  <2> QED
    BY <2>2, <2>3 DEF BridgeInv
<1>2. CASE ClientRuns \/ EditorsMove
  BY <1>2, ClientAndNodesKeep
<1>3. CASE \/ WriteScript \/ WritePlan \/ WriteFileFails \/ Start \/ StartFails
           \/ ClientExits \/ DeadlineKills \/ NoStructuredResult \/ ParseResult
           \/ Cleanup \/ CleanupFails \/ ClientCrashes
  BY <1>3, BridgeKeeps
<1> QED
  BY <1>1, <1>2, <1>3 DEF BridgeNext, Bridge

LEMMA BridgeInductive == BridgeSpec => [](ClientInv /\ BridgeInv)
<1>1. BridgeInv /\ ClientInv /\ [BridgeNext]_allVars => BridgeInv'
  BY BridgeStepKeeps
<1> QED
  BY BridgeRunsClient, Inductive, BridgeInitInv, <1>1, PTL DEF BridgeSpec

-----------------------------------------------------------------------------
(* Every variable of the two processes keeps its type, for any number of   *)
(* scripts and wherever the client or the removal of a file fails.         *)
THEOREM BridgeTypes == BridgeSpec => []BridgeTypeOK
<1>1. ClientInv /\ BridgeInv => BridgeTypeOK
  BY DEF ClientInv, BridgeInv, FilesInv, ProcessInv, ScriptsInv, PlanInv,
         BridgeTypeOK
<1> QED
  BY BridgeInductive, <1>1, PTL

(* A plan that main_processor reports as completed has run to its end, in  *)
(* order, in the one Editor that proved its identity (execute_many).       *)
THEOREM CompletedIsWhole == BridgeSpec => []CompletedMeansWholePlan
<1>1. ClientInv /\ BridgeInv => CompletedMeansWholePlan
  <2> SUFFICES ASSUME ClientInv, BridgeInv, Mutating, outcome = "returned", Good(data)
               PROVE  /\ Len(data) = Steps
                      /\ executed[verified] = [i \in 1..Steps |-> i]
    BY DEF CompletedMeansWholePlan
  <2>1. /\ pc = "done" /\ mode = "plan"
        /\ status = "succeeded" \/ (status = "failed" /\ data # None)
    BY DEF BridgeInv, OutcomeInv, ChildInv, Mutating
  <2>2. CASE status = "succeeded"
    <3>1. WholePlan
      BY <2>1, <2>2 DEF ClientInv, ReportInv
    <3>2. executed[node] = [i \in 1..Len(executed[node]) |-> i]
      BY <3>1 DEF WholePlan, ClientInv, NodesInv
    <3> QED
      BY <3>1, <3>2 DEF WholePlan
  <2>3. CASE status = "failed" /\ data # None
    <3>1. ~data[Len(data)] /\ Len(data) > 0 /\ data \in Seq(BOOLEAN)
      BY <2>1, <2>3 DEF ClientInv, TypeOK, ReportInv, Stopped
    <3>2. Len(data) \in DOMAIN data
      BY <3>1
    <3> QED
      BY <3>1, <3>2 DEF Good
  <2> QED
    BY <2>1, <2>2, <2>3
<1> QED
  BY BridgeInductive, <1>1, PTL

(* While the client prints a result or is killed by the deadline, a run    *)
(* reported as failed left no step unanswered in any Editor.               *)
THEOREM KnownFailures == BridgeSpec => []FailureIsKnown
<1>1. ClientInv /\ BridgeInv => FailureIsKnown
  <2> SUFFICES ASSUME ClientInv, BridgeInv, Mutating, mishaps = {},
                      outcome \in {"error", "unavailable"},
                      NEW n \in Nodes, executed[n] # <<>>
               PROVE  Len(executed[n]) = Len(results) /\ Good(results)
    BY DEF FailureIsKnown, Begun
  <2>1. child = "printed" /\ status = "failed" /\ data = None /\ pc = "done"
    BY DEF BridgeInv, OutcomeInv, ChildInv
  <2>2. KnownFailure
    BY <2>1 DEF ClientInv, ReportInv
  <2> QED
    BY <2>2 DEF KnownFailure, AllGood, Good
<1> QED
  BY BridgeInductive, <1>1, PTL

(* The temporary files are there while the client runs, and gone when the  *)
(* call returns, unless their removal itself failed.                       *)
THEOREM FilesKept == BridgeSpec => []FilesOutliveClient
<1>1. BridgeInv => FilesOutliveClient
  BY DEF BridgeInv, FilesInv, ProcessInv, ScriptsInv, PlanInv, FilesOutliveClient
<1> QED
  BY BridgeInductive, <1>1, PTL

(* Started, watched and killed by the bridge, the client still keeps the   *)
(* whole of its promise, up to the moment it is stopped.                   *)
THEOREM BridgeKeepsPromise == BridgeSpec => KeepsPromise
  BY BridgeRunsClient, ClientKeepsPromise, PTL

-----------------------------------------------------------------------------
(* The interface at which Lifecycle meets the bridge.  A script reaches    *)
(* only a verified Editor, and stays there; what is reported fits the      *)
(* phase the run was in.                                                   *)
PhaseInv ==
  /\ Reached => mode = "plan" /\ verified # None
  /\ \A n \in Nodes : executed[n] # <<>> => job[n].command # Probe
  /\ status = "succeeded" => verified # None
  /\ status = "outcome_unknown" => mode = "plan"
  /\ outcome = "outcome_unknown" => mode = "plan"
  /\ outcome = "unavailable" /\ mode = "plan" => child = "none"
  /\ mode = "verify" => ~planFile /\ scripts = 0

(* What a step of the client or of a node means for the phase.             *)
Stays == Reached' = Reached /\ verified' = verified
Binds == ~Reached /\ ~Reached' /\ verified = None /\ verified' # None
Sends == ~Reached /\ Reached' /\ verified # None /\ verified' = verified
         /\ mode = "plan"

(* A node does not change what it was sent, and starts nothing else.       *)
LEMMA NodesKeepCommands ==
  ASSUME ClientInv, NEW m \in Nodes, NodeExecutes(m) \/ NodeAnswers(m)
  PROVE  /\ UNCHANGED <<verified, status, data>>
         /\ \A n \in Nodes : job'[n].command = job[n].command
         /\ \A n \in Nodes : executed'[n] = executed[n] \/ job[n].command # Probe
<1>1. UNCHANGED <<verified, status, data>>
  BY DEF NodeExecutes, NodeAnswers, candidateVars, reportVars
<1>2. job \in [Nodes -> Jobs] /\ executed \in [Nodes -> Seq(1..Steps)]
  BY DEF ClientInv, TypeOK, Jobs
<1>3. CASE NodeExecutes(m)
  BY <1>1, <1>2, <1>3 DEF NodeExecutes, Jobs
<1>4. CASE NodeAnswers(m)
  <2>1. PICK ok \in BOOLEAN :
          job' = [job EXCEPT ![m].stage = "answered", ![m].ok = ok]
    BY <1>4 DEF NodeAnswers
  <2>2. \A n \in Nodes : job'[n].command = job[n].command
    BY <1>2, <2>1 DEF Jobs
  <2>3. executed' = executed
    BY <1>4 DEF NodeAnswers
  <2> QED
    BY <1>1, <2>2, <2>3
<1> QED
  BY <1>3, <1>4

LEMMA ClientPhases ==
  ASSUME ClientInv, PhaseInv, [Next]_vars
  PROVE  /\ Stays \/ Binds \/ Sends
         /\ \A n \in Nodes : executed'[n] # <<>> => job'[n].command # Probe
         /\ status' = "succeeded" => verified' # None
         /\ status' = "outcome_unknown" => mode = "plan"
<1>1. None \notin Nodes
  BY ConstantsAssumption
<1>2. CASE UNCHANGED <<job, executed, verified, status>>
  BY <1>2 DEF Stays, Reached, PhaseInv
<1>3. CASE \/ DiscoveryFails \/ NoVerifiedNode \/ StreamFails \/ OpenFails \/ SetupFails
           \/ WriteFails \/ ResultLost \/ ResultArrives
  <2>1. UNCHANGED <<job, executed, verified>>
    BY <1>3 DEF DiscoveryFails, NoVerifiedNode, StreamFails, OpenFails, SetupFails, WriteFails,
                ResultLost, ResultArrives, Abandon, candidateVars, nodeVars
  <2>2. /\ status' = "succeeded" => pc = "await" \/ status = "succeeded"
        /\ status' = "outcome_unknown" =>
             pc \in Sending \/ status = "outcome_unknown"
    BY <1>3 DEF DiscoveryFails, NoVerifiedNode, StreamFails, OpenFails, SetupFails, WriteFails,
                ResultLost, ResultArrives, Abandon, Exit, Sending, reportVars
  <2>3. pc \in Sending => mode = "plan" /\ verified # None
    BY <1>1 DEF ClientInv, SearchInv
  <2> QED
    BY <2>1, <2>2, <2>3 DEF Stays, Reached, PhaseInv, Sending
<1>4. CASE ProbeMatches
  <2>1. /\ verified' = node /\ node # None /\ verified = None
        /\ UNCHANGED <<job, executed>>
        /\ status' \in {status, "succeeded"} /\ status = "none"
    BY <1>1, <1>4 DEF ProbeMatches, Exit, ClientInv, SearchInv, Trying, Sending,
                      reportVars, nodeVars
  <2> QED
    BY <2>1 DEF Binds, Reached, PhaseInv
<1>5. CASE WriteProbe \/ WriteCommand
  <2>1. /\ node \in Nodes /\ job \in [Nodes -> Jobs]
        /\ UNCHANGED <<executed, verified, status>>
    BY <1>5 DEF WriteProbe, WriteCommand, Write, ClientInv, SearchInv, TypeOK,
                Trying, Sending, Jobs, candidateVars, reportVars
  <2>2. CASE job' = job
    BY <2>1, <2>2 DEF Stays, Reached, PhaseInv
  <2>3. CASE WriteProbe /\ job' # job
    <3>1. /\ verified = None
          /\ job' = [job EXCEPT ![node] =
               [command |-> Probe, stage |-> "queued", ok |-> FALSE]]
      BY <2>3 DEF WriteProbe, Write, ClientInv, SearchInv, Sending
    <3>2. \A n \in Nodes : job'[n].command = Probe
      BY <2>1, <3>1 DEF PhaseInv, Reached
    <3> QED
      BY <2>1, <3>1, <3>2 DEF Stays, Reached, PhaseInv
  <2>4. CASE WriteCommand /\ job' # job
    <3>1. /\ mode = "plan" /\ verified = node /\ index # Probe
          /\ job' = [job EXCEPT ![node] =
               [command |-> index, stage |-> "queued", ok |-> FALSE]]
      BY <2>4 DEF WriteCommand, Write, ClientInv, SearchInv, TypeOK, Sending, Probe
    <3>2. job'[node].command # Probe
      BY <2>1, <3>1
    <3>3. \A n \in Nodes \ {node} : job'[n] = job[n]
      BY <2>1, <3>1
    <3> QED
      BY <1>1, <2>1, <3>1, <3>2, <3>3 DEF Stays, Sends, Reached, PhaseInv
  <2> QED
    BY <1>5, <2>2, <2>3, <2>4
<1>6. ASSUME NEW m \in Nodes, NodeExecutes(m) \/ NodeAnswers(m)
      PROVE  /\ Stays /\ status' = status
             /\ \A n \in Nodes : executed'[n] # <<>> => job'[n].command # Probe
  <2>1. /\ verified' = verified /\ status' = status
        /\ \A n \in Nodes : job'[n].command = job[n].command
        /\ \A n \in Nodes : executed'[n] = executed[n] \/ job[n].command # Probe
    BY <1>6, NodesKeepCommands
  <2> QED
    BY <2>1 DEF Stays, Reached, PhaseInv
<1>7. CASE \E m \in Nodes : NodeExecutes(m) \/ NodeAnswers(m)
  BY <1>6, <1>7 DEF Stays, PhaseInv
<1>8. CASE \/ PongArrives \/ DiscoveryEnds \/ SelectNode \/ Accepted
           \/ ConnectionTimesOut \/ ProbeRejected \/ ReadFragment
           \/ UNCHANGED vars
  BY <1>2, <1>8 DEF PongArrives, DiscoveryEnds, SelectNode, Accepted,
       ConnectionTimesOut, ProbeRejected, ReadFragment, vars, clientVars,
       candidateVars, reportVars, nodeVars
<1> QED
  BY <1>3, <1>4, <1>5, <1>7, <1>8 DEF Next, Client, Environment

(* PhaseInv holds, and every step of bridge and client is one of ClientRun.*)
LEMMA BridgePhases ==
  ASSUME ClientInv, BridgeInv, PhaseInv, [BridgeNext]_allVars
  PROVE  PhaseInv' /\ Interface!Step
<1> USE DEF Mutating
<1>1. CASE UNCHANGED allVars
  <2>1. UNCHANGED <<mode, verified, status, data, job, executed, at, child,
                   outcome, planFile, scripts>>
    BY <1>1 DEF allVars, vars, bridgeVars, taskVars, clientVars, candidateVars,
                reportVars, nodeVars
  <2>2. UNCHANGED <<Phase, mode = "plan">>
    BY <2>1 DEF Phase, Result, Reached, Good
  <2> QED
    BY <2>1, <2>2 DEF PhaseInv, Reached, Interface!Step, Interface!clientRunVars
<1>2. CASE ClientRuns \/ EditorsMove
  <2>1. /\ UNCHANGED <<mode, at, child, outcome, planFile, scripts>>
        /\ [Next]_vars
    BY <1>2, ModeKept DEF ClientRuns, EditorsMove, Next, bridgeVars
  <2>2. PhaseInv'
    BY <2>1, ClientPhases DEF PhaseInv, Stays, Binds, Sends
  <2>3. CASE at = "done"
    <3>1. EditorsMove
      BY <1>2, <2>3 DEF ClientRuns, BridgeInv, ProcessInv
    <3>2. UNCHANGED data /\ Reached' = Reached
      <4>1. CASE PongArrives
        BY <4>1 DEF PongArrives, Reached, nodeVars, reportVars
      <4>2. CASE \E m \in Nodes : NodeExecutes(m) \/ NodeAnswers(m)
        BY <4>2, NodesKeepCommands DEF Reached
      <4> QED
        BY <3>1, <4>1, <4>2 DEF EditorsMove, Environment
    <3> QED
      BY <2>1, <2>2, <2>3, <3>2
         DEF Phase, Result, Good, Interface!Step, Interface!clientRunVars
  <2>4. CASE at # "done"
    <3>1. Stays => Phase' = Phase
      BY <2>1, <2>4 DEF Stays, Phase
    <3>2. Binds => Phase = "probing" /\ Phase' = "bound"
      BY <2>1, <2>4 DEF Binds, Phase
    <3>3. Sends => Phase = "bound" /\ Phase' = "sent"
      BY <2>1, <2>4 DEF Sends, Phase
    <3>4. CASE Stays
      BY <2>1, <2>2, <3>1, <3>4 DEF Interface!Step, Interface!clientRunVars
    <3>5. CASE Binds
      BY <2>1, <2>2, <3>2, <3>5
         DEF Interface!Step, Interface!Next, Interface!Runs, Interface!Verify,
             Interface!Moves
    <3>6. CASE Sends
      BY <2>1, <2>2, <3>3, <3>6
         DEF Sends, Interface!Step, Interface!Next, Interface!Runs, Interface!Send,
             Interface!Moves
    <3> QED
      BY <2>1, <3>4, <3>5, <3>6, ClientPhases
  <2> QED
    BY <2>3, <2>4
<1>3. CASE \/ WriteScript \/ WritePlan \/ WriteFileFails \/ Start \/ StartFails
           \/ ClientExits \/ DeadlineKills \/ NoStructuredResult \/ ParseResult
           \/ ClientCrashes
  <2>1. /\ UNCHANGED <<mode, verified, status, job, executed>>
        /\ at # "done" /\ at' # "done"
    BY <1>3
       DEF WriteScript, WritePlan, WriteFileFails, Start, StartFails, ClientExits,
           DeadlineKills, NoStructuredResult, ParseResult, ClientCrashes, Leave,
           BridgeInv, ProcessInv, vars, taskVars, clientVars, candidateVars,
           reportVars, nodeVars
  <2>2. Phase' = Phase
    BY <2>1 DEF Phase, Reached
  <2>3. mode = "verify" => ~planFile' /\ scripts' = 0
    BY <1>3
       DEF WriteScript, WritePlan, WriteFileFails, Start, StartFails, ClientExits,
           DeadlineKills, NoStructuredResult, ParseResult, ClientCrashes, PhaseInv,
           BridgeInv, FilesInv, PlanInv
  <2>4. ASSUME outcome' # outcome
        PROVE  /\ outcome' = "outcome_unknown" => mode = "plan"
               /\ outcome' = "unavailable" /\ mode = "plan" => child' = "none"
    <3>1. CASE WriteFileFails \/ StartFails \/ NoStructuredResult \/ DeadlineKills
      BY <3>1 DEF WriteFileFails, StartFails, NoStructuredResult, DeadlineKills,
                  Leave, BridgeInv, ProcessInv
    <3>2. CASE ParseResult
      BY <3>2 DEF ParseResult, Leave, Classify, PhaseInv
    <3> QED
      BY <1>3, <2>4, <3>1, <3>2
         DEF WriteScript, WritePlan, Start, ClientExits, ClientCrashes
  <2>5. ASSUME outcome' = outcome
        PROVE  outcome' = "unavailable" /\ mode = "plan" => child' = "none"
    <3>1. outcome' = "unavailable" => at = "cleanup"
      BY <2>1, <2>5 DEF BridgeInv, ProcessInv
    <3> QED
      BY <1>3, <3>1
         DEF WriteScript, WritePlan, WriteFileFails, Start, StartFails, ClientExits,
             DeadlineKills, NoStructuredResult, ParseResult, ClientCrashes,
             BridgeInv, ProcessInv
  <2> QED
    BY <2>1, <2>2, <2>3, <2>4, <2>5
       DEF PhaseInv, Reached, Interface!Step, Interface!clientRunVars
<1>4. CASE Cleanup \/ CleanupFails
  <2>1. /\ UNCHANGED <<mode, verified, status, data, job, executed, child>>
        /\ at = "cleanup" /\ at' = "done" /\ mode \in {"verify", "plan"}
    BY <1>4 DEF Cleanup, CleanupFails, ClientInv, TypeOK, vars, taskVars, clientVars, candidateVars,
                reportVars, nodeVars
  <2>2. outcome' = outcome \/ (outcome' = "error" /\ mode = "plan")
    <3>1. planFile \/ scripts > 0 => mode = "plan"
      BY DEF PhaseInv, ClientInv, TypeOK
    <3> QED
      BY <1>4, <3>1 DEF Cleanup, CleanupFails
  <2>3. outcome \in {"returned", "unavailable", "error", "outcome_unknown"}
    BY <2>1 DEF BridgeInv, ProcessInv, Outcomes
  <2>4. PhaseInv'
    <3>1. mode = "verify" => ~planFile' /\ scripts' = 0
      BY <1>4 DEF Cleanup, CleanupFails, PhaseInv
    <3> QED
      BY <2>1, <2>2, <3>1 DEF PhaseInv, Reached
  <2>5. Phase \in {"probing", "bound", "sent"} /\ (Phase = "sent" <=> Reached)
    BY <2>1 DEF Phase
  <2>6. Phase' = Result' /\ Reached' = Reached
    BY <2>1 DEF Phase, Reached
  <2>7. outcome' = "returned" =>
          /\ verified # None
          /\ mode = "plan" => Reached
    <3> SUFFICES ASSUME outcome = "returned"
                 PROVE  verified # None /\ (mode = "plan" => Reached)
      BY <2>2
    <3>1. pc = "done" /\ (status = "succeeded" \/ (status = "failed" /\ data # None))
      BY DEF BridgeInv, OutcomeInv, ChildInv
    <3>2. CASE status = "succeeded" /\ mode = "verify"
      BY <3>2 DEF PhaseInv
    <3>3. CASE (status = "succeeded" /\ mode = "plan") \/ status = "failed"
      <4>1. node \in Nodes /\ node = verified /\ Len(executed[node]) > 0
        BY <3>1, <3>3, StepsNatural DEF ClientInv, ReportInv, WholePlan, Stopped
      <4>2. executed[node] # <<>>
        BY <4>1
      <4> QED
        BY <4>1, <4>2, ConstantsAssumption DEF PhaseInv, Reached
    <3> QED
      BY <2>1, <3>1, <3>2, <3>3
  <2>8. CASE outcome' = "returned" /\ mode = "verify"
    <3>1. Phase = "bound" /\ Phase' = "bound"
      BY <2>1, <2>4, <2>6, <2>7, <2>8 DEF Phase, Result, PhaseInv
    <3> QED
      BY <2>1, <2>4, <3>1 DEF Interface!Step, Interface!clientRunVars
  <2>9. CASE outcome' = "returned" /\ mode = "plan"
    <3>1. Reached
      BY <2>7, <2>9
    <3>2. Phase' \in {"ok", "scriptFailed"}
      BY <2>1, <2>6, <2>9 DEF Result
    <3> QED
      BY <2>1, <2>4, <2>5, <3>1, <3>2
         DEF Interface!Step, Interface!Next, Interface!Runs, Interface!Answer,
             Interface!Moves
  <2>10. CASE outcome' = "unavailable"
    <3>1. ~Reached
      BY <2>1, <2>2, <2>10 DEF PhaseInv, BridgeInv, ChildInv, Reached, Idle
    <3>2. Phase' = "unverified"
      BY <2>6, <2>10 DEF Result
    <3> QED
      BY <2>1, <2>4, <2>5, <3>1, <3>2
         DEF Interface!Step, Interface!Next, Interface!Runs, Interface!GiveUp,
             Interface!Moves
  <2>11. CASE outcome' = "outcome_unknown"
    <3>1. mode = "plan" /\ Phase' = "unknown"
      BY <2>1, <2>4, <2>6, <2>11 DEF Result, PhaseInv
    <3> QED
      BY <2>1, <2>4, <2>5, <3>1
         DEF Interface!Step, Interface!Next, Interface!Runs, Interface!LoseTrack,
             Interface!Moves, Interface!AtWork
  <2>12. CASE outcome' = "error"
    <3>1. CASE mode = "plan" /\ ~Reached
      <4>1. Phase' = "unverified"
        BY <2>1, <2>6, <2>12, <3>1 DEF Result
      <4> QED
        BY <2>1, <2>4, <2>5, <3>1, <4>1
           DEF Interface!Step, Interface!Next, Interface!Runs, Interface!GiveUp,
               Interface!Moves
    <3>2. CASE mode # "plan" \/ Reached
      <4>1. Phase' = "crashed"
        BY <2>1, <2>6, <2>12, <3>2 DEF Result
      <4> QED
        BY <2>1, <2>4, <2>5, <4>1
           DEF Interface!Step, Interface!Next, Interface!Runs, Interface!Break,
               Interface!Moves, Interface!AtWork
    <3> QED
      BY <3>1, <3>2
  <2> QED
    BY <2>1, <2>2, <2>3, <2>8, <2>9, <2>10, <2>11, <2>12
<1> QED
  BY <1>1, <1>2, <1>3, <1>4 DEF BridgeNext, Bridge

(* Bridge and client implement the interface that Lifecycle relies on, for *)
(* any nodes, plans and failures: the two levels meet in ClientRun.        *)
THEOREM BridgeIsClientRun == BridgeSpec => KeepsInterface
<1>1. BridgeInit => PhaseInv /\ Interface!Init
  <2> SUFFICES ASSUME BridgeInit
               PROVE  PhaseInv /\ Interface!Init
    OBVIOUS
  <2>1. /\ \A n \in Nodes : job[n].command = Probe /\ executed[n] = <<>>
        /\ verified = None /\ status = "none" /\ outcome = "none"
        /\ at # "done" /\ ~planFile /\ scripts = 0
    BY DEF BridgeInit, Init, Idle
  <2>2. PhaseInv
    BY <2>1 DEF PhaseInv, Reached
  <2>3. Phase = "probing"
    BY <2>1 DEF Phase, Reached
  <2> QED
    BY <2>2, <2>3 DEF Interface!Init, Mutating
<1>2. ClientInv /\ BridgeInv /\ PhaseInv /\ [BridgeNext]_allVars
        => PhaseInv' /\ [Interface!Next]_Interface!clientRunVars
  BY BridgePhases DEF Interface!Step
<1> QED
  BY BridgeInductive, <1>1, <1>2, PTL DEF BridgeSpec, KeepsInterface, Interface!Spec
=============================================================================
