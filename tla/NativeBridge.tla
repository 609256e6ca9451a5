---------------------------- MODULE NativeBridge ----------------------------
(***************************************************************************)
(* The Python side of a native client run (scripts/native_transport.py):   *)
(* it writes the scripts and the plan to temporary files, starts the       *)
(* client under an outer deadline, turns what the client printed, or did   *)
(* not print, into a result, and removes the files.  The client itself is  *)
(* module RemoteClient; it is stopped where it stands by its death or by   *)
(* the deadline, and the Editors go on with what they have received.       *)
(***************************************************************************)
EXTENDS RemoteClientProperties

VARIABLES
  at,        \* where verify or execute_many is
  child,     \* the client process
  scripts,   \* temporary script files
  planFile,  \* is there a temporary plan file?
  outcome,   \* how verify or execute_many ends, see Outcomes
  mishaps    \* what went wrong outside the protocol (history)

bridgeVars == <<at, child, scripts, planFile, outcome, mishaps>>
allVars == <<vars, bridgeVars>>

(* results, NativeUnavailable, NativeTransportError or OSError, and        *)
(* NativeOutcomeUnknown; main_processor reports the second and the third   *)
(* of a script run as "failed", the last one as "outcome_unknown".         *)
Outcomes == {"none", "returned", "unavailable", "error", "outcome_unknown"}
Mutating == mode = "plan"

BridgeInit ==
  /\ Init
  /\ at = IF Mutating THEN "prepare" ELSE "start"
  /\ child = "none"
  /\ scripts = 0 /\ planFile = FALSE
  /\ outcome = "none"
  /\ mishaps = {}

(* The try block is left with this result; the finally clause follows.     *)
Leave(result) == at' = "cleanup" /\ outcome' = result

(* Mutant: one file too many.                                              *)
MutWriteScript ==
  /\ at = "prepare" /\ scripts <= Steps
  /\ scripts' = scripts + 1
  /\ UNCHANGED <<vars, at, child, planFile, outcome, mishaps>>

WriteScript ==
  /\ at = "prepare" /\ scripts < Steps
  /\ scripts' = scripts + 1
  /\ UNCHANGED <<vars, at, child, planFile, outcome, mishaps>>

WritePlan ==
  /\ at = "prepare" /\ scripts = Steps
  /\ planFile' = TRUE
  /\ at' = "start"
  /\ UNCHANGED <<vars, child, scripts, outcome, mishaps>>

(* mkstemp succeeds and the write fails: the file is there to be removed.  *)
WriteFileFails ==
  /\ at = "prepare"
  /\ \/ scripts < Steps /\ scripts' = scripts + 1 /\ UNCHANGED planFile
     \/ scripts = Steps /\ planFile' = TRUE /\ UNCHANGED scripts
     \/ UNCHANGED <<scripts, planFile>>
  /\ Leave("error")
  /\ UNCHANGED <<vars, child, mishaps>>

-----------------------------------------------------------------------------
(* _run                                                                    *)

Start ==
  /\ at = "start"
  /\ at' = "wait" /\ child' = "running"
  /\ UNCHANGED <<vars, scripts, planFile, outcome, mishaps>>

(* No binary, or it cannot be started.                                     *)
StartFails ==
  /\ at = "start"
  /\ Leave("unavailable")
  /\ UNCHANGED <<vars, child, scripts, planFile, mishaps>>

ClientRuns ==
  /\ child = "running" /\ Client
  /\ UNCHANGED bridgeVars

ClientExits ==
  /\ child = "running" /\ pc = "done"
  /\ child' = "printed"
  /\ UNCHANGED <<vars, at, scripts, planFile, outcome, mishaps>>

(* The client dies without its result line.                                *)
ClientCrashes ==
  /\ child = "running" /\ pc # "done"
  /\ child' = "silent"
  /\ mishaps' = mishaps \cup {"crash"}
  /\ UNCHANGED <<vars, at, scripts, planFile, outcome>>

(* Mutant: the deadline of a script run is an ordinary failure.            *)
MutDeadlineKills ==
  /\ at = "wait" /\ child = "running"
  /\ child' = "silent"
  /\ Leave("unavailable")
  /\ UNCHANGED <<vars, scripts, planFile, mishaps>>

(* TimeoutExpired: subprocess.run has killed the client.                   *)
DeadlineKills ==
  /\ at = "wait" /\ child = "running"
  /\ child' = "silent"
  /\ Leave(IF Mutating THEN "outcome_unknown" ELSE "unavailable")
  /\ UNCHANGED <<vars, scripts, planFile, mishaps>>

NoStructuredResult ==
  /\ at = "wait" /\ child = "silent"
  /\ Leave("error")
  /\ UNCHANGED <<vars, child, scripts, planFile, mishaps>>

(* Mutant: a plan that failed without results found no Editor to run in.   *)
MutClassify ==
  CASE status = "outcome_unknown" -> "outcome_unknown"
    [] status = "failed" /\ data = None -> "unavailable"
    [] OTHER -> "returned"

Classify ==
  CASE status = "outcome_unknown" -> "outcome_unknown"
    [] status = "failed" /\ data = None /\ Mutating -> "error"
    [] status = "failed" /\ data = None /\ ~Mutating -> "unavailable"
    [] OTHER -> "returned"

ParseResult ==
  /\ at = "wait" /\ child = "printed"
  /\ Leave(Classify)
  /\ UNCHANGED <<vars, child, scripts, planFile, mishaps>>

-----------------------------------------------------------------------------
(* Mutant: the finally clause forgets the plan.                            *)
MutCleanup ==
  /\ at = "cleanup"
  /\ at' = "done"
  /\ scripts' = 0
  /\ UNCHANGED <<vars, child, planFile, outcome, mishaps>>

Cleanup ==
  /\ at = "cleanup"
  /\ at' = "done"
  /\ planFile' = FALSE /\ scripts' = 0
  /\ UNCHANGED <<vars, child, outcome, mishaps>>

(* An unlink raises: its OSError takes the place of whatever was returned  *)
(* or raised, and the files after it stay.  verify has no files.           *)
CleanupFails ==
  /\ at = "cleanup" /\ (planFile \/ scripts > 0)
  /\ at' = "done" /\ outcome' = "error"
  /\ \/ planFile /\ UNCHANGED <<planFile, scripts>>
     \/ planFile' = FALSE /\ scripts' \in 1..scripts
  /\ mishaps' = mishaps \cup {"unlink"}
  /\ UNCHANGED <<vars, child>>

EditorsMove ==
  /\ at = "wait" \/ at = "cleanup" \/ at = "done"
  /\ Environment
  /\ UNCHANGED bridgeVars

Bridge ==
  \/ WriteScript \/ WritePlan \/ WriteFileFails \/ Start \/ StartFails
  \/ ClientRuns \/ ClientExits \/ DeadlineKills \/ NoStructuredResult
  \/ ParseResult \/ Cleanup \/ CleanupFails

BridgeNext == Bridge \/ ClientCrashes \/ EditorsMove

BridgeSpec == BridgeInit /\ [][BridgeNext]_allVars

(* The two processes are scheduled and every wait in them has a deadline;  *)
(* nothing is assumed of datagrams and nodes.                              *)
FairBridgeSpec == BridgeSpec /\ WF_allVars(Bridge)

-----------------------------------------------------------------------------
(* Every variable of the two processes has its type: no response grows past*)
(* its limit, no file is written twice.                                    *)
BridgeTypeOK ==
  /\ TypeOK
  /\ at \in {"prepare", "start", "wait", "cleanup", "done"}
  /\ child \in {"none", "running", "printed", "silent"}
  /\ scripts \in 0..Steps /\ planFile \in BOOLEAN
  /\ outcome \in Outcomes
  /\ mishaps \subseteq {"crash", "unlink"}

(* verify and execute_many return whatever the nodes do, even if one       *)
(* trickles its response for ever, without help from the outer deadline:   *)
(* every single read has a deadline and their sum a size limit.            *)
Returns == <>(at = "done")

Begun == {n \in Nodes : executed[n] # <<>>}
Good(flags) == \A i \in DOMAIN flags : flags[i]

(* main_processor calls a plan completed when every result it is given is  *)
(* a success, however many there are: it relies on the client to leave a   *)
(* result out only after a failure, and on the order of the results.       *)
CompletedMeansWholePlan ==
  /\ at = "done" /\ outcome = "returned" /\ Mutating /\ Good(data)
  => Len(data) = Steps /\ executed[verified] = [i \in 1..Steps |-> i]

(* As long as the client prints a result or is killed by the deadline and  *)
(* its files can be removed, a run reported as failed without results left *)
(* no step unanswered in any Editor, now or later.                         *)
FailureIsKnown ==
  /\ at = "done" /\ Mutating /\ outcome \in {"error", "unavailable"}
  /\ mishaps = {}
  => \A n \in Begun : Len(executed[n]) = Len(results) /\ Good(results)

(* The temporary files are removed on every path of the code, and the      *)
(* client never outlives the call: the files of a running one stay.        *)
FilesOutliveClient ==
  /\ child = "running" /\ Mutating => planFile /\ scripts = Steps
  /\ at = "done" /\ "unlink" \notin mishaps =>
       ~planFile /\ scripts = 0 /\ child # "running"

(* What a coordinator sees of a run (main_processor.py): the phase of its  *)
(* client in module Lifecycle.                                             *)
Reached == \E n \in Nodes : job[n].command # Probe

Result ==
  CASE outcome = "returned" /\ ~Mutating -> "bound"
    [] outcome = "returned" /\ Mutating ->
         IF Good(data) THEN "ok" ELSE "scriptFailed"
    [] outcome = "outcome_unknown" -> "unknown"
    [] outcome = "unavailable" -> "unverified"
    [] OTHER -> IF Mutating /\ ~Reached THEN "unverified" ELSE "crashed"

Phase ==
  CASE at = "done" -> Result
    [] at # "done" /\ Reached -> "sent"
    [] at # "done" /\ ~Reached /\ verified # None -> "bound"
    [] OTHER -> "probing"

Interface == INSTANCE ClientRun WITH phase <- Phase, plan <- Mutating

(* Bridge and client together go through the phases that Lifecycle has for *)
(* them: verify returns only for a verified Editor, results come only from *)
(* an Editor that had a script, a run that may have left one is never said *)
(* to be unverified, and what is said does not change afterwards, whatever *)
(* the nodes still do.                                                     *)
KeepsInterface == Interface!Spec

AnswerMissing == \E n \in Begun : Len(executed[n]) > Len(results)

(* README.md:87 "A lost or invalid result after command dispatch becomes   *)
(* `outcome_unknown`": a run whose client died without a result line is    *)
(* not reported as failed when a step of it was left without its answer.   *)
LostResultIsUnknown ==
  at = "done" /\ outcome = "error" /\ "unlink" \notin mishaps
    => ~AnswerMissing
=============================================================================
