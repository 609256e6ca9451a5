---------------------------- MODULE RemoteClient ----------------------------
(***************************************************************************)
(* The native client (native/ue-remote-client/src/client.rs) and the       *)
(* classification of its errors (main.rs): discovery by lossy datagrams,   *)
(* a TCP callback and an identity probe per candidate node, then the       *)
(* commands of a plan on the verified stream.                              *)
(*                                                                         *)
(* Nodes are Unreal Editors with Remote Execution, whose code is not here: *)
(* a node may never answer, answer late, or die at any moment.  Node ids   *)
(* are numbers, compared as the ids' strings are by the BTreeMap.          *)
(***************************************************************************)
EXTENDS Naturals, Sequences

CONSTANTS
  Nodes,        \* ids of the nodes in the multicast group
  Steps,        \* number of scripts in a plan
  MaxResponse,  \* bound: fragments of one response (max_response_bytes)
  None          \* no hint, no node

ASSUME ConstantsAssumption ==
  /\ Nodes \subseteq Nat
  /\ Steps \in Nat \ {0}
  /\ MaxResponse \in Nat
  /\ None \notin Nodes \cup Seq(BOOLEAN)

VARIABLES
  mode,       \* the subcommand: "verify" or "plan"
  hint,       \* --node-id-hint
  matching,   \* nodes that run in the expected process and project
  pc,         \* where the client is
  found,      \* nodes with a valid pong
  remaining,  \* candidates not tried yet
  node,       \* the candidate being tried
  verified,   \* the node open_verified returned, or None
  index,      \* the plan step at hand
  results,    \* success flags of the results received
  size,       \* fragments of the response read so far
  status,     \* what main prints: the status
  data,       \*   and the results under "data", or None
  accepted,   \* nodes whose callback was accepted (history)
  closed,     \* nodes that were sent close_connection (history)
  job,        \* what each node does with the last command it received
  executed    \* steps each node has started to execute (history)

taskVars == <<mode, hint, matching>>
searchVars == <<found, remaining>>
candidateVars == <<node, verified>>
planVars == <<index, results>>
reportVars == <<status, data>>
historyVars == <<accepted, closed>>
clientVars == <<pc, searchVars, candidateVars, planVars, size, reportVars,
                historyVars>>
nodeVars == <<job, executed>>
vars == <<taskVars, clientVars, nodeVars>>

Probe == 0   \* the identity probe as a command; steps are 1, 2, ...
Idle == [command |-> Probe, stage |-> "none", ok |-> FALSE]

Init ==
  /\ mode \in {"verify", "plan"}
  /\ hint \in Nodes \cup {None}
  /\ matching \in SUBSET Nodes
  /\ pc = "discover"
  /\ found = {} /\ remaining = {} /\ node = None /\ verified = None
  /\ index = 1 /\ results = <<>> /\ size = 0
  /\ status = "none" /\ data = None
  /\ accepted = {} /\ closed = {}
  /\ job = [n \in Nodes |-> Idle]
  /\ executed = [n \in Nodes |-> <<>>]

Goto(label) == pc' = label

(* main prints its one result line and the process exits.                  *)
Exit(result, payload) ==
  /\ Goto("done")
  /\ status' = result
  /\ data' = payload

(* close_connection: the send's own failure is ignored.                    *)
CloseConnection == closed' = closed \cup {node}

-----------------------------------------------------------------------------
(* discover                                                                *)

PongArrives ==
  /\ pc = "discover"
  /\ \E n \in Nodes : found' = found \cup {n}
  /\ UNCHANGED <<taskVars, pc, remaining, candidateVars, planVars, size,
                 reportVars, historyVars, nodeVars>>

(* The settle time after the first pong, or the deadline, is over.         *)
DiscoveryEnds ==
  /\ pc = "discover" /\ found # {}
  /\ Goto("next")
  /\ remaining' = found
  /\ UNCHANGED <<taskVars, found, candidateVars, planVars, size, reportVars,
                 historyVars, nodeVars>>

(* No socket, no answer before the deadline, or an I/O error.              *)
DiscoveryFails ==
  /\ pc = "discover"
  /\ Exit("failed", None)
  /\ UNCHANGED <<taskVars, searchVars, candidateVars, planVars, size,
                 historyVars, nodeVars>>

-----------------------------------------------------------------------------
(* Mutant: the hint is forgotten.                                          *)
MutNextNode == CHOOSE n \in remaining : \A m \in remaining : n <= m

(* open_verified: the hinted node first, the others in the order of ids.   *)
NextNode ==
  IF hint \in remaining THEN hint
  ELSE CHOOSE n \in remaining : \A m \in remaining : n <= m

SelectNode ==
  /\ pc = "next" /\ remaining # {}
  /\ node' = NextNode
  /\ remaining' = remaining \ {NextNode}
  /\ Goto("open")
  /\ UNCHANGED <<taskVars, found, verified, planVars, size, reportVars,
                 historyVars, nodeVars>>

NoVerifiedNode ==
  /\ pc = "next" /\ remaining = {}
  /\ Exit("failed", None)
  /\ UNCHANGED <<taskVars, searchVars, candidateVars, planVars, size,
                 historyVars, nodeVars>>

(* open_connection returns the stream on which the node called back.       *)
Accepted ==
  /\ pc = "open"
  /\ Goto("probe")
  /\ accepted' = accepted \cup {node}
  /\ UNCHANGED <<taskVars, searchVars, candidateVars, planVars, size,
                 reportVars, closed, nodeVars>>

ConnectionTimesOut ==
  /\ pc = "open"
  /\ Goto("next")
  /\ UNCHANGED <<taskVars, searchVars, candidateVars, planVars, size,
                 reportVars, historyVars, nodeVars>>

(* The accepted stream cannot be set up (set_nonblocking, set_nodelay): the*)
(* node has called back, but the run ends with the error as it is.         *)
StreamFails ==
  /\ pc = "open"
  /\ accepted' = accepted \cup {node}
  /\ Exit("failed", None)
  /\ UNCHANGED <<taskVars, searchVars, candidateVars, planVars, size, closed,
                 nodeVars>>

(* An I/O error of the listener or of the datagram ends the whole run.     *)
OpenFails ==
  /\ pc = "open"
  /\ Exit("failed", None)
  /\ UNCHANGED <<taskVars, searchVars, candidateVars, planVars, size,
                 historyVars, nodeVars>>

(* send_command up to its write: the bytes may get lost with the stream.   *)
Write(from, to, command) ==
  /\ pc = from
  /\ Goto(to)
  /\ size' = 0
  /\ \/ job' = [job EXCEPT ![node] =
                  [command |-> command, stage |-> "queued", ok |-> FALSE]]
     \/ UNCHANGED job
  /\ UNCHANGED <<taskVars, searchVars, candidateVars, planVars, reportVars,
                 historyVars, executed>>

WriteProbe == Write("probe", "awaitProbe", Probe)

(* A complete valid response to the command at hand has been read.         *)
HasAnswer(command) ==
  /\ job[node].stage = "answered"
  /\ job[node].command = command

(* Any error of the probe, and a probe that names another process or       *)
(* project, only disqualifies the node.                                    *)
ProbeRejected ==
  /\ \/ pc = "probe"
     \/ pc = "awaitProbe"
  /\ CloseConnection
  /\ Goto("next")
  /\ UNCHANGED <<taskVars, searchVars, candidateVars, planVars, size,
                 reportVars, accepted, nodeVars>>

IdentityMatches == HasAnswer(Probe) /\ job[node].ok /\ node \in matching

(* Mutant: the hinted node is trusted without its answer.                  *)
MutProbeMatches ==
  /\ pc = "awaitProbe"
  /\ IdentityMatches \/ node = hint
  /\ IF mode = "verify"
     THEN CloseConnection /\ Exit("succeeded", <<>>)
     ELSE Goto("write") /\ UNCHANGED <<closed, reportVars>>
  /\ verified' = node
  /\ UNCHANGED <<taskVars, searchVars, node, planVars, size, accepted,
                 nodeVars>>

(* open_verified returns; verify_identity closes and is done.              *)
ProbeMatches ==
  /\ pc = "awaitProbe" /\ IdentityMatches
  /\ IF mode = "verify"
     THEN CloseConnection /\ Exit("succeeded", <<>>)
     ELSE Goto("write") /\ UNCHANGED <<closed, reportVars>>
  /\ verified' = node
  /\ UNCHANGED <<taskVars, searchVars, node, planVars, size, accepted,
                 nodeVars>>

-----------------------------------------------------------------------------
(* execute_plan_verified                                                   *)

WriteCommand == Write("write", "await", index)

(* Mutant: an error leaves the connection to the node open.                *)
MutAbandon(from, result) ==
  /\ pc = from
  /\ Exit(result, None)
  /\ UNCHANGED <<taskVars, searchVars, candidateVars, planVars, size,
                 historyVars, nodeVars>>

(* execute_plan_verified returns an error: close, and classify_error.      *)
Abandon(from, result) ==
  /\ pc = from
  /\ CloseConnection
  /\ Exit(result, None)
  /\ UNCHANGED <<taskVars, searchVars, candidateVars, planVars, size,
                 accepted, nodeVars>>

(* Setting the stream's deadlines fails before anything is written.        *)
SetupFails == Abandon("write", "failed")

WriteFails == Abandon("write", "outcome_unknown")

(* Mutants: a lost result is classified with the known failures, and a     *)
(* command whose result is lost is sent again.                             *)
MutResultLost == Abandon("await", "failed")

MutRetry ==
  /\ pc = "await"
  /\ Goto("write")
  /\ UNCHANGED <<taskVars, searchVars, candidateVars, planVars, size,
                 reportVars, historyVars, nodeVars>>

(* Deadline, end of stream, invalid or oversized response.                 *)
ResultLost == Abandon("await", "outcome_unknown")

(* Mutants: the last step is forgotten, and a failed step does not stop    *)
(* the plan.                                                               *)
MutForgetsLast ==
  /\ pc = "await" /\ HasAnswer(index)
  /\ results' = Append(results, job[node].ok)
  /\ IF job[node].ok /\ index + 1 < Steps
     THEN /\ Goto("write") /\ index' = index + 1
          /\ UNCHANGED <<closed, reportVars>>
     ELSE /\ CloseConnection
          /\ Exit(IF job[node].ok THEN "succeeded" ELSE "failed", results')
          /\ UNCHANGED index
  /\ UNCHANGED <<taskVars, searchVars, candidateVars, size, accepted, nodeVars>>

MutResultArrives ==
  /\ pc = "await" /\ HasAnswer(index)
  /\ results' = Append(results, job[node].ok)
  /\ IF index < Steps
     THEN /\ Goto("write") /\ index' = index + 1
          /\ UNCHANGED <<reportVars, closed>>
     ELSE /\ CloseConnection /\ Exit("succeeded", results')
          /\ UNCHANGED index
  /\ UNCHANGED <<taskVars, searchVars, candidateVars, size, accepted,
                 nodeVars>>

ResultArrives ==
  /\ pc = "await" /\ HasAnswer(index)
  /\ results' = Append(results, job[node].ok)
  /\ IF job[node].ok /\ index < Steps
     THEN /\ Goto("write") /\ index' = index + 1
          /\ UNCHANGED <<reportVars, closed>>
     ELSE /\ CloseConnection
          /\ Exit(IF job[node].ok THEN "succeeded" ELSE "failed", results')
          /\ UNCHANGED index
  /\ UNCHANGED <<taskVars, searchVars, candidateVars, size, accepted,
                 nodeVars>>

(* Mutant: the limit is applied to each chunk, not to their sum.           *)
MutReadFragment ==
  /\ pc \in {"awaitProbe", "await"}
  /\ size' = IF size = 0 THEN 1 ELSE 0
  /\ UNCHANGED <<taskVars, pc, searchVars, candidateVars, planVars,
                 reportVars, historyVars, nodeVars>>

(* read_message: an incomplete response; every read has a new deadline.    *)
ReadFragment ==
  /\ pc \in {"awaitProbe", "await"} /\ size < MaxResponse
  /\ size' = size + 1
  /\ UNCHANGED <<taskVars, pc, searchVars, candidateVars, planVars,
                 reportVars, historyVars, nodeVars>>

-----------------------------------------------------------------------------
(* Nodes execute what they receive, also after the client has gone.        *)

NodeExecutes(n) ==
  /\ job[n].stage = "queued"
  /\ job' = [job EXCEPT ![n].stage = "running"]
  /\ executed' = IF job[n].command = Probe THEN executed
                 ELSE [executed EXCEPT ![n] = Append(@, job[n].command)]
  /\ UNCHANGED <<taskVars, pc, searchVars, candidateVars, planVars, size,
                 reportVars, historyVars>>

NodeAnswers(n) ==
  /\ job[n].stage = "running"
  /\ \E ok \in BOOLEAN :
       job' = [job EXCEPT ![n].stage = "answered", ![n].ok = ok]
  /\ UNCHANGED <<taskVars, pc, searchVars, candidateVars, planVars, size,
                 reportVars, historyVars, executed>>

Client ==
  \/ DiscoveryEnds \/ DiscoveryFails
  \/ SelectNode \/ NoVerifiedNode
  \/ Accepted \/ ConnectionTimesOut \/ StreamFails \/ OpenFails
  \/ WriteProbe \/ ProbeRejected \/ ProbeMatches
  \/ WriteCommand \/ SetupFails \/ WriteFails \/ ResultLost \/ ResultArrives
  \/ ReadFragment

Environment ==
  \/ PongArrives
  \/ \E n \in Nodes : NodeExecutes(n) \/ NodeAnswers(n)

Next == Client \/ Environment

Spec == Init /\ [][Next]_vars
=============================================================================
