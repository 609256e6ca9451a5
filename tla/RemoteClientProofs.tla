------------------------- MODULE RemoteClientProofs -------------------------
(***************************************************************************)
(* Proofs about the native client, for any nodes, any hint, any number of  *)
(* plan steps and any size of responses.                                   *)
(***************************************************************************)
EXTENDS RemoteClientProperties, SequenceTheorems, WellFoundedInduction, TLAPS

-----------------------------------------------------------------------------
(* The inductive invariant                                                 *)

Sending == {"write", "await"}
Trying == {"open", "probe", "awaitProbe"}

(* A candidate is verified at most once, by the run of a plan it is then   *)
(* the target of; before that nothing has been sent or reported.           *)
SearchInv ==
  /\ pc \in Trying \cup Sending => node \in Nodes
  /\ pc \in Sending => mode = "plan" /\ verified = node
  /\ verified # None => /\ verified = node /\ verified \in matching
                        /\ pc \in Sending \cup {"done"}
  /\ verified = None => results = <<>>
  /\ pc \notin Sending \cup {"done"} => index = 1
  /\ pc # "done" => status = "none" /\ data = None

StepQueued(n) == job[n].stage = "queued" /\ job[n].command # Probe

(* Nodes start the steps in their order, and only the verified one has any:*)
(* the one it has in its queue is the next.                                *)
NodesInv ==
  \A n \in Nodes :
    /\ executed[n] = [i \in 1..Len(executed[n]) |-> i]
    /\ executed[n] # <<>> \/ StepQueued(n) => n = verified
    /\ StepQueued(n) => job[n].command = Len(executed[n]) + 1

(* Before a step is written its predecessor has answered; afterwards the   *)
(* node has the step, or still the predecessor when the write was lost.    *)
Before(n) ==
  /\ job[n].stage = "answered" /\ job[n].command = index - 1
  /\ Len(executed[n]) = index - 1
After(n) ==
  /\ job[n].stage # "none" /\ job[n].command = index
  /\ Len(executed[n]) = IF job[n].stage = "queued" THEN index - 1 ELSE index
SendingInv ==
  pc \in Sending =>
    /\ Len(results) = index - 1 /\ AllGood(results)
    /\ Before(node) \/ (pc = "await" /\ After(node))

(* What the report says stays true while the nodes go on.                  *)
WholePlan ==
  /\ node = verified /\ node \in Nodes /\ ~StepQueued(node)
  /\ Len(executed[node]) = Steps /\ Len(data) = Steps /\ AllGood(data)
Stopped ==
  /\ node = verified /\ node \in Nodes /\ ~StepQueued(node)
  /\ Len(executed[node]) = Len(data) /\ Len(data) > 0
  /\ ~data[Len(data)] /\ AllGood(SubSeq(data, 1, Len(data) - 1))
KnownFailure ==
  \A n \in Nodes :
    /\ ~StepQueued(n)
    /\ executed[n] # <<>> => Len(executed[n]) = Len(results) /\ AllGood(results)
Unknown ==
  \A n \in Nodes :
    /\ StepQueued(n) => Len(executed[n]) = Len(results)
    /\ executed[n] # <<>> => Len(executed[n]) \in {Len(results), Len(results) + 1}
ReportInv ==
  pc = "done" =>
    /\ status # "none"
    /\ status = "succeeded" /\ mode = "plan" => WholePlan
    /\ status = "failed" /\ data # None => Stopped
    /\ status = "failed" /\ data = None => KnownFailure
    /\ status = "outcome_unknown" => Unknown

Connected == pc \in {"probe", "awaitProbe", "write", "await"}

(* Nothing has been sent to a candidate before its callback, and no node is*)
(* tried twice.                                                            *)
Untouched(n) == pc = "discover" \/ n \in remaining \/ (pc = "open" /\ n = node)
CallbackInv ==
  /\ pc = "open" \/ Connected => node \notin remaining
  /\ \A n \in Nodes : Untouched(n) => job[n] = Idle
  /\ \A n \in accepted \ closed :
       /\ n = node
       /\ \/ Connected
          \/ pc = "done" /\ verified = None /\ status = "failed" /\ job[n] = Idle

ClientInv ==
  /\ TypeOK /\ SearchInv /\ NodesInv /\ SendingInv /\ ReportInv /\ CallbackInv

-----------------------------------------------------------------------------
(* A set of node ids has a smallest one: the client always has a next      *)
(* candidate while there are candidates left.                              *)
Less == {ss \in Nat \X Nat : ss[1] < ss[2]}

LEMMA NextCandidate ==
  ASSUME remaining \subseteq Nodes, remaining # {}
  PROVE  NextNode \in remaining
<1>1. IsWellFoundedOn({ss \in Nat \X Nat : ss[1] < ss[2]}, Nat)
  BY NatLessThanWellFounded DEF OpToRel
<1>2. IsWellFoundedOn(Less, Nat)
  BY <1>1 DEF Less
<1>3. remaining \subseteq Nat
  BY ConstantsAssumption
<1>4. PICK n \in remaining : \A m \in remaining : <<m, n>> \notin Less
  BY <1>2, <1>3, WFMin
<1>5. ASSUME NEW m \in remaining
      PROVE  n <= m
  <2>1. ~(m < n)
    BY <1>3, <1>4 DEF Less
  <2> QED
    BY <1>3, <2>1
<1> QED
  BY <1>5 DEF NextNode

LEMMA InitInv == Init => ClientInv
  BY ConstantsAssumption, EmptySeq
     DEF Init, ClientInv, TypeOK, SearchInv, NodesInv, SendingInv, ReportInv,
         CallbackInv, Untouched, Connected, Sending, Trying, Idle, Probe, StepQueued

-----------------------------------------------------------------------------
(* Steps                                                                   *)

Jobs == [command : 0..Steps, ok : BOOLEAN,
         stage : {"none", "queued", "running", "answered"}]

(* What the searching client does disturbs neither nodes nor results.      *)
LEMMA SearchKeeps ==
  ASSUME ClientInv,
         \/ PongArrives \/ DiscoveryEnds \/ DiscoveryFails \/ SelectNode
         \/ NoVerifiedNode \/ Accepted \/ ConnectionTimesOut \/ StreamFails
         \/ OpenFails
  PROVE  ClientInv'
<1> USE DEF taskVars, searchVars, candidateVars, planVars, reportVars,
            historyVars, nodeVars
<1>1. pc \in {"discover", "next", "open"} /\ verified = None /\ index = 1
  BY DEF ClientInv, SearchInv, PongArrives, DiscoveryEnds, DiscoveryFails,
         SelectNode, NoVerifiedNode, Accepted, ConnectionTimesOut, StreamFails, OpenFails,
         Sending, Trying
<1>2. /\ UNCHANGED <<taskVars, verified, planVars, size, closed, nodeVars>>
      /\ pc' \in {"discover", "next", "open", "probe", "done"}
  BY DEF PongArrives, DiscoveryEnds, DiscoveryFails, SelectNode, NoVerifiedNode,
         Accepted, ConnectionTimesOut, StreamFails, OpenFails, Goto, Exit
<1>3. /\ found' \subseteq Nodes /\ remaining' \subseteq Nodes
      /\ node' \in Nodes \cup {None}
      /\ pc' \in Trying => node' \in Nodes
      /\ pc' # "done" => status' = status /\ data' = data
      /\ pc' = "done" => status' = "failed" /\ data' = None
      /\ accepted' \subseteq Nodes
  BY <1>1, NextCandidate
     DEF ClientInv, TypeOK, SearchInv, PongArrives, DiscoveryEnds, DiscoveryFails,
         SelectNode, NoVerifiedNode, Accepted, ConnectionTimesOut, StreamFails, OpenFails,
         Goto, Exit, Trying, Sending
<1>4. TypeOK'
  BY <1>2, <1>3 DEF ClientInv, TypeOK, Trying
<1>5. SearchInv'
  BY <1>1, <1>2, <1>3 DEF ClientInv, SearchInv, Sending, Trying
<1>6. NodesInv'
  BY <1>2 DEF ClientInv, NodesInv, StepQueued
<1>7. SendingInv'
  BY <1>2 DEF SendingInv, Sending
<1>8. KnownFailure
  BY <1>1, ConstantsAssumption DEF ClientInv, NodesInv, KnownFailure
<1>9. ReportInv'
  BY <1>2, <1>3, <1>8 DEF ReportInv, KnownFailure, StepQueued
<1>10. CallbackInv'
  <2>1. job' = job /\ closed' = closed /\ verified' = None
    BY <1>1, <1>2
  <2>2. accepted \subseteq closed
    BY <1>1 DEF ClientInv, CallbackInv, Untouched, Connected
  <2>3. CASE SelectNode
    <3>1. /\ pc = "next" /\ pc' = "open" /\ node' = NextNode /\ NextNode \in remaining
          /\ remaining' = remaining \ {NextNode} /\ accepted' = accepted
      BY <2>3, NextCandidate DEF SelectNode, Goto, ClientInv, TypeOK
    <3> QED
      BY <2>1, <2>2, <3>1 DEF ClientInv, CallbackInv, Untouched, Connected
  <2>4. CASE PongArrives \/ DiscoveryEnds \/ DiscoveryFails \/ NoVerifiedNode
             \/ ConnectionTimesOut \/ OpenFails
    <3>1. /\ accepted' = accepted /\ node' = node
          /\ pc' \in {"discover", "next", "done"}
          /\ pc' = "discover" => pc = "discover"
          /\ pc = "discover" \/ remaining' = remaining
      BY <2>4 DEF PongArrives, DiscoveryEnds, DiscoveryFails, NoVerifiedNode,
                  ConnectionTimesOut, OpenFails, Goto, Exit
    <3> QED
      BY <2>1, <2>2, <3>1 DEF ClientInv, CallbackInv, Untouched, Connected
  <2>5. CASE Accepted \/ StreamFails
    <3>1. /\ pc = "open" /\ accepted' = accepted \cup {node} /\ node' = node
          /\ remaining' = remaining
          /\ pc' = "probe" \/ (pc' = "done" /\ status' = "failed")
      BY <2>5 DEF Accepted, StreamFails, Goto, Exit
    <3>2. node \in Nodes /\ job[node] = Idle
      BY <3>1 DEF ClientInv, SearchInv, CallbackInv, Untouched, Trying
    <3> QED
      BY <2>1, <2>2, <3>1, <3>2 DEF ClientInv, CallbackInv, Untouched, Connected
  <2> QED
    BY <2>3, <2>4, <2>5
<1> QED
  BY <1>4, <1>5, <1>6, <1>7, <1>9, <1>10 DEF ClientInv

(* The probe goes to a node that has no step, and is no step.              *)
LEMMA WriteProbeKeeps ==
  ASSUME ClientInv, WriteProbe
  PROVE  ClientInv'
<1> USE DEF taskVars, searchVars, candidateVars, planVars, reportVars,
            historyVars, nodeVars
<1>1. pc = "probe" /\ pc' = "awaitProbe" /\ node \in Nodes /\ verified = None
  BY DEF ClientInv, SearchInv, WriteProbe, Write, Goto, Sending, Trying
<1>2. /\ UNCHANGED <<taskVars, searchVars, candidateVars, planVars, reportVars,
                     historyVars, executed>>
      /\ size' = 0
  BY DEF WriteProbe, Write
<1>3. \/ job' = [job EXCEPT ![node] =
                   [command |-> Probe, stage |-> "queued", ok |-> FALSE]]
      \/ job' = job
  BY DEF WriteProbe, Write
<1>4. job' \in [Nodes -> Jobs]
  <2>1. [command |-> Probe, stage |-> "queued", ok |-> FALSE] \in Jobs
    BY ConstantsAssumption DEF Jobs, Probe
  <2>2. job \in [Nodes -> Jobs]
    BY DEF ClientInv, TypeOK, Jobs
  <2> QED
    BY <1>3, <2>1, <2>2
<1>5. ASSUME NEW n \in Nodes, StepQueued(n)'
       PROVE  StepQueued(n) /\ job'[n] = job[n]
  BY <1>3, <1>5 DEF ClientInv, TypeOK, StepQueued
<1>6. TypeOK'
  BY <1>1, <1>2, <1>4, ConstantsAssumption, SMTT(30) DEF ClientInv, TypeOK, Jobs
<1>7. SearchInv'
  BY <1>1, <1>2 DEF ClientInv, SearchInv, Sending, Trying
<1>8. NodesInv'
  BY <1>2, <1>5 DEF ClientInv, NodesInv, StepQueued
<1>9. SendingInv' /\ ReportInv'
  BY <1>1 DEF SendingInv, Sending, ReportInv
<1>10. CallbackInv'
  <2>1. \A n \in Nodes : n # node => job'[n] = job[n]
    BY <1>1, <1>3 DEF ClientInv, TypeOK
  <2> QED
    BY <1>1, <1>2, <2>1 DEF ClientInv, CallbackInv, Untouched, Connected
<1> QED
  BY <1>6, <1>7, <1>8, <1>9, <1>10 DEF ClientInv

(* A node that fails its probe is let go.                                  *)
LEMMA ProbeRejectedKeeps ==
  ASSUME ClientInv, ProbeRejected
  PROVE  ClientInv'
<1> USE DEF taskVars, searchVars, candidateVars, planVars, reportVars,
            historyVars, nodeVars
<1>1. /\ pc \in {"probe", "awaitProbe"} /\ pc' = "next" /\ closed' = closed \cup {node}
      /\ UNCHANGED <<taskVars, searchVars, candidateVars, planVars, size,
                     reportVars, accepted, nodeVars>>
  BY DEF ProbeRejected, CloseConnection, Goto
<1>2. verified = None /\ node \in Nodes
  BY <1>1 DEF ClientInv, SearchInv, Sending, Trying
<1>3. TypeOK' /\ SearchInv'
  BY <1>1, <1>2 DEF ClientInv, TypeOK, SearchInv, Sending, Trying
<1>4. NodesInv'
  BY <1>1 DEF ClientInv, NodesInv, StepQueued
<1>5. SendingInv' /\ ReportInv' /\ CallbackInv'
  BY <1>1 DEF ClientInv, SendingInv, Sending, ReportInv, CallbackInv, Untouched, Connected
<1> QED
  BY <1>3, <1>4, <1>5 DEF ClientInv

(* A node that matches is the verified one: a step may be written now.     *)
LEMMA ProbeMatchesKeeps ==
  ASSUME ClientInv, ProbeMatches
  PROVE  ClientInv'
<1> USE DEF taskVars, searchVars, candidateVars, planVars, reportVars,
            historyVars, nodeVars
<1>1. /\ pc = "awaitProbe" /\ verified' = node /\ node \in matching
      /\ job[node].stage = "answered" /\ job[node].command = Probe
      /\ UNCHANGED <<taskVars, searchVars, node, planVars, size, accepted, nodeVars>>
  BY DEF ProbeMatches, IdentityMatches, HasAnswer
<1>2. /\ verified = None /\ node \in Nodes /\ index = 1 /\ results = <<>>
      /\ status = "none" /\ data = None
  BY <1>1 DEF ClientInv, SearchInv, Sending, Trying
<1>3. \A n \in Nodes : executed[n] = <<>> /\ ~StepQueued(n)
  BY <1>2, ConstantsAssumption DEF ClientInv, NodesInv
<1>4. NodesInv'
  BY <1>1, <1>3 DEF ClientInv, NodesInv, StepQueued
<1>5. CASE mode = "verify"
  <2>1. /\ pc' = "done" /\ status' = "succeeded" /\ data' = <<>>
        /\ closed' = closed \cup {node}
    BY <1>5 DEF ProbeMatches, CloseConnection, Exit, Goto
  <2>2. data' \in Seq(BOOLEAN)
    BY <2>1, EmptySeq
  <2> QED
    BY <1>1, <1>2, <1>4, <1>5, <2>1, <2>2
       DEF ClientInv, TypeOK, SearchInv, SendingInv, ReportInv, CallbackInv,
           Untouched, Sending, Trying, Connected
<1>6. CASE mode = "plan"
  <2>1. pc' = "write" /\ UNCHANGED <<closed, reportVars>>
    BY <1>6 DEF ProbeMatches, Goto
  <2>2. Len(results') = 0 /\ AllGood(results')
    BY <1>1, <1>2 DEF AllGood
  <2>3. TypeOK' /\ SearchInv'
    BY <1>1, <1>2, <1>6, <2>1 DEF ClientInv, TypeOK, SearchInv, Sending, Trying
  <2>4. SendingInv'
    BY <1>1, <1>2, <1>3, <2>1, <2>2 DEF SendingInv, Before, Probe
  <2>5. ReportInv' /\ CallbackInv'
    BY <1>1, <2>1 DEF ClientInv, ReportInv, CallbackInv, Untouched, Connected
  <2> QED
    BY <1>4, <2>3, <2>4, <2>5 DEF ClientInv
<1> QED
  BY <1>5, <1>6 DEF ClientInv, TypeOK

(* The next step goes to the node that has answered the one before.        *)
LEMMA WriteCommandKeeps ==
  ASSUME ClientInv, WriteCommand
  PROVE  ClientInv'
<1> USE DEF taskVars, searchVars, candidateVars, planVars, reportVars,
            historyVars, nodeVars
<1>1. /\ pc = "write" /\ pc' = "await" /\ node \in Nodes /\ verified = node
      /\ mode = "plan" /\ Before(node)
      /\ Len(results) = index - 1 /\ AllGood(results)
  BY DEF ClientInv, SearchInv, SendingInv, WriteCommand, Write, Goto, Sending
<1>2. /\ UNCHANGED <<taskVars, searchVars, candidateVars, planVars, reportVars,
                     historyVars, executed>>
      /\ size' = 0
  BY DEF WriteCommand, Write
<1>3. \/ job' = [job EXCEPT ![node] =
                   [command |-> index, stage |-> "queued", ok |-> FALSE]]
      \/ job' = job
  BY DEF WriteCommand, Write
<1>4. index \in 1..Steps /\ job \in [Nodes -> Jobs]
  BY DEF ClientInv, TypeOK, Jobs
<1>5. job' \in [Nodes -> Jobs]
  <2>1. [command |-> index, stage |-> "queued", ok |-> FALSE] \in Jobs
    BY <1>4, ConstantsAssumption DEF Jobs
  <2> QED
    BY <1>3, <1>4, <2>1
<1>6. TypeOK'
  BY <1>1, <1>2, <1>5, ConstantsAssumption, SMTT(30) DEF ClientInv, TypeOK, Jobs
<1>7. SearchInv'
  BY <1>1, <1>2 DEF ClientInv, SearchInv, Sending, Trying
<1>8. ASSUME NEW n \in Nodes, StepQueued(n)'
      PROVE  n = verified /\ job'[n].command = Len(executed[n]) + 1
  <2>1. CASE n = node
    BY <1>1, <1>3, <1>4, <1>8, <2>1 DEF Before, StepQueued
  <2>2. CASE n # node
    BY <1>3, <1>4, <1>8, <2>2 DEF ClientInv, NodesInv, StepQueued
  <2> QED
    BY <2>1, <2>2
<1>9. NodesInv'
  BY <1>2, <1>8 DEF ClientInv, NodesInv
<1>10. (Before(node) \/ After(node))'
  BY <1>1, <1>2, <1>3, <1>4 DEF Before, After
<1>11. SendingInv'
  BY <1>1, <1>2, <1>10 DEF SendingInv
<1>12. ReportInv' /\ CallbackInv'
  <2>1. \A n \in Nodes : n # node => job'[n] = job[n]
    BY <1>3, <1>4
  <2> QED
    BY <1>1, <1>2, <2>1 DEF ClientInv, ReportInv, CallbackInv, Untouched, Connected
<1> QED
  BY <1>6, <1>7, <1>9, <1>11, <1>12 DEF ClientInv

(* Before a step is written there is nothing unknown: an error there is a  *)
(* known failure. Later one step may be unanswered, and never two.         *)
LEMMA AbandonKeeps ==
  ASSUME ClientInv, SetupFails \/ WriteFails \/ ResultLost
  PROVE  ClientInv'
<1> USE DEF taskVars, searchVars, candidateVars, planVars, reportVars,
            historyVars, nodeVars
<1>1. /\ pc \in Sending /\ pc' = "done" /\ data' = None
      /\ closed' = closed \cup {node}
      /\ UNCHANGED <<taskVars, searchVars, candidateVars, planVars, size,
                     accepted, nodeVars>>
      /\ \/ pc = "write" /\ status' \in {"failed", "outcome_unknown"}
         \/ pc = "await" /\ status' = "outcome_unknown"
  BY DEF SetupFails, WriteFails, ResultLost, Abandon, Exit, Goto,
         CloseConnection, Sending
<1>2. /\ node \in Nodes /\ verified = node /\ mode = "plan"
      /\ Len(results) = index - 1 /\ AllGood(results)
      /\ Before(node) \/ (pc = "await" /\ After(node))
      /\ index \in 1..Steps
  BY <1>1 DEF ClientInv, TypeOK, SearchInv, SendingInv
<1>3. TypeOK'
  BY <1>1, <1>2 DEF ClientInv, TypeOK, Sending
<1>4. SearchInv'
  BY <1>1, <1>2 DEF ClientInv, SearchInv, Sending, Trying
<1>5. NodesInv'
  BY <1>1 DEF ClientInv, NodesInv, StepQueued
<1>6. SendingInv' /\ CallbackInv'
  BY <1>1 DEF ClientInv, SendingInv, Sending, CallbackInv, Untouched, Connected
<1>7. \A n \in Nodes : n # node => executed[n] = <<>> /\ ~StepQueued(n)
  BY <1>2 DEF ClientInv, NodesInv
<1>8. pc = "write" => KnownFailure
  <2>1. pc = "write" => ~StepQueued(node) /\ Len(executed[node]) = Len(results)
    BY <1>2 DEF Before, StepQueued
  <2> QED
    BY <1>2, <1>7, <2>1 DEF KnownFailure
<1>9. Unknown
  <2>1. /\ StepQueued(node) => Len(executed[node]) = Len(results)
        /\ Len(executed[node]) \in {Len(results), Len(results) + 1}
    BY <1>2 DEF Before, After, StepQueued
  <2> QED
    BY <1>7, <2>1 DEF Unknown
<1>10. KnownFailure' <=> KnownFailure
  BY <1>1 DEF KnownFailure, StepQueued
<1>11. Unknown' <=> Unknown
  BY <1>1 DEF Unknown, StepQueued
<1>12. ReportInv'
  BY <1>1, <1>8, <1>9, <1>10, <1>11 DEF ReportInv
<1> QED
  BY <1>3, <1>4, <1>5, <1>6, <1>12 DEF ClientInv

(* An answer can only be that of the step at hand. It is the last one when *)
(* it is a failure or the plan is over, and the report says which.         *)
LEMMA ResultArrivesKeeps ==
  ASSUME ClientInv, ResultArrives
  PROVE  ClientInv'
<1> USE DEF taskVars, searchVars, candidateVars, planVars, reportVars,
            historyVars, nodeVars
<1> DEFINE ok == job[node].ok
<1>1. /\ pc = "await"
      /\ job[node].stage = "answered" /\ job[node].command = index
      /\ results' = Append(results, ok)
      /\ UNCHANGED <<taskVars, searchVars, candidateVars, size, accepted, nodeVars>>
  BY DEF ResultArrives, HasAnswer
<1>2. /\ node \in Nodes /\ verified = node /\ mode = "plan"
      /\ Len(results) = index - 1 /\ AllGood(results)
      /\ index \in 1..Steps /\ results \in Seq(BOOLEAN) /\ ok \in BOOLEAN
  BY <1>1 DEF ClientInv, TypeOK, SearchInv, SendingInv, Sending
<1>3. Len(executed[node]) = index
  BY <1>1, <1>2 DEF ClientInv, SendingInv, Sending, Before, After
<1>4. /\ index \in Nat /\ Steps \in Nat /\ 1 <= index /\ index <= Steps
      /\ results' \in Seq(BOOLEAN) /\ Len(results') = index
      /\ DOMAIN results' = 1..index /\ (results'[index] <=> ok)
      /\ \A i \in 1..index - 1 : results'[i]
  BY <1>1, <1>2, ConstantsAssumption DEF AllGood
<1>5. NodesInv'
  BY <1>1 DEF ClientInv, NodesInv, StepQueued
<1>6. CASE ok /\ index < Steps
  <2>1. pc' = "write" /\ index' = index + 1 /\ UNCHANGED <<reportVars, closed>>
    BY <1>6 DEF ResultArrives, Goto
  <2>2. AllGood(results')
    <3>1. ASSUME NEW i \in 1..index
          PROVE  results'[i]
      <4>1. i = index \/ i \in 1..index - 1
        BY <1>4
      <4> QED
        BY <1>4, <1>6, <4>1
    <3> QED
      BY <1>4, <3>1 DEF AllGood
  <2>3. TypeOK'
    <3>1. index' \in 1..Steps
      BY <1>4, <1>6, <2>1
    <3> QED
      BY <1>1, <1>4, <2>1, <3>1 DEF ClientInv, TypeOK
  <2>4. SearchInv'
    BY <1>1, <1>2, <2>1, ConstantsAssumption
       DEF ClientInv, SearchInv, Sending, Trying
  <2>5. Before(node)'
    BY <1>1, <1>2, <1>3, <2>1 DEF Before
  <2>6. SendingInv'
    BY <1>2, <1>4, <2>1, <2>2, <2>5 DEF SendingInv
  <2>7. ReportInv' /\ CallbackInv'
    BY <1>1, <2>1 DEF ClientInv, ReportInv, CallbackInv, Untouched, Connected
  <2> QED
    BY <1>5, <2>3, <2>4, <2>6, <2>7 DEF ClientInv
<1>7. CASE ~(ok /\ index < Steps)
  <2>1. /\ pc' = "done" /\ closed' = closed \cup {node} /\ index' = index
        /\ data' = results'
        /\ ok => status' = "succeeded"
        /\ ~ok => status' = "failed"
    BY <1>7 DEF ResultArrives, CloseConnection, Exit, Goto
  <2>2. TypeOK'
    <3>1. closed' \subseteq Nodes /\ status' \in {"succeeded", "failed"}
      BY <1>2, <2>1 DEF ClientInv, TypeOK
    <3> QED
      BY <1>1, <1>4, <2>1, <3>1 DEF ClientInv, TypeOK
  <2>3. SearchInv'
    BY <1>1, <1>2, <2>1, ConstantsAssumption
       DEF ClientInv, SearchInv, Sending, Trying
  <2>4. SendingInv' /\ CallbackInv'
    BY <1>1, <2>1 DEF ClientInv, SendingInv, Sending, CallbackInv, Untouched, Connected
  <2>5. ~StepQueued(node)' /\ data' # None
    BY <1>1, <1>4, <2>1, ConstantsAssumption DEF StepQueued
  <2>6. CASE ok
    <3>1. index = Steps /\ AllGood(data')
      BY <1>2, <1>4, <1>7, <2>1, <2>6, ConstantsAssumption DEF AllGood
    <3>2. WholePlan'
      BY <1>1, <1>2, <1>3, <1>4, <2>1, <2>5, <3>1 DEF WholePlan
    <3>3. ReportInv'
      BY <2>1, <2>6, <3>2 DEF ReportInv
    <3> QED
      BY <1>5, <2>2, <2>3, <2>4, <3>3 DEF ClientInv
  <2>7. CASE ~ok
    <3> DEFINE earlier == SubSeq(data', 1, Len(data') - 1)
    <3>0. Len(earlier) = index - 1 /\ \A i \in 1..index - 1 : earlier[i] = data'[i]
      BY <1>4, <2>1
    <3>1. AllGood(earlier)
      BY <1>4, <2>1, <3>0 DEF AllGood
    <3>2. Stopped'
      BY <1>1, <1>2, <1>3, <1>4, <2>1, <2>5, <2>7, <3>1 DEF Stopped
    <3>3. ReportInv'
      BY <2>1, <2>5, <2>7, <3>2 DEF ReportInv
    <3> QED
      BY <1>5, <2>2, <2>3, <2>4, <3>3 DEF ClientInv
  <2> QED
    BY <2>6, <2>7
<1> QED
  BY <1>6, <1>7

(* An incomplete response changes nothing but its size.                    *)
LEMMA ReadFragmentKeeps ==
  ASSUME ClientInv, ReadFragment
  PROVE  ClientInv'
<1> USE DEF taskVars, searchVars, candidateVars, planVars, reportVars,
            historyVars, nodeVars
<1>1. /\ size < MaxResponse /\ size' = size + 1
      /\ UNCHANGED <<taskVars, pc, searchVars, candidateVars, planVars,
                     reportVars, historyVars, nodeVars>>
  BY DEF ReadFragment
<1>2. TypeOK'
  BY <1>1, ConstantsAssumption, SMTT(30) DEF ClientInv, TypeOK
<1>3. SearchInv' /\ CallbackInv'
  BY <1>1 DEF ClientInv, SearchInv, CallbackInv, Untouched, Connected
<1>4. NodesInv' /\ SendingInv'
  BY <1>1 DEF ClientInv, NodesInv, SendingInv, StepQueued, Before, After
<1>5. ReportInv'
  BY <1>1 DEF ClientInv, ReportInv, WholePlan, Stopped, KnownFailure, Unknown,
              StepQueued
<1> QED
  BY <1>2, <1>3, <1>4, <1>5 DEF ClientInv

(* A node starts what it has received, whether the client waits for it or  *)
(* has given up: a step only if it is in its queue, and never twice.       *)
LEMMA NodeExecutesKeeps ==
  ASSUME ClientInv, NEW n \in Nodes, NodeExecutes(n)
  PROVE  ClientInv'
<1> USE DEF taskVars, searchVars, candidateVars, planVars, reportVars,
            historyVars, nodeVars
<1>1. /\ job[n].stage = "queued" /\ job' = [job EXCEPT ![n].stage = "running"]
      /\ UNCHANGED <<taskVars, pc, searchVars, candidateVars, planVars, size,
                     reportVars, historyVars>>
      /\ job[n].command = Probe => executed' = executed
      /\ job[n].command # Probe =>
           executed' = [executed EXCEPT ![n] = Append(@, job[n].command)]
  BY DEF NodeExecutes
<1>2. /\ job \in [Nodes -> Jobs] /\ executed \in [Nodes -> Seq(1..Steps)]
      /\ Steps \in Nat /\ job[n].command \in 0..Steps
  BY ConstantsAssumption DEF ClientInv, TypeOK, Jobs
<1>3. /\ job'[n].stage = "running" /\ job'[n].command = job[n].command
      /\ ~StepQueued(n)'
      /\ \A m \in Nodes : m # n => job'[m] = job[m] /\ executed'[m] = executed[m]
  BY <1>1, <1>2 DEF StepQueued
<1>4. \A m \in Nodes : StepQueued(m)' => m # n /\ StepQueued(m)
  BY <1>3 DEF StepQueued
<1>5. executed[n] \in Seq(1..Steps) /\ Len(executed[n]) \in Nat
  BY <1>2
<1>6. ASSUME job[n].command # Probe
      PROVE  /\ executed'[n] = Append(executed[n], Len(executed[n]) + 1)
             /\ executed' \in [Nodes -> Seq(1..Steps)]
             /\ Len(executed'[n]) = Len(executed[n]) + 1
             /\ n = verified
  <2>1. n = verified /\ job[n].command = Len(executed[n]) + 1
    BY <1>1, <1>6 DEF ClientInv, NodesInv, StepQueued
  <2>2. Append(executed[n], job[n].command) \in Seq(1..Steps)
    BY <1>2, <1>5, <1>6 DEF Probe
  <2>3. /\ executed'[n] = Append(executed[n], job[n].command)
        /\ executed' \in [Nodes -> Seq(1..Steps)]
    BY <1>1, <1>2, <1>6, <2>2
  <2> QED
    BY <1>5, <2>1, <2>3
<1>7. TypeOK'
  <2>1. job' \in [Nodes -> Jobs]
    <3>1. [job[n] EXCEPT !.stage = "running"] \in Jobs
      BY <1>2 DEF Jobs
    <3> QED
      BY <1>1, <1>2, <3>1
  <2>2. executed' \in [Nodes -> Seq(1..Steps)]
    BY <1>1, <1>2, <1>6
  <2> QED
    BY <1>1, <2>1, <2>2 DEF ClientInv, TypeOK, Jobs
<1>8. SearchInv' /\ CallbackInv'
  <2>1. job[n] # Idle
    BY <1>1 DEF Idle
  <2> QED
    BY <1>1, <1>3, <2>1 DEF ClientInv, TypeOK, SearchInv, CallbackInv, Untouched, Connected
<1>9. NodesInv'
  <2>1. executed'[n] = [i \in 1..Len(executed'[n]) |-> i]
    <3>1. executed[n] = [i \in 1..Len(executed[n]) |-> i]
      BY DEF ClientInv, NodesInv
    <3>2. CASE job[n].command # Probe
      <4> DEFINE old == executed[n]
                 new == executed'[n]
      <4>1. /\ new = Append(old, Len(old) + 1) /\ Len(new) = Len(old) + 1
            /\ old \in Seq(1..Steps) /\ new \in Seq(1..Steps)
        BY <1>2, <1>5, <1>6, <3>2
      <4>2. ASSUME NEW i \in 1..Len(new)
            PROVE  new[i] = i
        <5>1. CASE i \in 1..Len(old)
          BY <1>5, <3>1, <4>1, <5>1
        <5>2. CASE i = Len(old) + 1
          BY <1>5, <4>1, <5>2
        <5> QED
          BY <1>5, <4>1, <5>1, <5>2
      <4>3. DOMAIN new = 1..Len(new) /\ new = [i \in DOMAIN new |-> new[i]]
        BY <4>1
      <4> QED
        BY <4>2, <4>3
    <3> QED
      BY <1>1, <3>1, <3>2
  <2>2. executed'[n] # <<>> => n = verified
    BY <1>1, <1>6 DEF ClientInv, NodesInv
  <2> QED
    BY <1>1, <1>3, <1>4, <2>1, <2>2 DEF ClientInv, NodesInv, StepQueued
<1>10. SendingInv'
  <2> SUFFICES ASSUME pc \in Sending
               PROVE  SendingInv'
    BY <1>1 DEF SendingInv
  <2>1. /\ Len(results) = index - 1 /\ AllGood(results)
        /\ Before(node) \/ (pc = "await" /\ After(node))
        /\ node \in Nodes /\ index \in 1..Steps /\ node = verified
    BY DEF ClientInv, TypeOK, SearchInv, SendingInv
  <2>2. CASE n = node
    <3>1. After(node) /\ pc = "await" /\ job[node].command = index
      BY <1>1, <2>1, <2>2 DEF Before, After
    <3>2. After(node)'
      BY <1>1, <1>2, <1>3, <1>6, <2>1, <2>2, <3>1 DEF After, Probe
    <3> QED
      BY <1>1, <2>1, <3>1, <3>2 DEF SendingInv
  <2>3. CASE n # node
    BY <1>1, <1>3, <2>1, <2>3 DEF SendingInv, Before, After
  <2> QED
    BY <2>2, <2>3
<1>11. ReportInv'
  <2> SUFFICES ASSUME pc = "done"
               PROVE  ReportInv'
    BY <1>1 DEF ReportInv
  <2>1. ASSUME NEW m \in Nodes, ~StepQueued(m)
        PROVE  ~StepQueued(m)' /\ executed'[m] = executed[m]
    BY <1>1, <1>3, <1>4, <2>1 DEF StepQueued
  <2>2. WholePlan => WholePlan'
    BY <1>1, <2>1 DEF WholePlan
  <2>3. Stopped => Stopped'
    BY <1>1, <2>1 DEF Stopped
  <2>4. KnownFailure => KnownFailure'
    BY <1>1, <2>1 DEF KnownFailure
  <2>5. Unknown => Unknown'
    <3>1. ASSUME Unknown, NEW m \in Nodes
          PROVE  /\ StepQueued(m)' => Len(executed'[m]) = Len(results)
                 /\ executed'[m] # <<>> =>
                      Len(executed'[m]) \in {Len(results), Len(results) + 1}
      <4>1. CASE m = n /\ StepQueued(n)
        <5>1. Len(executed[n]) = Len(results)
          BY <3>1, <4>1 DEF Unknown
        <5> QED
          BY <1>3, <1>6, <4>1, <5>1 DEF StepQueued
      <4>2. CASE m # n \/ ~StepQueued(n)
        <5>1. executed'[m] = executed[m]
          BY <1>3, <2>1, <4>2
        <5> QED
          BY <1>4, <3>1, <5>1 DEF Unknown
      <4> QED
        BY <4>1, <4>2
    <3> QED
      BY <1>1, <3>1 DEF Unknown
  <2> QED
    BY <1>1, <2>2, <2>3, <2>4, <2>5 DEF ClientInv, ReportInv
<1> QED
  BY <1>7, <1>8, <1>9, <1>10, <1>11 DEF ClientInv

(* An answer changes nothing but the state of the command it answers.      *)
LEMMA NodeAnswersKeeps ==
  ASSUME ClientInv, NEW n \in Nodes, NodeAnswers(n)
  PROVE  ClientInv'
<1> USE DEF taskVars, searchVars, candidateVars, planVars, reportVars,
            historyVars, nodeVars
<1>1. /\ job[n].stage = "running"
      /\ UNCHANGED <<taskVars, pc, searchVars, candidateVars, planVars, size,
                     reportVars, historyVars, executed>>
  BY DEF NodeAnswers
<1>2. PICK ok \in BOOLEAN :
        job' = [job EXCEPT ![n].stage = "answered", ![n].ok = ok]
  BY DEF NodeAnswers
<1>3. job \in [Nodes -> Jobs]
  BY DEF ClientInv, TypeOK, Jobs
<1>4. /\ job' \in [Nodes -> Jobs]
      /\ job'[n].stage = "answered" /\ job'[n].command = job[n].command
      /\ \A m \in Nodes : m # n => job'[m] = job[m]
  BY <1>2, <1>3 DEF Jobs
<1>5. \A m \in Nodes : StepQueued(m)' <=> StepQueued(m)
  BY <1>1, <1>4 DEF StepQueued
<1>6. TypeOK'
  BY <1>1, <1>4 DEF ClientInv, TypeOK, Jobs
<1>7. SearchInv' /\ CallbackInv'
  <2>1. job[n] # Idle
    BY <1>1 DEF Idle
  <2> QED
    BY <1>1, <1>4, <2>1 DEF ClientInv, TypeOK, SearchInv, CallbackInv, Untouched, Connected
<1>8. NodesInv'
  BY <1>1, <1>4, <1>5 DEF ClientInv, NodesInv, StepQueued
<1>9. SendingInv'
  <2>1. pc \in Sending => node \in Nodes
    BY DEF ClientInv, SearchInv
  <2> QED
    BY <1>1, <1>4, <2>1 DEF ClientInv, SendingInv, Before, After
<1>10. ReportInv'
  BY <1>1, <1>5
     DEF ClientInv, ReportInv, WholePlan, Stopped, KnownFailure, Unknown
<1> QED
  BY <1>6, <1>7, <1>8, <1>9, <1>10 DEF ClientInv

LEMMA StutterKeeps == ClientInv /\ UNCHANGED vars => ClientInv'
<1> SUFFICES ASSUME ClientInv, UNCHANGED vars
             PROVE  ClientInv'
  OBVIOUS
<1> USE DEF vars, clientVars, taskVars, searchVars, candidateVars, planVars,
            reportVars, historyVars, nodeVars
<1>1. TypeOK' /\ SearchInv' /\ CallbackInv'
  BY DEF ClientInv, TypeOK, SearchInv, CallbackInv, Untouched, Connected
<1>2. NodesInv' /\ SendingInv'
  BY DEF ClientInv, NodesInv, SendingInv, StepQueued, Before, After
<1>3. ReportInv'
  BY DEF ClientInv, ReportInv, WholePlan, Stopped, KnownFailure, Unknown,
         StepQueued
<1> QED
  BY <1>1, <1>2, <1>3 DEF ClientInv

LEMMA StepKeeps == ClientInv /\ [Next]_vars => ClientInv'
<1> SUFFICES ASSUME ClientInv, [Next]_vars
             PROVE  ClientInv'
  OBVIOUS
<1>1. CASE \/ PongArrives \/ DiscoveryEnds \/ DiscoveryFails \/ SelectNode
           \/ NoVerifiedNode \/ Accepted \/ ConnectionTimesOut \/ StreamFails
         \/ OpenFails
  BY <1>1, SearchKeeps
<1>2. CASE WriteProbe
  BY <1>2, WriteProbeKeeps
<1>3. CASE ProbeRejected
  BY <1>3, ProbeRejectedKeeps
<1>4. CASE ProbeMatches
  BY <1>4, ProbeMatchesKeeps
<1>5. CASE WriteCommand
  BY <1>5, WriteCommandKeeps
<1>6. CASE SetupFails \/ WriteFails \/ ResultLost
  BY <1>6, AbandonKeeps
<1>7. CASE ResultArrives
  BY <1>7, ResultArrivesKeeps
<1>8. CASE ReadFragment
  BY <1>8, ReadFragmentKeeps
<1>9. ASSUME NEW n \in Nodes, NodeExecutes(n)
      PROVE  ClientInv'
  BY <1>9, NodeExecutesKeeps
<1>10. ASSUME NEW n \in Nodes, NodeAnswers(n)
       PROVE  ClientInv'
  BY <1>10, NodeAnswersKeeps
<1>11. CASE UNCHANGED vars
  BY <1>11, StutterKeeps
<1> QED
  BY <1>1, <1>2, <1>3, <1>4, <1>5, <1>6, <1>7, <1>8, <1>9, <1>10, <1>11
     DEF Next, Client, Environment

LEMMA Inductive == Spec => []ClientInv
<1>1. ClientInv /\ [Next]_vars => ClientInv'
  BY StepKeeps
<1> QED
  BY InitInv, <1>1, PTL DEF Spec

-----------------------------------------------------------------------------
(* What the client promises                                                *)

(* Every variable keeps its type: in particular no response ever grows past*)
(* its limit (read_message), and the client never runs out of the steps of *)
(* its plan.                                                               *)
THEOREM ClientTypes == Spec => []TypeOK
<1>1. ClientInv => TypeOK
  BY DEF ClientInv
<1> QED
  BY Inductive, <1>1, PTL

(* Whatever the hint, the stale pongs and the order of the candidates: a   *)
(* step of the plan starts only in a node that runs in the expected process*)
(* and project, as its own answer to the probe has shown (open_verified).  *)
THEOREM OnlyVerified == Spec => []OnlyVerifiedNodesRun
<1>1. ClientInv => OnlyVerifiedNodesRun
  <2> SUFFICES ASSUME ClientInv, NEW n \in Nodes, executed[n] # <<>>
               PROVE  n \in matching
    BY DEF OnlyVerifiedNodesRun
  <2>1. n = verified /\ verified # None
    BY ConstantsAssumption DEF ClientInv, NodesInv
  <2> QED
    BY <2>1 DEF ClientInv, SearchInv
<1> QED
  BY Inductive, <1>1, PTL

(* For a plan of any length, and although writes, answers and nodes may be *)
(* lost at any point: the steps that were started are the first ones, each *)
(* once, all in one node (execute_plan_verified).                          *)
THEOREM OrderedOnce == Spec => []InOrderAndOnce
<1>1. ClientInv => InOrderAndOnce
  BY DEF ClientInv, NodesInv, InOrderAndOnce
<1> QED
  BY Inductive, <1>1, PTL

(* The status and the results that main prints are true of the Editors when*)
(* they are printed, and stay true whatever the nodes do afterwards.       *)
THEOREM StatusTrue == Spec => []StatusIsTrue
<1>1. ClientInv => StatusIsTrue
  <2> SUFFICES ASSUME ClientInv, pc = "done"
               PROVE  StatusIsTrue
    BY DEF StatusIsTrue
  <2>1. CASE status = "succeeded"
    BY <2>1 DEF ClientInv, ReportInv, WholePlan, StatusIsTrue
  <2>2. CASE status = "failed" /\ data # None
    BY <2>2 DEF ClientInv, ReportInv, Stopped, StatusIsTrue
  <2>3. CASE status = "failed" /\ data = None
    BY <2>3 DEF ClientInv, ReportInv, KnownFailure, StatusIsTrue, Started
  <2>4. CASE status = "outcome_unknown"
    BY <2>4 DEF ClientInv, ReportInv, Unknown, StatusIsTrue, Started
  <2> QED
    BY <2>1, <2>2, <2>3, <2>4 DEF ClientInv, TypeOK, ReportInv
<1> QED
  BY Inductive, <1>1, PTL

(* When the client ends a run itself, every node whose callback it accepted*)
(* has been sent close_connection, but for one whose stream could not be   *)
(* set up (open_connection): the candidate at hand, to which nothing has   *)
(* been sent, and the run fails with it.                                   *)
THEOREM CallbacksClosed == Spec => []EveryCallbackClosed
<1>1. ClientInv => EveryCallbackClosed
  BY DEF ClientInv, CallbackInv, Connected, EveryCallbackClosed
<1> QED
  BY Inductive, <1>1, PTL

-----------------------------------------------------------------------------
(* The refinement: every step of the client is one of VerifiedRun, or none.*)

LEMMA RunStarts == Init => Promise!Init
  BY DEF Init, Promise!Init

Sent == IF pc = "await" \/ status = "outcome_unknown"
        THEN Len(results) + 1 ELSE Len(results)
Report == IF status = "failed"
          THEN IF data = None THEN "known_failure" ELSE "stopped"
          ELSE status

LEMMA RunKept ==
  ASSUME UNCHANGED <<taskVars, verified, results>>, Sent' = Sent, Report' = Report
  PROVE  UNCHANGED Promise!runVars
  BY DEF Promise!runVars, Sent, Report, taskVars

(* Looking for the Editor is invisible, until it fails.                    *)
LEMMA SearchIsFail ==
  ASSUME ClientInv,
         \/ PongArrives \/ DiscoveryEnds \/ DiscoveryFails \/ SelectNode
         \/ NoVerifiedNode \/ Accepted \/ ConnectionTimesOut \/ StreamFails
         \/ OpenFails
         \/ WriteProbe \/ ProbeRejected
  PROVE  [Promise!Next]_Promise!runVars
<1> USE DEF taskVars, searchVars, candidateVars, planVars, reportVars
<1>1. /\ pc \notin {"await", "done"} /\ status = "none"
      /\ UNCHANGED <<taskVars, verified, results>>
      /\ pc' # "await"
  BY DEF ClientInv, SearchInv, PongArrives, DiscoveryEnds, DiscoveryFails,
         SelectNode, NoVerifiedNode, Accepted, ConnectionTimesOut, StreamFails, OpenFails,
         WriteProbe, Write, ProbeRejected, Goto, Exit
<1>2. CASE DiscoveryFails \/ NoVerifiedNode \/ StreamFails \/ OpenFails
  <2>1. status' = "failed" /\ data' = None
    BY <1>2 DEF DiscoveryFails, NoVerifiedNode, StreamFails, OpenFails, Exit
  <2>2. Promise!Fail
    BY <1>1, <2>1 DEF Promise!Fail, Promise!Answered
  <2> QED
    BY <2>2 DEF Promise!Next
<1>3. CASE \/ PongArrives \/ DiscoveryEnds \/ SelectNode \/ Accepted
           \/ ConnectionTimesOut \/ WriteProbe \/ ProbeRejected
  <2>1. UNCHANGED reportVars
    BY <1>3 DEF PongArrives, DiscoveryEnds, SelectNode, Accepted,
                ConnectionTimesOut, WriteProbe, Write, ProbeRejected
  <2>2. Sent' = Sent /\ Report' = Report
    BY <1>1, <2>1 DEF Sent, Report
  <2> QED
    BY <1>1, <2>2, RunKept
<1> QED
  BY <1>2, <1>3

LEMMA MatchIsBind ==
  ASSUME ClientInv, ProbeMatches
  PROVE  Promise!Bind
<1> USE DEF taskVars, searchVars, planVars, reportVars
<1>1. /\ pc = "awaitProbe" /\ status = "none" /\ verified = None
      /\ verified' = node /\ node \in matching
      /\ UNCHANGED <<taskVars, results>> /\ pc' # "await"
  BY DEF ClientInv, SearchInv, Sending, ProbeMatches, IdentityMatches, Goto, Exit
<1>2. status' = IF mode = "plan" THEN "none" ELSE "succeeded"
  BY <1>1 DEF ClientInv, TypeOK, ProbeMatches, Goto, Exit
<1> QED
  BY <1>1, <1>2 DEF Promise!Bind

(* Between the write of a step and its answer one step is in doubt.        *)
LEMMA PlanIsRun ==
  ASSUME ClientInv,
         \/ WriteCommand \/ SetupFails \/ WriteFails \/ ResultLost
         \/ ResultArrives
  PROVE  Promise!Next
<1> USE DEF taskVars, searchVars, candidateVars, planVars, reportVars
<1>1. /\ pc \in Sending /\ status = "none" /\ data = None
      /\ mode = "plan" /\ verified # None
      /\ Len(results) = index - 1 /\ AllGood(results)
      /\ UNCHANGED <<taskVars, verified>>
  BY ConstantsAssumption
     DEF ClientInv, SearchInv, SendingInv, Sending, Trying, WriteCommand, Write,
         SetupFails, WriteFails, ResultLost, Abandon, ResultArrives
<1>2. /\ index \in Nat /\ index <= Steps /\ Steps \in Nat
      /\ results \in Seq(BOOLEAN) /\ Len(results) \in Nat
      /\ index = Len(results) + 1
  BY <1>1, ConstantsAssumption DEF ClientInv, TypeOK
<1>3. pc = "write" => Promise!MaySend /\ Promise!Answered
  BY <1>1, <1>2 DEF Promise!MaySend, Promise!Answered, Promise!AllGood, AllGood
<1>4. CASE WriteCommand
  <2>1. pc = "write" /\ pc' = "await" /\ UNCHANGED <<results, status, data>>
    BY <1>4 DEF WriteCommand, Write, Goto
  <2>2. Promise!Send
    BY <1>1, <1>2, <1>3, <2>1 DEF Promise!Send
  <2> QED
    BY <2>2 DEF Promise!Next
<1>5. CASE SetupFails
  <2>1. /\ pc = "write" /\ pc' = "done" /\ status' = "failed" /\ data' = None
        /\ results' = results
    BY <1>5 DEF SetupFails, Abandon, Exit, Goto
  <2>2. Promise!Fail
    BY <1>1, <1>3, <2>1 DEF Promise!Fail
  <2> QED
    BY <2>2 DEF Promise!Next
<1>6. CASE WriteFails \/ ResultLost
  <2>1. /\ pc' = "done" /\ status' = "outcome_unknown" /\ results' = results
    BY <1>6 DEF WriteFails, ResultLost, Abandon, Exit, Goto
  <2>2. pc = "await" => ~Promise!Answered
    BY <1>2 DEF Promise!Answered
  <2>3. Promise!LoseTrack
    BY <1>1, <1>2, <1>3, <2>1, <2>2 DEF Promise!LoseTrack, Sending
  <2> QED
    BY <2>3 DEF Promise!Next
<1>7. CASE ResultArrives
  <2> DEFINE ok == job[node].ok
  <2>1. pc = "await" /\ results' = Append(results, ok)
    BY <1>7 DEF ResultArrives
  <2>2. ok \in BOOLEAN
    BY <2>1 DEF ClientInv, TypeOK, SearchInv, Sending
  <2>3. Len(results') = Len(results) + 1
    BY <1>2, <2>1, <2>2
  <2>4. CASE ok /\ index < Steps
    <3>1. pc' = "write" /\ UNCHANGED <<status, data>>
      BY <1>7, <2>4 DEF ResultArrives, Goto
    <3>2. Len(results) + 1 # Steps
      BY <1>2, <2>4
    <3>3. Promise!Receive
      BY <1>1, <2>1, <2>2, <2>3, <2>4, <3>1, <3>2 DEF Promise!Receive
    <3> QED
      BY <3>3 DEF Promise!Next
  <2>5. CASE ~(ok /\ index < Steps)
    <3>1. /\ pc' = "done" /\ data' = results'
          /\ ok => status' = "succeeded"
          /\ ~ok => status' = "failed"
      BY <1>7, <2>5 DEF ResultArrives, Exit, Goto
    <3>2. data' # None
      BY <1>2, <2>1, <2>2, <3>1, ConstantsAssumption
    <3>3. Promise!Receive
      BY <1>1, <1>2, <2>1, <2>2, <2>5, <3>1, <3>2 DEF Promise!Receive
    <3> QED
      BY <3>3 DEF Promise!Next
  <2> QED
    BY <2>4, <2>5
<1> QED
  BY <1>4, <1>5, <1>6, <1>7

LEMMA RestIsStutter ==
  ASSUME \/ ReadFragment \/ UNCHANGED vars
         \/ \E n \in Nodes : NodeExecutes(n) \/ NodeAnswers(n)
  PROVE  UNCHANGED Promise!runVars
<1>1. UNCHANGED <<taskVars, pc, verified, results, status, data>>
  BY DEF ReadFragment, NodeExecutes, NodeAnswers, vars, clientVars, candidateVars,
         planVars, reportVars
<1>2. Sent' = Sent /\ Report' = Report
  BY <1>1 DEF Sent, Report
<1> QED
  BY <1>1, <1>2, RunKept

(* The client implements the promise it makes to its caller: it is bound to*)
(* one node with the expected identity, nothing is sent after a failure or *)
(* twice, and its only report is the one the answers call for.             *)
THEOREM ClientKeepsPromise == Spec => KeepsPromise
<1>1. ClientInv /\ [Next]_vars => [Promise!Next]_Promise!runVars
  BY SearchIsFail, MatchIsBind, PlanIsRun, RestIsStutter
     DEF Next, Client, Environment, Promise!Next
<1> QED
  BY Inductive, RunStarts, <1>1, PTL DEF Spec, KeepsPromise, Promise!Spec
=============================================================================
