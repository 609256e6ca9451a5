--------------------------- MODULE DeadlinesProofs ---------------------------
(***************************************************************************)
(* Proofs about the deadlines, for every length of the timeouts, any number*)
(* of nodes and scripts: a run in time is a run of the bridge; a prompt    *)
(* Editor is verified before any deadline; a refusal before the timeout has*)
(* a cause; the process deadline is the last one.                          *)
(***************************************************************************)
EXTENDS Deadlines, NativeBridgeProofs

(* The inductive invariant.  A pong is what ends an early discovery, and a *)
(* prompt node has sent its own by then.                                   *)
ClockInv ==
  /\ now \in Nat /\ since \in Nat /\ since <= now
  /\ first \in Nat \cup {None} /\ (found = {} => first = None)

DiscoveryInv ==
  IF pc = "discover"
  THEN remaining = {} /\ now <= Timeout /\ (now > 0 => prompt \subseteq found)
  ELSE /\ prompt \subseteq found /\ remaining \subseteq found
       /\ found = {} => now >= Timeout

PromptInv ==
  /\ prompt \subseteq Nodes
  /\ \A n \in prompt :
       job[n].stage = "answered" /\ job[n].command = Probe => job[n].ok

(* Candidates passed over: none of them was prompt and the right one, and  *)
(* the hinted one came first.                                              *)
PassedInv ==
  pc # "discover" /\ verified = None =>
    /\ \A n \in Tried \cap prompt \cap matching : n = node /\ pc \in Trying
    /\ hint \in prompt \cap matching => Tried \subseteq {hint}
    /\ pc \in Trying => node \in Tried
    /\ pc = "done" => remaining = {}

(* The time a plan may have taken when so many of its steps have, if every *)
(* candidate was prompt and nothing stalled.                               *)
Budget(steps) == Timeout + steps * CommandTimeout

TimeInv ==
  pc # "discover" /\ Tried \subseteq prompt =>
    /\ verified = None => now <= Timeout
    /\ verified # None /\ ~stalled =>
         /\ pc = "write" => now <= Budget(index - 1)
         /\ pc = "await" => since <= Budget(index - 1) /\ now <= since + CommandTimeout
         /\ pc = "done" => now <= IF Mutating THEN Budget(Steps) ELSE Timeout

KilledInv ==
  /\ at \in {"cleanup", "done"} => child # "none"
  /\ child = "silent" =>
       now >= OuterDeadline /\ (stalled \/ ~(Tried \subseteq prompt))

TimedInv ==
  /\ ClockInv /\ DiscoveryInv /\ PromptInv /\ PassedInv /\ TimeInv /\ KilledInv

-----------------------------------------------------------------------------
LEMMA Times ==
  /\ Timeout \in Nat /\ 0 < Timeout /\ CommandTimeout \in Nat /\ 0 < CommandTimeout
  /\ Settle \in Nat /\ 0 < Settle /\ VerifySlack \in Nat /\ PlanSlack \in Nat
  /\ Steps \in Nat /\ 0 < Steps
  BY DeadlinesAssumption, ConstantsAssumption

LEMMA Budgets ==
  ASSUME NEW i \in 1..Steps
  PROVE  /\ Budget(i - 1) \in Nat /\ Budget(0) = Timeout
         /\ Budget(i - 1) + CommandTimeout = Budget(i)
         /\ Budget(i) <= Budget(Steps) /\ Budget(i) \in Nat /\ Budget(Steps) \in Nat
<1>1. \A j \in Nat : j * CommandTimeout \in Nat
  BY Times
<1>2. (i - 1) * CommandTimeout + CommandTimeout = i * CommandTimeout
  BY Times
<1>3. i * CommandTimeout + (Steps - i) * CommandTimeout = Steps * CommandTimeout
  BY Times
<1>4. (Steps - i) * CommandTimeout \in Nat
  BY <1>1, Times
<1>5. /\ (i - 1) * CommandTimeout \in Nat /\ i * CommandTimeout \in Nat
      /\ Steps * CommandTimeout \in Nat /\ 0 * CommandTimeout = 0
  BY <1>1, Times
<1> QED
  BY <1>2, <1>3, <1>4, <1>5, Times DEF Budget

(* Where the client can be, and which deadlines it has there.              *)
LEMMA Places ==
  ASSUME ClientInv
  PROVE  /\ pc \in {"discover", "next", "done"} \cup Trying \cup Sending
         /\ pc \in Trying => verified = None /\ node \in Nodes /\ index = 1
         /\ pc \in Sending => verified # None /\ mode = "plan"
         /\ verified # None => pc \in Sending \cup {"done"}
         /\ index \in 1..Steps /\ None \notin Nodes
  BY ConstantsAssumption DEF ClientInv, TypeOK, SearchInv, Trying, Sending

-----------------------------------------------------------------------------
(* A step in time is a step of the bridge, of the client or of a node.     *)
LEMMA TimedStepIsBridgeStep ==
  ASSUME BridgeInv, [TimedNext]_timedVars
  PROVE  [BridgeNext]_allVars
<1>1. child = "running" => at = "wait"
  BY DEF BridgeInv, ProcessInv
<1>2. CASE TimedClient
  <2>1. Client
    BY <1>2 DEF TimedClient, ClientInTime, ProbeLost, ProbeOfAnother, Client
  <2> QED
    BY <1>2, <2>1 DEF TimedClient, ClientRuns, BridgeNext, Bridge
<1>3. CASE PongInTime
  BY <1>1, <1>3 DEF PongInTime, EditorsMove, Environment, BridgeNext
<1>4. CASE NodesInTime
  BY <1>1, <1>4 DEF NodesInTime, EditorsMove, Environment, BridgeNext
<1>5. CASE Tick \/ UNCHANGED timedVars
  BY <1>5 DEF Tick, timedVars
<1>6. CASE DeadlineInTime \/ BridgeInTime
  BY <1>6 DEF DeadlineInTime, BridgeInTime, BridgeNext, Bridge
<1> QED
  BY <1>2, <1>3, <1>4, <1>5, <1>6 DEF TimedNext

-----------------------------------------------------------------------------
LEMMA TimedInitInv == TimedInit => TimedInv
<1> SUFFICES ASSUME TimedInit
             PROVE  TimedInv
  OBVIOUS
<1>1. /\ pc = "discover" /\ found = {} /\ remaining = {} /\ now = 0 /\ since = 0
      /\ first = None /\ child = "none" /\ at \in {"prepare", "start"}
      /\ prompt \subseteq Nodes /\ \A n \in Nodes : job[n].stage = "none"
  BY DEF TimedInit, BridgeInit, Init, Idle
<1> QED
  BY <1>1, Times DEF TimedInv, ClockInv, DiscoveryInv, PromptInv, PassedInv, TimeInv,
                     KilledInv

(* Time passes only where nobody prompt is waited for and no deadline is   *)
(* over.                                                                   *)
LEMMA TickKeeps ==
  ASSUME TimedInv, ClientInv, Tick
  PROVE  TimedInv'
<1>1. /\ child = "running" /\ now' = now + 1 /\ ~Overdue /\ ~PromptNodeOwes
      /\ stalled' = (stalled \/ pc \in {"probe", "write"})
      /\ UNCHANGED <<taskVars, pc, searchVars, candidateVars, index, job, at, child,
                     first, since, prompt>>
  BY DEF Tick, allVars, vars, bridgeVars, clientVars, planVars, nodeVars
<1>2. UNCHANGED <<mode, hint, matching, found, remaining, node, verified>>
  BY <1>1 DEF taskVars, searchVars, candidateVars
<1>3. now \in Nat /\ now' \in Nat /\ since \in Nat /\ since <= now
  BY <1>1 DEF TimedInv, ClockInv
<1>4. ClockInv'
  BY <1>1, <1>2, <1>3 DEF TimedInv, ClockInv
<1>5. pc \notin {"next", "done"}
  BY <1>1, <1>3 DEF Overdue, Expired, Limit
<1>6. pc = "discover" => now < Timeout /\ prompt \subseteq found
  BY <1>1, <1>3, Times DEF Overdue, DiscoveryOver, PromptNodeOwes
<1>7. pc \in Trying => node \notin prompt
  BY <1>1 DEF PromptNodeOwes, Trying
<1>8. pc = "await" => now < since + CommandTimeout
  BY <1>1, <1>3, Times DEF Overdue, Expired, Limit
<1>9. DiscoveryInv'
  BY <1>1, <1>2, <1>3, <1>6, Times DEF TimedInv, DiscoveryInv
<1>10. PromptInv' /\ PassedInv'
  BY <1>1, <1>2 DEF TimedInv, PromptInv, PassedInv, Tried
<1>11. TimeInv'
  <2>1. CASE pc = "discover"
    BY <1>1, <2>1 DEF TimeInv
  <2>2. CASE pc \in Trying
    <3>1. node \in Tried /\ ~(Tried \subseteq prompt)
      BY <1>7, <2>2, Places DEF TimedInv, PassedInv, Trying
    <3> QED
      BY <1>1, <1>2, <3>1 DEF TimeInv, Tried
  <2>3. CASE pc = "write"
    BY <1>1, <1>2, <2>3, Places DEF TimeInv, Sending
  <2>4. CASE pc = "await"
    <3>1. Tried \subseteq prompt /\ ~stalled => since <= Budget(index - 1)
      BY <2>4, Places DEF TimedInv, TimeInv, Sending
    <3>2. now' <= since + CommandTimeout
      BY <1>1, <1>3, <1>8, <2>4, Times
    <3> QED
      BY <1>1, <1>2, <2>4, <3>1, <3>2, Places DEF TimeInv, Sending, Tried, Budget
  <2> QED
    BY <1>5, <2>1, <2>2, <2>3, <2>4, Places DEF Sending
<1>12. KilledInv'
  BY <1>1 DEF TimedInv, KilledInv
<1> QED
  BY <1>4, <1>9, <1>10, <1>11, <1>12 DEF TimedInv

(* What every step of the client in time has in common.                    *)
LEMMA ClientFrame ==
  ASSUME TimedInv, TimedClient, found' = found
  PROVE  /\ ClockInv' /\ KilledInv'
         /\ UNCHANGED <<now, prompt>> /\ since' = now
         /\ stalled' = (stalled \/ size' > size)
<1>1. /\ child = "running" /\ since' = now
      /\ stalled' = (stalled \/ size' > size)
      /\ UNCHANGED <<at, child, now, first, prompt>>
  BY DEF TimedClient, bridgeVars
<1>2. ClockInv'
  BY <1>1 DEF TimedInv, ClockInv
<1>3. KilledInv'
  BY <1>1 DEF TimedInv, KilledInv
<1> QED
  BY <1>1, <1>2, <1>3

(* Discovery ends: no sooner than a prompt node has answered, and with no  *)
(* answer at all no sooner than at the timeout.                            *)
LEMMA DiscoveryKeeps ==
  ASSUME TimedInv, ClientInv, TimedClient, DiscoveryOver,
         DiscoveryEnds \/ (found = {} /\ DiscoveryFails)
  PROVE  TimedInv'
<1>1. /\ pc = "discover" /\ verified = None
      /\ UNCHANGED <<found, node, verified, matching, hint, mode, index, job>>
      /\ \/ found # {} /\ pc' = "next" /\ remaining' = found
         \/ found = {} /\ pc' = "done" /\ remaining' = remaining
  BY Places DEF DiscoveryEnds, DiscoveryFails, Exit, Goto, taskVars, searchVars,
                candidateVars, planVars, nodeVars, Sending
<1>2. ClockInv' /\ KilledInv' /\ UNCHANGED <<now, prompt>>
  BY <1>1, ClientFrame
<1>3. now > 0 /\ (found = {} => now >= Timeout)
  BY Times DEF DiscoveryOver, TimedInv, ClockInv
<1>4. prompt \subseteq found /\ remaining = {} /\ now <= Timeout
  BY <1>1, <1>3 DEF TimedInv, DiscoveryInv
<1>5. Tried' = {}
  BY <1>1, <1>4 DEF Tried
<1>6. DiscoveryInv' /\ PromptInv'
  BY <1>1, <1>2, <1>3, <1>4 DEF TimedInv, DiscoveryInv, PromptInv
<1>7. PassedInv'
  BY <1>1, <1>4, <1>5 DEF PassedInv, Trying
<1>8. TimeInv'
  BY <1>1, <1>2, <1>4 DEF TimeInv
<1> QED
  BY <1>2, <1>6, <1>7, <1>8 DEF TimedInv

(* The next candidate: the hinted one, if it has not been passed over.     *)
LEMMA SelectKeeps ==
  ASSUME TimedInv, ClientInv, TimedClient, SelectNode
  PROVE  TimedInv'
<1>1. /\ pc = "next" /\ pc' = "open" /\ remaining # {} /\ node' = NextNode
      /\ remaining' = remaining \ {NextNode}
      /\ UNCHANGED <<found, verified, matching, hint, mode, index, job>>
  BY DEF SelectNode, Goto, taskVars, planVars, nodeVars
<1>2. verified = None /\ remaining \subseteq Nodes
  BY <1>1, Places DEF Sending, ClientInv, TypeOK
<1>3. NextNode \in remaining
  BY <1>1, <1>2, NextCandidate
<1>4. ClockInv' /\ KilledInv' /\ UNCHANGED <<now, prompt>>
  BY <1>1, ClientFrame
<1>5. /\ prompt \subseteq found /\ remaining \subseteq found
      /\ found = {} => now >= Timeout
  BY <1>1 DEF TimedInv, DiscoveryInv
<1>6. Tried' = Tried \cup {NextNode}
  BY <1>1, <1>3, <1>5 DEF Tried
<1>7. DiscoveryInv' /\ PromptInv'
  BY <1>1, <1>4, <1>5 DEF TimedInv, DiscoveryInv, PromptInv
<1>8. /\ Tried \cap prompt \cap matching = {}
      /\ hint \in prompt \cap matching => Tried \subseteq {hint}
  BY <1>1, <1>2 DEF TimedInv, PassedInv, Trying
<1>9. hint \in prompt \cap matching => Tried' \subseteq {hint}
  <2>1. SUFFICES ASSUME hint \in prompt \cap matching
                 PROVE  Tried' \subseteq {hint}
    OBVIOUS
  <2>2. hint \in remaining
    BY <1>5, <1>8, <2>1 DEF Tried
  <2> QED
    BY <1>6, <1>8, <2>1, <2>2 DEF NextNode
<1>10. PassedInv'
  BY <1>1, <1>2, <1>4, <1>6, <1>8, <1>9 DEF PassedInv, Trying
<1>11. TimeInv'
  BY <1>1, <1>2, <1>4, <1>6 DEF TimedInv, TimeInv
<1> QED
  BY <1>4, <1>7, <1>10, <1>11 DEF TimedInv

(* The client goes on with its candidate, or gives it up for a reason.     *)
LEMMA TryingKeeps ==
  ASSUME TimedInv, ClientInv, TimedClient, pc \in Trying, pc' \in Trying \cup {"next"},
         UNCHANGED <<found, remaining, node, verified, matching, hint, mode, index>>,
         PromptInv',
         pc' = "next" => node \notin prompt \cap matching
  PROVE  TimedInv'
<1>1. ClockInv' /\ KilledInv' /\ UNCHANGED <<now, prompt>>
  BY ClientFrame
<1>2. verified = None /\ pc # "discover" /\ pc' \notin {"discover", "done"}
  BY Places DEF Trying
<1>3. Tried' = Tried
  BY DEF Tried
<1>4. DiscoveryInv'
  BY <1>1, <1>2 DEF TimedInv, DiscoveryInv
<1>5. PassedInv'
  BY <1>1, <1>2, <1>3 DEF TimedInv, PassedInv
<1>6. TimeInv'
  BY <1>1, <1>2, <1>3 DEF TimedInv, TimeInv
<1> QED
  BY <1>1, <1>4, <1>5, <1>6 DEF TimedInv

(* The connection to the candidate and its probe.                          *)
LEMMA CandidateKeeps ==
  ASSUME TimedInv, ClientInv, TimedClient,
         \/ Accepted \/ (ConnectionTimesOut /\ node \notin prompt)
         \/ WriteProbe \/ ProbeLost \/ ProbeOfAnother
         \/ ReadFragment /\ pc = "awaitProbe"
  PROVE  TimedInv'
<1>1. /\ pc \in Trying /\ pc' \in Trying \cup {"next"}
      /\ UNCHANGED <<found, remaining, node, verified, matching, hint, mode, index>>
  BY DEF Accepted, ConnectionTimesOut, WriteProbe, Write, ProbeLost, ProbeOfAnother,
         ProbeRejected, ReadFragment, Goto, Trying, taskVars, searchVars,
         candidateVars, planVars
<1>2. node \in Nodes /\ prompt' = prompt
  BY <1>1, Places, ClientFrame
<1>3. PromptInv'
  <2>1. CASE WriteProbe
    <3>1. \A n \in Nodes : job'[n] = job[n] \/ job'[n].stage = "queued"
      BY <1>2, <2>1 DEF WriteProbe, Write, ClientInv, TypeOK
    <3> QED
      BY <1>2, <3>1 DEF TimedInv, PromptInv
  <2>2. CASE job' = job
    BY <1>2, <2>2 DEF TimedInv, PromptInv
  <2> QED
    BY <2>1, <2>2 DEF Accepted, ConnectionTimesOut, ProbeLost, ProbeOfAnother,
                      ProbeRejected, ReadFragment, nodeVars
<1>4. pc' = "next" => node \notin prompt \cap matching
  <2>1. CASE ProbeOfAnother
    BY <2>1 DEF ProbeOfAnother, IdentityMatches, HasAnswer, TimedInv, PromptInv
  <2>2. CASE ProbeLost \/ (ConnectionTimesOut /\ node \notin prompt)
    BY <2>2 DEF ProbeLost
  <2>3. CASE Accepted \/ WriteProbe \/ (ReadFragment /\ pc = "awaitProbe")
    BY <2>3 DEF Accepted, WriteProbe, Write, ReadFragment, Goto
  <2> QED
    BY <2>1, <2>2, <2>3
<1> QED
  BY <1>1, <1>3, <1>4, TryingKeeps

(* Ways out of the search: nobody is left, or the candidate has proved that*)
(* it is the expected one.                                                 *)
LEMMA NobodyKeeps ==
  ASSUME TimedInv, ClientInv, TimedClient, NoVerifiedNode
  PROVE  TimedInv'
<1>1. /\ pc = "next" /\ pc' = "done" /\ remaining = {}
      /\ UNCHANGED <<found, remaining, node, verified, matching, hint, mode, index, job>>
  BY DEF NoVerifiedNode, Exit, Goto, taskVars, searchVars, candidateVars, planVars,
         nodeVars
<1>2. ClockInv' /\ KilledInv' /\ UNCHANGED <<now, prompt>>
  BY <1>1, ClientFrame
<1>3. verified = None /\ Tried' = Tried
  BY <1>1, Places DEF Tried, Sending
<1>4. DiscoveryInv' /\ PromptInv'
  BY <1>1, <1>2 DEF TimedInv, DiscoveryInv, PromptInv
<1>5. PassedInv'
  BY <1>1, <1>2, <1>3 DEF TimedInv, PassedInv, Trying
<1>6. TimeInv'
  BY <1>1, <1>2, <1>3 DEF TimedInv, TimeInv
<1> QED
  BY <1>2, <1>4, <1>5, <1>6 DEF TimedInv

LEMMA MatchKeeps ==
  ASSUME TimedInv, ClientInv, TimedClient, ProbeMatches
  PROVE  TimedInv'
<1>1. /\ pc = "awaitProbe" /\ verified' = node
      /\ IF mode = "verify" THEN pc' = "done" ELSE pc' = "write"
      /\ UNCHANGED <<found, remaining, matching, hint, mode, index, job>>
  BY DEF ProbeMatches, Exit, Goto, taskVars, searchVars, planVars, nodeVars
<1>2. ClockInv' /\ KilledInv' /\ UNCHANGED <<now, prompt>>
  BY <1>1, ClientFrame
<1>3. /\ verified = None /\ index = 1 /\ Tried' = Tried /\ verified' # None
      /\ mode \in {"verify", "plan"}
  BY <1>1, Places DEF Tried, Trying, ClientInv, TypeOK
<1>4. DiscoveryInv' /\ PromptInv'
  BY <1>1, <1>2 DEF TimedInv, DiscoveryInv, PromptInv
<1>5. PassedInv'
  BY <1>3 DEF PassedInv
<1>6. Tried \subseteq prompt => now <= Timeout
  BY <1>1, <1>3 DEF TimedInv, TimeInv
<1>7. Budget(index' - 1) = Timeout
  <2>1. index' - 1 = 0
    BY <1>1, <1>3
  <2> QED
    BY <2>1, <1>3, Budgets, Times
<1>8. TimeInv'
  BY <1>1, <1>2, <1>3, <1>6, <1>7 DEF TimeInv, Mutating, Budget
<1> QED
  BY <1>2, <1>4, <1>5, <1>8 DEF TimedInv

(* The plan: each step has the time of one command.                        *)
LEMMA SendingKeeps ==
  ASSUME TimedInv, ClientInv, TimedClient, pc \in Sending,
         UNCHANGED <<found, remaining, node, verified, matching, hint, mode>>, PromptInv',
         \/ pc = "write" /\ pc' = "await" /\ index' = index
         \/ pc = "await" /\ pc' = "await" /\ index' = index /\ size' > size
         \/ pc = "await" /\ pc' = "write" /\ index' = index + 1 /\ index < Steps
         \/ pc' = "done" /\ index' = index
  PROVE  TimedInv'
<1>1. ClockInv' /\ KilledInv' /\ UNCHANGED <<now, prompt>> /\ since' = now
      /\ stalled' = (stalled \/ size' > size)
  BY ClientFrame
<1>2. /\ verified # None /\ verified' # None /\ mode = "plan" /\ Tried' = Tried
      /\ index \in 1..Steps /\ pc # "discover" /\ pc' # "discover"
  BY Places DEF Tried, Sending
<1>3. now \in Nat /\ since \in Nat
  BY DEF TimedInv, ClockInv
<1>4. DiscoveryInv'
  BY <1>1, <1>2 DEF TimedInv, DiscoveryInv
<1>5. PassedInv'
  BY <1>2 DEF PassedInv
<1>6. /\ Budget(index - 1) \in Nat /\ Budget(index - 1) + CommandTimeout = Budget(index)
      /\ Budget(index) <= Budget(Steps) /\ Budget(index) \in Nat
      /\ Budget(Steps) \in Nat
  BY <1>2, Budgets
<1>7. ASSUME Tried \subseteq prompt, ~stalled
      PROVE  /\ pc = "write" => now <= Budget(index - 1)
             /\ now <= Budget(index - 1) + CommandTimeout
  <2>1. /\ pc = "write" => now <= Budget(index - 1)
        /\ pc = "await" => since <= Budget(index - 1) /\ now <= since + CommandTimeout
    BY <1>2, <1>7 DEF TimedInv, TimeInv
  <2> QED
    BY <1>3, <1>6, <2>1, Times DEF Sending
<1>8. TimeInv'
  <2>1. SUFFICES ASSUME Tried \subseteq prompt, ~stalled, ~(size' > size)
                 PROVE  /\ pc' = "write" => now <= Budget(index' - 1)
                        /\ pc' = "await" => /\ now <= Budget(index' - 1)
                                           /\ now <= now + CommandTimeout
                        /\ pc' = "done" => now <= Budget(Steps)
    BY <1>1, <1>2 DEF TimeInv, Mutating, Budget
  <2>2. CASE pc = "write" /\ pc' = "await" /\ index' = index
    BY <1>3, <1>7, <2>1, <2>2, Times
  <2>3. CASE pc = "await" /\ pc' = "write" /\ index' = index + 1
    <3>1. index' - 1 = index
      BY <1>2, <2>3
    <3> QED
      BY <1>6, <1>7, <2>1, <2>3, <3>1
  <2>4. CASE pc' = "done"
    <3>1. now <= Budget(index)
      BY <1>6, <1>7, <2>1
    <3> QED
      BY <1>3, <1>6, <2>4, <3>1
  <2> QED
    BY <2>1, <2>2, <2>3, <2>4
<1> QED
  BY <1>1, <1>4, <1>5, <1>8 DEF TimedInv

LEMMA PlanKeeps ==
  ASSUME TimedInv, ClientInv, TimedClient,
         \/ WriteCommand \/ SetupFails \/ WriteFails \/ ResultLost \/ ResultArrives
         \/ ReadFragment /\ pc = "await"
  PROVE  TimedInv'
<1>1. /\ pc \in Sending
      /\ UNCHANGED <<found, remaining, node, verified, matching, hint, mode>>
  BY DEF WriteCommand, Write, SetupFails, WriteFails, ResultLost, Abandon,
         ResultArrives, ReadFragment, Sending, taskVars, searchVars, candidateVars
<1>2. \/ pc = "write" /\ pc' = "await" /\ index' = index
      \/ pc = "await" /\ pc' = "await" /\ index' = index /\ size' > size
      \/ pc = "await" /\ pc' = "write" /\ index' = index + 1 /\ index < Steps
      \/ pc' = "done" /\ index' = index
  <2>1. CASE WriteCommand \/ SetupFails \/ WriteFails \/ ResultLost
    BY <2>1 DEF WriteCommand, Write, SetupFails, WriteFails, ResultLost, Abandon,
                Exit, Goto, planVars
  <2>2. CASE ResultArrives
    BY <2>2 DEF ResultArrives, Exit, Goto
  <2>3. CASE ReadFragment /\ pc = "await"
    BY <2>3, ConstantsAssumption DEF ReadFragment, planVars, ClientInv, TypeOK
  <2> QED
    BY <2>1, <2>2, <2>3
<1>3. PromptInv'
  <2>1. \A n \in Nodes : job'[n] = job[n] \/ job'[n].stage = "queued"
    <3>1. CASE WriteCommand
      BY <3>1 DEF WriteCommand, Write, ClientInv, TypeOK
    <3>2. CASE job' = job
      BY <3>2
    <3> QED
      BY <3>1, <3>2 DEF SetupFails, WriteFails, ResultLost, Abandon, ResultArrives,
                        ReadFragment, nodeVars
  <2>2. prompt' = prompt
    BY <1>1, ClientFrame
  <2> QED
    BY <2>1, <2>2 DEF TimedInv, PromptInv
<1> QED
  BY <1>1, <1>2, <1>3, SendingKeeps

LEMMA TimedClientKeeps == TimedInv /\ ClientInv /\ TimedClient => TimedInv'
<1> SUFFICES ASSUME TimedInv, ClientInv, TimedClient
             PROVE  TimedInv'
  OBVIOUS
<1>1. ReadFragment => pc \in {"awaitProbe", "await"}
  BY DEF ReadFragment
<1> QED
  BY <1>1, DiscoveryKeeps, SelectKeeps, CandidateKeeps, NobodyKeeps, MatchKeeps, PlanKeeps
     DEF TimedClient, ClientInTime

-----------------------------------------------------------------------------
(* Nodes: a pong is noticed at once, and a prompt node answers the probe.  *)
LEMMA NodesKeep ==
  ASSUME TimedInv, ClientInv, PongInTime \/ NodesInTime
  PROVE  TimedInv'
<1>1. /\ UNCHANGED <<pc, remaining, node, verified, matching, hint, mode, index,
                     at, child, now, since, prompt, stalled>>
      /\ child = "running"
  BY DEF PongInTime, PongArrives, NodesInTime, NodeExecutes, NodeAnswers, taskVars,
         searchVars, candidateVars, planVars, bridgeVars, clocks
<1>2. PromptInv'
  <2>1. CASE PongInTime
    BY <1>1, <2>1 DEF PongInTime, PongArrives, nodeVars, TimedInv, PromptInv
  <2>2. CASE NodesInTime
    <3>1. PICK n \in Nodes :
            \/ NodeExecutes(n)
            \/ NodeAnswers(n) /\ (n \in prompt /\ job[n].command = Probe => job'[n].ok)
      BY <2>2 DEF NodesInTime
    <3>2. /\ \A m \in Nodes \ {n} : job'[m] = job[m]
          /\ job'[n].command = job[n].command
          /\ NodeExecutes(n) => job'[n].stage = "running"
      BY <3>1 DEF NodeExecutes, NodeAnswers, ClientInv, TypeOK
    <3> QED
      BY <1>1, <3>1, <3>2 DEF TimedInv, PromptInv
  <2> QED
    BY <2>1, <2>2
<1>3. CASE PongInTime /\ pc = "discover"
  <2>1. /\ found \subseteq found' /\ found' # {}
        /\ first' = IF first = None THEN now ELSE first
    BY <1>3 DEF PongInTime, PongArrives
  <2>2. ClockInv' /\ DiscoveryInv'
    BY <1>1, <1>3, <2>1 DEF TimedInv, ClockInv, DiscoveryInv
  <2>3. PassedInv' /\ TimeInv'
    BY <1>1, <1>3 DEF PassedInv, TimeInv
  <2>4. KilledInv'
    BY <1>1 DEF TimedInv, KilledInv
  <2> QED
    BY <1>2, <2>2, <2>3, <2>4 DEF TimedInv
<1>4. CASE NodesInTime
  <2>1. UNCHANGED <<found, first>> /\ Tried' = Tried
    BY <1>1, <1>4 DEF NodesInTime, NodeExecutes, NodeAnswers, searchVars, clocks, Tried
  <2>2. ClockInv' /\ DiscoveryInv' /\ PassedInv' /\ KilledInv'
    BY <1>1, <2>1 DEF TimedInv, ClockInv, DiscoveryInv, PassedInv, KilledInv
  <2>3. TimeInv'
    BY <1>1, <2>1 DEF TimedInv, TimeInv, Mutating, Budget
  <2> QED
    BY <1>2, <2>2, <2>3 DEF TimedInv
<1> QED
  BY <1>3, <1>4 DEF PongInTime, PongArrives

-----------------------------------------------------------------------------
(* The process deadline lies after all the client's own ones together.     *)
LEMMA DeadlineIsAhead ==
  ASSUME TimedInv, ClientInv, verified = None \/ ~stalled,
         pc = "discover" \/ Tried \subseteq prompt
  PROVE  now < OuterDeadline
<1>1. OuterDeadline = 2 * Timeout + (IF Mutating THEN Steps * CommandTimeout + PlanSlack
                                     ELSE VerifySlack)
  BY Times DEF OuterDeadline
<1>2. Budget(Steps) \in Nat /\ Budget(Steps) = Timeout + Steps * CommandTimeout
      /\ Steps * CommandTimeout \in Nat
  BY Times DEF Budget
<1>3. /\ Timeout < OuterDeadline
      /\ Mutating => Budget(Steps) < OuterDeadline
      /\ Timeout \in Nat /\ OuterDeadline \in Nat /\ now \in Nat /\ since \in Nat
  BY <1>1, <1>2, Times DEF TimedInv, ClockInv
<1>4. CASE pc = "discover" \/ verified = None
  <2>1. now <= Timeout
    BY <1>4 DEF TimedInv, DiscoveryInv, TimeInv
  <2> QED
    BY <1>3, <2>1
<1>5. CASE pc # "discover" /\ verified # None
  <2>1. pc \in Sending \cup {"done"} /\ (pc \in Sending => Mutating) /\ index \in 1..Steps
    BY <1>5, Places DEF Mutating
  <2>2. /\ Budget(index - 1) \in Nat /\ Budget(index - 1) + CommandTimeout = Budget(index)
        /\ Budget(index) <= Budget(Steps) /\ Budget(index) \in Nat
    BY <2>1, Budgets
  <2>3. /\ pc = "write" => now <= Budget(index - 1)
        /\ pc = "await" => since <= Budget(index - 1) /\ now <= since + CommandTimeout
        /\ pc = "done" => now <= IF Mutating THEN Budget(Steps) ELSE Timeout
    BY <1>5 DEF TimedInv, TimeInv
  <2>4. CASE pc \in Sending
    <3>1. now <= Budget(Steps)
      BY <1>2, <1>3, <2>2, <2>3, <2>4, Times DEF Sending
    <3> QED
      BY <1>2, <1>3, <2>1, <2>4, <3>1
  <2>5. CASE pc = "done"
    BY <1>2, <1>3, <2>3, <2>5
  <2> QED
    BY <2>1, <2>4, <2>5
<1> QED
  BY <1>4, <1>5

LEMMA BridgeInTimeKeeps ==
  ASSUME TimedInv, ClientInv, BridgeInv, DeadlineInTime \/ BridgeInTime
  PROVE  TimedInv'
<1>1. UNCHANGED <<vars, clocks>>
  BY DEF DeadlineInTime, DeadlineKills, BridgeInTime, WriteScript, WritePlan, Start,
         ClientExits, ParseResult, Cleanup
<1>2. /\ UNCHANGED <<pc, found, remaining, node, verified, matching, hint, mode,
                     index, job, now, first, since, prompt, stalled>>
      /\ Tried' = Tried /\ OuterDeadline' = OuterDeadline
  BY <1>1 DEF vars, taskVars, clientVars, searchVars, candidateVars, planVars,
              nodeVars, clocks, Tried, OuterDeadline, Mutating
<1>3. ClockInv' /\ DiscoveryInv' /\ PromptInv' /\ PassedInv'
  BY <1>2 DEF TimedInv, ClockInv, DiscoveryInv, PromptInv, PassedInv
<1>4. TimeInv'
  BY <1>2 DEF TimedInv, TimeInv, Mutating, Budget
<1>5. KilledInv'
  <2>1. CASE DeadlineInTime
    <3>1. now >= OuterDeadline /\ child' = "silent"
      BY <2>1 DEF DeadlineInTime, DeadlineKills
    <3>2. now \in Nat /\ OuterDeadline \in Nat
      BY Times DEF TimedInv, ClockInv, OuterDeadline
    <3>3. stalled \/ ~(Tried \subseteq prompt)
      BY <3>1, <3>2, DeadlineIsAhead
    <3> QED
      BY <1>2, <3>1, <3>3 DEF KilledInv
  <2>2. CASE BridgeInTime
    <3>1. /\ child' = "silent" => child = "silent"
          /\ at' \in {"cleanup", "done"} => child' # "none"
      BY <2>2 DEF BridgeInTime, WriteScript, WritePlan, Start, ClientExits,
                  ParseResult, Leave, Cleanup, TimedInv, KilledInv
    <3> QED
      BY <1>2, <3>1 DEF TimedInv, KilledInv
  <2> QED
    BY <2>1, <2>2
<1> QED
  BY <1>3, <1>4, <1>5 DEF TimedInv

LEMMA TimedStepKeeps ==
  TimedInv /\ ClientInv /\ BridgeInv /\ [TimedNext]_timedVars
    => TimedInv' /\ ClientInv' /\ BridgeInv'
<1> SUFFICES ASSUME TimedInv, ClientInv, BridgeInv, [TimedNext]_timedVars
             PROVE  TimedInv' /\ ClientInv' /\ BridgeInv'
  OBVIOUS
<1>1. [BridgeNext]_allVars
  BY TimedStepIsBridgeStep
<1>2. ClientInv' /\ BridgeInv'
  BY <1>1, BridgeStepKeeps, BridgeStepIsClientStep, StepKeeps
<1>3. CASE UNCHANGED timedVars
  <2>1. /\ UNCHANGED <<pc, found, remaining, node, verified, matching, hint, mode,
                       index, job, at, child, now, first, since, prompt, stalled>>
        /\ Tried' = Tried /\ OuterDeadline' = OuterDeadline
    BY <1>3 DEF timedVars, allVars, bridgeVars, vars, taskVars, clientVars, searchVars,
                candidateVars, planVars, nodeVars, clocks, Tried, OuterDeadline, Mutating
  <2>2. ClockInv' /\ DiscoveryInv' /\ PromptInv' /\ PassedInv' /\ KilledInv'
    BY <2>1 DEF TimedInv, ClockInv, DiscoveryInv, PromptInv, PassedInv, KilledInv
  <2>3. TimeInv'
    BY <2>1 DEF TimedInv, TimeInv, Mutating, Budget
  <2> QED
    BY <1>2, <2>2, <2>3 DEF TimedInv
<1>4. CASE TimedNext
  BY <1>2, <1>4, TickKeeps, TimedClientKeeps, NodesKeep, BridgeInTimeKeeps DEF TimedNext
<1> QED
  BY <1>3, <1>4

LEMMA TimedAlways == TimedSpec => [](TimedInv /\ ClientInv /\ BridgeInv)
<1>1. TimedInit => TimedInv /\ ClientInv /\ BridgeInv
  BY TimedInitInv, BridgeInitInv, InitInv DEF TimedInit, BridgeInit
<1> QED
  BY <1>1, TimedStepKeeps, PTL DEF TimedSpec

-----------------------------------------------------------------------------
(* A run with deadlines that pass when they are due is a run of the bridge *)
(* with deadlines that may pass at any moment: whatever was proved of that *)
(* one, and of the client in it, holds of this one.                        *)
THEOREM TimedRunsBridge == TimedSpec => BridgeSpec
<1>1. TimedInit => BridgeInit
  BY DEF TimedInit
<1>2. BridgeInv /\ [TimedNext]_timedVars => [BridgeNext]_allVars
  BY TimedStepIsBridgeStep
<1> QED
  BY <1>1, <1>2, TimedAlways, PTL DEF TimedSpec, BridgeSpec

(* No prompt candidate with the expected identity has been passed over.    *)
LEMMA NobodyPassedOver ==
  ASSUME TimedInv, ClientInv, pc = "done", verified = None
  PROVE  /\ Tried = found /\ Tried \cap prompt \cap matching = {}
         /\ prompt \subseteq found /\ (found = {} => now >= Timeout)
<1>1. prompt \subseteq found /\ (found = {} => now >= Timeout)
  BY DEF TimedInv, DiscoveryInv
<1>2. remaining = {} /\ \A n \in Tried \cap prompt \cap matching : pc \in Trying
  BY DEF TimedInv, PassedInv
<1> QED
  BY <1>1, <1>2 DEF Tried, Trying

(* When the call has returned, its client has printed its result or was    *)
(* killed at the process deadline.                                         *)
LEMMA PrintedOrKilled ==
  ASSUME TimedInv, BridgeInv, at = "done"
  PROVE  pc = "done" \/ (child = "silent" /\ now >= OuterDeadline)
<1>1. child \in {"printed", "silent"}
  BY DEF TimedInv, KilledInv, BridgeInv, ProcessInv
<1> QED
  BY <1>1 DEF TimedInv, KilledInv, BridgeInv, ChildInv

(* The process deadline ends a run only if a candidate was slow, a response*)
(* came in pieces or a write had to wait; never because of the number of   *)
(* scripts (native_transport.execute_many).                                *)
THEOREM OuterIsLast == TimedSpec => []OuterDeadlineIsLast
<1>1. TimedInv => OuterDeadlineIsLast
  BY DEF TimedInv, KilledInv, OuterDeadlineIsLast
<1> QED
  BY <1>1, TimedAlways, PTL

(* An Editor that answers at once is verified, whoever else answers pings, *)
(* if it is hinted or nobody else is mute (open_verified, discover).       *)
THEOREM PromptVerified == TimedSpec => []PromptEditorIsVerified
<1>1. ASSUME TimedInv, ClientInv, BridgeInv, NEW n \in prompt \cap matching,
             at = "done", hint = n \/ found \subseteq prompt, verified = None
      PROVE  FALSE
  <2>1. CASE pc = "done"
    BY <1>1, <2>1, NobodyPassedOver
  <2>2. CASE pc # "done" /\ child = "silent" /\ now >= OuterDeadline
    <3>1. pc = "discover" \/ Tried \subseteq prompt
      BY <1>1 DEF TimedInv, PassedInv, Tried
    <3>2. now < OuterDeadline
      BY <1>1, <3>1, DeadlineIsAhead
    <3>3. now \in Nat /\ OuterDeadline \in Nat
      BY <1>1, Times DEF TimedInv, ClockInv, OuterDeadline
    <3> QED
      BY <2>2, <3>2, <3>3
  <2> QED
    BY <1>1, <2>1, <2>2, PrintedOrKilled
<1>2. TimedInv /\ ClientInv /\ BridgeInv => PromptEditorIsVerified
  BY <1>1 DEF PromptEditorIsVerified
<1> QED
  BY <1>2, TimedAlways, PTL

(* A refusal before the timeout is the doing of Editors that answered: none*)
(* of them both answered at once and was the expected one.                 *)
THEOREM EarlyRefusalCaused == TimedSpec => []EarlyRefusalHasCause
<1>1. ASSUME TimedInv, ClientInv, BridgeInv, at = "done", verified = None, now < Timeout
      PROVE  Tried # {} /\ Tried \cap prompt \cap matching = {}
  <2>1. now \in Nat /\ OuterDeadline \in Nat /\ Timeout <= OuterDeadline
    <3>1. CommandTimeout * Steps \in Nat
      BY Times
    <3> QED
      BY <1>1, <3>1, Times DEF TimedInv, ClockInv, OuterDeadline
  <2>2. pc = "done"
    BY <1>1, <2>1, Times, PrintedOrKilled
  <2> QED
    BY <1>1, <2>1, <2>2, Times, NobodyPassedOver
<1>2. TimedInv /\ ClientInv /\ BridgeInv => EarlyRefusalHasCause
  BY <1>1 DEF EarlyRefusalHasCause
<1> QED
  BY <1>2, TimedAlways, PTL
=============================================================================
