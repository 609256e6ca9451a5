----------------------------- MODULE Deadlines -----------------------------
(***************************************************************************)
(* The deadlines of one native client run, in time: the client's own, for  *)
(* discovery, for every callback and for every read, and the one that      *)
(* native_transport puts around the process.  Modules RemoteClient and     *)
(* NativeBridge let a deadline pass at any moment; here it passes when it  *)
(* is due.  Errors of local sockets and a crash of the client, which can   *)
(* end a run at any time, are left to those modules.                       *)
(***************************************************************************)
EXTENDS NativeBridge

CONSTANTS
  Timeout,         \* discovery_timeout and connect_timeout, both "timeout"
  Settle,          \* discovery_settle
  CommandTimeout,  \* command_timeout
  VerifySlack,     \* seconds verify adds to its process deadline
  PlanSlack        \* seconds execute_many adds

(* The client's options are parsed by main.rs's positive_seconds.  With no *)
(* time to settle, the first pong would end the discovery.                 *)
ASSUME DeadlinesAssumption ==
  /\ Timeout \in Nat \ {0} /\ CommandTimeout \in Nat \ {0}
  /\ Settle \in Nat \ {0} /\ VerifySlack \in Nat /\ PlanSlack \in Nat

VARIABLES
  now,      \* time since the client was started
  first,    \* when the first pong arrived, or None
  since,    \* when the client's current wait began
  prompt,   \* nodes that answer pings, open requests and probes at once
  stalled   \* has a response come in pieces, or a write had to wait (history)

clocks == <<now, first, since, prompt, stalled>>
timedVars == <<allVars, clocks>>

TimedInit ==
  /\ BridgeInit
  /\ prompt \in SUBSET Nodes
  /\ now = 0 /\ first = None /\ since = 0 /\ stalled = FALSE

(* Mutant: one command's time for all the commands of a plan.              *)
MutOuterDeadline ==
  2 * Timeout + IF Mutating THEN CommandTimeout + PlanSlack ELSE VerifySlack
OuterDeadline ==
  2 * Timeout + IF Mutating THEN CommandTimeout * Steps + PlanSlack
                ELSE VerifySlack

(* Mutant: the settle time is counted from the start.                      *)
MutDiscoveryOver == now >= Timeout \/ now >= Settle
DiscoveryOver ==
  \/ now >= Timeout
  \/ first # None /\ now >= first + Settle

(* How long the client may stay where it is: a read or a write at a time,  *)
(* an accept with its repeated open requests.                              *)
Limit ==
  CASE pc \in {"open", "probe", "awaitProbe"} -> Timeout
    [] pc \in {"write", "await"} -> CommandTimeout
    [] OTHER -> 0
Expired == now >= since + Limit
Overdue == IF pc = "discover" THEN DiscoveryOver ELSE Expired

(* A complete response is there to be read.                                *)
Readable == \/ pc = "awaitProbe" /\ HasAnswer(Probe)
            \/ pc = "await" /\ HasAnswer(index)

(* A prompt node has yet to do something that takes it no time.            *)
PromptNodeOwes ==
  \/ pc = "discover" /\ ~(prompt \subseteq found)
  \/ pc \in {"open", "probe"} /\ node \in prompt
  \/ pc = "awaitProbe" /\ node \in prompt

Tick ==
  /\ child = "running" /\ now < OuterDeadline
  /\ ~Overdue /\ ~Readable /\ ~PromptNodeOwes
  /\ now' = now + 1
  /\ stalled' = (stalled \/ pc \in {"probe", "write"})
  /\ UNCHANGED <<allVars, first, since, prompt>>

ProbeLost == ProbeRejected /\ node \notin prompt
ProbeOfAnother == ProbeRejected /\ HasAnswer(Probe) /\ ~IdentityMatches

(* A wait that is over, for its deadline or for what it waited for.        *)
ClientInTime ==
  \/ DiscoveryOver /\ (DiscoveryEnds \/ (found = {} /\ DiscoveryFails))
  \/ SelectNode \/ NoVerifiedNode \/ Accepted
  \/ Expired /\ ConnectionTimesOut /\ node \notin prompt
  \/ WriteProbe /\ (node \in prompt => job'[node].stage = "queued")
  \/ ProbeLost \/ ProbeOfAnother \/ ProbeMatches
  \/ WriteCommand \/ SetupFails \/ WriteFails \/ ResultLost \/ ResultArrives
  \/ ReadFragment /\ (node \in prompt => pc = "await")

TimedClient ==
  /\ child = "running" /\ ClientInTime
  /\ since' = now
  /\ stalled' = (stalled \/ size' > size)
  /\ UNCHANGED <<bridgeVars, now, first, prompt>>

PongInTime ==
  /\ child = "running" /\ PongArrives
  /\ first' = IF first = None THEN now ELSE first
  /\ UNCHANGED <<bridgeVars, now, since, prompt, stalled>>

NodesInTime ==
  /\ child = "running"
  /\ \E n \in Nodes :
       \/ NodeExecutes(n)
       \/ NodeAnswers(n) /\ (n \in prompt /\ job[n].command = Probe => job'[n].ok)
  /\ UNCHANGED <<bridgeVars, clocks>>

DeadlineInTime ==
  /\ now >= OuterDeadline /\ DeadlineKills
  /\ UNCHANGED clocks

BridgeInTime ==
  /\ \/ WriteScript \/ WritePlan \/ Start \/ ClientExits \/ ParseResult
     \/ Cleanup
  /\ UNCHANGED clocks

TimedNext ==
  TimedClient \/ PongInTime \/ NodesInTime \/ Tick \/ DeadlineInTime
    \/ BridgeInTime

TimedSpec == TimedInit /\ [][TimedNext]_timedVars

-----------------------------------------------------------------------------
(* Candidates the client has turned to.                                    *)
Tried == found \ remaining

(* An Editor that answers at once is verified before any deadline passes   *)
(* if it is the node of the hint, or if all nodes that answered the ping   *)
(* are prompt.  Otherwise mute nodes tried before it may use up the time.  *)
PromptEditorIsVerified ==
  \A n \in prompt \cap matching :
    at = "done" /\ (hint = n \/ found \subseteq prompt) => verified # None

(* The process deadline is the last one: it ends a run only if a candidate *)
(* has been slow, a response came in pieces or a write had to wait; never  *)
(* because of the number of scripts and the time each may take.            *)
OuterDeadlineIsLast ==
  child = "silent" => stalled \/ ~(Tried \subseteq prompt)

(* A refusal that comes before the timeout is the doing of an Editor that  *)
(* has answered: never of one that is not there yet.                       *)
EarlyRefusalHasCause ==
  at = "done" /\ verified = None /\ now < Timeout =>
    Tried # {} /\ Tried \cap prompt \cap matching = {}

(* scripts/main_processor.py:263 "was not verified within {timeout:g}s": an*)
(* Editor that has not even answered a ping is refused when the timeout is *)
(* over, not before.                                                       *)
RefusedOnlyAfterTimeout ==
  at = "done" /\ mode = "verify" /\ outcome = "unavailable"
  /\ found \cap matching = {} => now >= Timeout
=============================================================================
