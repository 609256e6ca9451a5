----------------------- MODULE RemoteClientProperties -----------------------
(***************************************************************************)
(* What the native client guarantees to the Python bridge.                 *)
(***************************************************************************)
EXTENDS RemoteClient

(* Every variable has its type.                                            *)
TypeOK ==
  /\ mode \in {"verify", "plan"}
  /\ hint \in Nodes \cup {None}
  /\ matching \subseteq Nodes
  /\ pc \in {"discover", "next", "open", "probe", "awaitProbe", "write", "await",
             "done"}
  /\ found \subseteq Nodes /\ remaining \subseteq Nodes
  /\ node \in Nodes \cup {None} /\ verified \in Nodes \cup {None}
  /\ index \in 1..Steps
  /\ results \in Seq(BOOLEAN)
  /\ size \in 0..MaxResponse
  /\ status \in {"none", "succeeded", "failed", "outcome_unknown"}
  /\ data \in Seq(BOOLEAN) \cup {None}
  /\ accepted \subseteq Nodes /\ closed \subseteq Nodes
  /\ job \in [Nodes -> [command : 0..Steps, ok : BOOLEAN,
                        stage : {"none", "queued", "running", "answered"}]]
  /\ executed \in [Nodes -> Seq(1..Steps)]

(* A script of the plan runs only in a node that itself reported the       *)
(* expected process id and project, on the connection it reported them on. *)
(* The hint of an old session, a stale pong and the order of candidates    *)
(* are never proof.                                                        *)
OnlyVerifiedNodesRun ==
  \A n \in Nodes : executed[n] # <<>> => n \in matching

(* The steps a node has started are the first ones of the plan, in order,  *)
(* each once, and no two nodes share the plan: nothing is ever sent again, *)
(* neither to the same node nor to the next candidate.                     *)
InOrderAndOnce ==
  /\ \A n \in Nodes : executed[n] = [i \in 1..Len(executed[n]) |-> i]
  /\ \A m, n \in Nodes : executed[m] # <<>> /\ executed[n] # <<>> => m = n

AllGood(flags) == \A i \in DOMAIN flags : flags[i]
Started == {n \in Nodes : executed[n] # <<>>}

(* The printed status tells what the Editors did with the plan, also when  *)
(* a deadline, a lost stream or a late answer raced with it:               *)
(*   succeeded: every step ran and answered with success;                  *)
(*   failed with data: the last result is the only failure, nothing later  *)
(*     ran; failed without data: every step that ran has answered;         *)
(*   outcome_unknown: at most one step ran whose answer is missing.        *)
StatusIsTrue ==
  pc = "done" =>
    /\ status = "succeeded" /\ mode = "plan" =>
         /\ Len(executed[node]) = Steps /\ Len(data) = Steps /\ AllGood(data)
    /\ status = "failed" /\ data # None =>
         /\ Len(executed[node]) = Len(data)
         /\ ~data[Len(data)] /\ AllGood(SubSeq(data, 1, Len(data) - 1))
    /\ status = "failed" /\ data = None =>
         \A n \in Started : Len(executed[n]) = Len(results) /\ AllGood(results)
    /\ status = "outcome_unknown" =>
         \A n \in Started : Len(executed[n]) \in {Len(results), Len(results) + 1}

(* When the client ends a run itself, it has sent close_connection to every*)
(* node whose callback it accepted and to which anything can have been     *)
(* sent: rejected candidates and the verified node, after results, errors  *)
(* and deadlines alike.  The one node it can leave without is the one whose*)
(* stream could not be set up, and it ends the run for that node's sake.   *)
EveryCallbackClosed ==
  pc = "done" =>
    \A n \in accepted \ closed :
      n = node /\ verified = None /\ status = "failed" /\ job[n] = Idle

(* The client keeps the promise of module VerifiedRun.                     *)
Promise == INSTANCE VerifiedRun WITH
  executing <- mode = "plan",
  bound <- verified,
  sent <- IF pc = "await" \/ status = "outcome_unknown"
          THEN Len(results) + 1 ELSE Len(results),
  answers <- results,
  report <- IF status = "failed"
            THEN IF data = None THEN "known_failure" ELSE "stopped"
            ELSE status

(* Binding, sending, receiving and reporting follow that protocol step by  *)
(* step: nothing is sent after a failure, the report comes once and last.  *)
KeepsPromise == Promise!Spec
=============================================================================
