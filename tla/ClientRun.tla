------------------------------ MODULE ClientRun ------------------------------
(***************************************************************************)
(* What a coordinator sees of the native clients it starts, one after the  *)
(* other: the interface at which Lifecycle meets NativeBridge.  Both of    *)
(* them implement it.  A client is in one of these phases:                 *)
(*   probing           it looks for the Editor                             *)
(*   bound             it has verified the Editor                          *)
(*   sent              an Editor has a script of the plan                  *)
(*   ok, scriptFailed  the results of the scripts are known                *)
(*   unknown           a script may have run and its result is lost        *)
(*   unverified        no script has reached an Editor, now or later       *)
(*   crashed           any other error                                     *)
(***************************************************************************)
VARIABLES
  phase,  \* of the client, "none" if the coordinator has none
  plan    \* does the client run a plan, or only verify?

clientRunVars == <<phase, plan>>

Init == phase \in {"none", "probing"} /\ plan \in BOOLEAN

(* The next request, or its next client.                                   *)
Begin ==
  /\ phase = "none" /\ phase' \in {"none", "probing"}
  /\ plan' \in BOOLEAN

Moves(from, to) == phase \in from /\ phase' \in to /\ UNCHANGED plan

AtWork == {"probing", "bound", "sent"}

Verify == Moves({"probing"}, {"bound"})
Send == plan /\ Moves({"bound"}, {"sent"})
Answer == Moves({"sent"}, {"ok", "scriptFailed"})
GiveUp == Moves({"probing", "bound"}, {"unverified"})
LoseTrack == plan /\ Moves(AtWork, {"unknown"})
Break == Moves(AtWork, {"crashed"})

Runs == Verify \/ Send \/ Answer \/ GiveUp \/ LoseTrack \/ Break

Over == {"ok", "scriptFailed", "unknown", "unverified", "crashed"}
          \cup (IF plan THEN {} ELSE {"bound"})

(* The coordinator never turns away from a client that is still at work.   *)
Collect == Moves(Over, {"none"})

Next == Begin \/ Runs \/ Collect
Step == [Next]_clientRunVars

Spec == Init /\ [][Next]_clientRunVars
=============================================================================
