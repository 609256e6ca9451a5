----------------------------- MODULE VerifiedRun -----------------------------
(***************************************************************************)
(* What one run of the native client promises its caller, whatever nodes,  *)
(* datagrams and deadlines do: it looks for the Editor it was asked for,   *)
(* is bound to at most one node, which has the expected process id and     *)
(* project, sends it the steps of the plan one after the other, each after *)
(* a success of the step before, and then reports once:                    *)
(*   succeeded         bound (verify), or every step answered with success *)
(*   stopped           the last answer is a failure, none is missing       *)
(*   known_failure     no answer is missing, no step is known to have      *)
(*                     failed, the plan is not complete                    *)
(*   outcome_unknown   the answer of the last step is missing              *)
(* Module RemoteClient implements it.                                      *)
(***************************************************************************)
EXTENDS Naturals, Sequences

CONSTANTS Steps, None

VARIABLES
  matching,   \* nodes that really have the expected identity
  executing,  \* does the run execute a plan, or only verify?
  bound,      \* the node the run is bound to, or None
  sent,       \* steps sent
  answers,    \* their answers
  report      \* "none" until the run ends

runVars == <<matching, executing, bound, sent, answers, report>>

Init ==
  /\ executing \in BOOLEAN
  /\ bound = None /\ sent = 0 /\ answers = <<>> /\ report = "none"

Answered == sent = Len(answers)
AllGood == \A i \in DOMAIN answers : answers[i]

Bind ==
  /\ report = "none" /\ bound = None
  /\ bound' \in matching
  /\ report' = IF executing THEN "none" ELSE "succeeded"
  /\ UNCHANGED <<matching, executing, sent, answers>>

MaySend == executing /\ bound # None /\ Answered /\ AllGood /\ sent < Steps

Send ==
  /\ report = "none" /\ MaySend
  /\ sent' = sent + 1
  /\ UNCHANGED <<matching, executing, bound, answers, report>>

(* The answer that decides the run comes with its report.                  *)
Receive ==
  /\ report = "none" /\ sent = Len(answers) + 1
  /\ \E ok \in BOOLEAN :
       /\ answers' = Append(answers, ok)
       /\ report' = IF ~ok THEN "stopped"
                    ELSE IF sent = Steps THEN "succeeded" ELSE "none"
  /\ UNCHANGED <<matching, executing, bound, sent>>

Fail ==
  /\ report = "none" /\ Answered
  /\ report' = "known_failure"
  /\ UNCHANGED <<matching, executing, bound, sent, answers>>

LoseTrack ==
  /\ report = "none"
  /\ \/ ~Answered /\ sent' = sent
     \/ MaySend /\ sent' = sent + 1
  /\ report' = "outcome_unknown"
  /\ UNCHANGED <<matching, executing, bound, answers>>

Next == Bind \/ Send \/ Receive \/ Fail \/ LoseTrack

Spec == Init /\ [][Next]_runVars
=============================================================================
