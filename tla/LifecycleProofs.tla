--------------------------- MODULE LifecycleProofs ---------------------------
(***************************************************************************)
(* Proofs about the lifecycle coordinator, for any number of coordinators, *)
(* projects, session files, process ids, requests, births and crashes:     *)
(* types, refusals, the transport lease, launches, and the interface at    *)
(* which a coordinator sees its native clients.                            *)
(***************************************************************************)
EXTENDS LifecycleProperties, TLAPS

-----------------------------------------------------------------------------
(* Type correctness.  A coordinator reads its local variables `identity`   *)
(* and `session` only at places where it has set them, and the native      *)
(* client only while its coordinator's locals name the process it looks    *)
(* for.  Which places a request reaches depends on its subcommand.         *)

LaunchPlaces == {"lockProject", "lockTransport", "look", "popen", "await",
                 "verify", "verifyLaunched", "save"}
SessionPlaces == {"lookup", "lockSession", "reload"}
RunPlaces == {"checkRun", "lockChannel", "execute", "update"}
ClosePlaces == {"checkClose", "postClose", "awaitExit", "forget"}
ProbePlaces == {"select", "lockProbe", "probe", "saveAttached", "seed"}

CommandsKeepTheirPlaces ==
  \A c \in Coordinators :
    /\ pc[c] \in LaunchPlaces => req[c].command \in {"ensure", "relaunch"}
    /\ pc[c] \in SessionPlaces => req[c].command # "ensure"
    /\ pc[c] \in RunPlaces => req[c].command = "run"
    /\ pc[c] \in ClosePlaces => req[c].command \in {"close", "relaunch"}
    /\ pc[c] \in ProbePlaces => req[c].command = "relaunch"

LocalsAreSet ==
  \A c \in Coordinators :
    /\ pc[c] \in RunPlaces \cup ClosePlaces => current[c] \in Session
    /\ pc[c] \in {"verify", "verifyLaunched", "save"} => identity[c] \in Identity
    /\ pc[c] \in ProbePlaces \ {"select"} => identity[c] \in Identity

ClientPlaces == {"verify", "verifyLaunched", "probe", "execute", "update", "dead"}

ClientHasTarget ==
  \A c \in Coordinators :
    client[c].phase # "none" =>
      /\ pc[c] \in ClientPlaces
      /\ Expected(c) \in Identity \cup Session

TypeInv ==
  /\ TypeOK
  /\ CommandsKeepTheirPlaces
  /\ LocalsAreSet
  /\ ClientHasTarget

LEMMA InitTyped == Init => TypeInv
<1> SUFFICES ASSUME Init PROVE TypeInv
  OBVIOUS
<1> USE ConstantsAssumption
<1>1. (CHOOSE r \in Request : TRUE) \in Request
  <2>1. PICK p \in Projects, f \in Files, r \in Requesters : TRUE
    OBVIOUS
  <2>2. [command |-> "run", project |-> p, file |-> f, confirmed |-> FALSE,
         rights |-> r] \in Request
    BY DEF Request
  <2> QED
    BY <2>2
<1>2. (CHOOSE p \in Projects : TRUE) \in Projects
  OBVIOUS
<1>3. TypeOK
  BY <1>1, <1>2 DEF Init, TypeOK, Labels, Outcomes, Phases, NoClient
<1>4. CommandsKeepTheirPlaces /\ LocalsAreSet /\ ClientHasTarget
  BY DEF Init, CommandsKeepTheirPlaces, LocalsAreSet, ClientHasTarget, NoClient,
         LaunchPlaces, SessionPlaces, RunPlaces, ClosePlaces, ProbePlaces
<1> QED
  BY <1>3, <1>4 DEF TypeInv

-----------------------------------------------------------------------------
USE DEF Goto, Step, Finish, FreeProject, FreeTransport, NoClient, coordinatorVars,
        lockVars, counters, Request, Expected, IsRun, FindProjectProcesses,
        IsEditor, Identity, Session, Editor

(* Whatever main reports in the end, leaving all leases keeps the types.   *)
LEMMA FinishTyped ==
  ASSUME TypeInv, NEW c \in Coordinators, NEW result \in Outcomes,
         Finish(c, result), UNCHANGED <<editor, counters>>,
         session' \in [Files -> Session \cup {None}]
  PROVE  TypeInv'
<1>1. TypeOK'
  BY DEF TypeInv, TypeOK, Labels, Phases
<1>2. CommandsKeepTheirPlaces' /\ LocalsAreSet' /\ ClientHasTarget'
  BY DEF TypeInv, TypeOK, CommandsKeepTheirPlaces, LocalsAreSet,
         ClientHasTarget, LaunchPlaces, SessionPlaces, RunPlaces,
         ClosePlaces, ProbePlaces, ClientPlaces
<1> QED
  BY <1>1, <1>2 DEF TypeInv

LEMMA EndsTyped ==
  ASSUME TypeInv, NEW c \in Coordinators, NEW from, NEW result \in Outcomes,
         Ends(c, from, result)
  PROVE  TypeInv'
<1>1. session' \in [Files -> Session \cup {None}]
  BY DEF Ends, TypeInv, TypeOK
<1>2. Finish(c, result) /\ UNCHANGED <<editor, counters>>
  BY DEF Ends
<1> QED
  BY <1>1, <1>2, FinishTyped

(* A step of a native client that only changes its phase.                  *)
LEMMA MovesTyped ==
  ASSUME TypeInv, NEW c \in Coordinators,
         NEW from \in Phases \ {"none"}, NEW to \in Phases \ {"none"},
         ClientMoves(c, from, to),
         did' \in [Coordinators -> SUBSET {"launch", "close", "script"}],
         requests' \in Nat, births' \in Nat, crashes' \in Nat
  PROVE  TypeInv'
<1>1. TypeOK'
  <2>1. [client[c] EXCEPT !.phase = to] \in [phase : Phases, link : Nat]
    BY DEF TypeInv, TypeOK
  <2>2. client' = [client EXCEPT ![c] = [client[c] EXCEPT !.phase = to]]
    BY DEF ClientMoves, TypeInv, TypeOK
  <2>3. client' \in [Coordinators -> [phase : Phases, link : Nat]]
    BY <2>1, <2>2 DEF TypeInv, TypeOK
  <2> QED
    BY <2>3 DEF TypeInv, TypeOK, ClientMoves
<1>2. CommandsKeepTheirPlaces' /\ LocalsAreSet' /\ ClientHasTarget'
  BY DEF TypeInv, TypeOK, CommandsKeepTheirPlaces, LocalsAreSet,
         ClientHasTarget, ClientMoves, LaunchPlaces, SessionPlaces, RunPlaces,
         ClosePlaces, ProbePlaces, ClientPlaces
<1> QED
  BY <1>1, <1>2 DEF TypeInv

(* Every step of launch_session keeps the types.                            *)
LEMMA LaunchTyped ==
  ASSUME TypeInv, NEW c \in Coordinators, LaunchStep(c)
  PROVE  TypeInv'
<1>1. CASE LockProject(c)
  <2>1. TypeOK'
    BY <1>1 DEF LockProject, TypeInv, TypeOK, LocalsAreSet, ClientHasTarget,
                RunPlaces, ClosePlaces, ProbePlaces, Labels, Outcomes, Phases
  <2>2. CommandsKeepTheirPlaces' /\ LocalsAreSet' /\ ClientHasTarget'
    BY <1>1 DEF LockProject, TypeInv, TypeOK, CommandsKeepTheirPlaces,
                LocalsAreSet, ClientHasTarget, LaunchPlaces, SessionPlaces,
                RunPlaces, ClosePlaces, ProbePlaces, ClientPlaces
  <2> QED
    BY <2>1, <2>2 DEF TypeInv
<1>2. CASE LaunchLockTransport(c)
  <2>1. TypeOK'
    BY <1>2 DEF LaunchLockTransport, TakeTransport, TypeInv, TypeOK,
                LocalsAreSet, ClientHasTarget, RunPlaces, ClosePlaces,
                ProbePlaces, Labels, Outcomes, Phases
  <2>2. CommandsKeepTheirPlaces' /\ LocalsAreSet' /\ ClientHasTarget'
    BY <1>2 DEF LaunchLockTransport, TakeTransport, TypeInv, TypeOK,
                CommandsKeepTheirPlaces, LocalsAreSet, ClientHasTarget,
                LaunchPlaces, SessionPlaces, RunPlaces, ClosePlaces,
                ProbePlaces, ClientPlaces
  <2> QED
    BY <2>1, <2>2 DEF TypeInv
<1>3. CASE Ambiguous(c)
  BY <1>3, EndsTyped DEF Ambiguous, Outcomes
<1>4. CASE LookFinds(c)
  <2>1. TypeOK'
    BY <1>4 DEF LookFinds, Selected, StartClient, IdentityOf, TypeInv, TypeOK,
                LocalsAreSet, ClientHasTarget, RunPlaces, ClosePlaces,
                ProbePlaces, Labels, Outcomes, Phases
  <2>2. CommandsKeepTheirPlaces' /\ LocalsAreSet' /\ ClientHasTarget'
    BY <1>4 DEF LookFinds, Selected, StartClient, IdentityOf, TypeInv, TypeOK,
                CommandsKeepTheirPlaces, LocalsAreSet, ClientHasTarget,
                LaunchPlaces, SessionPlaces, RunPlaces, ClosePlaces,
                ProbePlaces, ClientPlaces
  <2> QED
    BY <2>1, <2>2 DEF TypeInv
<1>5. CASE LookFindsNone(c)
  <2>1. TypeOK'
    BY <1>5 DEF LookFindsNone, TypeInv, TypeOK, LocalsAreSet, ClientHasTarget,
                RunPlaces, ClosePlaces, ProbePlaces, Labels, Outcomes, Phases
  <2>2. CommandsKeepTheirPlaces' /\ LocalsAreSet' /\ ClientHasTarget'
    BY <1>5 DEF LookFindsNone, TypeInv, TypeOK, CommandsKeepTheirPlaces,
                LocalsAreSet, ClientHasTarget, LaunchPlaces, SessionPlaces,
                RunPlaces, ClosePlaces, ProbePlaces, ClientPlaces
  <2> QED
    BY <2>1, <2>2 DEF TypeInv
<1>6. CASE Popen(c)
  <2>1. TypeOK'
    <3>1. req[c].rights \in Rights
      BY ConstantsAssumption DEF ConstantsAssumption, TypeInv, TypeOK
    <3> QED
      BY <1>6, <3>1 DEF Popen, TypeInv, TypeOK, Labels
  <2>2. CommandsKeepTheirPlaces' /\ LocalsAreSet' /\ ClientHasTarget'
    BY <1>6 DEF Popen, TypeInv, TypeOK, CommandsKeepTheirPlaces, LocalsAreSet,
                ClientHasTarget, LaunchPlaces, SessionPlaces, RunPlaces,
                ClosePlaces, ProbePlaces, ClientPlaces
  <2> QED
    BY <2>1, <2>2 DEF TypeInv
<1>7. CASE PopenFails(c)
  BY <1>7, EndsTyped DEF PopenFails, Outcomes
<1>8. CASE AwaitFinds(c)
  <2>1. TypeOK'
    BY <1>8 DEF AwaitFinds, Selected, StartClient, IdentityOf, TypeInv,
                TypeOK, LocalsAreSet, ClientHasTarget, RunPlaces, ClosePlaces,
                ProbePlaces, Labels, Outcomes, Phases
  <2>2. CommandsKeepTheirPlaces' /\ LocalsAreSet' /\ ClientHasTarget'
    BY <1>8 DEF AwaitFinds, Selected, StartClient, IdentityOf, TypeInv,
                TypeOK, CommandsKeepTheirPlaces, LocalsAreSet,
                ClientHasTarget, LaunchPlaces, SessionPlaces, RunPlaces,
                ClosePlaces, ProbePlaces, ClientPlaces
  <2> QED
    BY <2>1, <2>2 DEF TypeInv
<1>9. CASE AwaitTimesOut(c)
  BY <1>9, EndsTyped DEF AwaitTimesOut, Outcomes
<1>10. CASE Verified(c)
  <2>1. TypeOK'
    BY <1>10 DEF Verified, TypeInv, TypeOK, LocalsAreSet, ClientHasTarget,
                 RunPlaces, ClosePlaces, ProbePlaces, Labels, Outcomes, Phases
  <2>2. CommandsKeepTheirPlaces' /\ LocalsAreSet' /\ ClientHasTarget'
    BY <1>10 DEF Verified, TypeInv, TypeOK, CommandsKeepTheirPlaces,
                 LocalsAreSet, ClientHasTarget, LaunchPlaces, SessionPlaces,
                 RunPlaces, ClosePlaces, ProbePlaces, ClientPlaces
  <2> QED
    BY <2>1, <2>2 DEF TypeInv
<1>11. CASE VerifyFails(c)
  BY <1>11, EndsTyped DEF VerifyFails, Outcomes
<1>12. CASE SaveSession(c)
  <2>1. SessionFor(identity[c], TRUE) \in Session
    BY <1>12 DEF SaveSession, SessionFor, TypeInv, LocalsAreSet, ProbePlaces
  <2>2. session' \in [Files -> Session \cup {None}]
    BY <1>12, <2>1 DEF SaveSession, WriteSession, TypeInv, TypeOK
  <2> QED
    BY <1>12, <2>2, FinishTyped DEF SaveSession, Outcomes
<1> QED
  BY <1>1, <1>2, <1>3, <1>4, <1>5, <1>6, <1>7, <1>8, <1>9, <1>10, <1>11, <1>12 DEF LaunchStep

(* Every step of _locked_session keeps the types.                           *)
LEMMA SessionTyped ==
  ASSUME TypeInv, NEW c \in Coordinators, SessionStep(c)
  PROVE  TypeInv'
<1>1. CASE SessionMissing(c)
  BY <1>1, EndsTyped DEF SessionMissing, Outcomes
<1>2. CASE LookupSession(c)
  <2>1. TypeOK'
    BY <1>2 DEF LookupSession, TypeInv, TypeOK, LocalsAreSet, ClientHasTarget,
                RunPlaces, ClosePlaces, ProbePlaces, Labels, Outcomes, Phases
  <2>2. CommandsKeepTheirPlaces' /\ LocalsAreSet' /\ ClientHasTarget'
    BY <1>2 DEF LookupSession, TypeInv, TypeOK, CommandsKeepTheirPlaces,
                LocalsAreSet, ClientHasTarget, LaunchPlaces, SessionPlaces,
                RunPlaces, ClosePlaces, ProbePlaces, ClientPlaces
  <2> QED
    BY <2>1, <2>2 DEF TypeInv
<1>3. CASE LockSession(c)
  <2>1. TypeOK'
    BY <1>3 DEF LockSession, TypeInv, TypeOK, LocalsAreSet, ClientHasTarget,
                RunPlaces, ClosePlaces, ProbePlaces, Labels, Outcomes, Phases
  <2>2. CommandsKeepTheirPlaces' /\ LocalsAreSet' /\ ClientHasTarget'
    BY <1>3 DEF LockSession, TypeInv, TypeOK, CommandsKeepTheirPlaces,
                LocalsAreSet, ClientHasTarget, LaunchPlaces, SessionPlaces,
                RunPlaces, ClosePlaces, ProbePlaces, ClientPlaces
  <2> QED
    BY <2>1, <2>2 DEF TypeInv
<1>4. CASE ReloadSession(c)
  <2>1. TypeOK'
    BY <1>4 DEF ReloadSession, SessionIsFor, TypeInv, TypeOK, LocalsAreSet,
                ClientHasTarget, RunPlaces, ClosePlaces, ProbePlaces, Labels,
                Outcomes, Phases
  <2>2. CommandsKeepTheirPlaces' /\ LocalsAreSet' /\ ClientHasTarget'
    BY <1>4 DEF ReloadSession, SessionIsFor, TypeInv, TypeOK,
                CommandsKeepTheirPlaces, LocalsAreSet, ClientHasTarget,
                LaunchPlaces, SessionPlaces, RunPlaces, ClosePlaces,
                ProbePlaces, ClientPlaces
  <2> QED
    BY <2>1, <2>2 DEF TypeInv
<1>5. CASE SessionChanged(c)
  BY <1>5, EndsTyped DEF SessionChanged, Outcomes
<1> QED
  BY <1>1, <1>2, <1>3, <1>4, <1>5 DEF SessionStep

(* Every step of run_script_steps keeps the types.                          *)
LEMMA RunTyped ==
  ASSUME TypeInv, NEW c \in Coordinators, RunStep(c)
  PROVE  TypeInv'
<1>1. CASE CheckRun(c)
  <2>1. TypeOK'
    BY <1>1 DEF CheckRun, TypeInv, TypeOK, LocalsAreSet, ClientHasTarget,
                RunPlaces, ClosePlaces, ProbePlaces, Labels, Outcomes, Phases
  <2>2. CommandsKeepTheirPlaces' /\ LocalsAreSet' /\ ClientHasTarget'
    BY <1>1 DEF CheckRun, TypeInv, TypeOK, CommandsKeepTheirPlaces,
                LocalsAreSet, ClientHasTarget, LaunchPlaces, SessionPlaces,
                RunPlaces, ClosePlaces, ProbePlaces, ClientPlaces
  <2> QED
    BY <2>1, <2>2 DEF TypeInv
<1>2. CASE SessionStale(c)
  BY <1>2, EndsTyped DEF SessionStale, Outcomes
<1>3. CASE LockChannel(c)
  <2>1. TypeOK'
    BY <1>3 DEF LockChannel, TakeTransport, StartClient, TypeInv, TypeOK,
                LocalsAreSet, ClientHasTarget, RunPlaces, ClosePlaces,
                ProbePlaces, Labels, Outcomes, Phases
  <2>2. CommandsKeepTheirPlaces' /\ LocalsAreSet' /\ ClientHasTarget'
    BY <1>3 DEF LockChannel, TakeTransport, StartClient, TypeInv, TypeOK,
                CommandsKeepTheirPlaces, LocalsAreSet, ClientHasTarget,
                LaunchPlaces, SessionPlaces, RunPlaces, ClosePlaces,
                ProbePlaces, ClientPlaces
  <2> QED
    BY <2>1, <2>2 DEF TypeInv
<1>4. CASE Executed(c)
  <2>1. TypeOK'
    BY <1>4 DEF Executed, TypeInv, TypeOK, LocalsAreSet, ClientHasTarget,
                RunPlaces, ClosePlaces, ProbePlaces, Labels, Outcomes, Phases
  <2>2. CommandsKeepTheirPlaces' /\ LocalsAreSet' /\ ClientHasTarget'
    BY <1>4 DEF Executed, TypeInv, TypeOK, CommandsKeepTheirPlaces,
                LocalsAreSet, ClientHasTarget, LaunchPlaces, SessionPlaces,
                RunPlaces, ClosePlaces, ProbePlaces, ClientPlaces
  <2> QED
    BY <2>1, <2>2 DEF TypeInv
<1>5. CASE ExecuteFails(c)
  BY <1>5, EndsTyped DEF ExecuteFails, Outcomes
<1>6. CASE UpdateSession(c)
  <2>1. [current[c] EXCEPT !.hint = TRUE] \in Session
    BY <1>6 DEF UpdateSession, TypeInv, LocalsAreSet, RunPlaces
  <2>2. session' \in [Files -> Session \cup {None}]
    BY <1>6, <2>1 DEF UpdateSession, WriteSession, TypeInv, TypeOK
  <2>3. \E result \in Outcomes : Finish(c, result)
    BY <1>6 DEF UpdateSession, Outcomes
  <2> QED
    BY <1>6, <2>2, <2>3, FinishTyped DEF UpdateSession
<1> QED
  BY <1>1, <1>2, <1>3, <1>4, <1>5, <1>6 DEF RunStep

(* Every step of close_session keeps the types.                             *)
LEMMA CloseTyped ==
  ASSUME TypeInv, NEW c \in Coordinators, CloseStep(c)
  PROVE  TypeInv'
<1>1. CASE CheckClose(c)
  <2>1. TypeOK'
    BY <1>1 DEF CheckClose, TypeInv, TypeOK, LocalsAreSet, ClientHasTarget,
                RunPlaces, ClosePlaces, ProbePlaces, Labels, Outcomes, Phases
  <2>2. CommandsKeepTheirPlaces' /\ LocalsAreSet' /\ ClientHasTarget'
    BY <1>1 DEF CheckClose, TypeInv, TypeOK, CommandsKeepTheirPlaces,
                LocalsAreSet, ClientHasTarget, LaunchPlaces, SessionPlaces,
                RunPlaces, ClosePlaces, ProbePlaces, ClientPlaces
  <2> QED
    BY <2>1, <2>2 DEF TypeInv
<1>2. CASE PostClose(c)
  <2>1. TypeOK'
    BY <1>2 DEF PostClose, TypeInv, TypeOK, LocalsAreSet, ClientHasTarget,
                RunPlaces, ClosePlaces, ProbePlaces, Labels, Outcomes, Phases
  <2>2. CommandsKeepTheirPlaces' /\ LocalsAreSet' /\ ClientHasTarget'
    BY <1>2 DEF PostClose, TypeInv, TypeOK, CommandsKeepTheirPlaces,
                LocalsAreSet, ClientHasTarget, LaunchPlaces, SessionPlaces,
                RunPlaces, ClosePlaces, ProbePlaces, ClientPlaces
  <2> QED
    BY <2>1, <2>2 DEF TypeInv
<1>3. CASE PostCloseFails(c)
  BY <1>3, EndsTyped DEF PostCloseFails, Outcomes
<1>4. CASE ExitSeen(c)
  <2>1. TypeOK'
    BY <1>4 DEF ExitSeen, TypeInv, TypeOK, LocalsAreSet, ClientHasTarget,
                RunPlaces, ClosePlaces, ProbePlaces, Labels, Outcomes, Phases
  <2>2. CommandsKeepTheirPlaces' /\ LocalsAreSet' /\ ClientHasTarget'
    BY <1>4 DEF ExitSeen, TypeInv, TypeOK, CommandsKeepTheirPlaces,
                LocalsAreSet, ClientHasTarget, LaunchPlaces, SessionPlaces,
                RunPlaces, ClosePlaces, ProbePlaces, ClientPlaces
  <2> QED
    BY <2>1, <2>2 DEF TypeInv
<1>5. CASE ExitTimesOut(c)
  BY <1>5, EndsTyped DEF ExitTimesOut, Outcomes
<1>6. CASE ForgetSession(c)
  <2>1. session' \in [Files -> Session \cup {None}]
    BY <1>6 DEF ForgetSession, WriteSession, TypeInv, TypeOK
  <2>2. CASE Finish(c, "succeeded")
    BY <1>6, <2>1, <2>2, FinishTyped DEF ForgetSession, Outcomes
  <2>3. CASE /\ req[c].command = "relaunch"
             /\ Goto(c, "lockProject") /\ FreeProject(c)
             /\ current' = [current EXCEPT ![c] = None]
             /\ UNCHANGED <<req, target, identity, outcome, did, client,
                            transportLock>>
    <3>1. UNCHANGED <<editor, counters>> /\ pc[c] = "forget"
      BY <1>6 DEF ForgetSession
    <3>2. TypeOK'
      BY <2>1, <2>3, <3>1 DEF TypeInv, TypeOK, Labels
    <3>3. CommandsKeepTheirPlaces' /\ LocalsAreSet' /\ ClientHasTarget'
      BY <2>3, <3>1
         DEF TypeInv, TypeOK, CommandsKeepTheirPlaces, LocalsAreSet,
             ClientHasTarget, LaunchPlaces, SessionPlaces, RunPlaces,
             ClosePlaces, ProbePlaces, ClientPlaces
    <3> QED
      BY <3>2, <3>3 DEF TypeInv
  <2> QED
    BY <1>6, <2>2, <2>3 DEF ForgetSession
<1> QED
  BY <1>1, <1>2, <1>3, <1>4, <1>5, <1>6 DEF CloseStep

(* Every step of relaunch_remote keeps the types.                           *)
LEMMA RelaunchTyped ==
  ASSUME TypeInv, NEW c \in Coordinators, RelaunchStep(c)
  PROVE  TypeInv'
<1>1. CASE RelaunchSelects(c)
  <2>1. TypeOK'
    BY <1>1 DEF RelaunchSelects, Selected, IdentityOf, TypeInv, TypeOK,
                LocalsAreSet, ClientHasTarget, RunPlaces, ClosePlaces,
                ProbePlaces, Labels, Outcomes, Phases
  <2>2. CommandsKeepTheirPlaces' /\ LocalsAreSet' /\ ClientHasTarget'
    BY <1>1 DEF RelaunchSelects, Selected, IdentityOf, TypeInv, TypeOK,
                CommandsKeepTheirPlaces, LocalsAreSet, ClientHasTarget,
                LaunchPlaces, SessionPlaces, RunPlaces, ClosePlaces,
                ProbePlaces, ClientPlaces
  <2> QED
    BY <2>1, <2>2 DEF TypeInv
<1>2. CASE RelaunchFindsNone(c)
  <2>1. TypeOK'
    BY <1>2 DEF RelaunchFindsNone, TypeInv, TypeOK, LocalsAreSet,
                ClientHasTarget, RunPlaces, ClosePlaces, ProbePlaces, Labels,
                Outcomes, Phases
  <2>2. CommandsKeepTheirPlaces' /\ LocalsAreSet' /\ ClientHasTarget'
    BY <1>2 DEF RelaunchFindsNone, TypeInv, TypeOK, CommandsKeepTheirPlaces,
                LocalsAreSet, ClientHasTarget, LaunchPlaces, SessionPlaces,
                RunPlaces, ClosePlaces, ProbePlaces, ClientPlaces
  <2> QED
    BY <2>1, <2>2 DEF TypeInv
<1>3. CASE LockProbe(c)
  <2>1. TypeOK'
    BY <1>3 DEF LockProbe, TakeTransport, StartClient, TypeInv, TypeOK,
                LocalsAreSet, ClientHasTarget, RunPlaces, ClosePlaces,
                ProbePlaces, Labels, Outcomes, Phases
  <2>2. CommandsKeepTheirPlaces' /\ LocalsAreSet' /\ ClientHasTarget'
    BY <1>3 DEF LockProbe, TakeTransport, StartClient, TypeInv, TypeOK,
                CommandsKeepTheirPlaces, LocalsAreSet, ClientHasTarget,
                LaunchPlaces, SessionPlaces, RunPlaces, ClosePlaces,
                ProbePlaces, ClientPlaces
  <2> QED
    BY <2>1, <2>2 DEF TypeInv
<1>4. CASE ProbeReady(c)
  <2>1. TypeOK'
    BY <1>4 DEF ProbeReady, Probed, TypeInv, TypeOK, LocalsAreSet,
                ClientHasTarget, RunPlaces, ClosePlaces, ProbePlaces, Labels,
                Outcomes, Phases
  <2>2. CommandsKeepTheirPlaces' /\ LocalsAreSet' /\ ClientHasTarget'
    BY <1>4 DEF ProbeReady, Probed, TypeInv, TypeOK, CommandsKeepTheirPlaces,
                LocalsAreSet, ClientHasTarget, LaunchPlaces, SessionPlaces,
                RunPlaces, ClosePlaces, ProbePlaces, ClientPlaces
  <2> QED
    BY <2>1, <2>2 DEF TypeInv
<1>5. CASE ProbeUnavailable(c)
  <2>1. CASE req[c].confirmed
    <3>1. Probed(c, "seed")
      BY <1>5, <2>1 DEF ProbeUnavailable
    <3>2. TypeOK'
      BY <3>1 DEF Probed, TypeInv, TypeOK, Labels, Phases
    <3>3. CommandsKeepTheirPlaces' /\ LocalsAreSet' /\ ClientHasTarget'
      BY <3>1
         DEF Probed, TypeInv, TypeOK, CommandsKeepTheirPlaces, LocalsAreSet,
             ClientHasTarget, LaunchPlaces, SessionPlaces, RunPlaces,
             ClosePlaces, ProbePlaces, ClientPlaces
    <3> QED
      BY <3>2, <3>3 DEF TypeInv
  <2>2. CASE ~req[c].confirmed
    BY <1>5, <2>2, EndsTyped DEF ProbeUnavailable, Outcomes
  <2> QED
    BY <2>1, <2>2
<1>6. CASE SeedSession(c)
  <2>1. TypeOK'
    BY <1>6 DEF SeedSession, WriteSession, SessionFor, TypeInv, TypeOK,
                LocalsAreSet, ClientHasTarget, RunPlaces, ClosePlaces,
                ProbePlaces, Labels, Outcomes, Phases
  <2>2. CommandsKeepTheirPlaces' /\ LocalsAreSet' /\ ClientHasTarget'
    BY <1>6 DEF SeedSession, WriteSession, SessionFor, TypeInv, TypeOK,
                CommandsKeepTheirPlaces, LocalsAreSet, ClientHasTarget,
                LaunchPlaces, SessionPlaces, RunPlaces, ClosePlaces,
                ProbePlaces, ClientPlaces
  <2> QED
    BY <2>1, <2>2 DEF TypeInv
<1> QED
  BY <1>1, <1>2, <1>3, <1>4, <1>5, <1>6 DEF RelaunchStep

(* Every step of the native client keeps the types.                         *)
LEMMA ClientTyped ==
  ASSUME TypeInv, NEW c \in Coordinators, ClientStep(c)
  PROVE  TypeInv'
<1>1. CASE ClientVerifies(c)
  <2>1. TypeOK'
    <3>1. PICK pid \in Pids :
            /\ editor[pid] # None
            /\ client' = [client EXCEPT ![c] =
                            [phase |-> "bound", link |-> editor[pid].born]]
      BY <1>1 DEF ClientVerifies, ProbeMatches
    <3>2. editor[pid].born \in Nat
      BY <3>1 DEF TypeInv, TypeOK
    <3> QED
      BY <1>1, <3>1, <3>2 DEF ClientVerifies, TypeInv, TypeOK, Phases
  <2>2. CommandsKeepTheirPlaces' /\ LocalsAreSet' /\ ClientHasTarget'
    BY <1>1 DEF ClientVerifies, ProbeMatches, TypeInv, TypeOK,
                CommandsKeepTheirPlaces, LocalsAreSet, ClientHasTarget,
                LaunchPlaces, SessionPlaces, RunPlaces, ClosePlaces,
                ProbePlaces, ClientPlaces
  <2> QED
    BY <2>1, <2>2 DEF TypeInv
<1>2. CASE ClientGivesUp(c)
  BY <1>2, MovesTyped DEF ClientGivesUp, ClientMoves, TypeInv, TypeOK, Phases
<1>3. CASE ClientSends(c)
  BY <1>3, MovesTyped DEF ClientSends, ClientMoves, TypeInv, TypeOK, Phases
<1>4. CASE ClientLosesResult(c)
  BY <1>4, MovesTyped DEF ClientLosesResult, ClientMoves, TypeInv, TypeOK, Phases
<1>5. CASE ClientReceives(c)
  BY <1>5, MovesTyped DEF ClientReceives, ClientMoves, TypeInv, TypeOK, Phases
<1>6. CASE DeadlineKills(c)
  BY <1>6, MovesTyped DEF DeadlineKills, ClientMoves, TypeInv, TypeOK, Phases
<1> QED
  BY <1>1, <1>2, <1>3, <1>4, <1>5, <1>6 DEF ClientStep

(* Users and Editors move.                                                 *)
LEMMA WorldTyped ==
  ASSUME TypeInv, World
  PROVE  TypeInv'
<1>1. TypeOK'
  <2>1. CASE UserOpens
    BY <2>1, ConstantsAssumption DEF UserOpens, TypeInv, TypeOK,
                                     ConstantsAssumption
  <2>2. CASE EditorReady
    <3>1. PICK pid \in Pids :
            /\ editor[pid] # None
            /\ editor' = [editor EXCEPT ![pid].remote = "ready"]
      BY <2>2 DEF EditorReady
    <3>2. [editor[pid] EXCEPT !.remote = "ready"] \in Editor
      BY <3>1 DEF TypeInv, TypeOK
    <3>3. editor' \in [Pids -> Editor \cup {None}]
      BY <3>1, <3>2 DEF TypeInv, TypeOK
    <3> QED
      BY <2>2, <3>3 DEF EditorReady, TypeInv, TypeOK
  <2>3. CASE EditorExits
    BY <2>3 DEF EditorExits, TypeInv, TypeOK
  <2> QED
    BY <2>1, <2>2, <2>3 DEF World
<1>2. CommandsKeepTheirPlaces' /\ LocalsAreSet' /\ ClientHasTarget'
  BY DEF World, UserOpens, EditorReady, EditorExits, TypeInv,
         CommandsKeepTheirPlaces, LocalsAreSet, ClientHasTarget
<1> QED
  BY <1>1, <1>2 DEF TypeInv

LEMMA StepTyped == TypeInv /\ [Next]_vars => TypeInv'
<1> SUFFICES ASSUME TypeInv, [Next]_vars
             PROVE  TypeInv'
  OBVIOUS
<1>1. CASE World
  BY <1>1, WorldTyped
<1>2. ASSUME NEW c \in Coordinators, Works(c)
      PROVE  TypeInv'
  <2>1. CASE PreflightFails(c) \/ LeaseBusy(c) \/ FileError(c)
    BY <2>1, EndsTyped DEF PreflightFails, LeaseBusy, FileError, Outcomes
  <2> QED
    BY <1>2, <2>1, LaunchTyped, SessionTyped, RunTyped, CloseTyped,
       RelaunchTyped, ClientTyped DEF Works
<1>3. ASSUME NEW c \in Coordinators, Invoke(c)
      PROVE  TypeInv'
  <2>1. TypeOK'
    BY <1>3 DEF Invoke, FirstLabel, TypeInv, TypeOK, Labels, Outcomes
  <2>2. CommandsKeepTheirPlaces' /\ LocalsAreSet' /\ ClientHasTarget'
    BY <1>3 DEF Invoke, FirstLabel, TypeInv, TypeOK, CommandsKeepTheirPlaces,
                LocalsAreSet, ClientHasTarget, LaunchPlaces, SessionPlaces,
                RunPlaces, ClosePlaces, ProbePlaces, ClientPlaces
  <2> QED
    BY <2>1, <2>2 DEF TypeInv
<1>4. ASSUME NEW c \in Coordinators, ClientCrashes(c)
      PROVE  TypeInv'
  <2>1. PICK from \in {"probing", "bound", "sent"} :
          ClientMoves(c, from, "crashed")
    BY <1>4 DEF ClientCrashes
  <2>2. /\ did' \in [Coordinators -> SUBSET {"launch", "close", "script"}]
        /\ requests' \in Nat /\ births' \in Nat /\ crashes' \in Nat
    BY <1>4 DEF ClientCrashes, TypeInv, TypeOK
  <2> QED
    BY <2>1, <2>2, MovesTyped DEF Phases
<1>5. ASSUME NEW c \in Coordinators, Crash(c)
      PROVE  TypeInv'
  <2>1. TypeOK'
    BY <1>5 DEF Crash, TypeInv, TypeOK, Labels
  <2>2. CommandsKeepTheirPlaces' /\ LocalsAreSet' /\ ClientHasTarget'
    BY <1>5 DEF Crash, TypeInv, TypeOK, CommandsKeepTheirPlaces, LocalsAreSet,
                ClientHasTarget, LaunchPlaces, SessionPlaces, RunPlaces,
                ClosePlaces, ProbePlaces, ClientPlaces
  <2> QED
    BY <2>1, <2>2 DEF TypeInv
<1>6. CASE UNCHANGED vars
  BY <1>6 DEF vars, TypeInv, TypeOK, CommandsKeepTheirPlaces, LocalsAreSet,
              ClientHasTarget
<1> QED
  BY <1>1, <1>2, <1>3, <1>4, <1>5, <1>6 DEF Next

(* Every variable keeps its type, and no code reads a local variable or a  *)
(* client that it has not set.                                             *)
THEOREM AlwaysTyped == Spec => []TypeInv
BY InitTyped, StepTyped, PTL DEF Spec

(* Type correctness of every reachable state, for all values of the        *)
(* constants.                                                              *)
THEOREM TypeCorrect == Spec => []TypeOK
<1>1. TypeInv => TypeOK
  BY DEF TypeInv
<1> QED
  BY AlwaysTyped, <1>1, PTL

-----------------------------------------------------------------------------
(* Refusals.  Past the places where a request may be told that a lease is  *)
(* busy or that the Editor must be restarted it may have done something,   *)
(* before them it has not; only relaunch-remote comes back from there.     *)

Committed == {"await", "verifyLaunched", "save", "execute", "update",
              "awaitExit", "forget", "idle", "dead"}
Refusals == {"busy", "restart_required"}

RefusalOf(c) ==
  /\ pc[c] # "idle" => outcome[c] = "none"
  /\ req[c].command # "relaunch" =>
       /\ did[c] # {} => pc[c] \in Committed
       /\ outcome[c] \in Refusals => did[c] = {}
RefusalInv == \A c \in Coordinators : RefusalOf(c)

LEMMA RefusalFrame ==
  ASSUME RefusalInv, NEW c \in Coordinators, RefusalOf(c)',
         \A d \in Coordinators \ {c} : /\ pc'[d] = pc[d] /\ req'[d] = req[d]
                                        /\ outcome'[d] = outcome[d]
                                        /\ did'[d] = did[d]
  PROVE  RefusalInv'
  BY DEF RefusalInv, RefusalOf

LEMMA FinishRefusal ==
  ASSUME TypeInv, RefusalInv, NEW c \in Coordinators, NEW result, Finish(c, result),
         result \notin Refusals \/ pc[c] \notin Committed \/ req[c].command = "relaunch"
  PROVE  RefusalInv'
<1>1. RefusalOf(c)'
  BY DEF RefusalInv, RefusalOf, TypeInv, TypeOK, Committed
<1> QED
  BY <1>1, RefusalFrame DEF TypeInv, TypeOK

LEMMA EndsRefusal ==
  ASSUME TypeInv, RefusalInv, NEW c \in Coordinators, NEW from, NEW result,
         Ends(c, from, result),
         result \notin Refusals \/ from \notin Committed \/ req[c].command = "relaunch"
  PROVE  RefusalInv'
  BY FinishRefusal DEF Ends

LEMMA MoveRefusal ==
  ASSUME TypeInv, RefusalInv, NEW c \in Coordinators, NEW to,
         pc' = [pc EXCEPT ![c] = to], pc[c] # "idle", UNCHANGED <<req, outcome>>,
         did' = did \/ \E x : did' = [did EXCEPT ![c] = x] /\ to \in Committed,
         pc[c] \in Committed => to \in Committed \/ req[c].command = "relaunch"
  PROVE  RefusalInv'
<1>1. RefusalOf(c)'
  BY DEF RefusalInv, RefusalOf, TypeInv, TypeOK, Refusals
<1> QED
  BY <1>1, RefusalFrame DEF TypeInv, TypeOK

LEMMA QuietRefusal ==
  ASSUME RefusalInv, UNCHANGED <<pc, req, outcome, did>>
  PROVE  RefusalInv'
  BY DEF RefusalInv, RefusalOf

LEMMA LaunchRefusal ==
  ASSUME TypeInv, RefusalInv, NEW c \in Coordinators, LaunchStep(c)
  PROVE  RefusalInv'
<1> USE DEF Committed, Refusals
<1>1. CASE \/ LockProject(c) \/ LaunchLockTransport(c) \/ LookFinds(c)
           \/ LookFindsNone(c) \/ AwaitFinds(c) \/ Verified(c)
  BY <1>1, MoveRefusal
     DEF LockProject, LaunchLockTransport, TakeTransport, LookFinds, Selected,
         LookFindsNone, AwaitFinds, Verified
<1>2. CASE Popen(c)
  BY <1>2, MoveRefusal DEF Popen
<1>3. CASE \/ Ambiguous(c) \/ PopenFails(c) \/ AwaitTimesOut(c) \/ VerifyFails(c)
  BY <1>3, EndsRefusal DEF Ambiguous, PopenFails, AwaitTimesOut, VerifyFails
<1>4. CASE SaveSession(c)
  BY <1>4, FinishRefusal DEF SaveSession
<1> QED
  BY <1>1, <1>2, <1>3, <1>4 DEF LaunchStep

LEMMA SessionRefusal ==
  ASSUME TypeInv, RefusalInv, NEW c \in Coordinators, SessionStep(c) \/ RunStep(c)
  PROVE  RefusalInv'
<1> USE DEF Committed, Refusals
<1>1. CASE \/ LookupSession(c) \/ LockSession(c) \/ ReloadSession(c)
           \/ CheckRun(c) \/ LockChannel(c) \/ Executed(c)
  BY <1>1, MoveRefusal
     DEF LookupSession, LockSession, ReloadSession, CheckRun, LockChannel,
         TakeTransport, Executed
<1>2. CASE SessionMissing(c) \/ SessionChanged(c) \/ SessionStale(c) \/ ExecuteFails(c)
  BY <1>2, EndsRefusal
     DEF SessionMissing, SessionChanged, SessionStale, ExecuteFails
<1>3. CASE UpdateSession(c)
  BY <1>3, FinishRefusal DEF UpdateSession
<1> QED
  BY <1>1, <1>2, <1>3 DEF SessionStep, RunStep

LEMMA CloseRefusal ==
  ASSUME TypeInv, RefusalInv, NEW c \in Coordinators, CloseStep(c)
  PROVE  RefusalInv'
<1> USE DEF Committed, Refusals
<1>1. CASE CheckClose(c) \/ ExitSeen(c)
  BY <1>1, MoveRefusal DEF CheckClose, ExitSeen
<1>2. CASE PostClose(c)
  BY <1>2, MoveRefusal DEF PostClose
<1>3. CASE PostCloseFails(c) \/ ExitTimesOut(c)
  BY <1>3, EndsRefusal DEF PostCloseFails, ExitTimesOut
<1>4. CASE ForgetSession(c)
  BY <1>4, FinishRefusal, MoveRefusal DEF ForgetSession
<1> QED
  BY <1>1, <1>2, <1>3, <1>4 DEF CloseStep

LEMMA RelaunchRefusal ==
  ASSUME TypeInv, RefusalInv, NEW c \in Coordinators, RelaunchStep(c)
  PROVE  RefusalInv'
<1> USE DEF Committed, Refusals
<1>1. CASE \/ RelaunchSelects(c) \/ RelaunchFindsNone(c) \/ LockProbe(c)
           \/ ProbeReady(c) \/ SeedSession(c)
  BY <1>1, MoveRefusal
     DEF RelaunchSelects, Selected, RelaunchFindsNone, LockProbe, TakeTransport,
         ProbeReady, Probed, SeedSession
<1>2. CASE ProbeUnavailable(c)
  BY <1>2, MoveRefusal, EndsRefusal DEF ProbeUnavailable, Probed
<1> QED
  BY <1>1, <1>2 DEF RelaunchStep

(* A command reaches an Editor only from a client of a run that has its    *)
(* transport lease, or had it when its coordinator was killed.             *)
LEMMA ClientRefusal ==
  ASSUME TypeInv, RefusalInv, NEW c \in Coordinators,
         ClientStep(c) \/ ClientCrashes(c)
  PROVE  RefusalInv'
<1>1. CASE ClientSends(c)
  <2>1. /\ req[c].command = "run" /\ client[c].phase = "bound"
        /\ UNCHANGED <<pc, req, outcome>>
        /\ did' = [did EXCEPT ![c] = @ \cup {"script"}]
    BY <1>1 DEF ClientSends, ClientMoves
  <2>2. pc[c] \in {"execute", "update", "dead"}
    BY <2>1 DEF TypeInv, ClientHasTarget, ClientPlaces, CommandsKeepTheirPlaces,
                LaunchPlaces, ProbePlaces
  <2>3. RefusalOf(c)'
    BY <2>1, <2>2 DEF RefusalInv, RefusalOf, Committed, Refusals, TypeInv, TypeOK
  <2> QED
    BY <2>1, <2>3, RefusalFrame DEF TypeInv, TypeOK
<1>2. CASE \/ ClientVerifies(c) \/ ClientGivesUp(c) \/ ClientLosesResult(c)
           \/ ClientReceives(c) \/ DeadlineKills(c) \/ ClientCrashes(c)
  BY <1>2, QuietRefusal
     DEF ClientVerifies, ClientGivesUp, ClientLosesResult, ClientReceives,
         DeadlineKills, ClientCrashes, ClientMoves
<1> QED
  BY <1>1, <1>2 DEF ClientStep

LEMMA StepRefusal == TypeInv /\ RefusalInv /\ [Next]_vars => RefusalInv'
<1> SUFFICES ASSUME TypeInv, RefusalInv, [Next]_vars
             PROVE  RefusalInv'
  OBVIOUS
<1>1. CASE World \/ UNCHANGED vars
  BY <1>1, QuietRefusal DEF World, UserOpens, EditorReady, EditorExits, vars
<1>2. ASSUME NEW c \in Coordinators, Invoke(c)
      PROVE  RefusalInv'
  <2>1. RefusalOf(c)'
    BY <1>2 DEF Invoke, RefusalOf, Refusals, TypeInv, TypeOK
  <2> QED
    BY <1>2, <2>1, RefusalFrame DEF Invoke, TypeInv, TypeOK
<1>3. ASSUME NEW c \in Coordinators,
             PreflightFails(c) \/ LeaseBusy(c) \/ FileError(c)
      PROVE  RefusalInv'
  <2>1. CASE PreflightFails(c) \/ FileError(c)
    BY <2>1, EndsRefusal DEF PreflightFails, FileError, Refusals
  <2>2. CASE LeaseBusy(c)
    <3>1. pc[c] \in {"lockProject", "lockSession", "lockTransport", "lockChannel",
                     "lockProbe"}
      BY <2>2 DEF LeaseBusy, LockWanted
    <3> QED
      BY <2>2, <3>1, EndsRefusal DEF LeaseBusy, Committed
  <2> QED
    BY <1>3, <2>1, <2>2
<1>4. ASSUME NEW c \in Coordinators, Crash(c)
      PROVE  RefusalInv'
  BY <1>4, MoveRefusal DEF Crash, Committed
<1> QED
  BY <1>1, <1>2, <1>3, <1>4, LaunchRefusal, SessionRefusal, CloseRefusal,
     RelaunchRefusal, ClientRefusal DEF Next, Works

(* A request that reports a busy lease or asks for a restart, and is not a *)
(* relaunch-remote, has started, closed and run nothing: whichever wait,   *)
(* deadline or crash came before.                                          *)
THEOREM RefusalUntouched == Spec => []RefusalUntouchedUnlessRelaunch
<1>1. Init => RefusalInv
  BY DEF Init, RefusalInv, RefusalOf, Refusals
<1>2. RefusalInv => RefusalUntouchedUnlessRelaunch
  BY DEF RefusalInv, RefusalOf, Refusals, RefusalUntouchedUnlessRelaunch
<1> QED
  BY AlwaysTyped, StepRefusal, <1>1, <1>2, PTL DEF Spec

-----------------------------------------------------------------------------
(* The machine-wide transport lease.  A request holds it wherever it has a *)
(* child that may still send something, and in launch_session from the     *)
(* process check on.                                                       *)

TransportPlaces == {"look", "popen", "await", "verify", "verifyLaunched",
                    "save", "execute", "probe"}

TransportHeld ==
  \A c \in Coordinators : pc[c] \in TransportPlaces => transportLock = c

ClientWithinLease ==
  \A c \in Coordinators :
    Active(c) => pc[c] \in {"verify", "verifyLaunched", "probe", "execute", "dead"}

TransportInv == TransportHeld /\ ClientWithinLease

HIDE DEF Request, Expected, IsRun, FindProjectProcesses, IsEditor, Identity, Session,
         Editor

(* What a step of coordinator c may do to the transport lease.             *)
LEMMA TransportFrame ==
  ASSUME TransportInv, NEW c \in Coordinators,
         \A d \in Coordinators \ {c} :
           pc'[d] = pc[d] /\ client'[d].phase = client[d].phase,
         transportLock \in {NoOne, c} \/ transportLock' = transportLock,
         pc'[c] \in TransportPlaces => transportLock' = c,
         Active(c)' => pc'[c] \in {"verify", "verifyLaunched", "probe",
                                  "execute", "dead"}
  PROVE  TransportInv'
<1>1. TransportHeld'
  BY ConstantsAssumption DEF ConstantsAssumption, TransportInv, TransportHeld
<1>2. ClientWithinLease'
  BY DEF TransportInv, ClientWithinLease, Active
<1> QED
  BY <1>1, <1>2 DEF TransportInv

LEMMA EndsSerialized ==
  ASSUME TypeInv, TransportInv, NEW c \in Coordinators, NEW result,
         Finish(c, result)
  PROVE  TransportInv'
<1>1. pc'[c] = "idle" /\ client'[c].phase = "none"
  BY DEF TypeInv, TypeOK
<1>2. \A d \in Coordinators \ {c} :
        pc'[d] = pc[d] /\ client'[d].phase = client[d].phase
  BY DEF TypeInv, TypeOK
<1> QED
  BY <1>1, <1>2, TransportFrame DEF TransportPlaces, Active

(* Every request that ends before its goal, the handler opaque: one fact    *)
(* for all the error paths.                                                *)
LEMMA StopsSerialized ==
  ASSUME TypeInv, TransportInv, NEW c \in Coordinators
  PROVE  \A from, result : Ends(c, from, result) => TransportInv'
<1> SUFFICES ASSUME NEW from, NEW result, Ends(c, from, result)
             PROVE  TransportInv'
  OBVIOUS
<1> QED
  BY EndsSerialized DEF Ends

(* A coordinator moves with no native client, and leaves the lease alone.  *)
LEMMA MoveSerialized ==
  ASSUME TypeInv, TransportInv, NEW c \in Coordinators, NEW to,
         pc' = [pc EXCEPT ![c] = to],
         pc[c] \notin ClientPlaces,
         transportLock' = transportLock, client' = client,
         to \in TransportPlaces => pc[c] \in TransportPlaces
  PROVE  TransportInv'
<1>1. ~Active(c)'
  BY DEF Active, TypeInv, ClientHasTarget
<1> QED
  BY <1>1, TransportFrame DEF TypeInv, TypeOK, TransportInv, TransportHeld

(* The lease is free, and the coordinator that takes it may start a child. *)
LEMMA TakeSerialized ==
  ASSUME TypeInv, TransportInv, NEW c \in Coordinators, NEW from, NEW to,
         TakeTransport(c, from, to),
         from \in {"lockTransport", "lockChannel", "lockProbe"},
         \/ client' = client
         \/ StartClient(c) /\ to \in {"probe", "execute"}
  PROVE  TransportInv'
<1>1. transportLock = NoOne /\ transportLock' = c /\ pc[c] = from /\ pc'[c] = to
  BY DEF TakeTransport, LockWanted, TypeInv, TypeOK
<1>2. Active(c)' => to \in {"probe", "execute"}
  BY <1>1 DEF Active, TypeInv, ClientHasTarget, ClientPlaces
<1>3. \A d \in Coordinators \ {c} :
        pc'[d] = pc[d] /\ client'[d].phase = client[d].phase
  BY DEF TakeTransport, StartClient, TypeInv, TypeOK
<1> QED
  BY <1>1, <1>2, <1>3, TransportFrame

LEMMA LaunchSerialized ==
  ASSUME TypeInv, TransportInv, NEW c \in Coordinators, LaunchStep(c)
  PROVE  TransportInv'
<1> USE DEF ClientPlaces, TransportPlaces
<1>1. CASE LockProject(c)
  BY <1>1, MoveSerialized DEF LockProject
<1>2. CASE LaunchLockTransport(c)
  BY <1>2, TakeSerialized DEF LaunchLockTransport
<1>3. CASE Ambiguous(c) \/ PopenFails(c) \/ AwaitTimesOut(c) \/ VerifyFails(c)
           \/ SaveSession(c)
  <2>1. CASE Ambiguous(c) \/ PopenFails(c) \/ AwaitTimesOut(c) \/ VerifyFails(c)
    BY <2>1, StopsSerialized DEF Ambiguous, PopenFails, AwaitTimesOut, VerifyFails
  <2>2. CASE SaveSession(c)
    BY <2>2, EndsSerialized DEF SaveSession
  <2> QED
    BY <1>3, <2>1, <2>2
<1>4. CASE LookFinds(c) \/ AwaitFinds(c)
  <2>1. pc'[c] \in {"verify", "verifyLaunched"} /\ pc[c] \in {"look", "await"}
    BY <1>4 DEF LookFinds, AwaitFinds, Selected, TypeInv, TypeOK
  <2>2. \A d \in Coordinators \ {c} :
          pc'[d] = pc[d] /\ client'[d].phase = client[d].phase
    BY <1>4 DEF LookFinds, AwaitFinds, Selected, StartClient, TypeInv, TypeOK
  <2>3. transportLock' = transportLock /\ transportLock = c
    BY <1>4, <2>1 DEF LookFinds, AwaitFinds, Selected, TransportInv, TransportHeld
  <2> QED
    BY <2>1, <2>2, <2>3, TransportFrame
<1>5. CASE LookFindsNone(c) \/ Popen(c)
  BY <1>5, MoveSerialized DEF LookFindsNone, Popen
<1>6. CASE Verified(c)
  <2>1. pc'[c] = "save" /\ client'[c].phase = "none" /\ pc[c] \in TransportPlaces
    BY <1>6 DEF Verified, TypeInv, TypeOK
  <2>2. \A d \in Coordinators \ {c} :
          pc'[d] = pc[d] /\ client'[d].phase = client[d].phase
    BY <1>6 DEF Verified, TypeInv, TypeOK
  <2>3. transportLock' = transportLock /\ transportLock = c
    BY <1>6, <2>1 DEF Verified, TransportInv, TransportHeld
  <2> QED
    BY <2>1, <2>2, <2>3, TransportFrame DEF Active
<1> QED
  BY <1>1, <1>2, <1>3, <1>4, <1>5, <1>6 DEF LaunchStep

LEMMA SessionSerialized ==
  ASSUME TypeInv, TransportInv, NEW c \in Coordinators,
         SessionStep(c) \/ CloseStep(c)
  PROVE  TransportInv'
<1> USE DEF ClientPlaces, TransportPlaces
<1>1. CASE SessionMissing(c) \/ SessionChanged(c) \/ PostCloseFails(c)
           \/ ExitTimesOut(c)
  BY <1>1, EndsSerialized
     DEF SessionMissing, SessionChanged, PostCloseFails, ExitTimesOut, Ends
<1>2. CASE LookupSession(c) \/ LockSession(c)
  BY <1>2, MoveSerialized DEF LookupSession, LockSession
<1>3. CASE ReloadSession(c)
  BY <1>3, MoveSerialized DEF ReloadSession
<1>4. CASE CheckClose(c)
  BY <1>4, MoveSerialized DEF CheckClose
<1>5. CASE PostClose(c) \/ ExitSeen(c)
  BY <1>5, MoveSerialized DEF PostClose, ExitSeen
<1>6. CASE ForgetSession(c)
  <2>1. CASE Finish(c, "succeeded")
    BY <2>1, EndsSerialized
  <2>2. CASE Goto(c, "lockProject") /\ UNCHANGED <<client, transportLock>>
    BY <1>6, <2>2, MoveSerialized DEF ForgetSession
  <2> QED
    BY <1>6, <2>1, <2>2 DEF ForgetSession
<1> QED
  BY <1>1, <1>2, <1>3, <1>4, <1>5, <1>6 DEF SessionStep, CloseStep

LEMMA RunSerialized ==
  ASSUME TypeInv, TransportInv, NEW c \in Coordinators,
         RunStep(c) \/ RelaunchStep(c)
  PROVE  TransportInv'
<1> USE DEF ClientPlaces, TransportPlaces
<1>1. CASE SessionStale(c) \/ ExecuteFails(c)
  BY <1>1, EndsSerialized DEF SessionStale, ExecuteFails, Ends
<1>2. CASE UpdateSession(c)
  BY <1>2, EndsSerialized DEF UpdateSession
<1>3. CASE CheckRun(c) \/ RelaunchFindsNone(c) \/ SeedSession(c)
  BY <1>3, MoveSerialized DEF CheckRun, RelaunchFindsNone, SeedSession
<1>4. CASE RelaunchSelects(c)
  BY <1>4, MoveSerialized DEF RelaunchSelects, Selected
<1>5. CASE LockChannel(c) \/ LockProbe(c)
  BY <1>5, TakeSerialized DEF LockChannel, LockProbe
<1>6. CASE Executed(c)
  <2>1. /\ pc[c] = "execute" /\ pc'[c] = "update" /\ ~Active(c)'
        /\ transportLock = c
    BY <1>6 DEF Executed, Active, TypeInv, TypeOK, TransportInv, TransportHeld
  <2>2. \A d \in Coordinators \ {c} :
          pc'[d] = pc[d] /\ client'[d].phase = client[d].phase
    BY <1>6 DEF Executed, TypeInv, TypeOK
  <2> QED
    BY <2>1, <2>2, TransportFrame
<1>7. CASE \E to \in {"saveAttached", "seed"} : Probed(c, to)
  <2>1. /\ pc[c] = "probe" /\ pc'[c] \in {"saveAttached", "seed"}
        /\ client'[c].phase = "none" /\ transportLock = c
    BY <1>7 DEF Probed, TypeInv, TypeOK, TransportInv, TransportHeld
  <2>2. \A d \in Coordinators \ {c} :
          pc'[d] = pc[d] /\ client'[d].phase = client[d].phase
    BY <1>7 DEF Probed, TypeInv, TypeOK
  <2> QED
    BY <2>1, <2>2, TransportFrame DEF Active
<1>8. CASE ProbeReady(c) \/ ProbeUnavailable(c)
  <2>1. Ends(c, "probe", "restart_required")
        \/ \E to \in {"saveAttached", "seed"} : Probed(c, to)
    BY <1>8 DEF ProbeReady, ProbeUnavailable
  <2> QED
    BY <1>7, <2>1, EndsSerialized DEF Ends
<1> QED
  BY <1>1, <1>2, <1>3, <1>4, <1>5, <1>6, <1>8 DEF RunStep, RelaunchStep

(* The native client itself takes no lease: it becomes active only under   *)
(* its parent and stays in the place its parent left it.                   *)
LEMMA ClientSerialized ==
  ASSUME TypeInv, TransportInv, NEW c \in Coordinators,
         ClientStep(c) \/ ClientCrashes(c)
  PROVE  TransportInv'
<1>1. pc' = pc /\ transportLock' = transportLock
  BY DEF ClientStep, ClientCrashes, ClientVerifies, ClientGivesUp, ClientSends,
         ClientLosesResult, ClientReceives, DeadlineKills, ClientMoves
<1>2. \A d \in Coordinators \ {c} : client'[d].phase = client[d].phase
  BY DEF ClientStep, ClientCrashes, ClientVerifies, ClientGivesUp, ClientSends,
         ClientLosesResult, ClientReceives, DeadlineKills, ClientMoves,
         TypeInv, TypeOK
<1>3. Active(c)' => Active(c)
  BY DEF ClientStep, ClientCrashes, ClientVerifies, ClientGivesUp, ClientSends,
         ClientLosesResult, ClientReceives, DeadlineKills, ClientMoves,
         TypeInv, TypeOK, Active
<1>4. Active(c)' => pc'[c] \in {"verify", "verifyLaunched", "probe",
                                "execute", "dead"}
  BY <1>1, <1>3 DEF TransportInv, ClientWithinLease
<1>5. pc'[c] \in TransportPlaces => transportLock' = c
  BY <1>1 DEF TransportInv, TransportHeld
<1> QED
  BY <1>1, <1>2, <1>4, <1>5, TransportFrame

LEMMA StepSerialized == TypeInv /\ TransportInv /\ [Next]_vars => TransportInv'
<1> SUFFICES ASSUME TypeInv, TransportInv, [Next]_vars
             PROVE  TransportInv'
  OBVIOUS
<1>1. CASE World
  BY <1>1 DEF World, UserOpens, EditorReady, EditorExits, TransportInv,
              TransportHeld, ClientWithinLease, Active
<1>2. ASSUME NEW c \in Coordinators, Works(c)
      PROVE  TransportInv'
  <2>1. CASE PreflightFails(c) \/ LeaseBusy(c) \/ FileError(c)
    BY <2>1, EndsSerialized DEF PreflightFails, LeaseBusy, FileError, Ends
  <2> QED
    BY <1>2, <2>1, LaunchSerialized, SessionSerialized, RunSerialized,
       ClientSerialized DEF Works
<1>3. ASSUME NEW c \in Coordinators, Invoke(c)
      PROVE  TransportInv'
  <2>1. PICK r \in Request : Goto(c, FirstLabel(r.command))
    BY <1>3 DEF Invoke
  <2>2. FirstLabel(r.command) \notin TransportPlaces
    BY DEF FirstLabel, TransportPlaces
  <2> QED
    BY <1>3, <2>1, <2>2, MoveSerialized DEF Invoke, ClientPlaces
<1>4. ASSUME NEW c \in Coordinators, ClientCrashes(c)
      PROVE  TransportInv'
  BY <1>4, ClientSerialized
<1>5. ASSUME NEW c \in Coordinators, Crash(c)
      PROVE  TransportInv'
  <2>1. pc'[c] = "dead"
    BY <1>5 DEF Crash, TypeInv, TypeOK
  <2>2. \A d \in Coordinators \ {c} :
          pc'[d] = pc[d] /\ client'[d].phase = client[d].phase
    BY <1>5 DEF Crash, TypeInv, TypeOK
  <2> QED
    BY <1>5, <2>1, <2>2, TransportFrame DEF Crash, TransportPlaces
<1>6. CASE UNCHANGED vars
  BY <1>6 DEF vars, TransportInv, TransportHeld, ClientWithinLease, Active
<1> QED
  BY <1>1, <1>2, <1>3, <1>4, <1>5, <1>6 DEF Next

(* However many coordinators run, the children of those that live never    *)
(* have two Remote sessions open at a time.                                *)
THEOREM TransportSerialized == Spec => []LiveTransportsSerialized
<1>1. Init => TransportInv
  BY DEF Init, TransportInv, TransportHeld, ClientWithinLease, Active,
         TransportPlaces
<1>2. TransportInv => LiveTransportsSerialized
  BY DEF TransportInv, TransportHeld, ClientWithinLease, TransportPlaces,
         LiveTransportsSerialized
<1> QED
  BY <1>1, <1>2, AlwaysTyped, StepSerialized, PTL DEF Spec

-----------------------------------------------------------------------------
(* The lifecycle lease of a project.                                       *)

LeasePlaces == (LaunchPlaces \ {"lockProject"}) \cup {"reload"}
               \cup RunPlaces \cup ClosePlaces

ProjectHeld ==
  \A c \in Coordinators : pc[c] \in LeasePlaces => projectLock[target[c]] = c

LaunchTargetsRequest ==
  \A c \in Coordinators :
    pc[c] \in LaunchPlaces \ {"lockProject"} => target[c] = req[c].project

PopenFindsNone ==
  \A c \in Coordinators, x \in Pids :
    /\ pc[c] = "popen"
    /\ editor[x] # None /\ editor[x].launched /\ CanRead(c, editor[x])
    => editor[x].project # req[c].project

LaunchInv ==
  /\ ProjectHeld
  /\ LaunchTargetsRequest
  /\ PopenFindsNone
  /\ LaunchedOnce

(* No process is younger than the last one that was started.               *)
BornInTime == \A x \in Pids : editor[x] # None => editor[x].born <= births

LEMMA BirthsTyped ==
  ASSUME TypeInv
  PROVE  births \in Nat /\ \A x \in Pids : editor[x] # None => editor[x].born \in Nat
<1>1. births \in Nat
  BY DEF TypeInv, TypeOK
<1>2. ASSUME NEW x \in Pids, editor[x] # None
      PROVE  editor[x].born \in Nat
  <2>1. editor[x] \in Editor
    BY <1>2 DEF TypeInv, TypeOK
  <2> QED
    BY <2>1 DEF Editor
<1> QED
  BY <1>1, <1>2

LEMMA StepInTime == TypeInv /\ BornInTime /\ [Next]_vars => BornInTime'
<1> SUFFICES ASSUME TypeInv, BornInTime, [Next]_vars
             PROVE  BornInTime'
  OBVIOUS
<1>1. births \in Nat /\ \A x \in Pids : editor[x] # None => editor[x].born \in Nat
  BY BirthsTyped
<1>2. ASSUME NEW pid \in Pids, births' = births + 1,
             editor'[pid].born = births + 1,
             \A x \in Pids \ {pid} : editor'[x] = editor[x]
      PROVE  BornInTime'
  BY <1>1, <1>2 DEF BornInTime
<1>3. CASE UserOpens
  BY <1>2, <1>3 DEF UserOpens, TypeInv, TypeOK
<1>4. CASE EditorReady
  <2>1. /\ births' = births
        /\ \A x \in Pids : editor'[x] # None =>
             editor[x] # None /\ editor'[x].born = editor[x].born
    BY <1>4 DEF EditorReady, TypeInv, TypeOK
  <2> QED
    BY <2>1 DEF BornInTime
<1>5. CASE EditorExits
  <2>1. births' = births /\ \A x \in Pids : editor'[x] \in {None, editor[x]}
    BY <1>5 DEF EditorExits, TypeInv, TypeOK
  <2> QED
    BY <2>1 DEF BornInTime
<1>6. ASSUME NEW c \in Coordinators, Popen(c)
      PROVE  BornInTime'
  BY <1>2, <1>6 DEF Popen, TypeInv, TypeOK
<1>7. CASE UNCHANGED <<editor, births>>
  BY <1>7 DEF BornInTime
<1>8. \/ World \/ (\E c \in Coordinators : Popen(c))
      \/ UNCHANGED <<editor, births>>
  <2>1. ASSUME NEW c \in Coordinators,
               PreflightFails(c) \/ LeaseBusy(c) \/ FileError(c) \/ Invoke(c) \/ Crash(c)
        PROVE  UNCHANGED <<editor, births>>
    BY <2>1 DEF PreflightFails, LeaseBusy, FileError, Invoke, Crash, Ends
  <2>2. ASSUME NEW c \in Coordinators, LaunchStep(c)
        PROVE  Popen(c) \/ UNCHANGED <<editor, births>>
    BY <2>2 DEF LaunchStep, LockProject, LaunchLockTransport, Ambiguous, LookFinds,
                LookFindsNone, PopenFails, AwaitFinds, AwaitTimesOut, Verified,
                VerifyFails, SaveSession, TakeTransport, Selected, Ends
  <2>3. ASSUME NEW c \in Coordinators, SessionStep(c) \/ RunStep(c)
        PROVE  UNCHANGED <<editor, births>>
    BY <2>3 DEF SessionStep, SessionMissing, LookupSession, LockSession,
                ReloadSession, SessionChanged, RunStep, CheckRun, SessionStale,
                LockChannel, TakeTransport, Executed, ExecuteFails, UpdateSession, Ends
  <2>4. ASSUME NEW c \in Coordinators, CloseStep(c) \/ RelaunchStep(c)
        PROVE  UNCHANGED <<editor, births>>
    BY <2>4 DEF CloseStep, CheckClose, PostClose, PostCloseFails, ExitSeen,
                ExitTimesOut, ForgetSession, RelaunchStep, RelaunchSelects, Selected,
                RelaunchFindsNone, LockProbe, TakeTransport, ProbeReady,
                ProbeUnavailable, Probed, SeedSession, Ends
  <2>5. ASSUME NEW c \in Coordinators, ClientStep(c) \/ ClientCrashes(c)
        PROVE  UNCHANGED <<editor, births>>
    BY <2>5 DEF ClientStep, ClientCrashes, ClientVerifies, ClientGivesUp, ClientSends,
                ClientLosesResult, ClientReceives, DeadlineKills, ClientMoves
  <2> QED
    BY <2>1, <2>2, <2>3, <2>4, <2>5 DEF Next, Works, vars
<1> QED
  BY <1>3, <1>4, <1>5, <1>6, <1>7, <1>8 DEF World

LEMMA AlwaysInTime == Spec => []BornInTime
<1>1. Init => BornInTime
  BY DEF Init, BornInTime
<1> QED
  BY <1>1, AlwaysTyped, StepInTime, PTL DEF Spec

LEMMA LaunchFrame ==
  ASSUME TypeInv, LaunchInv, NEW c \in Coordinators,
         \A d \in Coordinators \ {c} :
           pc'[d] = pc[d] /\ req'[d] = req[d] /\ target'[d] = target[d],
         \A p \in Projects :
           projectLock[p] \in {NoOne, c} \/ projectLock'[p] = projectLock[p],
         pc'[c] \in LeasePlaces => projectLock'[target'[c]] = c,
         pc'[c] \in LaunchPlaces \ {"lockProject"} => target'[c] = req'[c].project,
         editor' = editor,
         pc'[c] = "popen" =>
           \A x \in Pids :
             /\ editor[x] # None /\ editor[x].launched
             /\ editor[x].owner \in MayRead[req'[c].rights]
             => editor[x].project # req'[c].project
  PROVE  LaunchInv'
<1>1. ProjectHeld'
  BY ConstantsAssumption DEF ConstantsAssumption, LaunchInv, ProjectHeld,
                             TypeInv, TypeOK
<1>2. LaunchTargetsRequest' /\ LaunchedOnce'
  BY DEF LaunchInv, LaunchTargetsRequest, LaunchedOnce
<1>3. PopenFindsNone'
  BY DEF LaunchInv, PopenFindsNone, CanRead
<1> QED
  BY <1>1, <1>2, <1>3 DEF LaunchInv

(* A request ends, or its process is killed: its leases are free.          *)
LEMMA EndsKeepsLaunch ==
  ASSUME TypeInv, LaunchInv, NEW c \in Coordinators, NEW to \in {"idle", "dead"},
         Goto(c, to), FreeProject(c), UNCHANGED <<req, target, editor>>
  PROVE  LaunchInv'
<1>1. pc'[c] = to
  BY DEF TypeInv, TypeOK
<1>2. \A d \in Coordinators \ {c} : pc'[d] = pc[d]
  BY DEF TypeInv, TypeOK
<1> QED
  BY <1>1, <1>2, LaunchFrame
     DEF LeasePlaces, LaunchPlaces, RunPlaces, ClosePlaces

(* A request moves on and leaves the lifecycle leases alone.               *)
LEMMA MoveKeepsLaunch ==
  ASSUME TypeInv, LaunchInv, NEW c \in Coordinators, NEW to,
         pc' = [pc EXCEPT ![c] = to],
         UNCHANGED <<req, target, projectLock, editor>>,
         to \in LeasePlaces => pc[c] \in LeasePlaces,
         to \in LaunchPlaces \ {"lockProject"} =>
           pc[c] \in LaunchPlaces \ {"lockProject"},
         to # "popen"
  PROVE  LaunchInv'
<1>1. pc'[c] = to
  BY DEF TypeInv, TypeOK
<1>2. pc[c] \in LeasePlaces => projectLock[target[c]] = c
  BY DEF LaunchInv, ProjectHeld
<1>3. pc[c] \in LaunchPlaces \ {"lockProject"} => target[c] = req[c].project
  BY DEF LaunchInv, LaunchTargetsRequest
<1>4. \A d \in Coordinators \ {c} : pc'[d] = pc[d]
  BY DEF TypeInv, TypeOK
<1> QED
  BY <1>1, <1>2, <1>3, <1>4, LaunchFrame

(* The process check of launch_session hands over to Popen.                *)
LEMMA LookKeepsLaunch ==
  ASSUME TypeInv, LaunchInv, NEW c \in Coordinators, LookFindsNone(c)
  PROVE  LaunchInv'
<1>1. pc[c] = "look" /\ pc'[c] = "popen"
  BY DEF LookFindsNone, TypeInv, TypeOK
<1>2. projectLock[target[c]] = c /\ target[c] = req[c].project
  BY <1>1 DEF LaunchInv, ProjectHeld, LaunchTargetsRequest, LeasePlaces,
              LaunchPlaces
<1>3. \A x \in Pids : editor[x] # None /\ editor[x].owner \in MayRead[req[c].rights]
                       => editor[x].project # req[c].project
  BY DEF LookFindsNone, FindProjectProcesses, IsEditor, CanRead
<1>4. \A d \in Coordinators \ {c} : pc'[d] = pc[d]
  BY DEF LookFindsNone, TypeInv, TypeOK
<1> QED
  BY <1>1, <1>2, <1>3, <1>4, LaunchFrame DEF LookFindsNone

(* Popen starts the only launched Editor of its project that it can read,  *)
(* and nobody else is about to start one for that project.                 *)
LEMMA PopenKeepsLaunch ==
  ASSUME TypeInv, BornInTime, LaunchInv, NEW c \in Coordinators, Popen(c)
  PROVE  LaunchInv'
<1>1. PICK pid \in Pids :
        /\ editor[pid] = None
        /\ editor' = [editor EXCEPT ![pid] =
             [project |-> req[c].project, born |-> births + 1,
              launched |-> TRUE, owner |-> req[c].rights, remote |-> "booting"]]
  BY DEF Popen
<1>2. /\ pc[c] = "popen" /\ pc'[c] = "await"
      /\ \A d \in Coordinators \ {c} : pc'[d] = pc[d]
      /\ UNCHANGED <<req, target, projectLock>>
  BY DEF Popen, TypeInv, TypeOK
<1>3. /\ editor'[pid].project = req[c].project /\ editor'[pid].owner = req[c].rights
      /\ editor'[pid].born = births + 1
      /\ \A x \in Pids \ {pid} : editor'[x] = editor[x]
  BY <1>1 DEF TypeInv, TypeOK
<1>4. projectLock[target[c]] = c /\ target[c] = req[c].project
  BY <1>2 DEF LaunchInv, ProjectHeld, LaunchTargetsRequest, LeasePlaces,
              LaunchPlaces
<1>5. ProjectHeld' /\ LaunchTargetsRequest'
  BY <1>2, <1>4 DEF LaunchInv, ProjectHeld, LaunchTargetsRequest
<1>6. PopenFindsNone'
  <2>1. \A d \in Coordinators : pc'[d] = "popen" => req[d].project # req[c].project
    <3>1. SUFFICES ASSUME NEW d \in Coordinators, pc'[d] = "popen"
                   PROVE  req[d].project # req[c].project
      OBVIOUS
    <3>2. d # c /\ pc[d] = "popen"
      BY <1>2, <3>1
    <3>3. projectLock[target[d]] = d /\ target[d] = req[d].project
      BY <3>2 DEF LaunchInv, ProjectHeld, LaunchTargetsRequest, LeasePlaces,
                  LaunchPlaces
    <3> QED
      BY <1>4, <3>2, <3>3
  <2>2. \A d \in Coordinators : pc'[d] = "popen" => pc[d] = "popen"
    BY <1>2
  <2>3. ASSUME NEW d \in Coordinators, NEW x \in Pids, pc'[d] = "popen",
               editor'[x] # None, editor'[x].launched, CanRead(d, editor[x])'
        PROVE  editor'[x].project # req[d].project
    <3>1. CASE x = pid
      BY <1>3, <2>1, <2>3, <3>1
    <3>2. CASE x # pid
      <4>1. editor[x] = editor'[x] /\ CanRead(d, editor[x])
        BY <1>2, <1>3, <2>3, <3>2 DEF CanRead
      <4> QED
        BY <2>2, <2>3, <4>1 DEF LaunchInv, PopenFindsNone
    <3> QED
      BY <3>1, <3>2
  <2> QED
    BY <1>2, <2>3 DEF PopenFindsNone
<1>7. LaunchedOnce'
  <2>1. \A x \in Pids \ {pid} :
          /\ editor[x] # None /\ editor[x].launched
          /\ editor[x].project = req[c].project
          => editor[x].owner \notin MayRead[req[c].rights]
    BY <1>2 DEF LaunchInv, PopenFindsNone, CanRead
  <2>2. \A x \in Pids \ {pid} : editor[x] # None => ~(births + 1 <= editor[x].born)
    BY BirthsTyped DEF BornInTime
  <2>3. SUFFICES ASSUME NEW x \in Pids, NEW y \in Pids, x # y,
                        editor'[x] # None, editor'[y] # None,
                        editor'[x].launched, editor'[y].launched,
                        editor'[x].project = editor'[y].project,
                        editor'[x].born <= editor'[y].born
                 PROVE  editor'[x].owner \notin MayRead[editor'[y].owner]
    BY DEF LaunchedOnce
  <2>4. CASE y = pid
    BY <1>3, <2>1, <2>3, <2>4
  <2>5. CASE x = pid
    BY <1>3, <2>2, <2>3, <2>5
  <2>6. CASE x # pid /\ y # pid
    BY <1>3, <2>3, <2>6 DEF LaunchInv, LaunchedOnce
  <2> QED
    BY <2>4, <2>5, <2>6
<1> QED
  BY <1>5, <1>6, <1>7 DEF LaunchInv

LEMMA LaunchKeepsLaunch ==
  ASSUME TypeInv, BornInTime, LaunchInv, NEW c \in Coordinators, LaunchStep(c)
  PROVE  LaunchInv'
<1> USE DEF LeasePlaces, LaunchPlaces, RunPlaces, ClosePlaces
<1>1. CASE LockProject(c)
  <2>1. /\ pc'[c] = "lockTransport" /\ target'[c] = req[c].project
        /\ projectLock[req[c].project] = NoOne
        /\ projectLock'[req[c].project] = c
    BY <1>1 DEF LockProject, LockWanted, TypeInv, TypeOK, Request
  <2>2. \A d \in Coordinators \ {c} : pc'[d] = pc[d] /\ target'[d] = target[d]
    BY <1>1 DEF LockProject, TypeInv, TypeOK
  <2>3. \A p \in Projects \ {req[c].project} : projectLock'[p] = projectLock[p]
    BY <1>1 DEF LockProject, TypeInv, TypeOK
  <2> QED
    BY <1>1, <2>1, <2>2, <2>3, LaunchFrame DEF LockProject
<1>2. CASE LaunchLockTransport(c)
  BY <1>2, MoveKeepsLaunch DEF LaunchLockTransport, TakeTransport
<1>3. CASE Ambiguous(c) \/ PopenFails(c) \/ AwaitTimesOut(c) \/ VerifyFails(c)
           \/ SaveSession(c)
  BY <1>3, EndsKeepsLaunch
     DEF Ambiguous, PopenFails, AwaitTimesOut, VerifyFails, SaveSession, Ends
<1>4. CASE LookFinds(c) \/ AwaitFinds(c)
  BY <1>4, MoveKeepsLaunch DEF LookFinds, AwaitFinds, Selected
<1>5. CASE Verified(c)
  BY <1>5, MoveKeepsLaunch DEF Verified
<1> QED
  BY <1>1, <1>2, <1>3, <1>4, <1>5, LookKeepsLaunch, PopenKeepsLaunch DEF LaunchStep

LEMMA SessionKeepsLaunch ==
  ASSUME TypeInv, LaunchInv, NEW c \in Coordinators,
         SessionStep(c) \/ CloseStep(c)
  PROVE  LaunchInv'
<1> USE DEF LeasePlaces, LaunchPlaces, RunPlaces, ClosePlaces
<1>1. CASE SessionMissing(c) \/ SessionChanged(c) \/ PostCloseFails(c)
           \/ ExitTimesOut(c)
  BY <1>1, EndsKeepsLaunch
     DEF SessionMissing, SessionChanged, PostCloseFails, ExitTimesOut, Ends
<1>2. CASE LookupSession(c)
  <2>1. pc'[c] = "lockSession"
    BY <1>2 DEF LookupSession, TypeInv, TypeOK
  <2>2. \A d \in Coordinators \ {c} : pc'[d] = pc[d] /\ target'[d] = target[d]
    BY <1>2 DEF LookupSession, TypeInv, TypeOK
  <2> QED
    BY <1>2, <2>1, <2>2, LaunchFrame DEF LookupSession
<1>3. CASE LockSession(c)
  <2>1. /\ pc'[c] = "reload" /\ projectLock[target[c]] = NoOne
        /\ projectLock'[target[c]] = c
    BY <1>3 DEF LockSession, LockWanted, TypeInv, TypeOK
  <2>2. \A d \in Coordinators \ {c} : pc'[d] = pc[d]
    BY <1>3 DEF LockSession, TypeInv, TypeOK
  <2>3. \A p \in Projects \ {target[c]} : projectLock'[p] = projectLock[p]
    BY <1>3 DEF LockSession, TypeInv, TypeOK
  <2> QED
    BY <1>3, <2>1, <2>2, <2>3, LaunchFrame DEF LockSession
<1>4. CASE ReloadSession(c)
  BY <1>4, MoveKeepsLaunch DEF ReloadSession
<1>5. CASE CheckClose(c)
  BY <1>5, MoveKeepsLaunch DEF CheckClose
<1>6. CASE PostClose(c) \/ ExitSeen(c)
  BY <1>6, MoveKeepsLaunch DEF PostClose, ExitSeen
<1>7. CASE ForgetSession(c)
  <2>1. CASE Finish(c, "succeeded")
    BY <1>7, <2>1, EndsKeepsLaunch DEF ForgetSession
  <2>2. CASE Goto(c, "lockProject") /\ FreeProject(c) /\ UNCHANGED <<req, target>>
    <3>1. pc'[c] = "lockProject"
      BY <2>2 DEF TypeInv, TypeOK
    <3>2. \A d \in Coordinators \ {c} : pc'[d] = pc[d]
      BY <2>2 DEF TypeInv, TypeOK
    <3>3. pc[c] = "forget" /\ editor' = editor
      BY <1>7 DEF ForgetSession
    <3>4. ProjectHeld'
      BY <2>2, <3>1, <3>2 DEF LaunchInv, ProjectHeld, TypeInv, TypeOK
    <3>5. LaunchTargetsRequest' /\ LaunchedOnce'
      BY <2>2, <3>1, <3>2, <3>3
         DEF LaunchInv, LaunchTargetsRequest, LaunchedOnce
    <3>6. PopenFindsNone'
      BY <2>2, <3>1, <3>2, <3>3 DEF LaunchInv, PopenFindsNone, CanRead
    <3> QED
      BY <3>4, <3>5, <3>6 DEF LaunchInv
  <2> QED
    BY <1>7, <2>1, <2>2 DEF ForgetSession
<1> QED
  BY <1>1, <1>2, <1>3, <1>4, <1>5, <1>6, <1>7 DEF SessionStep, CloseStep

LEMMA RunKeepsLaunch ==
  ASSUME TypeInv, LaunchInv, NEW c \in Coordinators,
         RunStep(c) \/ RelaunchStep(c)
  PROVE  LaunchInv'
<1> USE DEF LeasePlaces, LaunchPlaces, RunPlaces, ClosePlaces
<1>1. CASE SessionStale(c) \/ ExecuteFails(c) \/ UpdateSession(c)
  BY <1>1, EndsKeepsLaunch DEF SessionStale, ExecuteFails, UpdateSession, Ends
<1>2. CASE CheckRun(c) \/ Executed(c)
  BY <1>2, MoveKeepsLaunch DEF CheckRun, Executed
<1>3. CASE LockChannel(c) \/ LockProbe(c)
  BY <1>3, MoveKeepsLaunch DEF LockChannel, LockProbe, TakeTransport
<1>4. CASE RelaunchFindsNone(c) \/ SeedSession(c)
  BY <1>4, MoveKeepsLaunch DEF RelaunchFindsNone, SeedSession
<1>5. CASE RelaunchSelects(c)
  BY <1>5, MoveKeepsLaunch DEF RelaunchSelects, Selected
<1>6. CASE ProbeReady(c)
  BY <1>6, MoveKeepsLaunch DEF ProbeReady, Probed
<1>7. CASE ProbeUnavailable(c)
  <2>1. CASE Probed(c, "seed")
    BY <2>1, MoveKeepsLaunch DEF Probed
  <2>2. CASE Ends(c, "probe", "restart_required")
    BY <2>2, EndsKeepsLaunch DEF Ends
  <2> QED
    BY <1>7, <2>1, <2>2 DEF ProbeUnavailable
<1> QED
  BY <1>1, <1>2, <1>3, <1>4, <1>5, <1>6, <1>7 DEF RunStep, RelaunchStep

(* Editors that users open are not launched ones; the rest only go away.   *)
LEMMA WorldKeepsLaunch ==
  ASSUME TypeInv, LaunchInv, World
  PROVE  LaunchInv'
<1>1. UNCHANGED <<pc, req, target, projectLock>>
  BY DEF World, UserOpens, EditorReady, EditorExits
<1>2. \A x \in Pids : editor'[x] # None /\ editor'[x].launched =>
        /\ editor[x] # None /\ editor[x].launched
        /\ editor'[x].project = editor[x].project
        /\ editor'[x].owner = editor[x].owner /\ editor'[x].born = editor[x].born
  <2>1. CASE UserOpens
    BY <2>1 DEF UserOpens, TypeInv, TypeOK
  <2>2. CASE EditorReady
    BY <2>2 DEF EditorReady, TypeInv, TypeOK, Editor
  <2>3. CASE EditorExits
    BY <2>3 DEF EditorExits, TypeInv, TypeOK
  <2> QED
    BY <2>1, <2>2, <2>3 DEF World
<1>3. ProjectHeld' /\ LaunchTargetsRequest'
  BY <1>1 DEF LaunchInv, ProjectHeld, LaunchTargetsRequest
<1>4. LaunchedOnce'
  BY <1>2 DEF LaunchInv, LaunchedOnce
<1>5. PopenFindsNone'
  BY <1>1, <1>2 DEF LaunchInv, PopenFindsNone, CanRead
<1> QED
  BY <1>3, <1>4, <1>5 DEF LaunchInv

LEMMA StepKeepsLaunch ==
  TypeInv /\ BornInTime /\ LaunchInv /\ [Next]_vars => LaunchInv'
<1> SUFFICES ASSUME TypeInv, BornInTime, LaunchInv, [Next]_vars
             PROVE  LaunchInv'
  OBVIOUS
<1> USE DEF LaunchInv, ProjectHeld, LaunchTargetsRequest, PopenFindsNone, CanRead,
            LaunchedOnce
<1>1. CASE World
  BY <1>1, WorldKeepsLaunch
<1>2. ASSUME NEW c \in Coordinators, ClientStep(c) \/ ClientCrashes(c)
      PROVE  LaunchInv'
  <2>1. UNCHANGED <<pc, req, target, projectLock, editor>>
    BY <1>2 DEF ClientStep, ClientCrashes, ClientVerifies, ClientGivesUp,
                ClientSends, ClientLosesResult, ClientReceives, DeadlineKills,
                ClientMoves
  <2> QED
    BY <2>1
<1>3. ASSUME NEW c \in Coordinators, Works(c)
      PROVE  LaunchInv'
  <2>1. CASE PreflightFails(c) \/ LeaseBusy(c) \/ FileError(c)
    BY <2>1, EndsKeepsLaunch DEF PreflightFails, LeaseBusy, FileError, Ends
  <2> QED
    BY <1>2, <1>3, <2>1, LaunchKeepsLaunch, SessionKeepsLaunch,
       RunKeepsLaunch DEF Works
<1>4. ASSUME NEW c \in Coordinators, Invoke(c)
      PROVE  LaunchInv'
  <2>1. PICK r \in Request :
          /\ req' = [req EXCEPT ![c] = r]
          /\ Goto(c, FirstLabel(r.command))
    BY <1>4 DEF Invoke
  <2>2. pc'[c] \in {"lockProject", "select", "lookup"}
    BY <2>1 DEF FirstLabel, TypeInv, TypeOK
  <2>3. \A d \in Coordinators \ {c} : pc'[d] = pc[d] /\ req'[d] = req[d]
    BY <2>1 DEF TypeInv, TypeOK
  <2> QED
    BY <1>4, <2>2, <2>3, LaunchFrame
       DEF Invoke, LeasePlaces, LaunchPlaces, RunPlaces, ClosePlaces
<1>5. ASSUME NEW c \in Coordinators, Crash(c)
      PROVE  LaunchInv'
  BY <1>5, EndsKeepsLaunch DEF Crash
<1>6. CASE UNCHANGED vars
  BY <1>6 DEF vars
<1> QED
  BY <1>1, <1>2, <1>3, <1>4, <1>5, <1>6 DEF Next

LEMMA InitLaunch == Init => LaunchInv
BY DEF Init, LaunchInv, ProjectHeld, LaunchTargetsRequest, PopenFindsNone, LaunchedOnce, LeasePlaces, LaunchPlaces, RunPlaces,
       ClosePlaces

(* However requests, crashes and users interleave, no Editor is launched   *)
(* beside a launched one of its project that its launcher could read.      *)
THEOREM LaunchesOnce == Spec => []LaunchedOnce
<1>1. LaunchInv => LaunchedOnce
  BY DEF LaunchInv
<1> QED
  BY <1>1, InitLaunch, AlwaysTyped, AlwaysInTime, StepKeepsLaunch, PTL DEF Spec

-----------------------------------------------------------------------------
(* The interface of the native client.  A request that has left the        *)
(* transport lease has the results of its scripts; everywhere else the     *)
(* labels themselves tell whether there is a client to collect.            *)
Results == {"ok", "scriptFailed"}

ResultsAreIn ==
  \A c \in Coordinators : pc[c] = "update" => client[c].phase \in Results

StepsAreClientRuns == \A c \in Coordinators : ClientOf(c)!Step

LEMMA ClientRunFrame ==
  ASSUME ResultsAreIn, NEW c \in Coordinators,
         \A d \in Coordinators \ {c} :
           pc'[d] = pc[d] /\ client'[d] = client[d] /\ req'[d] = req[d],
         ClientOf(c)!Step,
         pc'[c] = "update" => client'[c].phase \in Results
  PROVE  ResultsAreIn' /\ StepsAreClientRuns
<1>1. ASSUME NEW d \in Coordinators \ {c}
      PROVE  ClientOf(d)!Step
  BY <1>1 DEF ClientOf!Step, ClientOf!clientRunVars, IsRun
<1> QED
  BY <1>1 DEF ResultsAreIn, StepsAreClientRuns

(* A request ends: there is no client, or it has come to its end.          *)
LEMMA FinishCollects ==
  ASSUME TypeInv, ResultsAreIn, NEW c \in Coordinators, NEW result,
         Finish(c, result),
         \/ pc[c] \notin ClientPlaces
         \/ client[c].phase \in Results \cup {"unknown", "unverified", "crashed"}
  PROVE  ResultsAreIn' /\ StepsAreClientRuns
<1>1. /\ \A d \in Coordinators \ {c} :
            pc'[d] = pc[d] /\ client'[d] = client[d] /\ req'[d] = req[d]
      /\ req' = req /\ pc'[c] = "idle" /\ client'[c].phase = "none"
  BY DEF TypeInv, TypeOK
<1>2. CASE pc[c] \notin ClientPlaces
  <2>1. client[c].phase = "none"
    BY <1>2 DEF TypeInv, ClientHasTarget
  <2>2. ClientOf(c)!Step
    BY <1>1, <2>1 DEF ClientOf!Step, ClientOf!clientRunVars, IsRun
  <2> QED
    BY <1>1, <2>2, ClientRunFrame
<1>3. CASE client[c].phase \in Results \cup {"unknown", "unverified", "crashed"}
  <2>1. ClientOf(c)!Collect
    BY <1>1, <1>3
       DEF ClientOf!Collect, ClientOf!Moves, ClientOf!Over, Results, IsRun
  <2> QED
    BY <1>1, <2>1, ClientRunFrame DEF ClientOf!Step, ClientOf!Next
<1> QED
  BY <1>2, <1>3

LEMMA EndsCollects ==
  ASSUME TypeInv, ResultsAreIn, NEW c \in Coordinators, NEW from, NEW result,
         Ends(c, from, result),
         \/ from \notin ClientPlaces \/ from = "update"
         \/ client[c].phase \in Results \cup {"unknown", "unverified", "crashed"}
  PROVE  ResultsAreIn' /\ StepsAreClientRuns
  BY FinishCollects DEF Ends, ResultsAreIn

(* A coordinator moves on and leaves its client alone, or has none.        *)
LEMMA MoveLeavesClient ==
  ASSUME TypeInv, ResultsAreIn, NEW c \in Coordinators, NEW to,
         pc' = [pc EXCEPT ![c] = to], UNCHANGED <<client, req>>,
         to = "update" => client[c].phase \in Results
  PROVE  ResultsAreIn' /\ StepsAreClientRuns
<1>1. ClientOf(c)!Step
  BY DEF ClientOf!Step, ClientOf!clientRunVars, IsRun
<1> QED
  BY <1>1, ClientRunFrame DEF TypeInv, TypeOK

(* A coordinator starts a client where it has none.                        *)
LEMMA StartBegins ==
  ASSUME TypeInv, ResultsAreIn, NEW c \in Coordinators, NEW to,
         pc' = [pc EXCEPT ![c] = to], StartClient(c), UNCHANGED req,
         pc[c] \notin ClientPlaces, to # "update"
  PROVE  ResultsAreIn' /\ StepsAreClientRuns
<1>1. client[c].phase = "none" /\ client'[c].phase = "probing"
  BY DEF StartClient, TypeInv, TypeOK, ClientHasTarget
<1>2. ClientOf(c)!Begin
  BY <1>1 DEF ClientOf!Begin, IsRun
<1>3. ClientOf(c)!Step
  BY <1>2 DEF ClientOf!Step, ClientOf!Next
<1> QED
  BY <1>3, ClientRunFrame DEF StartClient, TypeInv, TypeOK

(* A verify, which is not for a run, has returned.                         *)
LEMMA VerifyCollects ==
  ASSUME TypeInv, ResultsAreIn, NEW c \in Coordinators, NEW to,
         pc' = [pc EXCEPT ![c] = to], client' = [client EXCEPT ![c] = NoClient],
         UNCHANGED req, to # "update", Verifying(c),
         client[c].phase \in {"bound", "unverified"}
  PROVE  ResultsAreIn' /\ StepsAreClientRuns
<1>1. req[c].command # "run"
  BY DEF Verifying, TypeInv, CommandsKeepTheirPlaces, LaunchPlaces, ProbePlaces
<1>2. client'[c].phase = "none"
  BY DEF TypeInv, TypeOK
<1>3. ClientOf(c)!Collect
  BY <1>1, <1>2 DEF ClientOf!Collect, ClientOf!Moves, ClientOf!Over, IsRun
<1> QED
  BY <1>3, ClientRunFrame DEF ClientOf!Step, ClientOf!Next, TypeInv, TypeOK

LEMMA LaunchKeepsClient ==
  ASSUME TypeInv, ResultsAreIn, NEW c \in Coordinators, LaunchStep(c)
  PROVE  ResultsAreIn' /\ StepsAreClientRuns
<1>1. CASE LockProject(c)
  BY <1>1, MoveLeavesClient DEF LockProject
<1>2. CASE LaunchLockTransport(c) \/ LookFindsNone(c)
  BY <1>2, MoveLeavesClient DEF LaunchLockTransport, TakeTransport, LookFindsNone
<1>3. CASE Ambiguous(c) \/ PopenFails(c) \/ AwaitTimesOut(c)
  BY <1>3, EndsCollects DEF Ambiguous, PopenFails, AwaitTimesOut, ClientPlaces
<1>4. CASE LookFinds(c) \/ AwaitFinds(c)
  BY <1>4, StartBegins DEF LookFinds, AwaitFinds, Selected, ClientPlaces
<1>5. CASE Popen(c)
  BY <1>5, MoveLeavesClient DEF Popen
<1>6. CASE Verified(c)
  BY <1>6, VerifyCollects DEF Verified, Verifying
<1>7. CASE VerifyFails(c)
  BY <1>7, EndsCollects DEF VerifyFails
<1>8. CASE SaveSession(c)
  BY <1>8, FinishCollects DEF SaveSession, ClientPlaces
<1> QED
  BY <1>1, <1>2, <1>3, <1>4, <1>5, <1>6, <1>7, <1>8 DEF LaunchStep

LEMMA SessionKeepsClient ==
  ASSUME TypeInv, ResultsAreIn, NEW c \in Coordinators,
         SessionStep(c) \/ CloseStep(c)
  PROVE  ResultsAreIn' /\ StepsAreClientRuns
<1>1. CASE SessionMissing(c) \/ SessionChanged(c) \/ PostCloseFails(c)
           \/ ExitTimesOut(c)
  BY <1>1, EndsCollects
     DEF SessionMissing, SessionChanged, PostCloseFails, ExitTimesOut, ClientPlaces
<1>2. CASE LookupSession(c) \/ LockSession(c) \/ PostClose(c) \/ ExitSeen(c)
  BY <1>2, MoveLeavesClient DEF LookupSession, LockSession, PostClose, ExitSeen
<1>3. CASE ReloadSession(c)
  BY <1>3, MoveLeavesClient DEF ReloadSession
<1>4. CASE CheckClose(c)
  BY <1>4, MoveLeavesClient DEF CheckClose
<1>5. CASE ForgetSession(c)
  <2>1. CASE Finish(c, "succeeded")
    BY <1>5, <2>1, FinishCollects DEF ForgetSession, ClientPlaces
  <2>2. CASE Goto(c, "lockProject") /\ UNCHANGED <<client, req>>
    BY <2>2, MoveLeavesClient
  <2> QED
    BY <1>5, <2>1, <2>2 DEF ForgetSession
<1> QED
  BY <1>1, <1>2, <1>3, <1>4, <1>5 DEF SessionStep, CloseStep

LEMMA RunKeepsClient ==
  ASSUME TypeInv, ResultsAreIn, NEW c \in Coordinators, RunStep(c)
  PROVE  ResultsAreIn' /\ StepsAreClientRuns
<1>1. CASE CheckRun(c) \/ Executed(c)
  BY <1>1, MoveLeavesClient DEF CheckRun, Executed, Results
<1>2. CASE SessionStale(c)
  BY <1>2, EndsCollects DEF SessionStale, ClientPlaces
<1>3. CASE LockChannel(c)
  BY <1>3, StartBegins DEF LockChannel, TakeTransport, ClientPlaces
<1>4. CASE ExecuteFails(c)
  BY <1>4, EndsCollects DEF ExecuteFails
<1>5. CASE UpdateSession(c)
  BY <1>5, FinishCollects DEF UpdateSession, ResultsAreIn
<1> QED
  BY <1>1, <1>2, <1>3, <1>4, <1>5 DEF RunStep

LEMMA RelaunchKeepsClient ==
  ASSUME TypeInv, ResultsAreIn, NEW c \in Coordinators, RelaunchStep(c)
  PROVE  ResultsAreIn' /\ StepsAreClientRuns
<1>1. CASE RelaunchSelects(c) \/ RelaunchFindsNone(c) \/ SeedSession(c)
  BY <1>1, MoveLeavesClient
     DEF RelaunchSelects, Selected, RelaunchFindsNone, SeedSession
<1>2. CASE LockProbe(c)
  BY <1>2, StartBegins DEF LockProbe, TakeTransport, ClientPlaces
<1>3. CASE ProbeReady(c) \/ (client[c].phase = "unverified" /\ Probed(c, "seed"))
  BY <1>3, VerifyCollects DEF ProbeReady, Probed, Verifying
<1>4. CASE /\ client[c].phase = "unverified"
           /\ Ends(c, "probe", "restart_required")
  BY <1>4, EndsCollects
<1> QED
  BY <1>1, <1>2, <1>3, <1>4 DEF RelaunchStep, ProbeUnavailable

(* What the client itself does is a step of the interface; no coordinator  *)
(* waits at "update" for it.                                               *)
LEMMA ClientRunsOn ==
  ASSUME TypeInv, ResultsAreIn, NEW c \in Coordinators,
         ClientStep(c) \/ ClientCrashes(c)
  PROVE  ResultsAreIn' /\ StepsAreClientRuns
<1>1. ASSUME NEW from \in {"probing", "bound", "sent"}, NEW to \in Phases,
             ClientMoves(c, from, to)
      PROVE  /\ client[c].phase = from /\ client'[c].phase = to
             /\ pc' = pc /\ req' = req /\ pc[c] # "update"
             /\ \A d \in Coordinators \ {c} : client'[d] = client[d]
  BY <1>1 DEF ClientMoves, ResultsAreIn, Results, TypeInv, TypeOK
<1>2. CASE ClientVerifies(c)
  <2>1. /\ client[c].phase = "probing" /\ client'[c].phase = "bound"
        /\ pc' = pc /\ req' = req /\ pc[c] # "update"
        /\ \A d \in Coordinators \ {c} : client'[d] = client[d]
    BY <1>2 DEF ClientVerifies, ResultsAreIn, Results, TypeInv, TypeOK
  <2>2. ClientOf(c)!Verify
    BY <2>1 DEF ClientOf!Verify, ClientOf!Moves, IsRun
  <2> QED
    BY <2>1, <2>2, ClientRunFrame
       DEF ClientOf!Step, ClientOf!Next, ClientOf!Runs
<1>3. CASE ClientGivesUp(c)
  <2>1. ClientOf(c)!GiveUp \/ ClientOf(c)!Break
    BY <1>1, <1>3 DEF ClientGivesUp, ClientOf!GiveUp, ClientOf!Break,
                      ClientOf!Moves, ClientOf!AtWork, IsRun, Phases
  <2> QED
    BY <1>1, <1>3, <2>1, ClientRunFrame
       DEF ClientGivesUp, ClientOf!Step, ClientOf!Next, ClientOf!Runs, Phases
<1>4. CASE ClientSends(c)
  <2>1. ClientOf(c)!Send
    BY <1>1, <1>4 DEF ClientSends, ClientOf!Send, ClientOf!Moves, IsRun, Phases
  <2> QED
    BY <1>1, <1>4, <2>1, ClientRunFrame
       DEF ClientSends, ClientOf!Step, ClientOf!Next, ClientOf!Runs, Phases
<1>5. CASE ClientLosesResult(c) \/ (DeadlineKills(c) /\ ~Verifying(c))
  <2>1. IsRun(c)
    BY <1>5 DEF ClientLosesResult, DeadlineKills, TypeInv,
                CommandsKeepTheirPlaces, RunPlaces, IsRun
  <2>2. PICK from \in {"probing", "bound", "sent"} : ClientMoves(c, from, "unknown")
    BY <1>5 DEF ClientLosesResult, DeadlineKills
  <2>3. ClientOf(c)!LoseTrack
    BY <1>1, <2>1, <2>2
       DEF ClientOf!LoseTrack, ClientOf!Moves, ClientOf!AtWork, IsRun, Phases
  <2> QED
    BY <1>1, <2>2, <2>3, ClientRunFrame
       DEF ClientOf!Step, ClientOf!Next, ClientOf!Runs, Phases
<1>6. CASE ClientReceives(c)
  <2>1. ClientOf(c)!Answer
    BY <1>1, <1>6 DEF ClientReceives, ClientOf!Answer, ClientOf!Moves, IsRun, Phases
  <2> QED
    BY <1>1, <1>6, <2>1, ClientRunFrame
       DEF ClientReceives, ClientOf!Step, ClientOf!Next, ClientOf!Runs, Phases
<1>7. CASE DeadlineKills(c) /\ Verifying(c)
  <2>1. PICK from \in {"probing", "bound"} : ClientMoves(c, from, "unverified")
    BY <1>7 DEF DeadlineKills, Verifying
  <2>2. ClientOf(c)!GiveUp
    BY <1>1, <2>1 DEF ClientOf!GiveUp, ClientOf!Moves, IsRun, Phases
  <2> QED
    BY <1>1, <2>1, <2>2, ClientRunFrame
       DEF ClientOf!Step, ClientOf!Next, ClientOf!Runs, Phases
<1>8. CASE ClientCrashes(c)
  <2>1. PICK from \in {"probing", "bound", "sent"} : ClientMoves(c, from, "crashed")
    BY <1>8 DEF ClientCrashes
  <2>2. ClientOf(c)!Break
    BY <1>1, <2>1 DEF ClientOf!Break, ClientOf!Moves, ClientOf!AtWork, IsRun, Phases
  <2> QED
    BY <1>1, <2>1, <2>2, ClientRunFrame
       DEF ClientOf!Step, ClientOf!Next, ClientOf!Runs, Phases
<1> QED
  BY <1>2, <1>3, <1>4, <1>5, <1>6, <1>7, <1>8 DEF ClientStep

LEMMA StepIsClientRun ==
  TypeInv /\ ResultsAreIn /\ [Next]_vars => ResultsAreIn' /\ StepsAreClientRuns
<1> SUFFICES ASSUME TypeInv, ResultsAreIn, [Next]_vars
             PROVE  ResultsAreIn' /\ StepsAreClientRuns
  OBVIOUS
<1>1. CASE World \/ UNCHANGED vars
  <2>1. UNCHANGED <<pc, req, client>>
    BY <1>1 DEF World, UserOpens, EditorReady, EditorExits, vars
  <2> QED
    BY <2>1 DEF ResultsAreIn, StepsAreClientRuns, ClientOf!Step,
                ClientOf!clientRunVars, IsRun
<1>2. ASSUME NEW c \in Coordinators, Invoke(c)
      PROVE  ResultsAreIn' /\ StepsAreClientRuns
  <2>1. /\ client[c].phase = "none" /\ client' = client /\ pc'[c] # "update"
        /\ \A d \in Coordinators \ {c} : pc'[d] = pc[d] /\ req'[d] = req[d]
    BY <1>2 DEF Invoke, FirstLabel, TypeInv, TypeOK, ClientHasTarget, ClientPlaces
  <2>2. ClientOf(c)!Begin
    BY <2>1 DEF ClientOf!Begin, IsRun
  <2> QED
    BY <2>1, <2>2, ClientRunFrame DEF ClientOf!Step, ClientOf!Next
<1>3. ASSUME NEW c \in Coordinators,
             PreflightFails(c) \/ FileError(c) \/ LeaseBusy(c)
      PROVE  ResultsAreIn' /\ StepsAreClientRuns
  <2>1. CASE PreflightFails(c) \/ FileError(c)
    BY <2>1, EndsCollects DEF PreflightFails, FileError, ClientPlaces
  <2>2. CASE LeaseBusy(c)
    BY <2>2, EndsCollects DEF LeaseBusy, LockWanted, ClientPlaces
  <2> QED
    BY <1>3, <2>1, <2>2
<1>4. ASSUME NEW c \in Coordinators, Crash(c)
      PROVE  ResultsAreIn' /\ StepsAreClientRuns
  BY <1>4, MoveLeavesClient DEF Crash
<1> QED
  BY <1>1, <1>2, <1>3, <1>4, LaunchKeepsClient, SessionKeepsClient,
     RunKeepsClient, RelaunchKeepsClient, ClientRunsOn DEF Next, Works

(* Whatever requests, crashes, deadlines and users do, each coordinator    *)
(* sees its native clients through the interface that NativeBridge         *)
(* implements: one at a time, never dropped while at work, and with no     *)
(* result that has not come.                                               *)
THEOREM ClientsAreRuns == Spec => ClientsKeepInterface
<1>1. Init => ResultsAreIn
  BY DEF Init, ResultsAreIn
<1>2. TypeInv /\ ResultsAreIn /\ [Next]_vars => ResultsAreIn'
  BY StepIsClientRun
<1>3. TypeInv /\ ResultsAreIn /\ [Next]_vars
        => [\A c \in Coordinators : ClientOf(c)!Step]_vars
  BY StepIsClientRun DEF StepsAreClientRuns
<1> QED
  BY <1>1, <1>2, <1>3, AlwaysTyped, PTL DEF Spec, ClientsKeepInterface

(* A step of any implementation of the interface, as the rest of the       *)
(* system sees it: which Editor it has to have met, and what it leaves     *)
(* behind.  The interface itself says nothing of Editors.                  *)
ClientEffect(c) ==
  LET to == client'[c].phase
  IN  /\ to = "bound" =>
           \E pid \in Pids :
             /\ ProbeMatches(Expected(c), pid)
             /\ client' = [client EXCEPT ![c] =
                  [phase |-> "bound", link |-> editor[pid].born]]
      /\ to # "bound" => client' = [client EXCEPT ![c].phase = to]
      /\ to \in {"sent", "ok", "scriptFailed"} => Alive(client[c].link)
      /\ did' = IF to = "sent" THEN [did EXCEPT ![c] = @ \cup {"script"}] ELSE did
      /\ IF to = "crashed" /\ ~(IsRun(c) /\ client[c].phase = "sent")
           THEN crashes < MaxCrashes /\ crashes' = crashes + 1
           ELSE crashes' = crashes
      /\ UNCHANGED <<pc, req, target, identity, current, outcome, session,
                     editor, lockVars, requests, births>>

(* The converse: Lifecycle allows a client whose coordinator waits for it  *)
(* every step of the interface.  So whatever holds of Lifecycle holds with *)
(* any implementation of the interface in the place of its client.         *)
THEOREM EveryRunAllowed ==
  ASSUME TypeInv, NEW c \in Coordinators, Verifying(c) \/ pc[c] = "execute",
         ClientOf(c)!Runs, ClientEffect(c)
  PROVE  Next
<1> USE DEF ClientOf!Moves, ClientOf!AtWork, ClientEffect, ClientMoves
<1> SUFFICES ClientStep(c) \/ ClientCrashes(c)
  BY DEF Next, Works
<1>1. pc[c] = "execute" <=> IsRun(c)
  BY DEF TypeInv, CommandsKeepTheirPlaces, RunPlaces, LaunchPlaces, ProbePlaces,
         Verifying, IsRun
<1>2. CASE ClientOf(c)!Verify
  BY <1>2 DEF ClientOf!Verify, ClientStep, ClientVerifies
<1>3. CASE ClientOf(c)!Send
  BY <1>3 DEF ClientOf!Send, ClientStep, ClientSends, IsRun
<1>4. CASE ClientOf(c)!Answer
  BY <1>4 DEF ClientOf!Answer, ClientStep, ClientReceives
<1>5. CASE ClientOf(c)!GiveUp
  <2>1. ClientMoves(c, client[c].phase, "unverified") /\ UNCHANGED <<did, counters>>
    BY <1>5 DEF ClientOf!GiveUp
  <2> QED
    BY <1>1, <1>5, <2>1
       DEF ClientOf!GiveUp, ClientStep, ClientGivesUp, DeadlineKills, Verifying
<1>6. CASE ClientOf(c)!LoseTrack
  <2>1. ClientMoves(c, client[c].phase, "unknown") /\ UNCHANGED <<did, counters>>
    BY <1>6 DEF ClientOf!LoseTrack
  <2> QED
    BY <1>1, <1>6, <2>1 DEF ClientOf!LoseTrack, ClientStep, DeadlineKills, IsRun
<1>7. CASE ClientOf(c)!Break
  <2>1. ClientMoves(c, client[c].phase, "crashed") /\ did' = did
    BY <1>7 DEF ClientOf!Break
  <2>2. CASE IsRun(c) /\ client[c].phase = "sent"
    BY <1>7, <2>1, <2>2 DEF ClientOf!Break, ClientStep, ClientGivesUp
  <2>3. CASE ~(IsRun(c) /\ client[c].phase = "sent")
    BY <1>7, <2>1, <2>3 DEF ClientOf!Break, ClientCrashes
  <2> QED
    BY <2>2, <2>3
<1> QED
  BY <1>2, <1>3, <1>4, <1>5, <1>6, <1>7 DEF ClientOf!Runs
=============================================================================
