---------------------------- MODULE LifecycleClose ----------------------------
(***************************************************************************)
(* What ties a request to the process of its session, proved for all values*)
(* of the constants: whoever works on a session holds the lifecycle lease  *)
(* of its project; a script runs in a process with the session's id and    *)
(* project directory; where projects have directories of their own,        *)
(* WM_CLOSE never goes to a process in which a script of another request   *)
(* runs, although close_session takes no transport lease; no process that  *)
(* the closing request may read is the one whose session it removes; and   *)
(* nobody but relaunch_remote changes a session file under the lease of its*)
(* project.                                                                *)
(***************************************************************************)
EXTENDS LifecycleProofs

-----------------------------------------------------------------------------
(* The lifecycle lease is the one of a project, the dangers are about one  *)
(* process.  What ties them together is that a creation time belongs to one*)
(* process id and project, wherever it is remembered: in the process table,*)
(* in a session file, in a local variable or at the other end of a         *)
(* connection.  The last knows no more than the directory of the project:  *)
(* that is all its probe asks for.                                         *)

Mark(k, pid, project) ==
  IF k = "at" THEN <<pid, project>> ELSE <<pid, DirOf[project]>>

KnownEditor(b, k, v) ==
  \E x \in Pids : /\ editor[x] # None /\ editor[x].born = b
                  /\ v = Mark(k, x, editor[x].project)
Says(x, b, k, v) == x # None /\ x.born = b /\ v = Mark(k, x.pid, x.project)
KnownSession(b, k, v) == \E f \in Files : Says(session[f], b, k, v)
KnownIdentity(b, k, v) == \E c \in Coordinators : Says(identity[c], b, k, v)
KnownCurrent(b, k, v) == \E c \in Coordinators : Says(current[c], b, k, v)
Linked(c) == pc[c] = "execute" /\ client[c].phase \in {"bound", "sent"}
KnownLink(b, k, v) ==
  \E c \in Coordinators :
    /\ Linked(c) /\ client[c].link = b
    /\ k = "dir" /\ v = <<current[c].pid, DirOf[current[c].project]>>

Known(b, k, v) ==
  \/ KnownEditor(b, k, v) \/ KnownSession(b, k, v) \/ KnownIdentity(b, k, v)
  \/ KnownCurrent(b, k, v) \/ KnownLink(b, k, v)

(* What x says of a process is known from somewhere.                       *)
Credible(x) ==
  \A k \in {"at", "dir"} : Known(x.born, k, Mark(k, x.pid, x.project))

OneProcessPerBirth ==
  \A b \in Nat, k \in {"at", "dir"} : \A v :
    Known(b, k, v) => b <= births /\ \A w : Known(b, k, w) => v = w

CurrentIsLocked ==
  \A c \in Coordinators :
    pc[c] \in RunPlaces \cup ClosePlaces => current[c].project = target[c]

CloseInv == OneProcessPerBirth /\ CurrentIsLocked

-----------------------------------------------------------------------------
USE DEF Goto, Step, Finish, FreeProject, FreeTransport, NoClient, coordinatorVars,
        lockVars, counters

(* A step of coordinator c that learns a creation time only from where it  *)
(* is already remembered makes nothing new known.                          *)
LEMMA NothingNew ==
  ASSUME NEW c \in Coordinators, TypeOK,
         editor' = editor,
         \A d \in Coordinators \ {c} :
           /\ pc'[d] = pc[d] /\ identity'[d] = identity[d]
           /\ current'[d] = current[d] /\ client'[d] = client[d],
         identity'[c] # None => Credible(identity'[c]),
         current'[c] # None => Credible(current'[c]),
         Linked(c)' => Known(client'[c].link, "dir", <<current'[c].pid, DirOf[current'[c].project]>>),
         \A f \in Files : session'[f] # None => Credible(session'[f]),
         NEW b, NEW k \in {"at", "dir"}, NEW v, Known(b, k, v)'
  PROVE  Known(b, k, v)
<1>1. CASE KnownEditor(b, k, v)'
  BY <1>1 DEF KnownEditor, Known
<1>2. CASE KnownSession(b, k, v)'
  BY <1>2 DEF KnownSession, Says, Credible
<1>3. CASE KnownIdentity(b, k, v)'
  <2>1. PICK d \in Coordinators : Says(identity'[d], b, k, v)
    BY <1>3 DEF KnownIdentity
  <2>2. CASE d = c
    BY <2>1, <2>2 DEF Says, Credible
  <2>3. CASE d # c
    BY <2>1, <2>3 DEF KnownIdentity, Known
  <2> QED
    BY <2>2, <2>3
<1>4. CASE KnownCurrent(b, k, v)'
  <2>1. PICK d \in Coordinators : Says(current'[d], b, k, v)
    BY <1>4 DEF KnownCurrent
  <2>2. CASE d = c
    BY <2>1, <2>2 DEF Says, Credible
  <2>3. CASE d # c
    BY <2>1, <2>3 DEF KnownCurrent, Known
  <2> QED
    BY <2>2, <2>3
<1>5. CASE KnownLink(b, k, v)'
  <2>1. PICK d \in Coordinators :
          Linked(d)' /\ client'[d].link = b /\ k = "dir"
          /\ v = <<current'[d].pid, DirOf[current'[d].project]>>
    BY <1>5 DEF KnownLink
  <2>2. CASE d = c
    BY <2>1, <2>2
  <2>3. CASE d # c
    BY <2>1, <2>3 DEF KnownLink, Known, Linked
  <2> QED
    BY <2>2, <2>3
<1> QED
  BY <1>1, <1>2, <1>3, <1>4, <1>5 DEF Known

(* What a coordinator or a session file remembers is known.                *)
LEMMA RememberedIsKnown ==
  /\ \A x \in Pids, k \in {"at", "dir"} : editor[x] # None =>
       Known(editor[x].born, k, Mark(k, x, editor[x].project))
  /\ \A f \in Files : session[f] # None => Credible(session[f])
  /\ \A c \in Coordinators :
       /\ identity[c] # None => Credible(identity[c])
       /\ current[c] # None => Credible(current[c])
       /\ Linked(c) =>
            Known(client[c].link, "dir", <<current[c].pid, DirOf[current[c].project]>>)
BY DEF Credible, Says, Known, KnownEditor, KnownSession, KnownIdentity, KnownCurrent,
       KnownLink

NoNews ==
  \A b \in Nat, k \in {"at", "dir"} : \A v : Known(b, k, v)' => Known(b, k, v)

(* The most common step: the locals stay or are forgotten, no session file *)
(* learns anything and the connection stays or is closed.                  *)
LEMMA QuietNews ==
  ASSUME TypeInv, NEW c \in Coordinators,
         editor' = editor,
         \A d \in Coordinators \ {c} :
           /\ pc'[d] = pc[d] /\ identity'[d] = identity[d]
           /\ current'[d] = current[d] /\ client'[d] = client[d],
         identity'[c] \in {None, identity[c]},
         current'[c] \in {None, current[c]},
         ~Linked(c)',
         \A f \in Files : session'[f] # None => Credible(session'[f])
  PROVE  NoNews
BY RememberedIsKnown, NothingNew DEF NoNews, TypeInv

LEMMA FinishNews ==
  ASSUME TypeInv, NEW c \in Coordinators, NEW result,
         Finish(c, result), editor' = editor,
         \A f \in Files : session'[f] # None => Credible(session'[f])
  PROVE  NoNews
<1>1. \A d \in Coordinators \ {c} :
        /\ pc'[d] = pc[d] /\ identity'[d] = identity[d]
        /\ current'[d] = current[d] /\ client'[d] = client[d]
  BY DEF TypeInv, TypeOK
<1>2. pc'[c] = "idle" /\ identity'[c] = None /\ current'[c] = None
  BY DEF TypeInv, TypeOK
<1> QED
  BY <1>1, <1>2, QuietNews DEF Linked

LEMMA EndsNews ==
  ASSUME TypeInv, NEW c \in Coordinators, NEW from, NEW result,
         Ends(c, from, result)
  PROVE  NoNews
BY FinishNews, RememberedIsKnown DEF Ends

(* A request moves on with the locals it has.                              *)
LEMMA MoveNews ==
  ASSUME TypeInv, NEW c \in Coordinators, NEW to, to # "execute",
         pc' = [pc EXCEPT ![c] = to],
         UNCHANGED <<identity, current, session, editor>>,
         \A d \in Coordinators \ {c} : client'[d] = client[d]
  PROVE  NoNews
<1>1. \A d \in Coordinators \ {c} : pc'[d] = pc[d]
  BY DEF TypeInv, TypeOK
<1>2. ~Linked(c)'
  BY DEF Linked, TypeInv, TypeOK
<1> QED
  BY <1>1, <1>2, QuietNews, RememberedIsKnown

(* A request takes the identity of the Editor it found.                    *)
LEMMA SelectedNews ==
  ASSUME TypeInv, NEW c \in Coordinators, NEW from, NEW to, to # "execute",
         Selected(c, from, to),
         \A d \in Coordinators \ {c} : client'[d] = client[d]
  PROVE  NoNews
<1>1. \A d \in Coordinators \ {c} :
        pc'[d] = pc[d] /\ identity'[d] = identity[d]
  BY DEF Selected, TypeInv, TypeOK
<1>2. ~Linked(c)'
  BY DEF Selected, Linked, TypeInv, TypeOK
<1>3. Credible(identity'[c])
  <2>1. PICK pid \in Pids :
          /\ FindProjectProcesses(c, req[c].project) = {pid}
          /\ identity'[c] = IdentityOf(pid)
    BY DEF Selected, TypeInv, TypeOK
  <2>2. editor[pid] # None
    BY <2>1 DEF FindProjectProcesses, IsEditor
  <2>3. /\ identity'[c].born = editor[pid].born /\ identity'[c].pid = pid
        /\ identity'[c].project = editor[pid].project
    BY <2>1 DEF IdentityOf
  <2> QED
    BY <2>2, <2>3, RememberedIsKnown DEF Credible, Mark
<1> QED
  BY <1>1, <1>2, <1>3, NothingNew, RememberedIsKnown DEF Selected, NoNews, TypeInv

(* Writing the session file of a request.                                  *)
LEMMA WriteNews ==
  ASSUME TypeInv, NEW c \in Coordinators, NEW s, WriteSession(c, s),
         s # None => Credible(s)
  PROVE  \A f \in Files : session'[f] # None => Credible(session'[f])
BY RememberedIsKnown DEF WriteSession, TypeInv, TypeOK

-----------------------------------------------------------------------------
LEMMA LaunchNews ==
  ASSUME TypeInv, NEW c \in Coordinators, LaunchStep(c), ~Popen(c)
  PROVE  NoNews
<1>1. CASE LockProject(c) \/ LookFindsNone(c)
  BY <1>1, MoveNews DEF LockProject, LookFindsNone
<1>2. CASE LaunchLockTransport(c)
  BY <1>2, MoveNews DEF LaunchLockTransport, TakeTransport
<1>3. CASE Ambiguous(c) \/ PopenFails(c) \/ AwaitTimesOut(c) \/ VerifyFails(c)
  BY <1>3, EndsNews DEF Ambiguous, PopenFails, AwaitTimesOut, VerifyFails
<1>4. CASE LookFinds(c) \/ AwaitFinds(c)
  <2>1. \A d \in Coordinators \ {c} : client'[d] = client[d]
    BY <1>4 DEF LookFinds, AwaitFinds, StartClient, TypeInv, TypeOK
  <2> QED
    BY <1>4, <2>1, SelectedNews DEF LookFinds, AwaitFinds
<1>5. CASE Verified(c)
  <2>1. \A d \in Coordinators \ {c} : client'[d] = client[d]
    BY <1>5 DEF Verified, TypeInv, TypeOK
  <2> QED
    BY <1>5, <2>1, MoveNews DEF Verified
<1>6. CASE SaveSession(c)
  <2>1. identity[c] \in Identity
    BY <1>6 DEF SaveSession, TypeInv, LocalsAreSet, ProbePlaces
  <2>2. Credible(identity[c])
    BY <2>1, RememberedIsKnown, ConstantsAssumption
       DEF ConstantsAssumption, Identity
  <2>3. \A f \in Files : session'[f] # None => Credible(session'[f])
    BY <1>6, <2>2, WriteNews DEF SaveSession, SessionFor, Credible
  <2> QED
    BY <1>6, <2>3, FinishNews DEF SaveSession
<1> QED
  BY <1>1, <1>2, <1>3, <1>4, <1>5, <1>6 DEF LaunchStep

LEMMA SessionNews ==
  ASSUME TypeInv, NEW c \in Coordinators, SessionStep(c) \/ CloseStep(c)
  PROVE  NoNews
<1>1. CASE SessionMissing(c) \/ SessionChanged(c) \/ PostCloseFails(c)
           \/ ExitTimesOut(c)
  BY <1>1, EndsNews DEF SessionMissing, SessionChanged, PostCloseFails, ExitTimesOut
<1>2. CASE LookupSession(c) \/ LockSession(c)
  BY <1>2, MoveNews DEF LookupSession, LockSession
<1>3. CASE ReloadSession(c)
  <2>1. /\ current'[c] = session[req[c].file] /\ identity' = identity
        /\ session[req[c].file] # None /\ req[c].file \in Files
    BY <1>3 DEF ReloadSession, SessionIsFor, TypeInv, TypeOK, Request
  <2>2. \A d \in Coordinators \ {c} :
          pc'[d] = pc[d] /\ current'[d] = current[d] /\ client'[d] = client[d]
    BY <1>3 DEF ReloadSession, TypeInv, TypeOK
  <2>3. ~Linked(c)'
    BY <1>3 DEF ReloadSession, Linked, TypeInv, TypeOK
  <2> QED
    BY <1>3, <2>1, <2>2, <2>3, NothingNew, RememberedIsKnown
       DEF ReloadSession, NoNews, TypeInv
<1>4. CASE CheckClose(c)
  BY <1>4, MoveNews DEF CheckClose
<1>5. CASE PostClose(c) \/ ExitSeen(c)
  BY <1>5, MoveNews DEF PostClose, ExitSeen
<1>6. CASE ForgetSession(c)
  <2>1. \A f \in Files : session'[f] # None => Credible(session'[f])
    BY <1>6, WriteNews DEF ForgetSession
  <2>2. CASE Finish(c, "succeeded")
    BY <1>6, <2>1, <2>2, FinishNews DEF ForgetSession
  <2>3. CASE /\ Goto(c, "lockProject") /\ UNCHANGED <<identity, client>>
             /\ current' = [current EXCEPT ![c] = None]
    <3>1. \A d \in Coordinators \ {c} : pc'[d] = pc[d] /\ current'[d] = current[d]
      BY <2>3 DEF TypeInv, TypeOK
    <3>2. current'[c] = None /\ ~Linked(c)'
      BY <2>3 DEF Linked, TypeInv, TypeOK
    <3> QED
      BY <1>6, <2>1, <2>3, <3>1, <3>2, QuietNews DEF ForgetSession
  <2> QED
    BY <1>6, <2>2, <2>3 DEF ForgetSession
<1> QED
  BY <1>1, <1>2, <1>3, <1>4, <1>5, <1>6 DEF SessionStep, CloseStep

LEMMA RunNews ==
  ASSUME TypeInv, NEW c \in Coordinators, RunStep(c) \/ RelaunchStep(c)
  PROVE  NoNews
<1>1. CASE SessionStale(c) \/ ExecuteFails(c)
  BY <1>1, EndsNews DEF SessionStale, ExecuteFails
<1>2. CASE UpdateSession(c)
  <2>1. current[c] \in Session
    BY <1>2 DEF UpdateSession, TypeInv, LocalsAreSet, RunPlaces
  <2>2. Credible(current[c])
    BY <2>1, RememberedIsKnown, ConstantsAssumption
       DEF ConstantsAssumption, Session
  <2>3. /\ [current[c] EXCEPT !.hint = TRUE].born = current[c].born
        /\ [current[c] EXCEPT !.hint = TRUE].pid = current[c].pid
        /\ [current[c] EXCEPT !.hint = TRUE].project = current[c].project
    BY <2>1 DEF Session
  <2>4. \A f \in Files : session'[f] # None => Credible(session'[f])
    BY <1>2, <2>2, <2>3, WriteNews DEF UpdateSession, Credible
  <2> QED
    BY <1>2, <2>4, FinishNews DEF UpdateSession
<1>3. CASE CheckRun(c) \/ RelaunchFindsNone(c) \/ Executed(c)
  BY <1>3, MoveNews DEF CheckRun, RelaunchFindsNone, Executed
<1>4. CASE LockChannel(c) \/ LockProbe(c)
  <2>1. \A d \in Coordinators \ {c} : pc'[d] = pc[d] /\ client'[d] = client[d]
    BY <1>4 DEF LockChannel, LockProbe, TakeTransport, StartClient, TypeInv, TypeOK
  <2>2. ~Linked(c)'
    BY <1>4 DEF LockChannel, LockProbe, StartClient, Linked, TypeInv, TypeOK
  <2> QED
    BY <1>4, <2>1, <2>2, QuietNews, RememberedIsKnown
       DEF LockChannel, LockProbe, TakeTransport
<1>5. CASE RelaunchSelects(c)
  BY <1>5, SelectedNews DEF RelaunchSelects
<1>6. CASE \E to \in {"saveAttached", "seed"} : Probed(c, to)
  <2>1. \A d \in Coordinators \ {c} : client'[d] = client[d]
    BY <1>6 DEF Probed, TypeInv, TypeOK
  <2> QED
    BY <1>6, <2>1, MoveNews DEF Probed
<1>7. CASE ProbeReady(c) \/ ProbeUnavailable(c)
  <2>1. Ends(c, "probe", "restart_required")
        \/ \E to \in {"saveAttached", "seed"} : Probed(c, to)
    BY <1>7 DEF ProbeReady, ProbeUnavailable
  <2> QED
    BY <1>6, <2>1, EndsNews
<1>8. CASE SeedSession(c)
  <2>1. identity[c] \in Identity
    BY <1>8 DEF SeedSession, TypeInv, LocalsAreSet, ProbePlaces
  <2>2. Credible(identity[c])
    BY <2>1, RememberedIsKnown, ConstantsAssumption
       DEF ConstantsAssumption, Identity
  <2>3. \A f \in Files : session'[f] # None => Credible(session'[f])
    BY <1>8, <2>2, WriteNews DEF SeedSession, SessionFor, Credible
  <2>4. (\A d \in Coordinators \ {c} : pc'[d] = pc[d]) /\ ~Linked(c)'
    BY <1>8 DEF SeedSession, Linked, TypeInv, TypeOK
  <2> QED
    BY <1>8, <2>3, <2>4, QuietNews DEF SeedSession
<1> QED
  BY <1>1, <1>2, <1>3, <1>4, <1>5, <1>7, <1>8 DEF RunStep, RelaunchStep

(* A client that verifies an Editor links to a process with the id and the *)
(* directory of the session its coordinator works on.                      *)
LEMMA ClientNews ==
  ASSUME TypeInv, NEW c \in Coordinators, ClientStep(c) \/ ClientCrashes(c)
  PROVE  NoNews
<1>1. UNCHANGED <<pc, identity, current, session, editor>>
  BY DEF ClientStep, ClientCrashes, ClientVerifies, ClientGivesUp, ClientSends,
         ClientLosesResult, ClientReceives, DeadlineKills, ClientMoves
<1>2. \A d \in Coordinators \ {c} : client'[d] = client[d]
  BY DEF ClientStep, ClientCrashes, ClientVerifies, ClientGivesUp, ClientSends,
         ClientLosesResult, ClientReceives, DeadlineKills, ClientMoves,
         TypeInv, TypeOK
<1>3. ASSUME Linked(c)'
      PROVE  Known(client'[c].link, "dir", <<current'[c].pid, DirOf[current'[c].project]>>)
  <2>1. CASE ClientVerifies(c)
    <3>1. pc[c] = "execute" /\ req[c].command = "run"
      BY <1>1, <1>3 DEF Linked, TypeInv, CommandsKeepTheirPlaces, RunPlaces
    <3>2. Expected(c) = current[c] /\ current[c] \in Session
      BY <3>1 DEF Expected, IsRun, TypeInv, LocalsAreSet, RunPlaces
    <3>3. PICK pid \in Pids :
            /\ ProbeMatches(current[c], pid)
            /\ client' = [client EXCEPT ![c] =
                            [phase |-> "bound", link |-> editor[pid].born]]
      BY <2>1, <3>2 DEF ClientVerifies
    <3>4. /\ pid = current[c].pid /\ editor[pid] # None
          /\ DirOf[editor[pid].project] = DirOf[current[c].project]
      BY <3>3 DEF ProbeMatches
    <3>5. client'[c].link = editor[pid].born
      BY <3>3 DEF TypeInv, TypeOK
    <3>6. Known(editor[pid].born, "dir", <<pid, DirOf[editor[pid].project]>>)
      BY <3>4, RememberedIsKnown DEF Mark
    <3> QED
      BY <1>1, <3>4, <3>5, <3>6
  <2>2. CASE ~ClientVerifies(c)
    <3>1. Linked(c) /\ client'[c].link = client[c].link
      BY <1>1, <1>3, <2>2
         DEF Linked, ClientStep, ClientCrashes, ClientGivesUp, ClientSends,
             ClientLosesResult, ClientReceives, DeadlineKills, ClientMoves,
             TypeInv, TypeOK
    <3> QED
      BY <1>1, <3>1, RememberedIsKnown
  <2> QED
    BY <2>1, <2>2
<1> QED
  BY <1>1, <1>2, <1>3, NothingNew, RememberedIsKnown DEF NoNews, TypeInv

(* A birth makes one new creation time known, for one process.             *)
Birth ==
  \E e \in [{"at", "dir"} -> (Pids \X Projects) \cup (Pids \X Directories)] :
    \A b \in Nat, k \in {"at", "dir"} : \A v :
      Known(b, k, v)' => Known(b, k, v) \/ (b = births + 1 /\ v = e[k])

LEMMA BirthNews ==
  ASSUME TypeInv, NEW pid \in Pids, NEW e \in Editor, e.born = births + 1,
         editor' = [editor EXCEPT ![pid] = e],
         UNCHANGED <<identity, current, client, session>>,
         \A c \in Coordinators : pc'[c] = pc[c] \/ pc'[c] # "execute"
  PROVE  Birth
<1> DEFINE new == [k \in {"at", "dir"} |-> Mark(k, pid, e.project)]
<1>1. new \in [{"at", "dir"} -> (Pids \X Projects) \cup (Pids \X Directories)]
  BY ConstantsAssumption DEF ConstantsAssumption, Editor, Mark
<1>2. ASSUME NEW b \in Nat, NEW k \in {"at", "dir"}, NEW v, Known(b, k, v)'
      PROVE  Known(b, k, v) \/ (b = births + 1 /\ v = new[k])
  <2>1. CASE KnownEditor(b, k, v)'
    <3>1. PICK x \in Pids :
            /\ editor'[x] # None /\ editor'[x].born = b
            /\ v = Mark(k, x, editor'[x].project)
      BY <2>1 DEF KnownEditor
    <3>2. CASE x = pid
      BY <3>1, <3>2 DEF TypeInv, TypeOK
    <3>3. CASE x # pid
      BY <3>1, <3>3 DEF KnownEditor, Known, TypeInv, TypeOK
    <3> QED
      BY <3>2, <3>3
  <2>2. CASE KnownSession(b, k, v)' \/ KnownIdentity(b, k, v)' \/ KnownCurrent(b, k, v)'
    BY <2>2 DEF KnownSession, KnownIdentity, KnownCurrent, Known
  <2>3. CASE KnownLink(b, k, v)'
    BY <2>3 DEF KnownLink, Linked, Known
  <2> QED
    BY <1>2, <2>1, <2>2, <2>3 DEF Known
<1> HIDE DEF new
<1> QED
  BY <1>1, <1>2 DEF Birth

LEMMA StepNews ==
  ASSUME TypeInv, [Next]_vars
  PROVE  (NoNews /\ births' = births) \/ (Birth /\ births' = births + 1)
<1>1. CASE World
  <2>1. CASE UserOpens
    <3>1. PICK pid \in Pids, p \in Projects, r \in Rights, m \in {"off", "ready"} :
            editor' = [editor EXCEPT ![pid] =
              [project |-> p, born |-> births + 1, launched |-> FALSE,
               owner |-> r, remote |-> m]]
      BY <2>1 DEF UserOpens
    <3>2. [project |-> p, born |-> births + 1, launched |-> FALSE,
           owner |-> r, remote |-> m] \in Editor
      BY ConstantsAssumption DEF ConstantsAssumption, Editor, TypeInv, TypeOK
    <3> QED
      BY <2>1, <3>1, <3>2, BirthNews DEF UserOpens
  <2>2. CASE EditorReady \/ EditorExits
    <3>1. \A x \in Pids : editor'[x] # None =>
            /\ editor[x] # None /\ editor'[x].born = editor[x].born
            /\ editor'[x].project = editor[x].project
      BY <2>2, SMTT(30) DEF EditorReady, EditorExits, TypeInv, TypeOK, Editor
    <3>2. UNCHANGED <<pc, identity, current, client, session, births>>
      BY <2>2 DEF EditorReady, EditorExits
    <3>3. ASSUME NEW b \in Nat, NEW k \in {"at", "dir"}, NEW v, Known(b, k, v)'
          PROVE  Known(b, k, v)
      <4>1. KnownEditor(b, k, v)' => KnownEditor(b, k, v)
        BY <3>1 DEF KnownEditor
      <4>2. KnownSession(b, k, v)' => KnownSession(b, k, v)
        BY <3>2 DEF KnownSession
      <4>3. KnownIdentity(b, k, v)' => KnownIdentity(b, k, v)
        BY <3>2 DEF KnownIdentity
      <4>4. KnownCurrent(b, k, v)' => KnownCurrent(b, k, v)
        BY <3>2 DEF KnownCurrent
      <4>5. KnownLink(b, k, v)' => KnownLink(b, k, v)
        BY <3>2 DEF KnownLink, Linked
      <4> QED
        BY <3>3, <4>1, <4>2, <4>3, <4>4, <4>5 DEF Known
    <3> QED
      BY <3>2, <3>3 DEF NoNews
  <2> QED
    BY <1>1, <2>1, <2>2 DEF World
<1>2. ASSUME NEW c \in Coordinators, Popen(c)
      PROVE  Birth /\ births' = births + 1
  <2>1. PICK pid \in Pids :
          editor' = [editor EXCEPT ![pid] =
            [project |-> req[c].project, born |-> births + 1,
             launched |-> TRUE, owner |-> req[c].rights, remote |-> "booting"]]
    BY <1>2 DEF Popen
  <2>2. [project |-> req[c].project, born |-> births + 1,
         launched |-> TRUE, owner |-> req[c].rights, remote |-> "booting"] \in Editor
    BY ConstantsAssumption DEF ConstantsAssumption, Editor, Request, TypeInv, TypeOK
  <2>3. \A d \in Coordinators : pc'[d] = pc[d] \/ pc'[d] # "execute"
    BY <1>2 DEF Popen, TypeInv, TypeOK
  <2> QED
    BY <1>2, <2>1, <2>2, <2>3, BirthNews DEF Popen
<1>3. ASSUME NEW c \in Coordinators, Works(c), ~Popen(c)
      PROVE  NoNews /\ births' = births
  <2>1. CASE PreflightFails(c) \/ LeaseBusy(c) \/ FileError(c)
    BY <2>1, EndsNews, SMTT(30)
       DEF PreflightFails, LeaseBusy, FileError, Ends
  <2>2. CASE LaunchStep(c)
    BY <1>3, <2>2, LaunchNews
       DEF LaunchStep, LockProject, LaunchLockTransport, TakeTransport,
           Ambiguous, LookFinds, Selected, LookFindsNone, PopenFails,
           AwaitFinds, AwaitTimesOut, Verified, VerifyFails, SaveSession, Ends
  <2>3. CASE SessionStep(c) \/ CloseStep(c)
    BY <2>3, SessionNews
       DEF SessionStep, CloseStep, SessionMissing, LookupSession, LockSession,
           ReloadSession, SessionChanged, CheckClose, PostClose,
           PostCloseFails, ExitSeen, ExitTimesOut, ForgetSession, Ends
  <2>4. CASE RunStep(c) \/ RelaunchStep(c)
    BY <2>4, RunNews
       DEF RunStep, RelaunchStep, CheckRun, SessionStale, LockChannel,
           TakeTransport, Executed, ExecuteFails, UpdateSession,
           RelaunchSelects, Selected, RelaunchFindsNone, LockProbe,
           ProbeReady, ProbeUnavailable, Probed, SeedSession, Ends
  <2>5. CASE ClientStep(c)
    BY <2>5, ClientNews
       DEF ClientStep, ClientVerifies, ClientGivesUp, ClientSends,
           ClientLosesResult, ClientReceives, DeadlineKills
  <2> QED
    BY <1>3, <2>1, <2>2, <2>3, <2>4, <2>5 DEF Works
<1>4. ASSUME NEW c \in Coordinators, Invoke(c)
      PROVE  NoNews /\ births' = births
  <2>1. PICK to \in {"lockProject", "select", "lookup"} : Goto(c, to)
    BY <1>4 DEF Invoke, FirstLabel
  <2> QED
    BY <1>4, <2>1, MoveNews DEF Invoke
<1>5. ASSUME NEW c \in Coordinators, ClientCrashes(c)
      PROVE  NoNews /\ births' = births
  BY <1>5, ClientNews DEF ClientCrashes
<1>6. ASSUME NEW c \in Coordinators, Crash(c)
      PROVE  NoNews /\ births' = births
  BY <1>6, MoveNews DEF Crash
<1>7. CASE UNCHANGED vars
  BY <1>7 DEF vars, NoNews, Known, KnownEditor, KnownSession, KnownIdentity,
              KnownCurrent, KnownLink, Linked
<1> QED
  BY <1>1, <1>2, <1>3, <1>4, <1>5, <1>6, <1>7 DEF Next

LEMMA NamesStep ==
  TypeInv /\ OneProcessPerBirth /\ [Next]_vars => OneProcessPerBirth'
<1> SUFFICES ASSUME TypeInv, OneProcessPerBirth, [Next]_vars
             PROVE  OneProcessPerBirth'
  OBVIOUS
<1>1. births \in Nat
  BY DEF TypeInv, TypeOK
<1>2. CASE NoNews /\ births' = births
  BY <1>2 DEF NoNews, OneProcessPerBirth
<1>3. CASE Birth /\ births' = births + 1
  <2>1. PICK new \in [{"at", "dir"} -> (Pids \X Projects) \cup (Pids \X Directories)] :
          \A b \in Nat, k \in {"at", "dir"} : \A v :
            Known(b, k, v)' => Known(b, k, v) \/ (b = births + 1 /\ v = new[k])
    BY <1>3 DEF Birth
  <2>2. \A b \in Nat, k \in {"at", "dir"} : \A v : Known(b, k, v) => b <= births
    BY DEF OneProcessPerBirth
  <2>3. ASSUME NEW b \in Nat, NEW k \in {"at", "dir"}, NEW v, Known(b, k, v)'
        PROVE  b <= births' /\ \A w : Known(b, k, w)' => v = w
    <3>1. b <= births + 1
      BY <1>1, <2>1, <2>2, <2>3
    <3>2. ASSUME NEW w, Known(b, k, w)'
          PROVE  v = w
      <4>1. CASE b = births + 1
        BY <1>1, <2>1, <2>2, <2>3, <3>2, <4>1
      <4>2. CASE b # births + 1
        BY <2>1, <2>3, <3>2, <4>2 DEF OneProcessPerBirth
      <4> QED
        BY <4>1, <4>2
    <3> QED
      BY <1>3, <3>1, <3>2
  <2> QED
    BY <2>3 DEF OneProcessPerBirth
<1> QED
  BY <1>2, <1>3, StepNews

-----------------------------------------------------------------------------
(* The session in hand is one of the project whose lease is held.          *)
LEMMA LockedFrame ==
  ASSUME CurrentIsLocked, NEW c \in Coordinators,
         \A d \in Coordinators \ {c} :
           pc'[d] = pc[d] /\ current'[d] = current[d] /\ target'[d] = target[d],
         pc'[c] \in RunPlaces \cup ClosePlaces => current'[c].project = target'[c]
  PROVE  CurrentIsLocked'
BY DEF CurrentIsLocked

LEMMA LockedMoves ==
  ASSUME TypeInv, CurrentIsLocked, NEW c \in Coordinators, NEW to,
         pc' = [pc EXCEPT ![c] = to],
         \/ /\ UNCHANGED <<current, target>>
            /\ to \in RunPlaces \cup ClosePlaces =>
                 pc[c] \in RunPlaces \cup ClosePlaces
         \/ /\ to \notin RunPlaces \cup ClosePlaces
            /\ \A d \in Coordinators \ {c} :
                 current'[d] = current[d] /\ target'[d] = target[d]
  PROVE  CurrentIsLocked'
<1>1. pc'[c] = to /\ \A d \in Coordinators \ {c} : pc'[d] = pc[d]
  BY DEF TypeInv, TypeOK
<1> QED
  BY <1>1, LockedFrame DEF CurrentIsLocked

LEMMA LockedEnds ==
  ASSUME TypeInv, CurrentIsLocked, NEW c \in Coordinators, NEW result,
         Finish(c, result)
  PROVE  CurrentIsLocked'
<1>1. \A d \in Coordinators \ {c} : current'[d] = current[d]
  BY DEF TypeInv, TypeOK
<1>2. "idle" \notin RunPlaces \cup ClosePlaces
  BY DEF RunPlaces, ClosePlaces
<1> QED
  BY <1>1, <1>2, LockedMoves

(* Every request that ends before its goal, the handler opaque: one fact    *)
(* for all the error paths.                                                *)
LEMMA LockedStops ==
  ASSUME TypeInv, CurrentIsLocked, NEW c \in Coordinators
  PROVE  \A from, result : Ends(c, from, result) => CurrentIsLocked'
<1> SUFFICES ASSUME NEW from, NEW result, Ends(c, from, result)
             PROVE  CurrentIsLocked'
  OBVIOUS
<1> QED
  BY LockedEnds DEF Ends

LEMMA LockedStep == TypeInv /\ CurrentIsLocked /\ [Next]_vars => CurrentIsLocked'
<1> SUFFICES ASSUME TypeInv, CurrentIsLocked, [Next]_vars
             PROVE  CurrentIsLocked'
  OBVIOUS
<1> USE DEF RunPlaces, ClosePlaces
<1>1. CASE World \/ UNCHANGED vars
  BY <1>1 DEF World, UserOpens, EditorReady, EditorExits, vars, CurrentIsLocked
<1>2. ASSUME NEW c \in Coordinators, LaunchStep(c)
      PROVE  CurrentIsLocked'
  <2>1. CASE LockProject(c)
    <3>1. \A d \in Coordinators \ {c} : target'[d] = target[d]
      BY <2>1 DEF LockProject, TypeInv, TypeOK
    <3> QED
      BY <2>1, <3>1, LockedMoves DEF LockProject
  <2>2. CASE LaunchLockTransport(c) \/ LookFindsNone(c) \/ Popen(c) \/ Verified(c)
    BY <2>2, LockedMoves
       DEF LaunchLockTransport, TakeTransport, LookFindsNone, Popen, Verified
  <2>3. CASE LookFinds(c) \/ AwaitFinds(c)
    BY <2>3, LockedMoves DEF LookFinds, AwaitFinds, Selected
  <2>4. CASE Ambiguous(c) \/ PopenFails(c) \/ AwaitTimesOut(c) \/ VerifyFails(c)
             \/ SaveSession(c)
    <3>1. CASE Ambiguous(c)
      BY <3>1, LockedStops DEF Ambiguous
    <3>2. CASE PopenFails(c) \/ AwaitTimesOut(c)
      BY <3>2, LockedStops DEF PopenFails, AwaitTimesOut
    <3>3. CASE VerifyFails(c)
      BY <3>3, LockedStops DEF VerifyFails
    <3>4. CASE SaveSession(c)
      BY <3>4, LockedEnds DEF SaveSession
    <3> QED
      BY <2>4, <3>1, <3>2, <3>3, <3>4
  <2> QED
    BY <1>2, <2>1, <2>2, <2>3, <2>4 DEF LaunchStep
<1>3. ASSUME NEW c \in Coordinators, SessionStep(c)
      PROVE  CurrentIsLocked'
  <2>1. CASE SessionMissing(c) \/ SessionChanged(c)
    BY <2>1, LockedStops DEF SessionMissing, SessionChanged
  <2>2. CASE LookupSession(c)
    <3>1. \A d \in Coordinators \ {c} : target'[d] = target[d]
      BY <2>2 DEF LookupSession, TypeInv, TypeOK
    <3> QED
      BY <2>2, <3>1, LockedMoves DEF LookupSession
  <2>3. CASE LockSession(c)
    BY <2>3, LockedMoves DEF LockSession
  <2>4. CASE ReloadSession(c)
    <3>1. /\ current'[c].project = target'[c]
          /\ \A d \in Coordinators \ {c} :
               pc'[d] = pc[d] /\ current'[d] = current[d] /\ target'[d] = target[d]
      BY <2>4 DEF ReloadSession, SessionIsFor, TypeInv, TypeOK
    <3> QED
      BY <3>1, LockedFrame
  <2> QED
    BY <1>3, <2>1, <2>2, <2>3, <2>4 DEF SessionStep
<1>4. ASSUME NEW c \in Coordinators, RunStep(c) \/ CloseStep(c)
      PROVE  CurrentIsLocked'
  <2>1. CASE SessionStale(c) \/ ExecuteFails(c) \/ UpdateSession(c)
             \/ PostCloseFails(c) \/ ExitTimesOut(c)
    <3>1. CASE SessionStale(c) \/ ExecuteFails(c)
      BY <3>1, LockedStops DEF SessionStale, ExecuteFails
    <3>2. CASE UpdateSession(c)
      BY <3>2, LockedEnds DEF UpdateSession
    <3>3. CASE PostCloseFails(c) \/ ExitTimesOut(c)
      BY <3>3, LockedStops DEF PostCloseFails, ExitTimesOut
    <3> QED
      BY <2>1, <3>1, <3>2, <3>3
  <2>2. CASE CheckRun(c) \/ Executed(c)
    BY <2>2, LockedMoves DEF CheckRun, Executed
  <2>3. CASE LockChannel(c)
    BY <2>3, LockedMoves DEF LockChannel, TakeTransport
  <2>4. CASE CheckClose(c)
    BY <2>4, LockedMoves DEF CheckClose
  <2>5. CASE PostClose(c) \/ ExitSeen(c)
    BY <2>5, LockedMoves DEF PostClose, ExitSeen
  <2>6. CASE ForgetSession(c)
    <3>1. CASE Finish(c, "succeeded")
      BY <3>1, LockedEnds
    <3>2. CASE /\ Goto(c, "lockProject") /\ target' = target
               /\ current' = [current EXCEPT ![c] = None]
      <4>1. \A d \in Coordinators \ {c} : current'[d] = current[d]
        BY <3>2 DEF TypeInv, TypeOK
      <4> QED
        BY <3>2, <4>1, LockedMoves
    <3> QED
      BY <2>6, <3>1, <3>2 DEF ForgetSession
  <2> QED
    BY <1>4, <2>1, <2>2, <2>3, <2>4, <2>5, <2>6 DEF RunStep, CloseStep
<1>5. ASSUME NEW c \in Coordinators, RelaunchStep(c)
      PROVE  CurrentIsLocked'
  <2>1. CASE RelaunchSelects(c) \/ RelaunchFindsNone(c) \/ SeedSession(c)
    BY <2>1, LockedMoves DEF RelaunchSelects, Selected, RelaunchFindsNone, SeedSession
  <2>2. CASE LockProbe(c)
    BY <2>2, LockedMoves DEF LockProbe, TakeTransport
  <2>3. CASE ProbeReady(c) \/ ProbeUnavailable(c)
    <3>1. Ends(c, "probe", "restart_required")
          \/ \E to \in {"saveAttached", "seed"} : Probed(c, to)
      BY <2>3 DEF ProbeReady, ProbeUnavailable
    <3> QED
      BY <3>1, LockedMoves, LockedStops DEF Probed
  <2> QED
    BY <1>5, <2>1, <2>2, <2>3 DEF RelaunchStep
<1>6. ASSUME NEW c \in Coordinators, ClientStep(c) \/ ClientCrashes(c)
      PROVE  CurrentIsLocked'
  <2>1. UNCHANGED <<pc, current, target>>
    BY <1>6 DEF ClientStep, ClientCrashes, ClientVerifies, ClientGivesUp,
                ClientSends, ClientLosesResult, ClientReceives, DeadlineKills,
                ClientMoves
  <2> QED
    BY <2>1 DEF CurrentIsLocked
<1>7. ASSUME NEW c \in Coordinators, Works(c)
      PROVE  CurrentIsLocked'
  <2>1. CASE PreflightFails(c) \/ LeaseBusy(c) \/ FileError(c)
    BY <2>1, LockedStops DEF PreflightFails, LeaseBusy, FileError
  <2> QED
    BY <1>2, <1>3, <1>4, <1>5, <1>6, <1>7, <2>1 DEF Works
<1>8. ASSUME NEW c \in Coordinators, Invoke(c)
      PROVE  CurrentIsLocked'
  <2>1. PICK to \in {"lockProject", "select", "lookup"} : Goto(c, to)
    BY <1>8 DEF Invoke, FirstLabel
  <2> QED
    BY <1>8, <2>1, LockedMoves DEF Invoke
<1>9. ASSUME NEW c \in Coordinators, Crash(c)
      PROVE  CurrentIsLocked'
  BY <1>9, LockedMoves DEF Crash
<1> QED
  BY <1>1, <1>6, <1>7, <1>8, <1>9 DEF Next

LEMMA CloseAlways == Spec => [](TypeInv /\ LaunchInv /\ CloseInv)
<1>1. Init => CloseInv
  BY DEF Init, CloseInv, OneProcessPerBirth, CurrentIsLocked, Known, KnownEditor,
         KnownSession, KnownIdentity, KnownCurrent, KnownLink, Linked, Says,
         RunPlaces, ClosePlaces
<1>2. TypeInv /\ CloseInv /\ [Next]_vars => CloseInv'
  BY NamesStep, LockedStep DEF CloseInv
<1>3. Spec => []LaunchInv
  BY InitLaunch, AlwaysTyped, AlwaysInTime, StepKeepsLaunch, PTL DEF Spec
<1> QED
  BY <1>1, <1>2, <1>3, AlwaysTyped, PTL DEF Spec

-----------------------------------------------------------------------------
(* What a request has in hand, and holds the lease for.                    *)
LEMMA CurrentInHand ==
  ASSUME TypeInv, CloseInv, NEW c \in Coordinators, pc[c] \in RunPlaces \cup ClosePlaces
  PROVE  /\ current[c] \in Session /\ current[c] # None
         /\ Credible(current[c]) /\ current[c].born <= births
         /\ current[c].project = target[c]
<1>1. current[c] \in Session
  BY DEF TypeInv, LocalsAreSet
<1>2. current[c] # None
  BY <1>1, ConstantsAssumption DEF ConstantsAssumption, Session
<1>3. Credible(current[c])
  BY <1>2, RememberedIsKnown
<1>4. current[c].born <= births
  BY <1>1, <1>3 DEF Credible, CloseInv, OneProcessPerBirth, Session
<1> QED
  BY <1>1, <1>2, <1>3, <1>4 DEF CloseInv, CurrentIsLocked

(* Whatever is known of a creation time is the same.                       *)
LEMMA OneMark ==
  ASSUME CloseInv, NEW b \in Nat, NEW k \in {"at", "dir"}, NEW v, NEW w,
         Known(b, k, v), Known(b, k, w)
  PROVE  v = w
  BY DEF CloseInv, OneProcessPerBirth

(* A process with the creation time of the session in hand is the session's*)
(* process, and is seen to be by whoever may read it.                      *)
LEMMA BirthIdentifies ==
  ASSUME TypeInv, CloseInv, NEW c \in Coordinators, pc[c] \in RunPlaces \cup ClosePlaces,
         NEW x \in Pids, editor[x] # None, editor[x].born = current[c].born,
         CanRead(c, editor[x])
  PROVE  SameProcess(c, current[c]) /\ x = current[c].pid
<1>1. current[c] \in Session /\ Credible(current[c])
  BY CurrentInHand
<1>2. current[c].born \in Nat
  BY <1>1 DEF Session
<1>3. Known(current[c].born, "at", <<x, editor[x].project>>)
  BY RememberedIsKnown DEF Mark
<1>4. Known(current[c].born, "at", <<current[c].pid, current[c].project>>)
  BY <1>1 DEF Credible, Mark
<1>5. <<x, editor[x].project>> = <<current[c].pid, current[c].project>>
  BY <1>2, <1>3, <1>4, OneMark
<1> QED
  BY <1>5 DEF SameProcess, IsEditor

(* No two projects in one directory.                                       *)
OwnDirectories ==
  \A p, q \in Projects : DirOf[p] = DirOf[q] => p = q

(* WM_CLOSE never goes to a process in which a live request runs a script: *)
(* close_session takes no transport lease, but the two requests would need *)
(* the lifecycle lease of one project.  Projects that share a directory    *)
(* have leases of their own while the client tells only their directory.   *)
THEOREM NoCloseWhileScriptRuns ==
  ASSUME OwnDirectories
  PROVE  Spec => []NoCloseDuringScript
<1>1. TypeInv /\ LaunchInv /\ CloseInv => NoCloseDuringScript
  <2>1. SUFFICES ASSUME TypeInv, LaunchInv, CloseInv,
                        NEW c \in Coordinators, NEW d \in Coordinators,
                        pc[c] = "postClose", pc[d] = "execute",
                        client[d].phase = "sent",
                        client[d].link = current[c].born
                 PROVE  FALSE
    BY DEF NoCloseDuringScript
  <2>2. /\ current[c] \in Session /\ Credible(current[c])
        /\ current[c].project = target[c]
        /\ current[d] \in Session /\ current[d].project = target[d]
    BY <2>1, CurrentInHand DEF RunPlaces, ClosePlaces
  <2>3. /\ Known(current[c].born, "dir", <<current[c].pid, DirOf[current[c].project]>>)
        /\ Known(current[c].born, "dir", <<current[d].pid, DirOf[current[d].project]>>)
    BY <2>1, <2>2, RememberedIsKnown DEF Linked, Credible, Mark
  <2>4. <<current[c].pid, DirOf[current[c].project]>>
          = <<current[d].pid, DirOf[current[d].project]>>
    BY <2>1, <2>2, <2>3, OneMark DEF Session
  <2>5. current[c].project = current[d].project
    BY <2>2, <2>4, OwnDirectories DEF OwnDirectories, Session
  <2>6. projectLock[target[c]] = c /\ projectLock[target[d]] = d
    BY <2>1 DEF LaunchInv, ProjectHeld, LeasePlaces, RunPlaces, ClosePlaces
  <2> QED
    BY <2>1, <2>2, <2>5, <2>6
<1> QED
  BY <1>1, CloseAlways, PTL

(* A request works on a session of the project whose lease it holds, also  *)
(* if projects share session files.                                        *)
THEOREM WorksUnderLease == Spec => []WorksUnderItsLease
<1>1. TypeInv /\ LaunchInv /\ CloseInv => WorksUnderItsLease
  BY CurrentInHand DEF WorksUnderItsLease, HoldsSession, LaunchInv, ProjectHeld,
     LeasePlaces, RunPlaces, ClosePlaces
<1> QED
  BY <1>1, CloseAlways, PTL

(* A script runs in a process with the session's id and project directory. *)
THEOREM ScriptInSessionsEditor == Spec => []ScriptRunsInSessionsEditor
<1>1. ASSUME TypeInv, CloseInv, NEW c \in Coordinators, NEW x \in Pids,
             pc[c] = "execute", client[c].phase = "sent",
             editor[x] # None, editor[x].born = client[c].link
      PROVE  /\ x = current[c].pid
             /\ DirOf[editor[x].project] = DirOf[current[c].project]
  <2>1. /\ Known(client[c].link, "dir", <<current[c].pid, DirOf[current[c].project]>>)
        /\ Known(client[c].link, "dir", <<x, DirOf[editor[x].project]>>)
    BY <1>1, RememberedIsKnown DEF Linked, Mark
  <2>2. client[c].link \in Nat
    BY <1>1 DEF TypeInv, TypeOK
  <2>3. <<x, DirOf[editor[x].project]>> = <<current[c].pid, DirOf[current[c].project]>>
    BY <1>1, <2>1, <2>2, OneMark
  <2> QED
    BY <2>3
<1>2. TypeInv /\ CloseInv => ScriptRunsInSessionsEditor
  BY <1>1 DEF ScriptRunsInSessionsEditor
<1> QED
  BY <1>2, CloseAlways, PTL

-----------------------------------------------------------------------------
(* No process comes back with a creation time of the past.                 *)
LEMMA NoResurrection ==
  ASSUME TypeInv, [Next]_vars, NEW x \in Pids, editor'[x] # None,
         editor'[x].born <= births
  PROVE  /\ editor[x] # None /\ editor[x].born = editor'[x].born
         /\ editor[x].owner = editor'[x].owner
<1>1. births \in Nat
  BY DEF TypeInv, TypeOK
<1>3. CASE editor' = editor
  BY <1>3
<1>4. CASE World
  <2>1. CASE UserOpens
    <3>1. PICK pid \in Pids, p \in Projects, r \in Rights, m \in {"off", "ready"} :
            editor' = [editor EXCEPT ![pid] =
              [project |-> p, born |-> births + 1, launched |-> FALSE,
               owner |-> r, remote |-> m]]
      BY <2>1 DEF UserOpens
    <3>2. x # pid
      BY <1>1, <3>1 DEF TypeInv, TypeOK
    <3> QED
      BY <3>1, <3>2 DEF TypeInv, TypeOK
  <2>2. CASE EditorReady \/ EditorExits
    BY <2>2 DEF EditorReady, EditorExits, TypeInv, TypeOK, Editor
  <2> QED
    BY <1>4, <2>1, <2>2 DEF World
<1>5. ASSUME NEW c \in Coordinators, Popen(c)
      PROVE  /\ editor[x] # None /\ editor[x].born = editor'[x].born
             /\ editor[x].owner = editor'[x].owner
  <2>1. PICK pid \in Pids :
          editor' = [editor EXCEPT ![pid] =
            [project |-> req[c].project, born |-> births + 1,
             launched |-> TRUE, owner |-> req[c].rights, remote |-> "booting"]]
    BY <1>5 DEF Popen
  <2>2. x # pid
    BY <1>1, <2>1 DEF TypeInv, TypeOK
  <2> QED
    BY <2>1, <2>2 DEF TypeInv, TypeOK
<1>6. ASSUME NEW c \in Coordinators, Works(c), ~Popen(c)
      PROVE  editor' = editor
  <2>1. CASE PreflightFails(c) \/ LeaseBusy(c) \/ FileError(c) \/ LaunchStep(c)
    BY <1>6, <2>1
       DEF PreflightFails, LeaseBusy, FileError, LaunchStep, LockProject,
           LaunchLockTransport, TakeTransport, Ambiguous, LookFinds, Selected,
           LookFindsNone, PopenFails, AwaitFinds, AwaitTimesOut, Verified,
           VerifyFails, SaveSession, Ends
  <2>2. CASE SessionStep(c) \/ CloseStep(c)
    BY <2>2
       DEF SessionStep, CloseStep, SessionMissing, LookupSession, LockSession,
           ReloadSession, SessionChanged, CheckClose, PostClose,
           PostCloseFails, ExitSeen, ExitTimesOut, ForgetSession, Ends
  <2>3. CASE RunStep(c) \/ RelaunchStep(c)
    BY <2>3
       DEF RunStep, RelaunchStep, CheckRun, SessionStale, LockChannel,
           TakeTransport, Executed, ExecuteFails, UpdateSession,
           RelaunchSelects, Selected, RelaunchFindsNone, LockProbe,
           ProbeReady, ProbeUnavailable, Probed, SeedSession, Ends
  <2>4. CASE ClientStep(c)
    BY <2>4
       DEF ClientStep, ClientVerifies, ClientGivesUp, ClientSends,
           ClientLosesResult, ClientReceives, DeadlineKills, ClientMoves
  <2> QED
    BY <1>6, <2>1, <2>2, <2>3, <2>4 DEF Works
<1>7. ASSUME NEW c \in Coordinators, Invoke(c) \/ ClientCrashes(c) \/ Crash(c)
      PROVE  editor' = editor
  BY <1>7 DEF Invoke, ClientCrashes, ClientMoves, Crash
<1>8. CASE UNCHANGED vars
  BY <1>3, <1>8 DEF vars
<1> QED
  BY <1>3, <1>4, <1>5, <1>6, <1>7, <1>8 DEF Next

(* The only ways to the label forget, and the steps that stay there.       *)
LEMMA ForgetStep ==
  ASSUME TypeInv, [Next]_vars, NEW c \in Coordinators, pc'[c] = "forget"
  PROVE  /\ current'[c] = current[c] /\ req'[c] = req[c]
         /\ \/ pc[c] = "forget"
            \/ /\ pc[c] \in ClosePlaces /\ ~SameProcess(c, current[c])
               /\ editor' = editor
<1> USE DEF TypeInv, TypeOK
<1>1. CASE World \/ UNCHANGED vars
  BY <1>1 DEF World, UserOpens, EditorReady, EditorExits, vars
<1>2. ASSUME NEW d \in Coordinators, Works(d)
      PROVE  /\ current'[c] = current[c] /\ req'[c] = req[c]
             /\ \/ pc[c] = "forget"
                \/ /\ pc[c] \in ClosePlaces /\ ~SameProcess(c, current[c])
                   /\ editor' = editor
  <2>1. CASE PreflightFails(d) \/ LeaseBusy(d) \/ FileError(d) \/ LaunchStep(d)
    BY <2>1
       DEF PreflightFails, LeaseBusy, FileError, LaunchStep, LockProject,
           LaunchLockTransport, TakeTransport, Ambiguous, LookFinds, Selected,
           LookFindsNone, Popen, PopenFails, AwaitFinds, AwaitTimesOut, Verified,
           VerifyFails, SaveSession, Ends
  <2>2. CASE SessionStep(d)
    BY <2>2
       DEF SessionStep, SessionMissing, LookupSession, LockSession,
           ReloadSession, SessionChanged, Ends
  <2>3. CASE CloseStep(d)
    BY <2>3
       DEF CloseStep, CheckClose, PostClose, PostCloseFails, ExitSeen,
           ExitTimesOut, ForgetSession, Ends, ClosePlaces
  <2>4. CASE RunStep(d)
    BY <2>4
       DEF RunStep, CheckRun, SessionStale, LockChannel, TakeTransport,
           Executed, ExecuteFails, UpdateSession, Ends
  <2>5. CASE RelaunchStep(d)
    BY <2>5
       DEF RelaunchStep, TakeTransport, RelaunchSelects, Selected,
           RelaunchFindsNone, LockProbe, ProbeReady, ProbeUnavailable, Probed,
           SeedSession, Ends
  <2>6. CASE ClientStep(d)
    BY <2>6
       DEF ClientStep, ClientVerifies, ClientGivesUp, ClientSends,
           ClientLosesResult, ClientReceives, DeadlineKills, ClientMoves
  <2> QED
    BY <1>2, <2>1, <2>2, <2>3, <2>4, <2>5, <2>6 DEF Works
<1>3. ASSUME NEW d \in Coordinators, Invoke(d) \/ ClientCrashes(d) \/ Crash(d)
      PROVE  current'[c] = current[c] /\ req'[c] = req[c] /\ pc[c] = "forget"
  BY <1>3 DEF Invoke, FirstLabel, ClientCrashes, ClientMoves, Crash
<1> QED
  BY <1>1, <1>2, <1>3 DEF Next

(* The session file is removed, and the Editor reported closed, only when  *)
(* no process that the closing request may read is the one the session     *)
(* named.                                                                  *)
THEOREM ClosedIsGone == Spec => []ClosedMeansGone
<1>1. Init => ClosedMeansGone
  BY DEF Init, ClosedMeansGone
<1>2. ASSUME TypeInv, CloseInv, ClosedMeansGone, [Next]_vars
      PROVE  ClosedMeansGone'
  <2>1. SUFFICES ASSUME NEW c \in Coordinators, NEW x \in Pids, pc'[c] = "forget",
                        editor'[x] # None, editor'[x].born = current'[c].born,
                        editor'[x].owner \in MayRead[req'[c].rights]
                 PROVE  FALSE
    BY DEF ClosedMeansGone, CanRead
  <2>2. /\ current'[c] = current[c] /\ req'[c] = req[c]
        /\ \/ pc[c] = "forget"
           \/ /\ pc[c] \in ClosePlaces /\ ~SameProcess(c, current[c])
              /\ editor' = editor
    BY <1>2, <2>1, ForgetStep
  <2>3. /\ pc[c] \in ClosePlaces /\ current[c].born \in Nat
        /\ current[c].born <= births
    BY <1>2, <2>2, CurrentInHand DEF ClosePlaces, Session
  <2>4. /\ editor[x] # None /\ editor[x].born = current[c].born
        /\ editor[x].owner = editor'[x].owner
    BY <1>2, <2>1, <2>2, <2>3, NoResurrection
  <2>5. CanRead(c, editor[x])
    BY <2>1, <2>2, <2>4 DEF CanRead
  <2>6. SameProcess(c, current[c])
    BY <1>2, <2>3, <2>4, <2>5, BirthIdentifies
  <2> QED
    BY <1>2, <2>2, <2>4, <2>5, <2>6 DEF ClosedMeansGone
<1> QED
  BY <1>1, <1>2, CloseAlways, PTL DEF Spec

-----------------------------------------------------------------------------
(* Session files.  Whatever is written to a file is a session of a project *)
(* that may be given that file, because a request writes what it found for *)
(* its own project, or what it read from the same file.                    *)

FilesInv ==
  /\ \A c \in Coordinators :
       /\ IF pc[c] = "idle" THEN identity[c] = None /\ current[c] = None
          ELSE req[c].file \in SessionChoices[req[c].project]
       /\ identity[c] # None => identity[c].project = req[c].project
       /\ current[c] # None => req[c].file \in SessionChoices[current[c].project]
  /\ \A f \in Files : session[f] # None => f \in SessionChoices[session[f].project]

(* What a step inside a request of c may do to the locals and the files.   *)
LEMMA FilesFrame ==
  ASSUME TypeInv, FilesInv, NEW c \in Coordinators, req' = req, pc[c] # "idle",
         \A d \in Coordinators \ {c} :
           pc'[d] = pc[d] /\ identity'[d] = identity[d] /\ current'[d] = current[d],
         pc'[c] = "idle" => identity'[c] = None /\ current'[c] = None,
         \/ identity'[c] \in {None, identity[c]}
         \/ identity'[c].project = req[c].project,
         \/ current'[c] \in {None, current[c]}
         \/ req[c].file \in SessionChoices[current'[c].project],
         \A f \in Files : \/ session'[f] \in {None, session[f]}
                          \/ f \in SessionChoices[session'[f].project]
  PROVE  FilesInv'
  BY DEF FilesInv

(* The request ends, with or without a last word to its session file.      *)
LEMMA FilesFinish ==
  ASSUME TypeInv, FilesInv, NEW c \in Coordinators, NEW result, pc[c] # "idle",
         Finish(c, result),
         \A f \in Files : \/ session'[f] \in {None, session[f]}
                          \/ f \in SessionChoices[session'[f].project]
  PROVE  FilesInv'
<1>1. /\ pc'[c] = "idle" /\ identity'[c] = None /\ current'[c] = None
      /\ \A d \in Coordinators \ {c} :
           pc'[d] = pc[d] /\ identity'[d] = identity[d] /\ current'[d] = current[d]
  BY DEF TypeInv, TypeOK
<1> QED
  BY <1>1, FilesFrame

LEMMA FilesStops ==
  ASSUME TypeInv, FilesInv, NEW c \in Coordinators
  PROVE  \A from \in Labels \ {"idle"} : \A result : Ends(c, from, result) => FilesInv'
<1> SUFFICES ASSUME NEW from \in Labels \ {"idle"}, NEW result, Ends(c, from, result)
             PROVE  FilesInv'
  OBVIOUS
<1> QED
  BY FilesFinish DEF Ends

(* The request moves on and writes no file.                                *)
LEMMA FilesMoves ==
  ASSUME TypeInv, FilesInv, NEW c \in Coordinators, NEW to, pc[c] # "idle", to # "idle",
         Goto(c, to), UNCHANGED <<req, identity, current, session>>
  PROVE  FilesInv'
<1>1. pc'[c] = to /\ \A d \in Coordinators \ {c} : pc'[d] = pc[d]
  BY DEF TypeInv, TypeOK
<1> QED
  BY <1>1, FilesFrame

LEMMA FilesSelected ==
  ASSUME TypeInv, FilesInv, NEW c \in Coordinators, NEW from, NEW to,
         from # "idle", to # "idle", Selected(c, from, to)
  PROVE  FilesInv'
<1>1. PICK pid \in Pids : /\ FindProjectProcesses(c, req[c].project) = {pid}
                          /\ identity' = [identity EXCEPT ![c] = IdentityOf(pid)]
  BY DEF Selected
<1>2. editor[pid].project = req[c].project
  BY <1>1 DEF FindProjectProcesses, IsEditor
<1>3. /\ pc'[c] = to /\ identity'[c].project = req[c].project
      /\ \A d \in Coordinators \ {c} :
           pc'[d] = pc[d] /\ identity'[d] = identity[d]
  BY <1>1, <1>2 DEF Selected, IdentityOf, TypeInv, TypeOK
<1> QED
  BY <1>3, FilesFrame DEF Selected

(* A write to the session file of the request.                             *)
LEMMA FilesWritten ==
  ASSUME TypeInv, NEW c \in Coordinators, NEW s, WriteSession(c, s),
         s = None \/ req[c].file \in SessionChoices[s.project]
  PROVE  \A f \in Files : \/ session'[f] \in {None, session[f]}
                          \/ f \in SessionChoices[session'[f].project]
  BY DEF WriteSession, TypeInv, TypeOK, Request

(* What the request found or read is of a project with this session file.  *)
LEMMA FilesOfLocals ==
  ASSUME TypeInv, FilesInv, NEW c \in Coordinators
  PROVE  /\ pc[c] \in {"save", "saveAttached", "seed"} => \A hint \in BOOLEAN :
              req[c].file \in SessionChoices[SessionFor(identity[c], hint).project]
         /\ pc[c] \in RunPlaces \cup ClosePlaces =>
              /\ req[c].file \in SessionChoices[current[c].project]
              /\ [current[c] EXCEPT !.hint = TRUE].project = current[c].project
<1>1. None \notin Identity /\ None \notin Session
  BY ConstantsAssumption DEF ConstantsAssumption, Identity, Session
<1>2. ASSUME pc[c] \in {"save", "saveAttached", "seed"}, NEW hint \in BOOLEAN
      PROVE  req[c].file \in SessionChoices[SessionFor(identity[c], hint).project]
  <2>1. identity[c] \in Identity
    BY <1>2 DEF TypeInv, LocalsAreSet, ProbePlaces
  <2>2. identity[c].project = req[c].project
    BY <1>1, <2>1 DEF FilesInv
  <2>3. req[c].file \in SessionChoices[req[c].project]
    BY <1>2 DEF FilesInv
  <2> QED
    BY <2>2, <2>3 DEF SessionFor
<1>3. ASSUME pc[c] \in RunPlaces \cup ClosePlaces
      PROVE  /\ req[c].file \in SessionChoices[current[c].project]
             /\ [current[c] EXCEPT !.hint = TRUE].project = current[c].project
  <2>1. current[c] \in Session
    BY <1>3 DEF TypeInv, LocalsAreSet
  <2> QED
    BY <1>1, <2>1 DEF FilesInv, Session
<1> QED
  BY <1>2, <1>3

LEMMA FilesLaunch ==
  ASSUME TypeInv, FilesInv, NEW c \in Coordinators, LaunchStep(c)
  PROVE  FilesInv'
<1>1. CASE LockProject(c) \/ LaunchLockTransport(c) \/ LookFindsNone(c) \/ Popen(c)
  BY <1>1, FilesMoves
     DEF LockProject, LaunchLockTransport, TakeTransport, LookFindsNone, Popen
<1>2. CASE Verified(c)
  BY <1>2, FilesMoves DEF Verified
<1>3. CASE LookFinds(c) \/ AwaitFinds(c)
  BY <1>3, FilesSelected DEF LookFinds, AwaitFinds
<1>4. CASE Ambiguous(c) \/ PopenFails(c) \/ AwaitTimesOut(c) \/ VerifyFails(c)
  BY <1>4, FilesStops DEF Ambiguous, PopenFails, AwaitTimesOut, VerifyFails, Labels
<1>5. CASE SaveSession(c)
  <2>1. /\ pc[c] \in {"save", "saveAttached"} /\ Finish(c, "succeeded")
        /\ WriteSession(c, SessionFor(identity[c], TRUE))
    BY <1>5 DEF SaveSession
  <2>2. \A f \in Files : \/ session'[f] \in {None, session[f]}
                         \/ f \in SessionChoices[session'[f].project]
    BY <2>1, FilesOfLocals, FilesWritten
  <2> QED
    BY <2>1, <2>2, FilesFinish
<1> QED
  BY <1>1, <1>2, <1>3, <1>4, <1>5 DEF LaunchStep

LEMMA FilesSession ==
  ASSUME TypeInv, FilesInv, NEW c \in Coordinators, SessionStep(c)
  PROVE  FilesInv'
<1>1. CASE LookupSession(c) \/ LockSession(c)
  BY <1>1, FilesMoves DEF LookupSession, LockSession
<1>2. CASE SessionMissing(c) \/ SessionChanged(c)
  BY <1>2, FilesStops DEF SessionMissing, SessionChanged, Labels
<1>3. CASE ReloadSession(c)
  <2>1. session[req[c].file] # None /\ req[c].file \in Files
    BY <1>3 DEF ReloadSession, SessionIsFor, TypeInv, TypeOK, Request
  <2>2. req[c].file \in SessionChoices[session[req[c].file].project]
    BY <2>1 DEF FilesInv
  <2>3. /\ pc[c] = "reload" /\ pc'[c] # "idle" /\ current'[c] = session[req[c].file]
        /\ \A d \in Coordinators \ {c} : pc'[d] = pc[d] /\ current'[d] = current[d]
        /\ UNCHANGED <<req, identity, session>>
    BY <1>3 DEF ReloadSession, TypeInv, TypeOK
  <2> QED
    BY <2>2, <2>3, FilesFrame
<1> QED
  BY <1>1, <1>2, <1>3 DEF SessionStep

LEMMA FilesRunAndClose ==
  ASSUME TypeInv, FilesInv, NEW c \in Coordinators, RunStep(c) \/ CloseStep(c)
  PROVE  FilesInv'
<1>1. CASE CheckRun(c) \/ LockChannel(c) \/ Executed(c)
  BY <1>1, FilesMoves DEF CheckRun, LockChannel, TakeTransport, Executed
<1>2. CASE CheckClose(c) \/ PostClose(c) \/ ExitSeen(c)
  BY <1>2, FilesMoves DEF CheckClose, PostClose, ExitSeen
<1>3. CASE SessionStale(c) \/ ExecuteFails(c) \/ PostCloseFails(c) \/ ExitTimesOut(c)
  BY <1>3, FilesStops DEF SessionStale, ExecuteFails, PostCloseFails, ExitTimesOut, Labels
<1>4. CASE UpdateSession(c)
  <2>1. /\ pc[c] = "update" /\ pc[c] \in RunPlaces
        /\ WriteSession(c, [current[c] EXCEPT !.hint = TRUE])
    BY <1>4 DEF UpdateSession, RunPlaces
  <2>2. \A f \in Files : \/ session'[f] \in {None, session[f]}
                         \/ f \in SessionChoices[session'[f].project]
    BY <2>1, FilesOfLocals, FilesWritten
  <2>3. PICK result : Finish(c, result)
    BY <1>4 DEF UpdateSession
  <2> QED
    BY <2>1, <2>2, <2>3, FilesFinish
<1>5. CASE ForgetSession(c)
  <2>1. pc[c] = "forget" /\ WriteSession(c, None)
    BY <1>5 DEF ForgetSession
  <2>2. \A f \in Files : \/ session'[f] \in {None, session[f]}
                         \/ f \in SessionChoices[session'[f].project]
    BY <2>1, FilesWritten
  <2>3. CASE Finish(c, "succeeded")
    BY <2>1, <2>2, <2>3, FilesFinish
  <2>4. CASE Goto(c, "lockProject") /\ current' = [current EXCEPT ![c] = None]
             /\ UNCHANGED <<req, identity>>
    <3>1. /\ pc'[c] = "lockProject" /\ current'[c] = None
          /\ \A d \in Coordinators \ {c} : pc'[d] = pc[d] /\ current'[d] = current[d]
      BY <2>4 DEF TypeInv, TypeOK
    <3> QED
      BY <2>1, <2>2, <2>4, <3>1, FilesFrame
  <2> QED
    BY <1>5, <2>3, <2>4 DEF ForgetSession
<1> QED
  BY <1>1, <1>2, <1>3, <1>4, <1>5 DEF RunStep, CloseStep

LEMMA FilesRelaunch ==
  ASSUME TypeInv, FilesInv, NEW c \in Coordinators, RelaunchStep(c)
  PROVE  FilesInv'
<1>1. CASE RelaunchSelects(c)
  BY <1>1, FilesSelected DEF RelaunchSelects
<1>2. CASE RelaunchFindsNone(c) \/ LockProbe(c)
  BY <1>2, FilesMoves DEF RelaunchFindsNone, LockProbe, TakeTransport
<1>3. ASSUME Ends(c, "probe", "restart_required")
      PROVE  FilesInv'
  BY <1>3, FilesStops DEF Labels
<1>4. ASSUME NEW to \in {"saveAttached", "seed"}, Probed(c, to)
      PROVE  FilesInv'
  BY <1>4, FilesMoves DEF Probed
<1>5. CASE SeedSession(c)
  <2>1. /\ pc[c] = "seed" /\ WriteSession(c, SessionFor(identity[c], FALSE))
        /\ Goto(c, "lookup") /\ UNCHANGED <<req, identity, current>>
    BY <1>5 DEF SeedSession
  <2>2. \A f \in Files : \/ session'[f] \in {None, session[f]}
                         \/ f \in SessionChoices[session'[f].project]
    BY <2>1, FilesOfLocals, FilesWritten
  <2>3. pc'[c] = "lookup" /\ \A d \in Coordinators \ {c} : pc'[d] = pc[d]
    BY <2>1 DEF TypeInv, TypeOK
  <2> QED
    BY <2>1, <2>2, <2>3, FilesFrame
<1> QED
  BY <1>1, <1>2, <1>3, <1>4, <1>5 DEF RelaunchStep, ProbeReady, ProbeUnavailable

LEMMA FilesStep == TypeInv /\ FilesInv /\ [Next]_vars => FilesInv'
<1> SUFFICES ASSUME TypeInv, FilesInv, [Next]_vars
             PROVE  FilesInv'
  OBVIOUS
<1>1. CASE World \/ UNCHANGED vars
  BY <1>1 DEF World, UserOpens, EditorReady, EditorExits, vars, FilesInv
<1>2. ASSUME NEW c \in Coordinators, ClientStep(c) \/ ClientCrashes(c)
      PROVE  FilesInv'
  BY <1>2 DEF ClientStep, ClientVerifies, ClientGivesUp, ClientSends,
              ClientLosesResult, ClientReceives, DeadlineKills, ClientCrashes,
              ClientMoves, FilesInv
<1>3. ASSUME NEW c \in Coordinators, LeaseBusy(c)
      PROVE  FilesInv'
  <2>1. pc[c] # "idle"
    BY <1>3 DEF LeaseBusy, LockWanted
  <2>2. pc[c] \in Labels \ {"idle"}
    BY <2>1 DEF TypeInv, TypeOK
  <2> QED
    BY <1>3, <2>2, FilesStops DEF LeaseBusy
<1>4. ASSUME NEW c \in Coordinators, PreflightFails(c) \/ FileError(c)
      PROVE  FilesInv'
  BY <1>4, FilesStops DEF PreflightFails, FileError, Labels
<1>5. ASSUME NEW c \in Coordinators, Works(c)
      PROVE  FilesInv'
  BY <1>2, <1>3, <1>4, <1>5, FilesLaunch, FilesSession, FilesRunAndClose, FilesRelaunch
     DEF Works
<1>6. ASSUME NEW c \in Coordinators, Invoke(c)
      PROVE  FilesInv'
  <2>1. PICK r \in Request : /\ r.file \in SessionChoices[r.project]
                             /\ req' = [req EXCEPT ![c] = r]
                             /\ Goto(c, FirstLabel(r.command))
    BY <1>6 DEF Invoke
  <2>2. FirstLabel(r.command) # "idle"
    BY DEF FirstLabel
  <2>3. /\ pc[c] = "idle" /\ pc'[c] # "idle" /\ req'[c] = r
        /\ \A d \in Coordinators \ {c} : pc'[d] = pc[d] /\ req'[d] = req[d]
        /\ UNCHANGED <<identity, current, session>>
    BY <1>6, <2>1, <2>2 DEF Invoke, TypeInv, TypeOK
  <2> QED
    BY <2>1, <2>3 DEF FilesInv
<1>7. ASSUME NEW c \in Coordinators, Crash(c)
      PROVE  FilesInv'
  BY <1>7, FilesMoves DEF Crash
<1> QED
  BY <1>1, <1>2, <1>5, <1>6, <1>7 DEF Next

LEMMA FilesAlways == Spec => []FilesInv
<1>1. Init => FilesInv
  BY DEF Init, FilesInv
<1> QED
  BY <1>1, AlwaysTyped, FilesStep, PTL DEF Spec

(* A session file changes by the last step of a request, or by a request   *)
(* that then starts over, and it is the file the request names.            *)
LEMMA SessionWriter ==
  ASSUME TypeInv, [Next]_vars, session' # session
  PROVE  \E d \in Coordinators :
           /\ pc[d] \in {"save", "saveAttached", "seed", "update", "forget"}
           /\ pc'[d] \in {"idle", "lookup", "lockProject"}
           /\ \A f \in Files : session'[f] # session[f] => f = req[d].file
<1>1. ~World /\ ~UNCHANGED vars
  BY DEF World, UserOpens, EditorReady, EditorExits, vars
<1>2. ASSUME NEW c \in Coordinators, Invoke(c) \/ ClientCrashes(c) \/ Crash(c)
      PROVE  FALSE
  BY <1>2 DEF Invoke, ClientCrashes, ClientMoves, Crash
<1>3. PICK d \in Coordinators : Works(d)
  BY <1>1, <1>2 DEF Next
<1>4. SaveSession(d) \/ UpdateSession(d) \/ ForgetSession(d) \/ SeedSession(d)
  <2>1. ~PreflightFails(d) /\ ~LeaseBusy(d) /\ ~FileError(d) /\ ~ClientStep(d)
    BY DEF PreflightFails, LeaseBusy, FileError, Ends, ClientStep, ClientVerifies,
           ClientGivesUp, ClientSends, ClientLosesResult, ClientReceives,
           DeadlineKills, ClientMoves
  <2>2. LaunchStep(d) => SaveSession(d)
    BY DEF LaunchStep, LockProject, LaunchLockTransport, TakeTransport, Ambiguous,
           LookFinds, Selected, LookFindsNone, Popen, PopenFails, AwaitFinds,
           AwaitTimesOut, Verified, VerifyFails, Ends
  <2>3. ~SessionStep(d)
    BY DEF SessionStep, SessionMissing, LookupSession, LockSession, ReloadSession,
           SessionChanged, Ends
  <2>4. RunStep(d) \/ CloseStep(d) => UpdateSession(d) \/ ForgetSession(d)
    BY DEF RunStep, CheckRun, SessionStale, LockChannel, TakeTransport, Executed,
           ExecuteFails, CloseStep, CheckClose, PostClose, PostCloseFails, ExitSeen,
           ExitTimesOut, Ends
  <2>5. RelaunchStep(d) => SeedSession(d)
    BY DEF RelaunchStep, TakeTransport, RelaunchSelects, Selected, RelaunchFindsNone,
           LockProbe, ProbeReady, ProbeUnavailable, Probed, Ends
  <2> QED
    BY <1>3, <2>1, <2>2, <2>3, <2>4, <2>5 DEF Works
<1>5. \A f \in Files : session'[f] # session[f] => f = req[d].file
  BY <1>4 DEF SaveSession, UpdateSession, ForgetSession, SeedSession, WriteSession,
              TypeInv, TypeOK
<1>6. /\ pc[d] \in {"save", "saveAttached", "seed", "update", "forget"}
      /\ pc'[d] \in {"idle", "lookup", "lockProject"}
  BY <1>4 DEF SaveSession, UpdateSession, ForgetSession, SeedSession, TypeInv, TypeOK
<1> QED
  BY <1>5, <1>6

(* The writers with a lease, and the readers: each holds the lease of a    *)
(* project that may be given its session file.                             *)
LEMMA FileOfLeasedProject ==
  ASSUME TypeInv, LaunchInv, CloseInv, FilesInv, NEW c \in Coordinators,
         pc[c] \in RunPlaces \cup ClosePlaces \cup {"save"}
  PROVE  /\ target[c] \in Projects /\ projectLock[target[c]] = c
         /\ req[c].file \in SessionChoices[target[c]]
<1>1. target[c] \in Projects /\ projectLock[target[c]] = c
  BY DEF LaunchInv, ProjectHeld, LeasePlaces, LaunchPlaces, TypeInv, TypeOK
<1>2. CASE pc[c] \in RunPlaces \cup ClosePlaces
  BY <1>1, <1>2, FilesOfLocals DEF CloseInv, CurrentIsLocked
<1>3. CASE pc[c] = "save"
  BY <1>1, <1>3 DEF LaunchInv, LaunchTargetsRequest, LaunchPlaces, FilesInv
<1> QED
  BY <1>1, <1>2, <1>3

DisjointFiles ==
  \A p, q \in Projects : p # q => SessionChoices[p] \cap SessionChoices[q] = {}

(* With session files of its own for every project, the file a request     *)
(* works on is neither replaced nor removed under it, but by the two writes*)
(* of relaunch_remote that take no lease.                                  *)
THEOREM SessionStaysUnderLease ==
  ASSUME DisjointFiles
  PROVE  Spec => LockedSessionStable
<1>1. ASSUME TypeInv, LaunchInv, CloseInv, FilesInv, [Next]_vars,
             NEW c \in Coordinators, HoldsSession(c), HoldsSession(c)',
             session'[req[c].file] # session[req[c].file]
      PROVE  \E d \in Coordinators : d # c /\ pc[d] \in {"saveAttached", "seed"}
  <2>1. PICK d \in Coordinators :
          /\ pc[d] \in {"save", "saveAttached", "seed", "update", "forget"}
          /\ pc'[d] \in {"idle", "lookup", "lockProject"}
          /\ \A f \in Files : session'[f] # session[f] => f = req[d].file
    BY <1>1, SessionWriter
  <2>2. d # c
    BY <1>1, <2>1 DEF HoldsSession
  <2>3. req[c].file \in Files /\ req[c].file = req[d].file
    BY <1>1, <2>1 DEF TypeInv, TypeOK, Request
  <2>4. ASSUME pc[d] \notin {"saveAttached", "seed"}
        PROVE  FALSE
    <3>1. /\ pc[c] \in RunPlaces \cup ClosePlaces
          /\ pc[d] \in RunPlaces \cup ClosePlaces \cup {"save"}
      BY <1>1, <2>1, <2>4 DEF HoldsSession, RunPlaces, ClosePlaces
    <3>2. target[c] = target[d]
      BY <1>1, <2>3, <3>1, FileOfLeasedProject, DisjointFiles DEF DisjointFiles
    <3> QED
      BY <1>1, <2>2, <3>1, <3>2, FileOfLeasedProject
  <2> QED
    BY <2>1, <2>2, <2>4
<1>2. TypeInv /\ LaunchInv /\ CloseInv /\ FilesInv /\ [Next]_vars =>
        [\A c \in Coordinators :
           /\ HoldsSession(c) /\ HoldsSession(c)'
           /\ session'[req[c].file] # session[req[c].file]
           => \E d \in Coordinators : d # c /\ pc[d] \in {"saveAttached", "seed"}]_vars
  BY <1>1
<1> QED
  BY <1>2, CloseAlways, FilesAlways, PTL DEF Spec, LockedSessionStable
=============================================================================
