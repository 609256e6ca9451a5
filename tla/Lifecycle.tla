----------------------------- MODULE Lifecycle -----------------------------
(***************************************************************************)
(* The Python lifecycle coordinator (scripts/main_processor.py): several   *)
(* command-line processes that attach to, launch, script and close Unreal  *)
(* Editors, sharing nothing but session files, two kinds of file lease and *)
(* the operating system's process table.                                   *)
(*                                                                         *)
(* A program counter names the place in the Python code a coordinator has  *)
(* reached; an action is the code up to the next point at which another    *)
(* process can interfere (a lease, a process inspection, a file, a child). *)
(* The native client is a child process of its own: it outlives a          *)
(* coordinator that dies.  Its inside is the subject of RemoteClient.      *)
(***************************************************************************)
EXTENDS Naturals, FiniteSets

CONSTANTS
  Coordinators,    \* slots for command-line processes
  Projects,        \* normalized .uproject paths
  Directories,     \* directories
  DirOf,           \* DirOf[p]: the directory of a .uproject
  Files,           \* session file paths
  SessionChoices,  \* SessionChoices[p]: session files a request for p may name
  Pids,            \* operating system process ids
  Commands,        \* the subcommands requests may use
  Rights,          \* tokens a process may run with: plain, elevated, ...
  MayRead,         \* MayRead[r]: whose command lines psutil reads with r
  Requesters,      \* the rights requests run with
  MaxRequests,     \* bound: requests made
  MaxBirths,       \* bound: Editor processes ever started
  MaxCrashes,      \* bound: coordinators killed while working
  NoOne,           \* a free lease
  None             \* no session, no identity, no process

ASSUME ConstantsAssumption ==
  /\ Projects # {} /\ Files # {}
  /\ DirOf \in [Projects -> Directories]
  /\ SessionChoices \in [Projects -> SUBSET Files]
  /\ Commands \subseteq {"ensure", "run", "close", "relaunch"}
  /\ MayRead \in [Rights -> SUBSET Rights]
  /\ \A r \in Rights : r \in MayRead[r]
  /\ Requesters \subseteq Rights /\ Requesters # {}
  /\ MaxRequests \in Nat /\ MaxBirths \in Nat /\ MaxCrashes \in Nat
  /\ NoOne \notin Coordinators
  /\ None \notin [project : Projects, pid : Pids, born : Nat]
  /\ None \notin [project : Projects, pid : Pids, born : Nat, hint : BOOLEAN]
  /\ None \notin [project : Projects, born : Nat, launched : BOOLEAN,
                  owner : Rights, remote : {"off", "booting", "ready"}]

VARIABLES
  pc,           \* where each coordinator is
  req,          \* its command line
  target,       \* the project whose lifecycle lease it asks for
  identity,     \* the local `identity` of launch_session and relaunch_remote
  current,      \* the session dict _locked_session handed out
  outcome,      \* the last reported result
  did,          \* effects of the request so far (history)
  client,       \* its native client child
  session,      \* contents of the session files
  editor,       \* the process table: the Editor at each pid
  projectLock, transportLock,
  requests, births, crashes   \* counters that bound the model

coordinatorVars == <<pc, req, target, identity, current, outcome, did>>
lockVars == <<projectLock, transportLock>>
counters == <<requests, births, crashes>>
vars == <<coordinatorVars, client, session, editor, lockVars, counters>>

Identity == [project : Projects, pid : Pids, born : Nat]
Session == [project : Projects, pid : Pids, born : Nat, hint : BOOLEAN]
Editor == [project : Projects, born : Nat, launched : BOOLEAN,
           owner : Rights, remote : {"off", "booting", "ready"}]
Request == [command : {"ensure", "run", "close", "relaunch"},
            project : Projects, file : Files, confirmed : BOOLEAN,
            rights : Requesters]

Labels == {"idle", "dead",
           "lockProject", "lockTransport", "look", "popen", "await",
           "verify", "verifyLaunched", "save",
           "lookup", "lockSession", "reload",
           "checkRun", "lockChannel", "execute", "update",
           "checkClose", "postClose", "awaitExit", "forget",
           "select", "lockProbe", "probe", "saveAttached", "seed"}
(* "busy" is the needs_user of _required_lease, "script_failed" a "failed" *)
(* that carries the script's own output.                                   *)
Outcomes == {"none", "succeeded", "script_failed", "failed",
             "restart_required", "needs_user", "busy", "outcome_unknown"}
Phases == {"none", "probing", "bound", "sent",
           "ok", "scriptFailed", "unknown", "unverified", "crashed"}

-----------------------------------------------------------------------------
(* Inspecting processes.  create_time is the ordinal of the birth, so two  *)
(* Editors never share one (the code's tolerance of one second is not      *)
(* modelled: an Editor takes longer than that to be restarted).            *)

(* AccessDenied depends on who looks: a plain process does not read the    *)
(* command line of an elevated one, and takes its Editor for none.         *)
CanRead(c, e) == e.owner \in MayRead[req[c].rights]

IsEditor(c, e, p) == e # None /\ e.project = p /\ CanRead(c, e)

FindProjectProcesses(c, p) == {pid \in Pids : IsEditor(c, editor[pid], p)}

IdentityOf(pid) ==
  [project |-> editor[pid].project, pid |-> pid, born |-> editor[pid].born]

(* Mutant: the session is stored without the hint field.                   *)
MutSessionFor(id, hint) == id

SessionFor(id, hint) ==
  [project |-> id.project, pid |-> id.pid, born |-> id.born, hint |-> hint]

SameProcess(c, s) ==
  /\ IsEditor(c, editor[s.pid], s.project)
  /\ editor[s.pid].born = s.born

(* Mutant: an Editor of the right directory is taken, whatever its pid.    *)
MutProbeMatches(id, pid) ==
  /\ editor[pid] # None /\ editor[pid].remote = "ready"
  /\ DirOf[editor[pid].project] = DirOf[id.project]

(* The in-editor probe compares the process id and the project directory,  *)
(* not the .uproject and not the time of creation.                         *)
ProbeMatches(id, pid) ==
  /\ editor[pid] # None /\ editor[pid].remote = "ready"
  /\ pid = id.pid
  /\ DirOf[editor[pid].project] = DirOf[id.project]

Alive(born) == \E pid \in Pids : editor[pid] # None /\ editor[pid].born = born

-----------------------------------------------------------------------------
NoClient == [phase |-> "none", link |-> 0]

Init ==
  /\ pc = [c \in Coordinators |-> "idle"]
  /\ req = [c \in Coordinators |-> CHOOSE r \in Request : TRUE]
  /\ target = [c \in Coordinators |-> CHOOSE p \in Projects : TRUE]
  /\ identity = [c \in Coordinators |-> None]
  /\ current = [c \in Coordinators |-> None]
  /\ outcome = [c \in Coordinators |-> "none"]
  /\ did = [c \in Coordinators |-> {}]
  /\ client = [c \in Coordinators |-> NoClient]
  /\ session = [f \in Files |-> None]
  /\ editor = [pid \in Pids |-> None]
  /\ projectLock = [p \in Projects |-> NoOne]
  /\ transportLock = NoOne
  /\ requests = 0 /\ births = 0 /\ crashes = 0

Goto(c, label) == pc' = [pc EXCEPT ![c] = label]

FreeProject(c) ==
  projectLock' = [p \in Projects |->
                    IF projectLock[p] = c THEN NoOne ELSE projectLock[p]]
FreeTransport(c) ==
  transportLock' = IF transportLock = c THEN NoOne ELSE transportLock

(* Mutant: the lifecycle lease survives the request.                       *)
MutFinish(c, result) ==
  /\ Goto(c, "idle")
  /\ outcome' = [outcome EXCEPT ![c] = result]
  /\ FreeTransport(c)
  /\ client' = [client EXCEPT ![c] = NoClient]
  /\ identity' = [identity EXCEPT ![c] = None]
  /\ current' = [current EXCEPT ![c] = None]
  /\ UNCHANGED <<req, target, did, projectLock>>

(* Returning or raising: main reports the result, every lease held is left *)
(* by its context manager, and the child is no more.  The locals go with   *)
(* the process.                                                            *)
Finish(c, result) ==
  /\ Goto(c, "idle")
  /\ outcome' = [outcome EXCEPT ![c] = result]
  /\ FreeProject(c) /\ FreeTransport(c)
  /\ client' = [client EXCEPT ![c] = NoClient]
  /\ identity' = [identity EXCEPT ![c] = None]
  /\ current' = [current EXCEPT ![c] = None]
  /\ UNCHANGED <<req, target, did>>

(* A step inside a request that only moves the program counter.            *)
Step(c, from, to) ==
  /\ pc[c] = from
  /\ Goto(c, to)
  /\ UNCHANGED <<req, target, outcome, did, session, counters>>

Ends(c, from, result) ==
  /\ pc[c] = from
  /\ Finish(c, result)
  /\ UNCHANGED <<session, editor, counters>>

(* Mutant: ensure goes to work without its two leases.                     *)
MutFirstLabel(command) ==
  CASE command = "ensure" -> "look"
    [] command = "relaunch" -> "select"
    [] OTHER -> "lookup"

FirstLabel(command) ==
  CASE command = "ensure" -> "lockProject"
    [] command = "relaunch" -> "select"
    [] OTHER -> "lookup"

(* main parses the command line and calls the operation.                   *)
Invoke(c) ==
  /\ pc[c] = "idle" /\ requests < MaxRequests
  /\ \E r \in Request :
       /\ r.command \in Commands /\ r.file \in SessionChoices[r.project]
       /\ r.confirmed => r.command = "relaunch"
       /\ req' = [req EXCEPT ![c] = r]
       /\ Goto(c, FirstLabel(r.command))
  /\ outcome' = [outcome EXCEPT ![c] = "none"]
  /\ did' = [did EXCEPT ![c] = {}]
  /\ requests' = requests + 1
  /\ UNCHANGED <<target, identity, current, client, session, editor, lockVars,
                 births, crashes>>

(* A preflight check, the engine lookup or the script preparation raises.  *)
(* launch_session repeats its preflight when relaunch_remote calls it.     *)
PreflightFails(c) ==
  \E from \in {"lockProject", "select", "lookup"} : Ends(c, from, "failed")

-----------------------------------------------------------------------------
(* Leases.  ResourceLease polls until its deadline, so a request is turned *)
(* away only when its last attempt found the lease taken (module Lease).   *)

LockWanted(c) ==
  CASE pc[c] = "lockProject" -> projectLock[req[c].project]
    [] pc[c] = "lockSession" -> projectLock[target[c]]
    [] pc[c] \in {"lockTransport", "lockChannel", "lockProbe"} -> transportLock
    [] OTHER -> NoOne

LeaseBusy(c) ==
  /\ LockWanted(c) # NoOne
  /\ Ends(c, pc[c], "busy")

LockProject(c) ==
  /\ pc[c] = "lockProject" /\ LockWanted(c) = NoOne
  /\ Goto(c, "lockTransport")
  /\ target' = [target EXCEPT ![c] = req[c].project]
  /\ projectLock' = [projectLock EXCEPT ![req[c].project] = c]
  /\ UNCHANGED <<req, identity, current, outcome, did, client, session, editor,
                 transportLock, counters>>

(* Mutant: the transport lease is taken from whoever holds it.             *)
MutTakeTransport(c, from, to) ==
  /\ Step(c, from, to)
  /\ transportLock' = c
  /\ UNCHANGED <<identity, current, editor, projectLock>>

TakeTransport(c, from, to) ==
  /\ Step(c, from, to)
  /\ LockWanted(c) = NoOne
  /\ transportLock' = c
  /\ UNCHANGED <<identity, current, editor, projectLock>>

StartClient(c) == client' = [client EXCEPT ![c] = [phase |-> "probing", link |-> 0]]

-----------------------------------------------------------------------------
(* launch_session: ensure, and the second half of relaunch-remote.         *)

LaunchLockTransport(c) ==
  /\ TakeTransport(c, "lockTransport", "look")
  /\ UNCHANGED client

(* _select_exact_process: more than one Editor of the project needs the    *)
(* user.                                                                   *)
Ambiguous(c) ==
  \E from \in {"look", "await", "select"} :
    /\ Cardinality(FindProjectProcesses(c, req[c].project)) > 1
    /\ Ends(c, from, "needs_user")

Selected(c, from, to) ==
  /\ Step(c, from, to)
  /\ \E pid \in Pids :
       /\ FindProjectProcesses(c, req[c].project) = {pid}
       /\ identity' = [identity EXCEPT ![c] = IdentityOf(pid)]
  /\ UNCHANGED <<current, editor, lockVars>>

LookFinds(c) == Selected(c, "look", "verify") /\ StartClient(c)

LookFindsNone(c) ==
  /\ Step(c, "look", "popen")
  /\ FindProjectProcesses(c, req[c].project) = {}
  /\ UNCHANGED <<identity, current, client, editor, lockVars>>

(* subprocess.Popen with process-local Remote flags.                       *)
Popen(c) ==
  /\ pc[c] = "popen" /\ births < MaxBirths
  /\ Goto(c, "await")
  /\ \E pid \in Pids :
       /\ editor[pid] = None
       /\ editor' = [editor EXCEPT ![pid] =
            [project |-> req[c].project, born |-> births + 1,
             launched |-> TRUE, owner |-> req[c].rights, remote |-> "booting"]]
  /\ births' = births + 1
  /\ did' = [did EXCEPT ![c] = @ \cup {"launch"}]
  /\ UNCHANGED <<req, target, identity, current, outcome, client, session,
                 lockVars, requests, crashes>>

PopenFails(c) == Ends(c, "popen", "failed")

(* _wait_for_project_process; its last look and its deadline are one step. *)
AwaitFinds(c) == Selected(c, "await", "verifyLaunched") /\ StartClient(c)

AwaitTimesOut(c) ==
  /\ FindProjectProcesses(c, req[c].project) = {}
  /\ Ends(c, "await", "failed")

(* _connect_verified returned a node id.                                   *)
Verified(c) ==
  /\ client[c].phase = "bound"
  /\ \/ Step(c, "verify", "save") \/ Step(c, "verifyLaunched", "save")
  /\ client' = [client EXCEPT ![c] = NoClient]
  /\ UNCHANGED <<identity, current, editor, lockVars>>

(* Mutant: an Editor that was just launched is reported as one to restart. *)
MutVerifyFails(c) ==
  /\ client[c].phase \in {"unverified", "crashed"}
  /\ \E from \in {"verify", "verifyLaunched", "probe"} :
       Ends(c, from, "restart_required")

(* RemoteUnavailable: an attached Editor must be restarted by the user, a  *)
(* launched one is left open; any other transport error is a failure.      *)
VerifyFails(c) ==
  \/ client[c].phase = "unverified" /\ Ends(c, "verify", "restart_required")
  \/ client[c].phase = "unverified" /\ Ends(c, "verifyLaunched", "failed")
  \/ /\ client[c].phase = "crashed"
     /\ \E from \in {"verify", "verifyLaunched", "probe"} : Ends(c, from, "failed")

WriteSession(c, s) == session' = [session EXCEPT ![req[c].file] = s]

SaveSession(c) ==
  /\ pc[c] \in {"save", "saveAttached"}
  /\ WriteSession(c, SessionFor(identity[c], TRUE))
  /\ Finish(c, "succeeded")
  /\ UNCHANGED <<editor, counters>>

(* Writing or removing the session file raises OSError.                    *)
FileError(c) ==
  \E from \in {"save", "saveAttached", "seed", "update", "forget"} :
    Ends(c, from, "failed")

-----------------------------------------------------------------------------
(* _locked_session: run_script_steps, close_session and the first half of  *)
(* relaunch_remote.                                                        *)

SessionMissing(c) ==
  /\ session[req[c].file] = None
  /\ Ends(c, "lookup", "failed")

LookupSession(c) ==
  /\ pc[c] = "lookup" /\ session[req[c].file] # None
  /\ Goto(c, "lockSession")
  /\ target' = [target EXCEPT ![c] = session[req[c].file].project]
  /\ UNCHANGED <<req, identity, current, outcome, did, client, session, editor,
                 lockVars, counters>>

(* Mutant: the session is worked on while another request holds the lease. *)
MutLockSession(c) ==
  /\ Step(c, "lockSession", "reload")
  /\ projectLock' = [projectLock EXCEPT ![target[c]] = c]
  /\ UNCHANGED <<identity, current, client, editor, transportLock>>

LockSession(c) ==
  /\ Step(c, "lockSession", "reload")
  /\ LockWanted(c) = NoOne
  /\ projectLock' = [projectLock EXCEPT ![target[c]] = c]
  /\ UNCHANGED <<identity, current, client, editor, transportLock>>

(* Mutant: the session is taken as it is once the lease is held.           *)
MutSessionIsFor(f, p) == session[f] # None
SessionIsFor(f, p) == session[f] # None /\ session[f].project = p

ReloadSession(c) ==
  /\ Step(c, "reload",
          IF req[c].command = "run" THEN "checkRun" ELSE "checkClose")
  /\ SessionIsFor(req[c].file, target[c])
  /\ current' = [current EXCEPT ![c] = session[req[c].file]]
  /\ UNCHANGED <<identity, client, editor, lockVars>>

SessionChanged(c) ==
  /\ ~SessionIsFor(req[c].file, target[c])
  /\ Ends(c, "reload", "needs_user")

-----------------------------------------------------------------------------
(* run_script_steps: inject and run-plan.  The steps of a plan are one     *)
(* script here; module RemoteClient tells them apart.                      *)

CheckRun(c) ==
  /\ Step(c, "checkRun", "lockChannel")
  /\ SameProcess(c, current[c])
  /\ UNCHANGED <<identity, current, client, editor, lockVars>>

SessionStale(c) ==
  /\ pc[c] = "checkRun"
  /\ ~SameProcess(c, current[c])
  /\ Ends(c, "checkRun", "failed")

LockChannel(c) == TakeTransport(c, "lockChannel", "execute") /\ StartClient(c)

(* Mutant: the lifecycle lease is left together with the transport lease.  *)
MutExecuted(c) ==
  /\ Step(c, "execute", "update")
  /\ client[c].phase \in {"ok", "scriptFailed"}
  /\ FreeTransport(c) /\ FreeProject(c)
  /\ UNCHANGED <<identity, current, client, editor>>

(* The child exited with results: the transport lease is left.             *)
Executed(c) ==
  /\ Step(c, "execute", "update")
  /\ client[c].phase \in {"ok", "scriptFailed"}
  /\ FreeTransport(c)
  /\ UNCHANGED <<identity, current, client, editor, projectLock>>

(* Mutant: a client that has not come to an end counts as one that failed. *)
MutExecuteFails(c) ==
  \/ client[c].phase = "unknown" /\ Ends(c, "execute", "outcome_unknown")
  \/ client[c].phase \in {"sent", "unverified", "crashed"}
     /\ Ends(c, "execute", "failed")

ExecuteFails(c) ==
  \/ client[c].phase = "unknown" /\ Ends(c, "execute", "outcome_unknown")
  \/ client[c].phase \in {"unverified", "crashed"} /\ Ends(c, "execute", "failed")

UpdateSession(c) ==
  /\ pc[c] = "update"
  /\ WriteSession(c, [current[c] EXCEPT !.hint = TRUE])
  /\ Finish(c, IF client[c].phase = "ok" THEN "succeeded" ELSE "script_failed")
  /\ UNCHANGED <<editor, counters>>

-----------------------------------------------------------------------------
(* close_session: close, and the first half of relaunch-remote.            *)

CheckClose(c) ==
  /\ Step(c, "checkClose",
          IF SameProcess(c, current[c]) THEN "postClose" ELSE "forget")
  /\ UNCHANGED <<identity, current, client, editor, lockVars>>

(* WM_CLOSE goes to the main window of whatever process has the pid now.   *)
PostClose(c) ==
  /\ pc[c] = "postClose"
  /\ editor[current[c].pid] # None
  /\ Goto(c, "awaitExit")
  /\ did' = [did EXCEPT ![c] = @ \cup {"close"}]
  /\ UNCHANGED <<req, target, identity, current, outcome, client, session,
                 editor, lockVars, counters>>

(* No visible main window, or PostMessageW refuses.                        *)
PostCloseFails(c) ==
  \E result \in {"needs_user", "failed"} : Ends(c, "postClose", result)

ExitSeen(c) ==
  /\ pc[c] = "awaitExit" /\ ~SameProcess(c, current[c])
  /\ Step(c, "awaitExit", "forget")
  /\ UNCHANGED <<identity, current, client, editor, lockVars>>

(* Mutants: a dialog that outlasts the deadline counts as closed, and a    *)
(* wait without a deadline.                                                *)
MutExitTimesOut(c) ==
  /\ Step(c, "awaitExit", "forget")
  /\ SameProcess(c, current[c])
  /\ UNCHANGED <<identity, current, client, editor, lockVars>>

MutExitForever(c) == FALSE

ExitTimesOut(c) ==
  /\ pc[c] = "awaitExit"
  /\ SameProcess(c, current[c])
  /\ Ends(c, "awaitExit", "needs_user")

ForgetSession(c) ==
  /\ pc[c] = "forget"
  /\ WriteSession(c, None)
  /\ \/ req[c].command = "close" /\ Finish(c, "succeeded")
     \/ /\ req[c].command = "relaunch"
        /\ Goto(c, "lockProject")
        /\ FreeProject(c)
        /\ current' = [current EXCEPT ![c] = None]
        /\ UNCHANGED <<req, target, identity, outcome, did, client,
                       transportLock>>
  /\ UNCHANGED <<editor, counters>>

-----------------------------------------------------------------------------
(* relaunch_remote.  The probe holds the transport lease only, and both    *)
(* writes of the session file hold no lease.                               *)

RelaunchSelects(c) == Selected(c, "select", "lockProbe") /\ UNCHANGED client

RelaunchFindsNone(c) ==
  /\ Step(c, "select", "lockProject")
  /\ FindProjectProcesses(c, req[c].project) = {}
  /\ UNCHANGED <<identity, current, client, editor, lockVars>>

LockProbe(c) == TakeTransport(c, "lockProbe", "probe") /\ StartClient(c)

Probed(c, to) ==
  /\ Step(c, "probe", to)
  /\ FreeTransport(c)
  /\ client' = [client EXCEPT ![c] = NoClient]
  /\ UNCHANGED <<identity, current, editor, projectLock>>

ProbeReady(c) == client[c].phase = "bound" /\ Probed(c, "saveAttached")

ProbeUnavailable(c) ==
  /\ client[c].phase = "unverified"
  /\ \/ req[c].confirmed /\ Probed(c, "seed")
     \/ ~req[c].confirmed /\ Ends(c, "probe", "restart_required")

SeedSession(c) ==
  /\ pc[c] = "seed"
  /\ WriteSession(c, SessionFor(identity[c], FALSE))
  /\ Goto(c, "lookup")
  /\ UNCHANGED <<req, target, identity, current, outcome, did, client, editor,
                 lockVars, counters>>

-----------------------------------------------------------------------------
(* The native client.  The parent collects it only in these labels.        *)

Verifying(c) == pc[c] \in {"verify", "verifyLaunched", "probe"}
IsRun(c) == req[c].command = "run"
Expected(c) == IF IsRun(c) THEN current[c] ELSE identity[c]

ClientMoves(c, from, to) ==
  /\ client[c].phase = from
  /\ client' = [client EXCEPT ![c].phase = to]
  /\ UNCHANGED <<pc, req, target, identity, current, outcome, session, editor,
                 lockVars>>

ClientVerifies(c) ==
  /\ client[c].phase = "probing"
  /\ \E pid \in Pids :
       /\ ProbeMatches(Expected(c), pid)
       /\ client' = [client EXCEPT ![c] =
                       [phase |-> "bound", link |-> editor[pid].born]]
  /\ UNCHANGED <<coordinatorVars, session, editor, lockVars, counters>>

(* No pong, no callback, a failed probe: datagrams may always be lost.  A  *)
(* stream that cannot be set up for its first command counts as well.  For *)
(* a later one, or when the temporary files cannot be removed, the results *)
(* so far are lost and no answer is missing.                               *)
ClientGivesUp(c) ==
  /\ \/ ClientMoves(c, "probing", "unverified")
     \/ IsRun(c) /\ ClientMoves(c, "bound", "unverified")
     \/ IsRun(c) /\ ClientMoves(c, "sent", "crashed")
  /\ UNCHANGED <<did, counters>>

ClientSends(c) ==
  /\ IsRun(c) /\ Alive(client[c].link)
  /\ ClientMoves(c, "bound", "sent")
  /\ did' = [did EXCEPT ![c] = @ \cup {"script"}]
  /\ UNCHANGED counters

(* The connection broke, or no trustworthy result came in time.            *)
ClientLosesResult(c) ==
  /\ IsRun(c)
  /\ \E from \in {"bound", "sent"} : ClientMoves(c, from, "unknown")
  /\ UNCHANGED <<did, counters>>

ClientReceives(c) ==
  /\ Alive(client[c].link)
  /\ \E result \in {"ok", "scriptFailed"} : ClientMoves(c, "sent", result)
  /\ UNCHANGED <<did, counters>>

(* subprocess.run kills a child that exceeds its deadline.                 *)
DeadlineKills(c) ==
  /\ \/ /\ Verifying(c)
        /\ \E from \in {"probing", "bound"} : ClientMoves(c, from, "unverified")
     \/ /\ pc[c] = "execute"
        /\ \E from \in {"probing", "bound", "sent"} : ClientMoves(c, from, "unknown")
  /\ UNCHANGED <<did, counters>>

(* The child dies without printing a result line.                          *)
ClientCrashes(c) ==
  /\ crashes < MaxCrashes
  /\ crashes' = crashes + 1
  /\ \E from \in {"probing", "bound", "sent"} : ClientMoves(c, from, "crashed")
  /\ UNCHANGED <<did, requests, births>>

(* The coordinator is killed: Windows frees its leases, the child runs on. *)
Crash(c) ==
  /\ pc[c] \notin {"idle", "dead"} /\ crashes < MaxCrashes
  /\ crashes' = crashes + 1
  /\ Goto(c, "dead")
  /\ FreeProject(c) /\ FreeTransport(c)
  /\ UNCHANGED <<req, target, identity, current, outcome, did, client, session,
                 editor, requests, births>>

-----------------------------------------------------------------------------
(* The world: users and Editors.                                           *)

UserOpens ==
  /\ births < MaxBirths
  /\ \E pid \in Pids, p \in Projects, r \in Rights, m \in {"off", "ready"} :
       /\ editor[pid] = None
       /\ editor' = [editor EXCEPT ![pid] =
            [project |-> p, born |-> births + 1, launched |-> FALSE,
             owner |-> r, remote |-> m]]
  /\ births' = births + 1
  /\ UNCHANGED <<coordinatorVars, client, session, lockVars, requests, crashes>>

EditorReady ==
  /\ \E pid \in Pids :
       /\ editor[pid] # None /\ editor[pid].remote = "booting"
       /\ editor' = [editor EXCEPT ![pid].remote = "ready"]
  /\ UNCHANGED <<coordinatorVars, client, session, lockVars, counters>>

(* Closed by its user, by WM_CLOSE, or crashed.                            *)
EditorExits ==
  /\ \E pid \in Pids :
       /\ editor[pid] # None
       /\ editor' = [editor EXCEPT ![pid] = None]
  /\ UNCHANGED <<coordinatorVars, client, session, lockVars, counters>>

World == UserOpens \/ EditorReady \/ EditorExits

LaunchStep(c) ==
  \/ LockProject(c) \/ LaunchLockTransport(c) \/ Ambiguous(c) \/ LookFinds(c)
  \/ LookFindsNone(c) \/ Popen(c) \/ PopenFails(c) \/ AwaitFinds(c)
  \/ AwaitTimesOut(c) \/ Verified(c) \/ VerifyFails(c) \/ SaveSession(c)

SessionStep(c) ==
  \/ SessionMissing(c) \/ LookupSession(c) \/ LockSession(c)
  \/ ReloadSession(c) \/ SessionChanged(c)

RunStep(c) ==
  \/ CheckRun(c) \/ SessionStale(c) \/ LockChannel(c) \/ Executed(c)
  \/ ExecuteFails(c) \/ UpdateSession(c)

CloseStep(c) ==
  \/ CheckClose(c) \/ PostClose(c) \/ PostCloseFails(c) \/ ExitSeen(c)
  \/ ExitTimesOut(c) \/ ForgetSession(c)

RelaunchStep(c) ==
  \/ RelaunchSelects(c) \/ RelaunchFindsNone(c) \/ LockProbe(c)
  \/ ProbeReady(c) \/ ProbeUnavailable(c) \/ SeedSession(c)

ClientStep(c) ==
  \/ ClientVerifies(c) \/ ClientGivesUp(c) \/ ClientSends(c)
  \/ ClientLosesResult(c) \/ ClientReceives(c) \/ DeadlineKills(c)

Works(c) ==
  \/ PreflightFails(c) \/ LeaseBusy(c) \/ FileError(c)
  \/ LaunchStep(c) \/ SessionStep(c) \/ RunStep(c) \/ CloseStep(c)
  \/ RelaunchStep(c) \/ ClientStep(c)

Next ==
  \/ World
  \/ \E c \in Coordinators :
       Invoke(c) \/ Works(c) \/ ClientCrashes(c) \/ Crash(c)

Spec == Init /\ [][Next]_vars

(* A live process is scheduled and every wait in it has a deadline.        *)
FairSpec == Spec /\ \A c \in Coordinators : WF_vars(Works(c))
=============================================================================
