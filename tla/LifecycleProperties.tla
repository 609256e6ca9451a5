------------------------ MODULE LifecycleProperties ------------------------
(***************************************************************************)
(* What the lifecycle coordinator promises, stated over module Lifecycle.  *)
(* The first part holds and the runs life_* check it; the second part says *)
(* what the repository's documents say and the code does not keep: each is *)
(* refuted by a run of its own.                                            *)
(***************************************************************************)
EXTENDS Lifecycle

(* Every variable has its type: in particular a session file holds a whole *)
(* session record or nothing (_write_session replaces the file at once).   *)
TypeOK ==
  /\ pc \in [Coordinators -> Labels]
  /\ req \in [Coordinators -> Request]
  /\ target \in [Coordinators -> Projects]
  /\ identity \in [Coordinators -> Identity \cup {None}]
  /\ current \in [Coordinators -> Session \cup {None}]
  /\ outcome \in [Coordinators -> Outcomes]
  /\ did \in [Coordinators -> SUBSET {"launch", "close", "script"}]
  /\ client \in [Coordinators -> [phase : Phases, link : Nat]]
  /\ session \in [Files -> Session \cup {None}]
  /\ editor \in [Pids -> Editor \cup {None}]
  /\ projectLock \in [Projects -> Coordinators \cup {NoOne}]
  /\ transportLock \in Coordinators \cup {NoOne}
  /\ requests \in Nat /\ births \in Nat /\ crashes \in Nat

(* However requests, crashes and users interleave, an Editor is launched   *)
(* beside a launched one of its project only where the earlier one is of   *)
(* rights that the one who launched the later could not read: the process  *)
(* check of launch_session and its Popen are under one lease, and an Editor*)
(* launched by a request that died or timed out is found by the next one.  *)
LaunchedOnce ==
  \A x, y \in Pids :
    /\ x # y /\ editor[x] # None /\ editor[y] # None
    /\ editor[x].launched /\ editor[y].launched
    /\ editor[x].project = editor[y].project
    /\ editor[x].born <= editor[y].born
    => editor[x].owner \notin MayRead[editor[y].owner]

Active(c) == client[c].phase \in {"probing", "bound", "sent"}

(* Remote sessions are serialized over the whole machine, for verification *)
(* and for scripts, as long as the coordinators that own them live.        *)
LiveTransportsSerialized ==
  \A c, d \in Coordinators :
    /\ Active(c) /\ Active(d) /\ pc[c] # "dead" /\ pc[d] # "dead"
    => c = d

(* close_session takes no transport lease; the lifecycle lease of the      *)
(* session's project alone keeps it from sending WM_CLOSE to the process of*)
(* its session while another request has a script running in that process. *)
NoCloseDuringScript ==
  \A c, d \in Coordinators :
    /\ pc[c] = "postClose" /\ pc[d] = "execute" /\ client[d].phase = "sent"
    => client[d].link # current[c].born

(* When close_session gets to remove the session file, and so reports the  *)
(* Editor closed or absent, no process that it may read is the one the     *)
(* session named: a save dialog that outlasts the deadline never counts as *)
(* closed.  An Editor whose command line it may not read looks gone to it, *)
(* alive or not, and its session is removed: nothing in the code rules that*)
(* out.                                                                    *)
ClosedMeansGone ==
  \A c \in Coordinators, pid \in Pids :
    /\ pc[c] = "forget"
    /\ editor[pid] # None /\ editor[pid].born = current[c].born
    => ~CanRead(c, editor[pid])

HoldsSession(c) ==
  pc[c] \in {"checkRun", "lockChannel", "execute", "update",
             "checkClose", "postClose", "awaitExit", "forget"}

(* While a request works on the session it read under the lifecycle lease, *)
(* nobody replaces or removes that file under it, except relaunch_remote,  *)
(* whose two writes take no lease.  (Projects that do not share files.)    *)
LockedSessionStable ==
  [][\A c \in Coordinators :
       /\ HoldsSession(c) /\ HoldsSession(c)'
       /\ session'[req[c].file] # session[req[c].file]
       => \E d \in Coordinators : d # c /\ pc[d] \in {"saveAttached", "seed"}]_vars

(* Two projects may be given one --session-file, and then a request for    *)
(* the one replaces what a request for the other works on.  It still holds *)
(* the lease of the project it works on: the session it acts upon is not   *)
(* the one whose project it learned before it had the lease, but one it    *)
(* found to be of that project afterwards.                                 *)
WorksUnderItsLease ==
  \A c \in Coordinators :
    HoldsSession(c) => projectLock[current[c].project] = c

(* A script runs in a process that has the id and the project directory of *)
(* the session, though the process was checked before the wait for the     *)
(* channel and the node is found by its own word.                          *)
ScriptRunsInSessionsEditor ==
  \A c \in Coordinators, pid \in Pids :
    /\ pc[c] = "execute" /\ client[c].phase = "sent"
    /\ editor[pid] # None /\ editor[pid].born = client[c].link
    => /\ pid = current[c].pid
       /\ DirOf[editor[pid].project] = DirOf[current[c].project]

(* A request other than relaunch-remote that reports a busy lease or asks  *)
(* for a restart has started, closed and run nothing.                      *)
RefusalUntouchedUnlessRelaunch ==
  \A c \in Coordinators :
    /\ outcome[c] \in {"busy", "restart_required"}
    /\ req[c].command # "relaunch"
    => did[c] = {}

(* Every request ends with a reported result unless its process is killed: *)
(* no lease, child, process wait or dialog blocks it for ever.             *)
EveryRequestAnswered ==
  \A c \in Coordinators :
    pc[c] \notin {"idle", "dead"} ~> pc[c] \in {"idle", "dead"}

(* No path through the nested context managers, and no crash, keeps a      *)
(* lease: whoever holds one gives it back.                                 *)
LeasesReturned ==
  /\ \A p \in Projects : projectLock[p] # NoOne ~> projectLock[p] = NoOne
  /\ transportLock # NoOne ~> transportLock = NoOne

(* Every coordinator has the clients of module ClientRun, one after the    *)
(* other, with all crashes, deadlines and orphans: it never takes a result *)
(* that has not come, never has two clients, and never ends a request over *)
(* one that is still at work.  NativeBridge implements the same interface. *)
ClientOf(c) == INSTANCE ClientRun WITH
  phase <- client[c].phase,
  plan <- IsRun(c)

ClientsKeepInterface == [][\A c \in Coordinators : ClientOf(c)!Step]_vars

-----------------------------------------------------------------------------
(* main_processor.py:671 "The exact project and process identity are       *)
(* checked again immediately before closing": relaunch_remote closes the   *)
(* process whose Remote Execution it found unavailable, and no other.      *)
RelaunchClosesOnlyProbed ==
  \A c \in Coordinators :
    /\ pc[c] = "postClose" /\ req[c].command = "relaunch"
    => current[c].born = identity[c].born

(* references/api_docs.md:81 create_time "prevents PID reuse": a script    *)
(* only ever runs in the very process the session recorded.                *)
RunsOnlyInSessionProcess ==
  \A c \in Coordinators :
    (pc[c] = "execute" /\ client[c].phase = "sent")
      => client[c].link = current[c].born
=============================================================================
