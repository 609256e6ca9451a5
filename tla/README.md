# A formal model of ue-editor-remote-exec

This directory holds TLA+ modules that model the run-time behaviour of the
repository, TLC configurations that check them on small instances, and TLAPS
proofs for every instance of the most important properties. `PROJECT.json`
lists the components, the runs, one mutant per property, the lines of source
each definition stands for, the disagreements found between code and documents,
and the hazards the properties are aimed at.

    tlc -workers 2 -config life_one_project.cfg MCLifecycle
    tlapm LifecycleProofs.tla

## 1. Inventory

The program is a command line (`scripts/send_to_editor.py`, which calls
`main_processor.main`) with the subcommands ensure/launch, inject, run-plan,
close and relaunch-remote. Each invocation is a short-lived process on one
Windows machine. Invocations share nothing in memory. They meet
in session files, in lease files, in the process table, and in the Editors.

| Component | State | Operations | Correct if |
|---|---|---|---|
| Lifecycle coordinator, `main_processor.py` | local `identity` and session dict; the session file | `launch_session`, `run_script_steps`, `close_session`, `relaunch_remote` | one launched Editor per project; no close under a running script; a session is worked on by one request at a time; the reported status is true; every request ends |
| Resource leases, `resource_lease.py` | an open handle with a byte lock | `acquire`, `release`, exit of the process | mutual exclusion; returned by a crash; refusal only when taken at the deadline |
| Python/native bridge, `native_transport.py` | temporary script and plan files, the child process | `verify`, `execute_many`, `_run` | the outcome handed on is the one the plan had; files live exactly as long as the child needs them |
| Native client, `client.rs`, `main.rs` | discovered nodes, the verified stream, results | `verify_identity`, `execute_plan_verified`, and their parts | only a node that proved its identity runs a step; in order, each once; the status is true; it ends |
| Wire protocol, `protocol.rs` | none | build, validate and decode one message | a foreign or malformed message is never taken for an answer |
| Script preparation, `utils.py`, `main_processor.py` | the prepared plan; in the Editor, its Python's persistent globals and the namespace of each wrapper | `run_plan`, `load_script_vars`, `_prepare_script_step`, `prepare_remote_script` and the statements of the wrapper it writes | a plan is checked as a whole and then fixed; steps do not see each other's names, however they end; main runs once |
| Launch arguments and process search, `utils.py`, `main_processor.py`, `native_transport.py` | environment variables, `.uproject`, registry, command lines of processes | `derive_ue_exe_from_uproject`, `temporary_remote_arguments`, `project_arguments`, `_find_project_processes`, `_network_arguments` | a launched Editor is reachable on this machine only, is found again, and is looked for where it listens; another project's Editor is never taken |
| Preflight, `validator.py` | none | existence checks | nothing starts for a file that is not there |
| Main window search, `main_processor.py` | none | `EnumWindows`, choice of the largest window | - |
| Packaging and release | none | build scripts | - |

How they interact:

    coordinator --lifecycle lease(project)--> lock file     (module Lease)
                --transport lease-----------> lock file
                --reads, replaces, removes--> session file
                --inspects, starts, WM_CLOSE-> Editor process
                --calls--> bridge --starts, waits, kills--> native client
                                            --UDP, TCP--> nodes (Editors)

`launch_session` takes the lifecycle lease of its project, then the transport
lease. `run_script_steps` reads the session file to learn the project, takes
that project's lifecycle lease, reads the file again, checks the process, takes
the transport lease, runs the plan, leaves the transport lease and rewrites the
file. `close_session` does the same but takes no transport lease.
`relaunch_remote` holds only the transport lease while it probes, writes the
session file with no lease, then calls `close_session` and `launch_session`.

What is hard here:

- *Interleaving.* Several command-line processes, users who open and close
  Editors without any lease, and native clients that outlive the process that
  started them.
- *Stale reads.* The process table is read before Popen, the creation time is
  compared before a wait of up to eight seconds, relaunch decides on an
  identity and acts on a file.
- *Crashes.* A lease comes back when its process dies. The child process and
  the session file do not notice.
- *Unreliable delivery.* Pongs and open requests are datagrams. A command may
  be written without an answer, and must then never be repeated nor reported as
  not done.
- *Deadlines.* Lease polls, discovery, callback, every read, the child as a
  whole, the process wait after Popen, the wait after WM_CLOSE.
- *A shared interpreter.* All scripts of all requests run in one global
  namespace, some of them after their request has given up on them.
- *Identification by text.* A process is recognised by command line, working
  directory and executable name, some of which cannot be read.

`PROJECT.json` "hazards" places each of these at its line.

## 2. Modules

| Module | Models | Checked by |
|---|---|---|
| `Lifecycle` | `main_processor.py` | `MCLifecycle`, runs `life_*` |
| `LifecycleProperties` | its type invariant and properties | |
| `LifecycleProofs`, `LifecycleClose` | proofs about `Lifecycle` | tlapm |
| `ClientRun` | abstract: what a coordinator sees of a native client; implemented by `Lifecycle` and `NativeBridge` | runs `life_two_projects`, `bridge` |
| `Lease` | abstract: what a lease promises | |
| `ResourceLease` | `resource_lease.py`, implements `Lease` | `MCResourceLease`, run `lease` |
| `ResourceLeaseProofs` | proofs about `ResourceLease` | tlapm |
| `VerifiedRun` | abstract: what one client run promises | |
| `RemoteClient` | `client.rs`, `main.rs`, implements `VerifiedRun` | |
| `RemoteClientProperties` | its properties | with the bridge |
| `RemoteClientProofs`, `NativeBridgeProofs` | proofs about client and bridge | tlapm |
| `NativeBridge` | `native_transport.py`, composed with `RemoteClient` | `MCNativeBridge`, runs `bridge`, `bridge_lost_result` |
| `Deadlines` | both of them in time | `MCDeadlines`, runs `deadlines`, `deadlines_settle` |
| `DeadlinesProofs` | proofs about `Deadlines` | tlapm |
| `ScriptSteps` | plans, wrappers and the Editor's namespace | `MCScriptSteps`, run `steps` |
| `ScriptStepsProofs` | proofs about `ScriptSteps` | tlapm |
| `CommandLines` | launch arguments, process search, endpoints | `MCCommandLines`, run `cmdline` |
| `CommandLinesProofs` | proofs about `CommandLines` | tlapm |

### Lifecycle

`pc[c]` is the place in the Python code that coordinator `c` has reached. An
action is the code from there up to the next point where another process can
interfere. The labels are:

| Labels | Code |
|---|---|
| `lockProject`, `lockTransport`, `look`, `popen`, `await`, `verify`, `verifyLaunched`, `save` | `launch_session` in its order. `verify` is the attached branch, `verifyLaunched` the launched one |
| `lookup`, `lockSession`, `reload` | `_locked_session` |
| `checkRun`, `lockChannel`, `execute`, `update` | `run_script_steps` |
| `checkClose`, `postClose`, `awaitExit`, `forget` | `close_session` |
| `select`, `lockProbe`, `probe`, `saveAttached`, `seed` | `relaunch_remote`, which goes on at `lookup` and then at `lockProject` |
| `idle`, `dead` | no request; killed |

`identity` and `current` are the local variables of the same role. `session` is
the contents of the session files. `WriteSession` is one step, because
`_write_session` writes a temporary file and calls `os.replace`. `editor` is
the process table, and `born` stands for `create_time`. `Finish` is the way
out of every function: the context managers return the leases and `main`
reports. `FileError` is an `OSError` of any of the five accesses that change a
session file.

`client[c]` is the native child in five words: probing, bound to a process,
command sent, and the way it ended. The detail is in `RemoteClient` and
`NativeBridge`; `ClientRun` is the interface at which they meet. The link is
the birth of the process, so that the model can tell a later process with the
same pid from the one the session names. Leases are one atomic step here, and
turn a request away only if they are taken. `ResourceLease` shows that the
polled file lock does just that.

psutil reads a process or is denied access to it, depending on who looks. Every
request and every Editor runs with rights, and `MayRead` says whose command
lines which rights may read (`CanRead`): an elevated request reads a plain
Editor, a plain request takes an elevated Editor for none. A launched Editor has
the rights of its launcher. This is about the tokens of one account; with
several accounts the default session and lease files would be others, too. The
identity probe, by contrast, runs inside the Editor and needs no rights, but it
compares only the process id and the project's directory (`ProbeMatches`,
`DirOf`): it does not tell two `.uproject` files in one directory apart.

Left out of `Lifecycle`: the text of results; the tolerance of one second in
the comparison of creation times; the several steps of a plan, which
`RemoteClient` and `ScriptSteps` have; and how a process is recognised, which
`CommandLines` has.

### ResourceLease and Lease

`acquire` is a loop: one attempt at the byte lock (`LockSucceeds`,
`LockFails`), the comparison with the deadline (`GiveUp`), a sleep of the poll
interval cut to what is left (`Sleep`, `Wake`). Time is a number and does not
pass a statement that is ready to run. `Exit` is the death of the process,
which gives the byte lock back. The file is empty before its first use: several
processes may find it so (`OpenNew`), look for its end (`SeekEnd`) and write a
byte there (`WriteByte`), which raises if another has meanwhile locked that byte
(`WriteRaises`). `Lease` has no time. A process asks, meets the lease taken,
enters, is turned away after it met the lease taken or while somebody holds it,
leaves, dies.

### RemoteClient and VerifiedRun

One run of verify or execute-plan. Pongs arrive from any node at any time.
Candidates are tried with the hinted node first and then in the order of ids.
Each candidate is opened, called back, probed and accepted or rejected. An error
after the callback was accepted and before the stream is returned
(`StreamFails`) ends the run, as one before it does (`OpenFails`). The steps are
written and read one at a time on the verified stream. Any I/O call may fail. A
write may succeed although nothing arrives, and may fail although the node got
it all. A node executes what it received whenever it likes, also after the
client is gone. `Abandon` is the classification in `main.rs`: errors after the
write of a command become `outcome_unknown`.

`VerifiedRun` is the promise to the caller: bind at most once and to a matching
node, send the next step only after a success, report once.

### NativeBridge

The bridge extends `RemoteClient` and lets the client move only while its
process runs. It may be stopped anywhere: by the process deadline, which
`subprocess.run` enforces with a kill, or by its own death. The module adds the
temporary files, the mapping of the printed status to a return or an exception
(`Classify`), and the finally clause with its unlinks, which may fail and then
replace what was on its way out.

The properties of the client are checked of the two processes together: the
bridge lets the client move as it likes and stops it anywhere.

### ClientRun

The phases a native client goes through for its coordinator, and nothing else:
no Editors, no files, no messages. `Lifecycle` has a client with these phases in
each coordinator (`ClientOf`). In `NativeBridge` the phase is computed
(`Phase`): while the call is under way from what has been verified and has
reached an Editor, afterwards from what the call returned or raised (`Result`).

### Deadlines

`Deadlines` puts the bridge and the client under a clock. A deadline passes when
it is due, where the untimed modules let it pass at any moment: discovery ends
at its timeout or a settle time after the first pong, an accept and every read
or write has its own limit, and `DeadlineKills` waits for `OuterDeadline`. The
clock does not pass a statement that is ready to run. Some nodes are *prompt*:
they answer pings, open requests and probes at once. The others do what they
like. Errors of local sockets and crashes are left out, because they may end
a run at any time and would explain everything.

### ScriptSteps

The coordinator reads a plan (`ReadPlan`) or the arguments of inject
(`Inject`), prepares step by step (`PrepareStep`) or fails (`PlanFails`), and
sends one wrapper after the other. The wrapper's statements are the actions
`Enter` (define, call, build the namespace), `CompileFails` or `TopLevel`
(compile, exec), `CallMain`, `Clear` (the inner finally) and `Drop` (the outer
finally, and the answer). A script is reduced to what it binds, whether it
compiles, has a main guard, raises, and leaves a callback with the Editor. A
namespace is a set of names with their origin: the wrapper, the variables, the
script. The identity probe is a command as well, without a wrapper: it runs
before a plan (`Dispatch`) or by itself (`Verify`) and leaves its imports and its
two variables (`ProbeNames`) in the Editor's globals. `LoseTrack` is a deadline or a lost connection: the Editor runs what it
has, beside the next plan. `LateCall` is a callback, `EditScript` a user or a
script that changes script files. A script here does not call its own main,
except through the guard, and does not write to the Editor's globals on purpose.

### CommandLines

One request at a time, each from a shell of its own, with its own environment
variables and working directory. `Derive` is the choice of engine and
executable with the checks of the endpoints, `Matches` the search through the
process table, `Launch` the new process with the arguments it gets, `Verify` the
meeting of client and Editor, reduced to whether they use the same endpoint. A
command line is a sequence of tokens of the four kinds `project_arguments` tells
apart. Users open projects by every spelling.

## 3. Runs

### Passing

| Run | Shows |
|---|---|
| `life_one_project` | Ensure, run and close: two processes, plain or elevated, four requests, one crash, two births on two pids. `LaunchedOnce`: two launched Editors of one project only where the later launcher could not read the earlier; `NoCloseDuringScript`; `ClosedMeansGone`: a session is removed only when no process the request may read is the session's; `RefusalUntouchedUnlessRelaunch` |
| `life_two_projects` | Run and relaunch on two projects in one directory that share one session file, with three requests and pids that are used again: `LiveTransportsSerialized`, for the lifecycle leases differ and only the transport lease keeps sessions apart; `WorksUnderItsLease`, although the file may come to hold the other project's session at any step; `ScriptRunsInSessionsEditor`: the pid and the directory are the session's, the `.uproject` may not be; `ClientsKeepInterface`: a coordinator takes no result that has not come and turns away from no client at work |
| `life_liveness` | `EveryRequestAnswered`, `LeasesReturned` with a crash in between; `LockedSessionStable` |
| `lease` | Three processes, from the first use of the lock file on: `NoWaitPastDeadline`, `RefusedOnlyIfTakenAtDeadline`; `KeepsPromise`: the file lock implements `Lease`, and with it mutual exclusion; `EveryPollEnds`, even if the holder never leaves |
| `bridge` | Bridge and client, two nodes, three steps: `OnlyVerifiedNodesRun`, `InOrderAndOnce`, `StatusIsTrue`, `EveryCallbackClosed`; `KeepsPromise`: the client implements `VerifiedRun` also when it is killed; `CompletedMeansWholePlan`, `FailureIsKnown`, `FilesOutliveClient`; `KeepsInterface`: bridge and client are a client as `Lifecycle` has it; `Returns`, with no assumption about nodes or datagrams |
| `deadlines` | `PromptEditorIsVerified`: an Editor that answers at once is verified if it is hinted, or if all that answered the ping were prompt. Without a hint, mute nodes tried before it may use up the outer deadline (weaknesses below). `OuterDeadlineIsLast`: the process deadline is never what a plan of prompt Editors dies of. `EarlyRefusalHasCause`: a refusal before the timeout is due to an Editor that answered |
| `steps` | `GlobalsClean`, `OwnNamesOnly`, `MainOnce`, `LateCodeFindsNothing`, `RunsWhatWasPrepared`, with scripts that fail, results that are lost, callbacks and edits |
| `cmdline` | `ClientMeetsItsLaunch`, `FoundIsTheProject`, `SecondEditorOnlyIfHidden`: the last two say exactly when the search goes wrong |

### Refuting

Each of these checks one sentence of the repository's documents, comments or
messages against the code, and TLC finds a behaviour that contradicts it. The
sentences and the lines of code are in `PROJECT.json` "findings".

| Run | What happens |
|---|---|
| `life_relaunch_other` | The session `relaunch_remote` stored was replaced before `close_session` read it, and another Editor of the project is closed |
| `life_pid_reuse` | The Editor restarts with the same pid during the wait for the transport lease, and the script runs in the new one |
| `bridge_lost_result` | A client that dies after a dispatch is reported as "failed", not as of unknown outcome |
| `deadlines_settle` | A launched Editor still boots while another Editor answers the ping: discovery settles at once, and the launched one "was not verified within" a timeout nobody waited for |

### Weaknesses without a run

These follow from the models or from reading the code along with them. Some
contradict a document as well; they have no run of their own because the run
would say no more than the sentence does.

In the lifecycle:

- `relaunch_remote` stores a session with an empty hint and a fresh
  `last_verified` after its verification failed (`SeedSession`,
  `main_processor.py:721`), and it stays if the close does not happen.
  `references/gotchas.md:28` says that the session is updated only after
  verification.
- A relaunch that has closed the Editor and then meets a busy lease reports that
  nothing was started, closed or modified (`:74`, `:335`).
  `RefusalUntouchedUnlessRelaunch` excludes it by name.
- The native client of a coordinator that is killed goes on without the
  transport lease (`references/gotchas.md:46` calls sessions serialized).
  `LiveTransportsSerialized` is about live coordinators for this reason.
- A session update that fails after the script succeeded makes the run "failed"
  (`FileError` at `update`, `:473`).
- A user who opens the project between the process check and Popen gets a
  second Editor beside it (`UserOpens` at `popen`, `:342`). `LaunchedOnce` is
  about launched Editors for this reason.
- An Editor that the request may not read, because it is elevated and the request
  is plain, counts as gone (`CanRead`, `main_processor.py:217`): `close` reports it
  absent and removes the session of a running Editor, and ensure launches a second
  one beside it. `ClosedMeansGone` and `LaunchedOnce` except exactly these Editors.
- Two `.uproject` files in one directory, which the code reckons with
  (`main_processor.py:104`), are one project to the identity probe. With a process id that is used again, a script for the one runs
  in the Editor of the other, and a close for the other may meet it there.
  `README.md:28` says that the exact `.uproject` is verified; `SKILL.md:32`, like
  the code, says directory and PID.
- `close` can remove the session that a `relaunch_remote` has just stored without
  a lease (`ForgetSession`, `:656`). `LockedSessionStable` names that exception.

In transport and leases:

- An unlink that fails in the finally clause replaces the unknown outcome by a
  plain error (`CleanupFails`, `native_transport.py:210`). `FailureIsKnown`
  excludes it, and the client's death, through `mishaps`.
- Without a hint, every mute node that answers pings and sorts before the right
  one costs up to a connection and a probe timeout, while the outer deadline of
  verify allows for one such node (`native_transport.py:136`). Two or three of
  them make the prompt Editor behind them "unverified". The deadline of a plan
  has the time of its commands besides (`:203`).
- A callback whose stream cannot be made blocking or set to no delay is left
  without `close_connection` (`StreamFails`, `client.rs:365`), and so is one that
  arrives after the connection timeout or when the process deadline kills the
  client; `PROTOCOL.md:19` asks for one after every known failure.
  `EveryCallbackClosed` is about clients that end by themselves and excepts the
  first case.
- A later command of a plan that cannot be set up (`client.rs:424`), and temporary
  files that cannot be removed, make a run "failed" whose earlier scripts have
  run, and their results are lost (`ClientGivesUp` after "sent").
- `--connect-timeout` is described as the time to verify the node
  (`main_processor.py:773`) and `--command-timeout` as the time for one command
  (`:767`); a verification may take up to twice the one and five seconds more,
  and every chunk of a response has the other anew.
- Two processes that meet a new lock file may end with a `PermissionError` of the
  first byte's write, which is not a refusal the callers know (`WriteRaises`,
  `resource_lease.py:44`).

In scripts and command lines:

- The identity probe leaves `json`, `os`, `unreal`, `_p` and `_v` in the Editor's
  persistent globals (`client.rs:458`), over whatever had these names.
  `GlobalsClean` admits them; the wrappers' namespaces do not contain them.
- Functions that a script registers with the Editor, or threads it starts, lose
  their globals when the wrapper clears its namespace (`LateCodeFindsNothing`).
- "vars" of a plan's step that are false and no object, such as `[]`, count as
  none (`main_processor.py:437`). A script that calls main itself, without a
  guard, gets it called once more.
- A bare project path with an equals sign in it is taken for an option
  (`utils.py:183`). The program launches its Editors with such a path and then
  does not recognise them; the request fails and the next one launches another
  Editor.
- A relative path in the command line of a process whose working directory
  cannot be read is resolved against the coordinator's directory
  (`utils.py:190`), and may be taken for another copy of the project.
- An Editor of another engine version than the project now names is not looked
  at (`main_processor.py:192`), and a second one is launched.
- An environment variable that is set and empty is the default to the launcher
  and an invalid argument to the client (`native_transport.py:119`), while
  `references/api_docs.md:108` says that both use the same values.

### Bounds

- `MaxRequests` 4 in `life_one_project`, 3 in `life_two_projects`, 2 in
  `life_liveness`, with two coordinator slots: two requests overlap while others
  have left their sessions behind, or come after both. Every hazard in the
  list is a race of two requests, some of them with the leftovers of one
  before. Relaunch, with its three phases, is in the runs of three and two
  requests.
- `MaxBirths` 2 and two pids: one Editor replaced by another, two at once, or the
  same pid used twice (with one pid nothing else is possible in
  `life_pid_reuse` and `life_liveness`). A third Editor would only add a second
  `Ambiguous`.
- Rights: plain and elevated in `life_one_project`, where it matters who may read
  whom; all plain elsewhere.
- `MaxCrashes` 1: the death of a coordinator, or of a client, between any two
  steps. The run with crashes includes the request that comes after it.
- `life_liveness` has the subcommands run and relaunch only. relaunch passes
  through every label of close and ensure, so no wait of the program is left
  out. Symmetry is off there.
- `ResourceLease`: timeouts 0 and 3 with a poll interval of 2, so that the last
  sleep is a cut one, and time up to 7, so that a waiter can time out, ask again
  and time out again while others come and go.
- `life_two_projects`: one file and one directory for both projects, so that every
  session read may be the other project's and the probe cannot tell them
  apart; two pids, so that both halves of the probe's comparison matter.
- `bridge`: two nodes, each the hint, matching, or not, in both orders; a plan of
  three steps (a first, a middle and a last one); responses in one or two
  fragments. A third node only adds one more candidate that is passed over.
- `deadlines`: two nodes; a timeout of 2, a settle time of 1 and commands of 4,
  so that a command outlasts discovery and connection together, as in the code,
  where the defaults are 8 s, 0.35 s and 3600 s; two steps, so that a deadline
  that forgets one of them is seen.
- `steps`: two plans of up to two steps over one script file that may be edited
  once; five texts, one for each way a wrapper can go; variables that collide
  with the script's own names, and a reserved one. A lost first plan meets
  the second in the Editor.
- `cmdline`: two copies of one project and one with an equals sign; six engines
  for the ways `derive_ue_exe_from_uproject` can go; five environments; one
  Editor of a user beside the launched one; two requests, of which the second
  meets what the first left.
- Symmetry is used for coordinators and pids, in the safety runs of `Lifecycle`.
  No definition whose value matters chooses among them. Nodes are numbers,
  because the code sorts them.
- Deadlock is not checked: a program that has answered its requests, with
  bounds on their number, stops.

### Fairness

`FairSpec` of `Lifecycle` has weak fairness of `Works(c)` for each coordinator:
an operating system process that is alive is scheduled, and every wait has a
deadline that is one of the disjuncts (`LeaseBusy`, `DeadlineKills`,
`AwaitTimesOut`, `ExitTimesOut`). Nothing is assumed of users, Editors, crashes
or new requests. `ResourceLease` has weak fairness of each process's polling
and of the clock, and `RequestsTakeTime`: infinitely many requests do not
happen between two moments of the clock. Nobody has to release.
`FairBridgeSpec` has weak fairness of `Bridge`, the two processes together, and
none of the nodes: `subprocess.run` waits on the client, which is scheduled by
itself, and every wait of the client has a deadline. `Returns` does not need
the outer deadline.

## 4. Proofs

Every theorem is about all behaviours of its module's `Spec`, for any values of
the constants. They assume the module's `ConstantsAssumption` only, with three
exceptions. It says that sets are not empty where Init chooses from
them, that bounds are numbers, that whoever has some rights may read processes
with the same, and that names like `NoOne` and `None` are not
values of the kinds they are told apart from. The bounds stay parameters:
nothing depends on how large they are. The exceptions: `DeadlinesAssumption`
wants timeouts and the settle time to be positive, `SessionStaysUnderLease`
is about `DisjointFiles`, and `NoCloseWhileScriptRuns` about `OwnDirectories`.

**`TypeCorrect`** (`LifecycleProofs`): `Spec => []TypeOK`. The type of the
variables is not inductive: `Popen` and `SaveSession` read fields of
`identity` and `current`, which may be `None`. `TypeInv` adds which labels
imply that `identity` or `current` is set, and that a native client exists only
at labels that have set its target, also after the death of its coordinator.
`AlwaysTyped` is `Spec => []TypeInv`, and everything else about `Lifecycle` uses it.

**`TransportSerialized`** (`LifecycleProofs`): `Spec => []LiveTransportsSerialized`.
`TransportInv` says that a live coordinator whose child is active stands at a
label where it holds `transportLock`. One variable has one value, so there is
one such coordinator.

**`LaunchesOnce`** (`LifecycleProofs`): `Spec => []LaunchedOnce`. The hazard is
an Editor that appears between the process check and Popen. A user's may, a
launched one may not. `LaunchInv` says that the labels from `lockTransport` to
`save` are inside the lifecycle lease of the request's project
(`ProjectHeld`, `LaunchTargetsRequest`), and that at `popen` every launched Editor
of the project is one the request may not read (`PopenFindsNone`). The last
survives the steps of others because a second Popen for the project would need
the lease. `BornInTime`, no process is younger than the last birth, tells the
earlier of two Editors from the later. The exception in `LaunchedOnce` is the
code's: a plain request does not see the Editor an elevated one has launched.

**`NoCloseWhileScriptRuns`** (`LifecycleClose`): where projects are in directories
of their own (`OwnDirectories`), `Spec => []NoCloseDuringScript`.
`close_session` takes no transport lease, so it is the lifecycle lease that must
separate the two. But that lease belongs to the project of the *session*, and
the script runs in the process the client is *bound* to. The invariant
therefore has two more parts. `OneProcessPerBirth`: everything that names a birth
anywhere gives it the same pid and directory ("dir"), and all but the link of a
client, which knows no more than the probe has compared, the same project
("at"). `CurrentIsLocked`: from `checkRun` or `checkClose`
on, the coordinator holds the lease of the project of its `current`. If a close
met a script in the same process, both `current`s would name one directory, so
one project, and two coordinators would hold one lease. Without the assumption
the last inference fails, as it does in the code.

**`WorksUnderLease`**, **`ScriptInSessionsEditor`** (`LifecycleClose`) follow from
the same two parts, with no assumption on files or directories.

**`ClosedIsGone`** (`LifecycleClose`): `Spec => []ClosedMeansGone`. The request
found no process of the session that it could read (`checkClose`, `awaitExit`).
"at" says that a process of the session's birth has the session's pid and
project, so the request looked at the right place. `NoResurrection`: a birth of
the past does not come back, so what is gone when the wait ends is gone when the
file is removed. That a process the request may not read is alive is not
excluded, by the theorem or by the code.

**`SessionStaysUnderLease`** (`LifecycleClose`): `Spec => LockedSessionStable`,
where projects have session files of their own (`DisjointFiles`: the default path
of a session contains a hash of its project; only `--session-file` can make two
projects share one, and then the property is false, as `life_two_projects`
reckons with). A step that changes the file under a request is by somebody who
is at one of five places. Three of them are inside the lifecycle lease of a
project that may use this file. `FilesInv` says whose files those are: what a
request found, read or wrote is a session of a project that may be given the
file. So that project is the holder's, and two coordinators would hold one
lease. The other two places are the writes of `relaunch_remote` that the
property excepts.

**`RefusalUntouched`** (`LifecycleProofs`): `Spec =>
[]RefusalUntouchedUnlessRelaunch`. `RefusalInv` divides the labels: a request that
has done something stands at one of `Committed`, no lease is asked for and no
restart demanded from there, and of the commands only relaunch-remote leads back
out. That a script is sent from `execute` only, or by the orphan of a killed
coordinator, is `ClientHasTarget` of `TypeInv`.

**`ResourceLeaseProofs`** proves `TypeOK`, `NoWaitPastDeadline`,
`RefusedOnlyIfTakenAtDeadline` and the refinement of `Lease` for any processes,
timeouts and poll interval. `OwnerInv` ties the byte lock to the place of its
owner. `TimesInv` says that a sleeper wakes between now and its deadline, and
that whoever is about to decide has just been refused: that is why the one that
gives up has met the lease taken. `StepIsLeaseStep` maps each action to one of
`Lease` or to a stutter.

**`RemoteClientProofs`** proves all safety properties of the client and the
refinement of `VerifiedRun`, for any nodes, any hint and plans of any length.
`ClientInv` has five parts beside the types. `SearchInv`: what the client knows
at each place; before a node is verified nothing has been sent. `NodesInv`: each
node has started the steps 1, 2, ... and only the verified one has any; the one
in its queue is the next. `SendingInv`: before a step is written its predecessor
has answered (`Before`), afterwards the node has the step, or still the
predecessor when the write was lost (`After`). That is what makes an answer to
the step at hand unmistakable. `ReportInv` restates `StatusIsTrue` so that it
survives nodes that move after the report: a success leaves nothing in a queue,
a known failure neither, an unknown outcome at most one step. `CallbackInv`:
the connection at hand is the only one not closed, or the run has failed on a
stream that could not be set up; that node was never sent anything, for a node
the client has not opened has no job (`Untouched`).

**`NativeBridgeProofs`** lifts all of this to bridge and client together.
`BridgeRunsClient` is `BridgeSpec => Spec`, because no step of the bridge changes
a variable of the client, whatever moment it kills it at. `BridgeInv` adds when
a client exists (`ProcessInv`), the files (`FilesInv`), that a client that never
started has sent nothing (`ChildInv`), and what an outcome says of the report
(`OutcomeInv`). `BridgeTypes`, `CompletedIsWhole`, `KnownFailures`, `FilesKept`
and `BridgeKeepsPromise` follow.

**`ScriptStepsProofs`** proves every property of the run `steps` for any scripts,
texts, names, variables, and any number of plans, steps and edits: `Typed`,
`GlobalsStayClean`, `ScriptsAreIsolated`, `MainRunsOnce`,
`LateCodeIsEmptyHanded`, `PlanIsFixed`. The inductive
invariant `IInv` has four parts beside the types. `PreparedFromPlan`: what is
prepared are the first steps of the plan. `SentFromPlan`: what is on its way or
has run carries the variables its step asked for and, if it is of the plan at
hand, the text that was prepared, in a plan prepared to its end; without it a wrapper of an abandoned plan
could be mistaken for one of the new. `NamespacesInv`: only the running wrapper
may have names in its namespace; `ProbedInv`: a probe between two commands adds
its own names and changes nothing else. `RunningInv`: what it has bound and called at
each statement.

**`DeadlinesProofs`** proves the three properties of the run `deadlines` for every
length of the timeouts, any nodes and any number of scripts. `TimedRunsBridge`:
a run in time is a run of the bridge, so all that is proved of `NativeBridge`
holds here. `TimedInv` has six parts. `ClockInv` and `DiscoveryInv`: discovery
ends with nobody only at the timeout, and otherwise when every prompt node has
answered. `PromptInv`, `PassedInv`: among the candidates passed over was no
prompt node of the right identity. `TimeInv` keeps an account of the time: with
`k` steps behind it, a plan that met no mute node has used no more than `Budget(k)`.
`KilledInv`: a client that was killed had spent that and more
(`OuterIsLast`). `PromptVerified` and `EarlyRefusalCaused` follow from the other
parts. The settle time must be positive: with a settle time of 0 the first pong
would end discovery before the other prompt nodes have answered, and
`PromptEditorIsVerified` would be false. The client takes 350 ms by default and
refuses a value that is not positive (`main.rs:52`).

**`BridgeIsClientRun`** (`NativeBridgeProofs`), **`ClientsAreRuns`** and
**`EveryRunAllowed`** (`LifecycleProofs`) join the two levels of the model.
`BridgeSpec => KeepsInterface`: bridge and client together implement
`ClientRun`. `PhaseInv` says why: a script of the plan reaches a verified Editor
only, and the Editor that has it stays known, so a plan is called unverified only
while no Editor has a script; and what nodes do after the return changes no
phase. `Spec => ClientsKeepInterface`: each coordinator of `Lifecycle` sees its
clients, with orphans, crashes and deadlines, through the same interface. Its
invariant, `ResultsAreIn`, says that a request which has left the transport lease
has results. `EveryRunAllowed` is the converse, a step lemma: where a coordinator
waits for its client, every step of the interface with the effects that
`ClientEffect` spells out is a step of `Lifecycle`. So `Lifecycle` allows its
client no less than `NativeBridge` may do at the interface, and what is proved of
it does not rest on a client too well-behaved. The proof found one gap: the
model had no plan that fails after "sent" with a plain error, which the code has
(section 3, weaknesses). What the interface does not say, that a bound client
has met the right process, is `OnlyVerified` on the one side and a guard of
`ClientVerifies` on the other; the Editors of the two modules are joined by this
text only.

**`CommandLinesProofs`**: `LaunchesAreLocal` (`LaunchIsLocal`, which no run repeats)
and `ClientFindsLaunch` (`ClientMeetsItsLaunch`). `EndpointInv` says that a request
past `Derive` has found its environment safe, and that a launched Editor listens
where its own environment says, which outlives the request that launched it.
`SearchIsExact` (`FoundIsTheProject`) and `SecondIsHidden`
(`SecondEditorOnlyIfHidden`) say what the search by command line is worth.
`SearchInv`: every Editor was started with a command line of one of the forms a
user or the program writes. For those forms `ArgumentsOf` computes which
projects the code reads from them. `Taken` is a recursive function, but where no
switch follows a switch its value is known after one step, so the proof needs no
induction.

Each inductive invariant was checked with TLC before it was proved.

Model-checked only:

- The liveness properties, which the prover does not reach: `EveryRequestAnswered`,
  `LeasesReturned`, `EveryPollEnds`, `Returns`.
- The four sentences of section 3 that the code contradicts. They are refuted by
  TLC, so there is nothing to prove.

## 5. Not modelled

- `protocol.rs`: pure functions over one JSON message. `RemoteClient` treats an
  invalid message as no message during discovery, and as a lost result after a
  command.
- `normalize_path` and the other path functions: a path is a directory and a
  name, and two spellings of one path are one value. `derive_project_dir` and
  `derive_import_dest` are helpers for scripts and change nothing.
- The window search: Win32 calls; a window is found or not (`PostClose`,
  `PostCloseFails`).
- The native subcommands discover and execute, which the coordinator does not
  call.
- `send_to_editor.py` and the argument parser: `Lifecycle` starts at parsed
  arguments, at the dispatch in `main`.
- Several accounts: rights are tokens of one account.
- Durations in `Lifecycle`, `NativeBridge` and `ScriptSteps`: there a deadline
  may expire at any moment, which includes every real timing. `ResourceLease`
  and `Deadlines` have a clock.
- Packaging, CI and release: no run-time behaviour.

## 6. Plan

Done: `Lifecycle` with its proofs, also for shared session files and directories,
and processes that not everybody may read; `Lease` and `ResourceLease` with the first use of a file;
`VerifiedRun`, `RemoteClient` and `NativeBridge` with `Deadlines`; `ScriptSteps`
and `CommandLines`; every safety property and every refinement proved, that of
`ClientRun` by both of its sides included.

Left, in this order:

1. **Composition of Editors.** The nodes of `RemoteClient` as the Editors of
   `Lifecycle`, so that `ClientEffect` becomes a theorem of a composed module.
2. **Leases.** The lease steps of `Lifecycle` as an instance of `Lease`.
3. **Protocol operators.** Decoding of a message and the reassembly of a response
   from chunks, over small messages, against a reference definition.
