---------------------------- MODULE CommandLines ----------------------------
(***************************************************************************)
(* How launch_session starts an Editor and finds it again, with nothing to *)
(* go by but command lines, working directories and environment variables: *)
(* the engine and executable (utils.derive_ue_exe_from_uproject), the      *)
(* launch arguments (temporary_remote_arguments), the search for the       *)
(* project's process (project_arguments, _find_project_processes) and the  *)
(* endpoints of the native client (native_transport._network_arguments).   *)
(*                                                                         *)
(* One request at a time: module Lifecycle has the concurrency.  Requests  *)
(* come from different shells, with their own environment and directory.   *)
(***************************************************************************)
EXTENDS Naturals, Sequences, FiniteSets

CONSTANTS
  Dirs,          \* directories
  Names,         \* file names of .uproject files
  Projects,      \* the .uproject files there are: [dir, name]
  EqualsSign,    \* names that contain an equals sign
  Relative,      \* in place of the directory of a relative path
  Engines,       \* what an EngineAssociation may lead to
  Environments,  \* environments requests may run in
  Visible,       \* what psutil may be able to read of a user's Editor
  Slots,         \* bound: Editors at a time
  MaxUsers,      \* bound: Editors opened by users at a time
  MaxRequests,   \* bound: requests made
  None

ASSUME ConstantsAssumption ==
  /\ Projects \subseteq [dir : Dirs, name : Names]
  /\ EqualsSign \subseteq Names
  /\ Relative \notin Dirs
  /\ Visible \subseteq SUBSET {"cmdline", "cwd", "exe"}
  /\ MaxRequests \in Nat
  /\ None \notin Slots /\ None \notin Environments

VARIABLES
  editors,   \* the running Editors
  at,        \* where the request is
  req,       \* its project, environment and working directory
  exe,       \* the executable name it has derived
  found,     \* the Editor it has selected
  outcome,   \* the last reported result
  requests

vars == <<editors, at, req, exe, found, outcome, requests>>

Init ==
  /\ editors = [s \in Slots |-> None]
  /\ at = "idle" /\ req = None /\ exe = None /\ found = None
  /\ outcome = "none" /\ requests = 0

Free == {s \in Slots : editors[s] = None}
Running == Slots \ Free

Begin ==
  /\ at = "idle" /\ requests < MaxRequests
  /\ at' = "derive"
  /\ \E project \in Projects, env \in Environments, here \in Dirs :
       req' = [project |-> project, env |-> env, here |-> here]
  /\ outcome' = "none" /\ requests' = requests + 1
  /\ UNCHANGED <<editors, exe, found>>

Finish(result) ==
  /\ at' = "idle" /\ outcome' = result
  /\ req' = None /\ exe' = None /\ found' = None
  /\ UNCHANGED requests

-----------------------------------------------------------------------------
(* derive_ue_exe_from_uproject: the first of three registry keys that is   *)
(* there decides, even if it is empty.                                     *)

InstalledDir(keys) ==
  LET present == {k \in DOMAIN keys : keys[k] # "absent"}
  IN  IF present = {} THEN "empty"
      ELSE keys[CHOOSE k \in present : \A other \in present : k <= other]

(* The major version is that of the association, or of Build.version.      *)
Major(engine) ==
  CASE engine.association # "custom" -> engine.association
    [] engine.build = "unreadable" -> "5"
    [] OTHER -> engine.build

(* Only the executable of the engine's own version exists.                 *)
Derivable(engine) ==
  /\ engine.association # "none" /\ InstalledDir(engine.keys) = "dir"
  /\ Major(engine) = engine.version

-----------------------------------------------------------------------------
(* Endpoints.  The values of an environment variable: "unset", "empty",    *)
(* "default" (the documented one), "other" (valid as well), "bad".         *)

OrDefault(value) == IF value \in {"unset", "empty"} THEN "default" ELSE value
LaunchEndpoint(env) == <<OrDefault(env.group), OrDefault(env.bind)>>

(* Multicast group, loopback address, time to live zero: the rest raises.  *)
Safe(env) ==
  /\ "bad" \notin {OrDefault(env.group), OrDefault(env.bind)}
  /\ env.ttl \in {"unset", "zero"}

GetDefault(value) == IF value = "unset" THEN "default" ELSE value

(* Mutant: the client always uses the default bind address.                *)
MutClientEndpoint(env) == <<GetDefault(env.group), "default">>
ClientEndpoint(env) == <<GetDefault(env.group), GetDefault(env.bind)>>

-----------------------------------------------------------------------------
(* Command lines: sequences of tokens.  A "path" is an argument that ends  *)
(* with .uproject, a "pair" one like -project=path, a "switch" the lone    *)
(* -project; an "option" is any other, -EnablePlugins=... and -ini:...     *)
(* among them.                                                             *)

Token(kind, dir, name) == [kind |-> kind, dir |-> dir, name |-> name]
Switch == Token("switch", None, None)
Option == Token("option", None, None)

(* Mutant: a switch is an option like any other.                           *)
MutTaken(tokens) == {}

(* A switch takes the token after it, whatever that is.                    *)
Taken(tokens) ==
  LET taken[k \in DOMAIN tokens] ==
        k > 1 /\ tokens[k - 1].kind = "switch" /\ ~taken[k - 1]
  IN  {k \in DOMAIN tokens : taken[k]}

(* An equals sign makes a token an option or a pair, and no path.          *)
Candidates(tokens) ==
  {k \in DOMAIN tokens :
     IF k \in Taken(tokens) THEN tokens[k].kind = "path"
     ELSE \/ tokens[k].kind = "pair"
          \/ tokens[k].kind = "path" /\ tokens[k].name \notin EqualsSign}

(* Mutant: a relative path is taken from the coordinator's directory.      *)
MutBase(e) == req.here
Base(e) == IF "cwd" \in e.visible THEN e.cwd ELSE req.here

ProjectArguments(e) ==
  {[dir |-> IF e.tokens[k].dir = Relative THEN Base(e) ELSE e.tokens[k].dir,
    name |-> e.tokens[k].name] : k \in Candidates(e.tokens)}

(* _find_project_processes                                                 *)
Matches ==
  {s \in Running : /\ editors[s].name = exe
                   /\ {"cmdline", "exe"} \subseteq editors[s].visible
                   /\ req.project \in ProjectArguments(editors[s])}

-----------------------------------------------------------------------------
(* launch_session                                                          *)

(* The .uproject and the registry are read anew by every request.          *)
Derive ==
  /\ at = "derive"
  /\ \E engine \in Engines :
       IF Derivable(engine) /\ Safe(req.env)
       THEN /\ at' = "look" /\ exe' = Major(engine)
            /\ UNCHANGED <<req, found, outcome, requests>>
       ELSE Finish("failed")
  /\ UNCHANGED editors

Ambiguous ==
  /\ at \in {"look", "await"} /\ Cardinality(Matches) > 1
  /\ Finish("needs_user")
  /\ UNCHANGED editors

Select ==
  /\ at \in {"look", "await"}
  /\ \E s \in Slots : Matches = {s} /\ found' = s
  /\ at' = IF at = "look" THEN "attached" ELSE "launched"
  /\ UNCHANGED <<editors, req, exe, outcome, requests>>

(* The working directory is the project's, the path is absolute.           *)
Launch ==
  /\ at = "look" /\ Matches = {}
  /\ \E s \in Free : editors' = [editors EXCEPT ![s] =
       [project |-> req.project, cwd |-> req.project.dir, name |-> exe,
        tokens |-> <<Token("path", req.project.dir, req.project.name), Option, Option>>,
        visible |-> {"cmdline", "cwd", "exe"}, bare |-> TRUE, relative |-> FALSE,
        env |-> req.env, listens |-> LaunchEndpoint(req.env)]]
  /\ at' = "await"
  /\ UNCHANGED <<req, exe, found, outcome, requests>>

AwaitTimesOut ==
  /\ at = "await" /\ Matches = {}
  /\ Finish("failed")
  /\ UNCHANGED editors

(* The native client meets the Editor if it looks where that one listens.  *)
Verify ==
  /\ at \in {"attached", "launched"}
  /\ Finish(IF /\ found \in Running
               /\ editors[found].listens = ClientEndpoint(req.env)
            THEN "succeeded"
            ELSE IF at = "attached" THEN "restart_required" ELSE "failed")
  /\ UNCHANGED editors

-----------------------------------------------------------------------------
(* Users open projects by every spelling, with Remote Execution off.       *)

UserOpens ==
  /\ Cardinality({s \in Running : editors[s].env = None}) < MaxUsers
  /\ \E s \in Free, p \in Projects, version \in {"4", "5"}, relative \in BOOLEAN,
        form \in {"path", "pair", "switch"}, visible \in Visible, cwd \in Dirs :
       LET dir == IF relative THEN Relative ELSE p.dir
           arguments == IF form = "switch" THEN <<Switch, Token("path", dir, p.name)>>
                        ELSE <<Token(form, dir, p.name)>>
       IN  /\ relative => cwd = p.dir
           /\ editors' = [editors EXCEPT ![s] =
                [project |-> p, cwd |-> cwd, name |-> version,
                 tokens |-> <<Option>> \o arguments, visible |-> visible,
                 bare |-> form = "path", relative |-> relative,
                 env |-> None, listens |-> <<"off", "off">>]]
  /\ UNCHANGED <<at, req, exe, found, outcome, requests>>

EditorExits ==
  /\ \E s \in Running : editors' = [editors EXCEPT ![s] = None]
  /\ UNCHANGED <<at, req, exe, found, outcome, requests>>

Next ==
  \/ Begin \/ Derive \/ Ambiguous \/ Select \/ Launch \/ AwaitTimesOut \/ Verify
  \/ UserOpens \/ EditorExits

Spec == Init /\ [][Next]_vars

-----------------------------------------------------------------------------
(* Every Editor that was launched listens on a multicast group, on a       *)
(* loopback address and with time to live zero, whatever the environment.  *)
LaunchIsLocal ==
  \A s \in Running : editors[s].env # None =>
    /\ "bad" \notin {editors[s].listens[1], editors[s].listens[2]}
    /\ editors[s].env.ttl \notin {"nonzero", "empty"}

(* references/api_docs.md:108 "The Python launcher and Rust client consume *)
(* the same group/bind environment values": an Editor that was launched    *)
(* under the request's environment is looked for where it listens, but for *)
(* a variable that is set and empty.                                       *)
ClientMeetsItsLaunch ==
  found \in Running /\ editors[found].env = req.env
  /\ "empty" \notin {req.env.group, req.env.bind}
  => editors[found].listens = ClientEndpoint(req.env)

(* A request never selects an Editor of another project, though copies of  *)
(* the project have the same file name; the exception is a relative path   *)
(* of a process whose directory cannot be read.                            *)
FoundIsTheProject ==
  [][found' \in Running /\ found = None =>
       LET e == editors[found'] IN
       e.project = req.project \/ (e.relative /\ "cwd" \notin e.visible)]_vars

Hidden(e) ==
  \/ e.name # exe
  \/ ~({"cmdline", "exe"} \subseteq e.visible)
  \/ e.bare /\ e.project.name \in EqualsSign
  \/ e.relative /\ "cwd" \notin e.visible /\ req.here # e.cwd

(* A second Editor is launched for a project only when the first one runs  *)
(* another engine, cannot be inspected, or hides its project behind an     *)
(* equals sign in the path or a relative path: one that was launched here  *)
(* is always found again, unless the engine or the equals sign is in the   *)
(* way.                                                                    *)
SecondEditorOnlyIfHidden ==
  [][at = "look" /\ at' = "await" =>
       \A s \in Running : editors[s].project = req.project => Hidden(editors[s])]_vars
=============================================================================
