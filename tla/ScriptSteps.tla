---------------------------- MODULE ScriptSteps ----------------------------
(***************************************************************************)
(* What happens to the scripts of inject and run-plan: every step of a     *)
(* plan is checked, read and wrapped before anything is sent (run_plan,    *)
(* run_script_steps, utils.prepare_remote_script); then the Editor runs    *)
(* the wrappers, one at a time, in its one persistent global namespace, and*)
(* between them the identity probes of the clients.  The wrapper's own     *)
(* statements are actions here: that is where names can leak.  Leases,     *)
(* sessions and the connection are in the other modules.                   *)
(***************************************************************************)
EXTENDS Naturals, Sequences, FiniteSets

CONSTANTS
  Scripts,      \* script paths
  Names,        \* names that scripts and variables bind, "main" among them
  Sources,      \* texts a script file may hold
  BadNames,     \* names that are reserved or no identifiers
  VarChoices,   \* "vars" of a step; one with a bad name stands as well for
                \* values that are no JSON object
  NoFile,       \* no such script, or not a .py file
  MaxSteps,     \* bound: steps of a plan
  MaxPlans,     \* bound: plans
  MaxEdits      \* bound: script files changed

Source == [compiles : BOOLEAN, binds : SUBSET Names, guarded : BOOLEAN,
           raises : {"never", "top", "main"}, late : BOOLEAN]

ASSUME ConstantsAssumption ==
  /\ Sources # {} /\ Sources \subseteq Source /\ NoFile \notin Sources
  /\ "main" \in Names /\ {"__name__", "__file__"} \subseteq BadNames
  /\ Names \cap BadNames = {}
  /\ {} \in VarChoices /\ VarChoices \subseteq SUBSET (Names \cup BadNames)
  /\ MaxSteps \in Nat /\ MaxPlans \in Nat /\ MaxEdits \in Nat

VARIABLES
  disk,       \* what each script file holds
  at,         \* where the coordinator is, see Places
  plan,       \* the steps it was given
  prepared,   \* the steps it has read and wrapped
  results,    \* the success flags it has received
  queue,      \* wrappers on their way to the Editor's Python
  inside,     \* the statement the Editor's Python is at
  raised,     \* is an exception on its way out of the wrapper?
  globals,    \* names that commands have left in the persistent namespace
  ran,        \* the wrappers entered: ran[k] is the k-th
  spaces,     \* spaces[k]: its namespace, pairs of a name and who bound it
  mains,      \* calls of main in the wrapper that runs (history)
  callbacks,  \* wrappers that have registered a function to be called later
  found,      \* what such functions found in their namespaces (history)
  plans, edits   \* counters that bound the model

planVars == <<at, plan, prepared, plans>>
editorVars == <<queue, inside, raised, globals, ran, spaces, mains, callbacks, found>>
vars == <<disk, planVars, results, editorVars, edits>>

Places == {"idle", "prepare", "wait", "completed", "stopped", "failed", "unknown"}
Working == at \in {"prepare", "wait"}
Wrapper == "_ue_remote_exec_step_v2"
ProbeNames == {"json", "os", "unreal", "_p", "_v"}
Step == [script : Scripts, vars : VarChoices]

(* Mutant: __name__ is the only reserved name.                             *)
MutValid(variables) == "__name__" \notin variables
Valid(variables) == variables \cap BadNames = {}
Sending == [plan : Nat, step : Nat, asked : VarChoices,
            vars : SUBSET Names, source : Sources]
runs == Len(ran)

Init ==
  /\ disk \in [Scripts -> Sources \cup {NoFile}]
  /\ at = "idle" /\ plan = <<>> /\ prepared = <<>> /\ results = <<>>
  /\ plans = 0 /\ edits = 0 /\ queue = <<>>
  /\ inside = "free" /\ raised = FALSE /\ globals = {}
  /\ ran = <<>> /\ spaces = <<>> /\ mains = 0
  /\ callbacks = {} /\ found = {}

-----------------------------------------------------------------------------
(* Preparation                                                             *)

Accept(steps) ==
  /\ ~Working /\ plans < MaxPlans
  /\ plans' = plans + 1
  /\ plan' = steps /\ prepared' = <<>> /\ results' = <<>>
  /\ UNCHANGED <<disk, editorVars, edits>>

(* run_plan: a plan file that is no object with a list of steps, or has a  *)
(* step without a script path, is refused whole; so is an empty plan.      *)
ReadPlan ==
  \/ \E n \in 1..MaxSteps : \E steps \in [1..n -> Step] :
       Accept(steps) /\ at' = "prepare"
  \/ Accept(<<>>) /\ at' = "failed"

(* load_script_vars: at most one of --vars-json, --vars-file and --inject; *)
(* what it gives is validated like the vars of a plan's step.              *)
Inject ==
  \E given \in SUBSET {"json", "file", "legacy"}, step \in Step :
    LET variables == IF given = {} THEN {} ELSE step.vars IN
    /\ Accept(<<[step EXCEPT !.vars = variables]>>)
    /\ at' = IF Cardinality(given) > 1 \/ ~Valid(variables) THEN "failed"
             ELSE "prepare"

Upcoming == plan[Len(prepared) + 1]

(* Mutant: one dict of variables serves all steps.                         *)
MutVariablesOf(step) ==
  step.vars \cup UNION {prepared[i].vars : i \in DOMAIN prepared}
VariablesOf(step) == step.vars

(* _prepare_script_step: preflight, read, wrap.                            *)
PrepareStep ==
  /\ at = "prepare" /\ Len(prepared) < Len(plan)
  /\ disk[Upcoming.script] # NoFile /\ Valid(Upcoming.vars)
  /\ prepared' = Append(prepared, [source |-> disk[Upcoming.script],
                                   vars |-> VariablesOf(Upcoming)])
  /\ UNCHANGED <<disk, at, plan, plans, results, editorVars, edits>>

Leave(place) ==
  /\ at' = place
  /\ UNCHANGED <<disk, plan, prepared, plans, results, editorVars, edits>>

(* A step that cannot be prepared; no session, a busy lease, a stale       *)
(* process; no connection to the Editor.                                   *)
PlanFails == at = "prepare" /\ Leave("failed")

Ready == prepared # <<>> /\ Len(prepared) = Len(plan)

(* identity_probe_source runs in the persistent namespace and leaves its   *)
(* imports and its two variables there.                                    *)
Probed ==
  /\ inside = "free"
  /\ globals' = globals \cup ProbeNames
  /\ UNCHANGED <<disk, plan, prepared, plans, results, queue, inside, raised,
                 ran, spaces, mains, callbacks, found, edits>>

(* The client has found the Editor by the probe's answer.                  *)
Dispatch ==
  /\ at = "prepare" /\ Ready
  /\ Probed
  /\ at' = "wait"

(* So has one that only verifies, or the probe was for another Editor.     *)
Verify == Probed /\ UNCHANGED at

AllGood == \A i \in DOMAIN results : results[i]

(* Mutant: the step's file is read again when its turn comes.              *)
MutSent(i) == IF disk[plan[i].script] = NoFile THEN prepared[i].source
              ELSE disk[plan[i].script]
Sent(i) == prepared[i].source

Mine(wrapper) == at = "wait" /\ wrapper.plan = plans
Unanswered ==
  \/ \E i \in DOMAIN queue : Mine(queue[i])
  \/ runs > 0 /\ Mine(ran[runs]) /\ inside # "free"

(* The next wrapper goes to the Editor when the last has succeeded.        *)
Send ==
  /\ at = "wait" /\ ~Unanswered /\ AllGood /\ Len(results) < Len(prepared)
  /\ LET i == Len(results) + 1 IN
     queue' = Append(queue, [plan |-> plans, step |-> i, asked |-> plan[i].vars,
                             vars |-> prepared[i].vars, source |-> Sent(i)])
  /\ UNCHANGED <<disk, planVars, results, inside, raised, globals, ran,
                 spaces, mains, callbacks, found, edits>>

(* A deadline or a lost connection: what the Editor has it will run.       *)
LoseTrack == at = "wait" /\ Leave("unknown")

Return ==
  /\ at = "wait"
  /\ \/ AllGood /\ Len(results) = Len(prepared) /\ Leave("completed")
     \/ ~AllGood /\ Leave("stopped")

-----------------------------------------------------------------------------
(* The wrapper in the Editor                                               *)

(* Mutant: the script is run as the main module.                           *)
MutModuleName == "__main__"
ModuleName == "ue_remote_step"

Fresh(variables) ==
  {"__name__", "__file__"} \X {"wrapper"} \cup variables \X {"vars"}
Bind(space, names) ==
  {b \in space : b[1] \notin names} \cup names \X {"script"}
Callable(space) == <<"main", "script">> \in space

Goto(statement) == inside' = statement

(* The wrapper is defined and called.                                      *)
Enter ==
  /\ inside = "free" /\ queue # <<>>
  /\ queue' = Tail(queue)
  /\ ran' = Append(ran, Head(queue))
  /\ spaces' = Append(spaces, Fresh(Head(queue).vars))
  /\ globals' = globals \cup {Wrapper}
  /\ Goto("top") /\ raised' = FALSE /\ mains' = 0
  /\ UNCHANGED <<disk, planVars, results, callbacks, found, edits>>

Text == ran[runs].source
Space == spaces[runs]

CompileFails ==
  /\ inside = "top" /\ ~Text.compiles
  /\ raised' = TRUE /\ Goto("clear")
  /\ UNCHANGED <<disk, planVars, results, queue, globals, ran, spaces, mains,
                 callbacks, found, edits>>

(* exec: the top level binds names, may register a function with the       *)
(* Editor, ends with the conventional main guard if it has one, or raises  *)
(* somewhere on its way.                                                   *)
TopLevel ==
  /\ inside = "top" /\ Text.compiles
  /\ \E names \in SUBSET Text.binds :
       /\ Text.raises # "top" => names = Text.binds
       /\ spaces' = [spaces EXCEPT ![runs] = Bind(Space, names)]
       /\ mains' = IF /\ Text.guarded /\ Text.raises # "top"
                      /\ ModuleName = "__main__" /\ "main" \in names
                   THEN mains + 1 ELSE mains
  /\ callbacks' = IF Text.late THEN callbacks \cup {runs} ELSE callbacks
  /\ raised' = (Text.raises = "top")
  /\ Goto(IF Text.raises = "top" THEN "clear" ELSE "main")
  /\ UNCHANGED <<disk, planVars, results, queue, globals, ran, found, edits>>

CallMain ==
  /\ inside = "main"
  /\ mains' = IF Callable(Space) THEN mains + 1 ELSE mains
  /\ raised' = (Callable(Space) /\ Text.raises = "main")
  /\ Goto("clear")
  /\ UNCHANGED <<disk, planVars, results, queue, globals, ran, spaces, callbacks,
                 found, edits>>

(* Mutant: the namespace is cleared after a success only.                  *)
MutCleared == IF raised THEN Space ELSE {}
Cleared == {}

Clear ==
  /\ inside = "clear"
  /\ spaces' = [spaces EXCEPT ![runs] = Cleared]
  /\ Goto("drop")
  /\ UNCHANGED <<disk, planVars, results, queue, raised, globals, ran, mains,
                 callbacks, found, edits>>

(* Mutant: an exception passes the statement that deletes the wrapper.     *)
MutDeleted == IF raised THEN {} ELSE {Wrapper}
Deleted == {Wrapper}

(* The wrapper is deleted and the Editor answers, to whoever still listens.*)
Drop ==
  /\ inside = "drop"
  /\ globals' = globals \ Deleted
  /\ Goto("free")
  /\ results' = IF Mine(ran[runs]) THEN Append(results, ~raised) ELSE results
  /\ UNCHANGED <<disk, planVars, queue, raised, ran, spaces, mains, callbacks,
                 found, edits>>

-----------------------------------------------------------------------------
(* The world                                                               *)

(* A registered function is called from the Editor's tick, not while a     *)
(* script runs.                                                            *)
LateCall ==
  /\ inside = "free"
  /\ \E k \in callbacks : /\ found' = found \cup spaces[k]
                            /\ callbacks' = callbacks \ {k}
  /\ UNCHANGED <<disk, planVars, results, queue, inside, raised, globals, ran,
                 spaces, mains, edits>>

EditorExits ==
  /\ at' = IF at = "wait" THEN "unknown" ELSE at
  /\ Goto("free") /\ globals' = {} /\ callbacks' = {} /\ queue' = <<>>
  /\ spaces' = [k \in DOMAIN spaces |-> {}]
  /\ UNCHANGED <<disk, plan, prepared, plans, results, raised, ran,
                 mains, found, edits>>

(* The user, or a script, changes or removes a script file.                *)
EditScript ==
  /\ edits < MaxEdits
  /\ edits' = edits + 1
  /\ \E f \in Scripts, text \in Sources \cup {NoFile} :
       disk' = [disk EXCEPT ![f] = text]
  /\ UNCHANGED <<planVars, results, editorVars>>

Next ==
  \/ ReadPlan \/ Inject \/ PrepareStep \/ PlanFails \/ Dispatch \/ Verify
  \/ Send \/ LoseTrack \/ Return
  \/ Enter \/ CompileFails \/ TopLevel \/ CallMain \/ Clear \/ Drop
  \/ LateCall \/ EditorExits \/ EditScript

Spec == Init /\ [][Next]_vars

-----------------------------------------------------------------------------
(* Properties                                                              *)

Bindings == (Names \cup {"__name__", "__file__"}) \X {"wrapper", "vars", "script"}

(* The variables keep to their sets: what has been prepared has no bad     *)
(* name, and every wrapper has its namespace.                              *)
PlanTypeOK ==
  /\ disk \in [Scripts -> Sources \cup {NoFile}]
  /\ at \in Places /\ plan \in Seq(Step) /\ plans \in Nat
  /\ prepared \in Seq([source : Sources, vars : SUBSET Names])
EditorTypeOK ==
  /\ inside \in {"free", "top", "main", "clear", "drop"} /\ raised \in BOOLEAN
  /\ queue \in Seq(Sending) /\ ran \in Seq(Sending)
  /\ spaces \in Seq(SUBSET Bindings) /\ Len(spaces) = runs
  /\ mains \in Nat /\ callbacks \subseteq 1..runs
TypeOK == PlanTypeOK /\ EditorTypeOK /\ results \in Seq(BOOLEAN)

(* Between two commands the Editor's persistent namespace holds nothing of *)
(* an earlier step, however that step ended and whoever had sent it: only  *)
(* the names of the identity probe, which no script's namespace takes over.*)
GlobalsClean == inside = "free" => globals \subseteq ProbeNames

(* A running script sees the variables its own step asked for and what it  *)
(* has bound itself: no name that an earlier step, plan or injection had.  *)
OwnNamesOnly ==
  inside # "free" =>
    \A b \in Space : CASE b[2] = "wrapper" -> b[1] \in {"__name__", "__file__"}
                      [] b[2] = "vars"    -> b[1] \in ran[runs].asked
                      [] OTHER            -> b[1] \in Text.binds

(* main is called exactly once by a script that defines it and gets so     *)
(* far, with or without the conventional main guard, though a variable of  *)
(* the step has the same name; a script without one is run once.           *)
MainOnce ==
  inside = "clear" =>
    mains = IF /\ Text.compiles /\ Text.raises # "top" /\ "main" \in Text.binds
                  THEN 1 ELSE 0

(* A function a script leaves behind in the Editor finds an empty          *)
(* namespace: neither its own step's names nor those of another.           *)
LateCodeFindsNothing == found = {}

(* Not one script of a plan is sent before all its steps are found good,   *)
(* and what is sent and runs are the files as they were when the whole plan*)
(* was read, whatever happens to the files meanwhile.                      *)
RunsWhatWasPrepared ==
  \A w \in {queue[i] : i \in DOMAIN queue} \cup {ran[k] : k \in DOMAIN ran} :
    w.plan = plans =>
      Len(prepared) = Len(plan) /\ w.source = prepared[w.step].source
=============================================================================
