--------------------------- MODULE MCScriptSteps ---------------------------
EXTENDS ScriptSteps
Script(compiles, binds, guarded, raises, late) ==
  [compiles |-> compiles, binds |-> binds, guarded |-> guarded,
   raises |-> raises, late |-> late]
(* A script with a guarded main that leaves a callback, one whose top      *)
(* level fails, one whose main fails, one with no main, one with a typo.   *)
MCSources == {Script(TRUE, {"main", "x"}, TRUE, "never", TRUE),
              Script(TRUE, {"main", "y"}, FALSE, "top", TRUE),
              Script(TRUE, {"main"}, FALSE, "main", FALSE),
              Script(TRUE, {"y"}, FALSE, "never", FALSE),
              Script(FALSE, {}, FALSE, "never", FALSE)}
MCVars == {{}, {"x", "main"}, {"x", "__file__"}}
=============================================================================
