--------------------------- MODULE MCCommandLines ---------------------------
EXTENDS CommandLines
Project(d, n) == [dir |-> d, name |-> n]
(* Two copies of one project, and one whose name has an equals sign.       *)
MCProjects == {Project("main", "Game"), Project("copy", "Game"), Project("main", "A=B")}
Engine(association, keys, build, version) ==
  [association |-> association, keys |-> keys, build |-> build, version |-> version]
MCEngines ==
  {Engine("5", <<"dir", "absent", "absent">>, "5", "5"),
   Engine("4", <<"absent", "dir", "empty">>, "4", "4"),
   Engine("5", <<"empty", "dir", "dir">>, "5", "5"),
   Engine("custom", <<"absent", "absent", "dir">>, "unreadable", "5"),
   Engine("custom", <<"absent", "absent", "dir">>, "unreadable", "4"),
   Engine("none", <<"dir", "dir", "dir">>, "5", "5")}
Environment(group, bind, ttl) == [group |-> group, bind |-> bind, ttl |-> ttl]
MCEnvironments ==
  {Environment("unset", "unset", "unset"), Environment("other", "other", "zero"),
   Environment("empty", "default", "unset"), Environment("unset", "bad", "unset"),
   Environment("unset", "unset", "nonzero")}
MCVisible == {{"cmdline", "cwd", "exe"}, {"cmdline", "exe"}, {"cmdline", "cwd"}}
=============================================================================
