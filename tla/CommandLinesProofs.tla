------------------------- MODULE CommandLinesProofs -------------------------
(***************************************************************************)
(* Proved for all projects, environments, engines and numbers of Editors:  *)
(* launched Editors are local and are looked for where they listen; the    *)
(* search by command line selects Editors of the right project, and misses *)
(* only those that are hidden from it.                                     *)
(***************************************************************************)
EXTENDS CommandLines, SequenceTheorems, TLAPS

Busy == at # "idle"
Derived == at \in {"look", "await", "attached", "launched"}

(* The request knows its environment, and has found it safe by the time it *)
(* launches; an Editor listens where its own environment says.             *)
RequestInv ==
  /\ Busy => req.env \in Environments
  /\ Derived => Safe(req.env)
  /\ found # None => Busy

EditorInv ==
  \A s \in Slots : editors[s] # None /\ editors[s].env # None =>
    /\ Safe(editors[s].env)
    /\ editors[s].listens = LaunchEndpoint(editors[s].env)

EndpointInv == DOMAIN editors = Slots /\ RequestInv /\ EditorInv

LEMMA InitEndpoint == Init => EndpointInv
  BY DEF Init, EndpointInv, RequestInv, EditorInv, Busy, Derived

LEMMA StepKeepsEndpoint == EndpointInv /\ [Next]_vars => EndpointInv'
<1> SUFFICES ASSUME EndpointInv, [Next]_vars PROVE EndpointInv'
  OBVIOUS
<1> USE DEF EndpointInv, RequestInv, Busy, Derived
<1>1. CASE Begin
  BY <1>1 DEF Begin, EditorInv
<1>2. CASE Derive
  BY <1>2 DEF Derive, Finish, EditorInv
<1>3. CASE Ambiguous
  BY <1>3 DEF Ambiguous, Finish, EditorInv
<1>4. CASE Select
  BY <1>4 DEF Select, EditorInv
<1>5. CASE Launch
  <2>1. RequestInv' /\ DOMAIN editors' = Slots
    BY <1>5 DEF Launch, Free
  <2>2. PICK s \in Free : /\ editors'[s].env = req.env
                          /\ editors'[s].listens = LaunchEndpoint(req.env)
                          /\ \A t \in Slots \ {s} : editors'[t] = editors[t]
    BY <1>5 DEF Launch, Free
  <2>3. Safe(req.env)
    BY <1>5 DEF Launch
  <2> QED
    BY <2>1, <2>2, <2>3 DEF EditorInv, Free
<1>6. CASE AwaitTimesOut
  BY <1>6 DEF AwaitTimesOut, Finish, EditorInv
<1>7. CASE Verify
  BY <1>7 DEF Verify, Finish, EditorInv
<1>8. CASE UserOpens
  <2>1. PICK s \in Free : /\ editors'[s].env = None
                          /\ \A t \in Slots \ {s} : editors'[t] = editors[t]
    BY <1>8 DEF UserOpens, Free
  <2>2. RequestInv' /\ DOMAIN editors' = Slots
    BY <1>8 DEF UserOpens
  <2> QED
    BY <2>1, <2>2 DEF EditorInv, Free
<1>9. CASE EditorExits
  BY <1>9 DEF EditorExits, EditorInv, Running, Free
<1>10. CASE UNCHANGED vars
  BY <1>10 DEF vars, EditorInv
<1> QED
  BY <1>1, <1>2, <1>3, <1>4, <1>5, <1>6, <1>7, <1>8, <1>9, <1>10 DEF Next

LEMMA EndpointAlways == Spec => []EndpointInv
  BY InitEndpoint, StepKeepsEndpoint, PTL DEF Spec

(* Every Editor ever launched is local: multicast, loopback, time to live  *)
(* zero.                                                                   *)
THEOREM LaunchesAreLocal == Spec => []LaunchIsLocal
<1>1. EndpointInv => LaunchIsLocal
  BY DEF EndpointInv, EditorInv, LaunchIsLocal, LaunchEndpoint, Safe, Running, Free
<1> QED
  BY <1>1, EndpointAlways, PTL

(* The native client looks for a launched Editor where it listens, unless  *)
(* a variable is set and empty.                                            *)
THEOREM ClientFindsLaunch == Spec => []ClientMeetsItsLaunch
<1>1. EndpointInv => ClientMeetsItsLaunch
  <2>1. SUFFICES ASSUME EndpointInv, found \in Running,
                        editors[found].env = req.env,
                        "empty" \notin {req.env.group, req.env.bind}
                 PROVE  editors[found].listens = ClientEndpoint(req.env)
    BY DEF ClientMeetsItsLaunch
  <2>2. found \in Slots /\ editors[found] # None
    BY <2>1 DEF Running, Free
  <2>3. req.env # None
    BY <2>1, <2>2, ConstantsAssumption
       DEF EndpointInv, RequestInv, Busy, ConstantsAssumption
  <2>4. editors[found].listens = LaunchEndpoint(req.env)
    BY <2>1, <2>2, <2>3 DEF EndpointInv, EditorInv
  <2> QED
    BY <2>1, <2>4 DEF LaunchEndpoint, ClientEndpoint, OrDefault, GetDefault
<1> QED
  BY <1>1, EndpointAlways, PTL

-----------------------------------------------------------------------------
(* Reading a command line.  Where no switch follows a switch, the tokens   *)
(* taken by one are those after one: the recursion needs no induction.     *)

Lonely(tokens) ==
  \A k \in DOMAIN tokens : tokens[k].kind = "switch" /\ k - 1 \in DOMAIN tokens =>
                             tokens[k - 1].kind # "switch"

LEMMA TakenAfterSwitch ==
  ASSUME NEW tokens, NEW n \in Nat, DOMAIN tokens = 1..n, Lonely(tokens)
  PROVE  Taken(tokens) = {k \in 1..n : k > 1 /\ tokens[k - 1].kind = "switch"}
<1> DEFINE After(k) == k > 1 /\ tokens[k - 1].kind = "switch"
           Equation(f) == f = [k \in DOMAIN tokens |-> After(k) /\ ~f[k - 1]]
           after == [k \in DOMAIN tokens |-> After(k)]
<1>1. ASSUME NEW k \in 2..n, After(k)
      PROVE  k - 1 \in 1..n /\ ~After(k - 1)
  <2>1. k - 1 \in DOMAIN tokens /\ (k - 1 > 1 => (k - 1) - 1 \in DOMAIN tokens)
    OBVIOUS
  <2>2. tokens[k - 1].kind = "switch"
    BY <1>1
  <2>3. k - 1 > 1 => tokens[(k - 1) - 1].kind # "switch"
    BY <2>1, <2>2 DEF Lonely
  <2> QED
    BY <2>1, <2>3
<1>2. Equation(after)
  <2>1. ASSUME NEW k \in DOMAIN tokens
        PROVE  After(k) <=> After(k) /\ ~after[k - 1]
    <3>1. CASE After(k)
      <4>1. k \in 2..n
        BY <3>1
      <4>2. k - 1 \in DOMAIN tokens /\ ~After(k - 1)
        BY <1>1, <3>1, <4>1
      <4> QED
        BY <3>1, <4>2
    <3> QED
      BY <3>1
  <2>2. [k \in DOMAIN tokens |-> After(k) /\ ~after[k - 1]]
        = [k \in DOMAIN tokens |-> After(k)]
    BY <2>1, Zenon
  <2> QED
    BY <2>2
<1> HIDE DEF after
<1>3. \A f : Equation(f) => {k \in DOMAIN tokens : f[k]} = {k \in 1..n : After(k)}
  <2>1. SUFFICES ASSUME NEW f, Equation(f), NEW k \in 1..n
                 PROVE  f[k] <=> After(k)
    BY Zenon
  <2>2. \A j \in 1..n : f[j] <=> After(j) /\ ~f[j - 1]
    BY <2>1, Zenon
  <2>3. CASE After(k)
    <3>1. k - 1 \in 1..n /\ ~After(k - 1)
      BY <1>1, <2>3
    <3>2. ~f[k - 1]
      BY <2>2, <3>1
    <3> QED
      BY <2>2, <2>3, <3>2
  <2> QED
    BY <2>2, <2>3
<1>4. Equation(CHOOSE f : Equation(f))
  BY <1>2
<1>5. Taken(tokens) = {k \in DOMAIN tokens : (CHOOSE f : Equation(f))[k]}
  BY DEF Taken
<1> QED
  BY <1>3, <1>4, <1>5

(* The command lines there are: the launcher's own, and a user's with the  *)
(* project as a path, as a pair or after a switch.                         *)
Spelling(e) == Token("path", IF e.relative THEN Relative ELSE e.project.dir, e.project.name)
PairOf(token) == [token EXCEPT !.kind = "pair"]

Written(e) ==
  IF e.bare THEN e.tokens \in {<<Spelling(e), Option, Option>>, <<Option, Spelling(e)>>}
  ELSE e.tokens \in {<<Option, PairOf(Spelling(e))>>, <<Option, Switch, Spelling(e)>>}

CommandLineOf(e) ==
  /\ e.project \in Projects
  /\ Written(e)
  /\ e.relative => e.cwd = e.project.dir

ShapeInv == \A s \in Slots : editors[s] # None => CommandLineOf(editors[s])

LEMMA Tokens ==
  ASSUME NEW e
  PROVE  /\ Option.kind = "option" /\ Switch.kind = "switch"
         /\ Spelling(e).kind = "path" /\ PairOf(Spelling(e)).kind = "pair"
         /\ Spelling(e).name = e.project.name
         /\ Spelling(e).dir = IF e.relative THEN Relative ELSE e.project.dir
         /\ PairOf(Spelling(e)).name = Spelling(e).name
         /\ PairOf(Spelling(e)).dir = Spelling(e).dir
  BY DEF Option, Switch, Spelling, PairOf, Token

(* A command line whose token k alone is neither an option nor a switch;   *)
(* switched: the token comes after a switch, and there is no other switch. *)
ProjectAt(tokens, n, k, switched) ==
  /\ n \in Nat /\ k \in 1..n /\ DOMAIN tokens = 1..n /\ switched \in BOOLEAN
  /\ tokens[k].kind \in IF switched THEN {"path"} ELSE {"path", "pair"}
  /\ \A j \in 1..n : j # k =>
       tokens[j].kind = IF switched /\ j + 1 = k THEN "switch" ELSE "option"
  /\ switched => k > 1

LEMMA OneCandidate ==
  ASSUME NEW tokens, NEW n, NEW k, NEW switched, ProjectAt(tokens, n, k, switched)
  PROVE  Candidates(tokens) =
           IF tokens[k].kind = "path" /\ ~switched /\ tokens[k].name \in EqualsSign
           THEN {} ELSE {k}
<1> USE DEF ProjectAt
<1>1. Lonely(tokens)
  <2>1. SUFFICES ASSUME NEW j \in 1..n, tokens[j].kind = "switch", j - 1 \in 1..n,
                        tokens[j - 1].kind = "switch"
                 PROVE  FALSE
    BY DEF Lonely
  <2>2. j + 1 = k /\ (j - 1) + 1 = k
    BY <2>1, \A i \in 1..n : tokens[i].kind = "switch" => i + 1 = k
  <2> QED
    BY <2>2
<1>2. \A j \in 1..n : j > 1 /\ tokens[j - 1].kind = "switch" <=> j = k /\ switched
  <2>1. ASSUME NEW j \in 1..n, j > 1, tokens[j - 1].kind = "switch"
        PROVE  j = k
    <3>1. j - 1 \in 1..n
      BY <2>1
    <3>2. (j - 1) + 1 = k
      BY <2>1, <3>1
    <3> QED
      BY <3>2
  <2> QED
    BY <2>1
<1>3. Taken(tokens) = {j \in 1..n : j > 1 /\ tokens[j - 1].kind = "switch"}
  BY <1>1, TakenAfterSwitch
<1>4. \A j \in 1..n : j \in Taken(tokens) <=> j = k /\ switched
  BY <1>2, <1>3
<1> QED
  BY <1>4 DEF Candidates

(* Exactly the token of the project is taken for a project path, however   *)
(* the user spelled it, unless a bare path has an equals sign.             *)
LEMMA CandidatesOf ==
  ASSUME NEW e, CommandLineOf(e)
  PROVE  \E k \in DOMAIN e.tokens :
           /\ e.tokens[k].name = e.project.name /\ e.tokens[k].dir = Spelling(e).dir
           /\ Candidates(e.tokens) =
                IF e.bare /\ e.project.name \in EqualsSign THEN {} ELSE {k}
<1> DEFINE line == e.tokens
<1>1. ASSUME NEW n, NEW k, NEW switched, ProjectAt(line, n, k, switched),
             line[k].name = e.project.name, line[k].dir = Spelling(e).dir,
             e.bare <=> line[k].kind = "path" /\ ~switched
      PROVE  \E i \in DOMAIN line :
               /\ line[i].name = e.project.name /\ line[i].dir = Spelling(e).dir
               /\ Candidates(line) =
                    IF e.bare /\ e.project.name \in EqualsSign THEN {} ELSE {i}
  <2>1. k \in DOMAIN line
    BY <1>1 DEF ProjectAt
  <2>2. Candidates(line) = IF e.bare /\ e.project.name \in EqualsSign THEN {} ELSE {k}
    BY <1>1, OneCandidate
  <2> QED
    BY <1>1, <2>1, <2>2
<1>2. CASE line = <<Spelling(e), Option, Option>> /\ e.bare
  <2>1. /\ DOMAIN line = 1..3 /\ line[1] = Spelling(e)
        /\ \A j \in 1..3 : j # 1 => line[j] = Option
    BY <1>2
  <2>2. ProjectAt(line, 3, 1, FALSE)
    <3> HIDE DEF line
    <3>1. /\ line[1].kind \in {"path", "pair"}
          /\ \A j \in 1..3 : j # 1 => line[j].kind = "option"
      BY <2>1, Tokens
    <3> QED
      BY <2>1, <3>1 DEF ProjectAt
  <2> QED
    BY <1>1, <1>2, <2>1, <2>2, Tokens
<1>3. CASE line = <<Option, Spelling(e)>> /\ e.bare
  <2>1. /\ DOMAIN line = 1..2 /\ line[2] = Spelling(e)
        /\ \A j \in 1..2 : j # 2 => line[j] = Option
    BY <1>3
  <2>2. ProjectAt(line, 2, 2, FALSE)
    <3> HIDE DEF line
    <3>1. /\ line[2].kind \in {"path", "pair"}
          /\ \A j \in 1..2 : j # 2 => line[j].kind = "option"
      BY <2>1, Tokens
    <3> QED
      BY <2>1, <3>1 DEF ProjectAt
  <2> QED
    BY <1>1, <1>3, <2>1, <2>2, Tokens
<1>4. CASE line = <<Option, PairOf(Spelling(e))>> /\ ~e.bare
  <2>1. /\ DOMAIN line = 1..2 /\ line[2] = PairOf(Spelling(e))
        /\ \A j \in 1..2 : j # 2 => line[j] = Option
    BY <1>4
  <2>2. ProjectAt(line, 2, 2, FALSE)
    <3> HIDE DEF line
    <3>1. /\ line[2].kind \in {"path", "pair"}
          /\ \A j \in 1..2 : j # 2 => line[j].kind = "option"
      BY <2>1, Tokens
    <3> QED
      BY <2>1, <3>1 DEF ProjectAt
  <2> QED
    BY <1>1, <1>4, <2>1, <2>2, Tokens
<1>5. CASE line = <<Option, Switch, Spelling(e)>> /\ ~e.bare
  <2>1. /\ ProjectAt(line, 3, 3, TRUE) /\ line[3] = Spelling(e)
    BY <1>5, Tokens DEF ProjectAt
  <2> QED
    BY <1>1, <1>5, <2>1, Tokens
<1> QED
  BY <1>2, <1>3, <1>4, <1>5 DEF CommandLineOf, Written

(* The search reads the project an Editor was started with, or nothing.    *)
LEMMA ArgumentsOf ==
  ASSUME NEW e, CommandLineOf(e)
  PROVE  ProjectArguments(e) =
           IF e.bare /\ e.project.name \in EqualsSign THEN {}
           ELSE {[dir |-> IF e.relative THEN Base(e) ELSE e.project.dir,
                  name |-> e.project.name]}
<1>1. PICK k \in DOMAIN e.tokens :
        /\ e.tokens[k].name = e.project.name /\ e.tokens[k].dir = Spelling(e).dir
        /\ Candidates(e.tokens) =
             IF e.bare /\ e.project.name \in EqualsSign THEN {} ELSE {k}
  BY CandidatesOf
<1>2. e.project.dir # Relative
  BY ConstantsAssumption DEF ConstantsAssumption, CommandLineOf
<1>3. (IF e.tokens[k].dir = Relative THEN Base(e) ELSE e.tokens[k].dir)
        = IF e.relative THEN Base(e) ELSE e.project.dir
  BY <1>1, <1>2, Tokens
<1> QED
  BY <1>1, <1>3 DEF ProjectArguments

(* What the search makes of an Editor of which it can read enough.         *)
LEMMA ArgumentIsProject ==
  ASSUME NEW e, CommandLineOf(e), NEW p \in Projects
  PROVE  /\ p \in ProjectArguments(e) =>
              p = e.project \/ (e.relative /\ "cwd" \notin e.visible)
         /\ p = e.project =>
              \/ p \in ProjectArguments(e)
              \/ e.bare /\ e.project.name \in EqualsSign
              \/ e.relative /\ "cwd" \notin e.visible /\ req.here # e.cwd
<1> DEFINE read == [dir |-> IF e.relative THEN Base(e) ELSE e.project.dir,
                    name |-> e.project.name]
<1>1. \A q \in Projects : q = [dir |-> q.dir, name |-> q.name]
  BY ConstantsAssumption DEF ConstantsAssumption
<1>2. p \in Projects /\ e.project \in Projects
  BY DEF CommandLineOf
<1>3. /\ e.relative /\ "cwd" \in e.visible => Base(e) = e.project.dir
      /\ e.relative /\ req.here = e.cwd => Base(e) = e.project.dir
  BY DEF CommandLineOf, Base
<1>4. p \in ProjectArguments(e) => p = read
  BY ArgumentsOf
<1>5. ~(e.bare /\ e.project.name \in EqualsSign) => read \in ProjectArguments(e)
  BY ArgumentsOf
<1>6. ~e.relative \/ "cwd" \in e.visible \/ req.here = e.cwd => read = e.project
  BY <1>1, <1>2, <1>3
<1> HIDE DEF read
<1> QED
  BY <1>4, <1>5, <1>6

-----------------------------------------------------------------------------
(* Every Editor there is was started with a command line of a known form.  *)
SearchInv ==
  /\ DOMAIN editors = Slots
  /\ ShapeInv
  /\ at # "idle" => req.project \in Projects

LEMMA FrameLine ==
  ASSUME SearchInv, DOMAIN editors' = Slots,
         \A s \in Slots : \/ editors'[s] = None \/ editors'[s] = editors[s]
                          \/ CommandLineOf(editors'[s]),
         at' # "idle" => req'.project \in Projects
  PROVE  SearchInv'
<1>1. \A s \in Slots : editors'[s] # None => CommandLineOf(editors'[s])
  BY DEF SearchInv, ShapeInv
<1>2. ShapeInv'
  BY <1>1 DEF ShapeInv, CommandLineOf, Written, Spelling
<1> QED
  BY <1>2 DEF SearchInv

LEMMA LaunchedLine ==
  ASSUME SearchInv, Launch
  PROVE  SearchInv'
<1>1. PICK s \in Free : editors' = [editors EXCEPT ![s] =
        [project |-> req.project, cwd |-> req.project.dir, name |-> exe,
         tokens |-> <<Token("path", req.project.dir, req.project.name), Option, Option>>,
         visible |-> {"cmdline", "cwd", "exe"}, bare |-> TRUE, relative |-> FALSE,
         env |-> req.env, listens |-> LaunchEndpoint(req.env)]]
  BY DEF Launch
<1>2. /\ editors'[s].project = req.project /\ editors'[s].bare = TRUE
      /\ editors'[s].relative = FALSE
      /\ editors'[s].tokens =
           <<Token("path", req.project.dir, req.project.name), Option, Option>>
      /\ \A t \in Slots \ {s} : editors'[t] = editors[t]
      /\ DOMAIN editors' = Slots
  BY <1>1 DEF SearchInv, Free
<1>3. Spelling(editors'[s]) = Token("path", req.project.dir, req.project.name)
  BY <1>2 DEF Spelling
<1>4. CommandLineOf(editors'[s])
  BY <1>2, <1>3 DEF SearchInv, Launch, CommandLineOf, Written
<1> QED
  <2>1. \A t \in Slots : editors'[t] = editors[t] \/ CommandLineOf(editors'[t])
    BY <1>2, <1>4
  <2>2. req' = req /\ req.project \in Projects
    BY DEF Launch, SearchInv
  <2> QED
    BY <1>2, <2>1, <2>2, FrameLine

(* One option before the user's own arguments.                             *)
LEMMA OneBeforeOne ==
  ASSUME NEW o, NEW x
  PROVE  <<o>> \o <<x>> = <<o, x>>
<1> DEFINE S == {o, x}
           s == <<o>> \o <<x>>
           t == <<o, x>>
<1>1. <<o>> \in Seq(S) /\ <<x>> \in Seq(S) /\ t \in Seq(S) /\ Len(t) = 2
  OBVIOUS
<1>2. s \in Seq(S) /\ Len(s) = 2 /\ s[1] = o /\ s[2] = x
  BY <1>1
<1>3. \A i \in 1..2 : s[i] = t[i]
  BY <1>2
<1> HIDE DEF S, s, t
<1>4. s = t
  BY <1>1, <1>2, <1>3, SeqEqual
<1> QED
  BY <1>4 DEF s, t

LEMMA OneBeforeTwo ==
  ASSUME NEW o, NEW x, NEW y
  PROVE  <<o>> \o <<x, y>> = <<o, x, y>>
<1> DEFINE S == {o, x, y}
           s == <<o>> \o <<x, y>>
           t == <<o, x, y>>
<1>1. <<o>> \in Seq(S) /\ <<x, y>> \in Seq(S) /\ t \in Seq(S) /\ Len(t) = 3
  OBVIOUS
<1>2. s \in Seq(S) /\ Len(s) = 3 /\ s[1] = o /\ s[2] = x /\ s[3] = y
  BY <1>1
<1>3. \A i \in 1..3 : s[i] = t[i]
  BY <1>2
<1> HIDE DEF S, s, t
<1>4. s = t
  BY <1>1, <1>2, <1>3, SeqEqual
<1> QED
  BY <1>4 DEF s, t

LEMMA UsersLine ==
  ASSUME SearchInv, UserOpens
  PROVE  SearchInv'
<1>1. PICK s \in Free, p \in Projects, version \in {"4", "5"}, relative \in BOOLEAN,
           form \in {"path", "pair", "switch"}, visible \in Visible, cwd \in Dirs :
        LET dir == IF relative THEN Relative ELSE p.dir
            arguments == IF form = "switch" THEN <<Switch, Token("path", dir, p.name)>>
                         ELSE <<Token(form, dir, p.name)>>
        IN  /\ relative => cwd = p.dir
            /\ editors' = [editors EXCEPT ![s] =
                 [project |-> p, cwd |-> cwd, name |-> version,
                  tokens |-> <<Option>> \o arguments, visible |-> visible,
                  bare |-> form = "path", relative |-> relative,
                  env |-> None, listens |-> <<"off", "off">>]]
  BY DEF UserOpens
<1> DEFINE dir == IF relative THEN Relative ELSE p.dir
           arguments == IF form = "switch" THEN <<Switch, Token("path", dir, p.name)>>
                        ELSE <<Token(form, dir, p.name)>>
           e == editors'[s]
<1>2. /\ e.project = p /\ e.cwd = cwd /\ e.relative = relative
      /\ e.bare = (form = "path") /\ e.tokens = <<Option>> \o arguments
      /\ \A t \in Slots \ {s} : editors'[t] = editors[t]
      /\ DOMAIN editors' = Slots
      /\ relative => cwd = p.dir
  BY <1>1 DEF SearchInv, Free
<1>3. Spelling(e) = Token("path", dir, p.name)
  BY <1>2 DEF Spelling
<1>4. PairOf(Spelling(e)) = Token("pair", dir, p.name)
  BY <1>3 DEF PairOf, Token
<1>5. /\ form = "path" => e.tokens = <<Option, Token("path", dir, p.name)>>
      /\ form = "pair" => e.tokens = <<Option, Token("pair", dir, p.name)>>
      /\ form = "switch" => e.tokens = <<Option, Switch, Token("path", dir, p.name)>>
  <2>1. \A x : <<Option>> \o <<x>> = <<Option, x>>
    BY OneBeforeOne
  <2>2. \A x, y : <<Option>> \o <<x, y>> = <<Option, x, y>>
    BY OneBeforeTwo
  <2>3. /\ form = "switch" => arguments = <<Switch, Token("path", dir, p.name)>>
        /\ form # "switch" => arguments = <<Token(form, dir, p.name)>>
    OBVIOUS
  <2> HIDE DEF dir, arguments, e
  <2> QED
    BY <1>2, <2>1, <2>2, <2>3
<1> HIDE DEF dir, arguments, e
<1>6. Written(e)
  BY <1>2, <1>3, <1>4, <1>5 DEF Written
<1>7. CommandLineOf(e)
  BY <1>2, <1>6 DEF CommandLineOf
<1> QED
  <2>1. \A t \in Slots : editors'[t] = editors[t] \/ CommandLineOf(editors'[t])
    BY <1>2, <1>7 DEF e
  <2>2. UNCHANGED <<at, req>>
    BY DEF UserOpens
  <2> QED
    BY <1>2, <2>1, <2>2, FrameLine DEF SearchInv

LEMMA StepKeepsLines == SearchInv /\ [Next]_vars => SearchInv'
<1> SUFFICES ASSUME SearchInv, [Next]_vars PROVE SearchInv'
  OBVIOUS
<1>1. ASSUME UNCHANGED editors, at' # "idle" => req'.project \in Projects
      PROVE  SearchInv'
  BY <1>1, FrameLine DEF SearchInv
<1>2. CASE Begin
  BY <1>1, <1>2 DEF Begin
<1>3. CASE Derive \/ Ambiguous \/ Select \/ AwaitTimesOut \/ Verify \/ UNCHANGED vars
  BY <1>1, <1>3 DEF Derive, Ambiguous, Select, AwaitTimesOut, Verify, Finish, vars,
                    SearchInv
<1>4. CASE EditorExits
  BY <1>4, FrameLine DEF EditorExits, SearchInv
<1> QED
  BY <1>2, <1>3, <1>4, LaunchedLine, UsersLine DEF Next

LEMMA LinesAlways == Spec => []SearchInv
<1>1. Init => SearchInv
  BY DEF Init, SearchInv, ShapeInv
<1> QED
  BY <1>1, StepKeepsLines, PTL DEF Spec

(* However many copies of a project there are and however their Editors    *)
(* were started, the process search selects an Editor of the requested one,*)
(* unless it was given a relative path and its directory cannot be read.   *)
THEOREM SearchIsExact == Spec => FoundIsTheProject
<1>1. ASSUME SearchInv, [Next]_vars, found' \in Running, found = None
      PROVE  \/ editors[found'].project = req.project
             \/ editors[found'].relative /\ "cwd" \notin editors[found'].visible
  <2>1. None \notin Running
    BY ConstantsAssumption DEF ConstantsAssumption, Running
  <2>2. Select
    BY <1>1, <2>1 DEF Next, Begin, Derive, Ambiguous, Launch, AwaitTimesOut, Verify,
                      UserOpens, EditorExits, Finish, vars
  <2>3. req.project \in ProjectArguments(editors[found'])
    BY <2>2 DEF Select, Matches
  <2>4. CommandLineOf(editors[found']) /\ req.project \in Projects
    BY <1>1, <2>2 DEF SearchInv, ShapeInv, Select, Running, Free
  <2> QED
    BY <2>3, <2>4, ArgumentIsProject
<1>2. SearchInv /\ [Next]_vars =>
        [found' \in Running /\ found = None =>
           LET e == editors[found'] IN
           e.project = req.project \/ (e.relative /\ "cwd" \notin e.visible)]_vars
  BY <1>1
<1> QED
  BY <1>2, LinesAlways, PTL DEF Spec, FoundIsTheProject

(* launch_session starts a second Editor of a project only if the first is *)
(* of another engine, cannot be inspected or hides its project.            *)
THEOREM SecondIsHidden == Spec => SecondEditorOnlyIfHidden
<1>1. ASSUME SearchInv, [Next]_vars, at = "look", at' = "await",
             NEW s \in Running, editors[s].project = req.project
      PROVE  Hidden(editors[s])
  <2>1. Launch
    BY <1>1 DEF Next, Begin, Derive, Ambiguous, Select, AwaitTimesOut, Verify,
                UserOpens, EditorExits, Finish, vars
  <2>2. CASE editors[s].name # exe \/ ~({"cmdline", "exe"} \subseteq editors[s].visible)
    BY <2>2 DEF Hidden
  <2>3. CASE req.project \notin ProjectArguments(editors[s])
    <3>1. CommandLineOf(editors[s]) /\ req.project \in Projects
      BY <1>1 DEF SearchInv, ShapeInv, Running, Free
    <3> QED
      BY <1>1, <2>3, <3>1, ArgumentIsProject DEF Hidden
  <2> QED
    BY <2>1, <2>2, <2>3 DEF Launch, Matches
<1>2. SearchInv /\ [Next]_vars =>
        [at = "look" /\ at' = "await" =>
           \A s \in Running : editors[s].project = req.project => Hidden(editors[s])]_vars
  BY <1>1
<1> QED
  BY <1>2, LinesAlways, PTL DEF Spec, SecondEditorOnlyIfHidden
=============================================================================
