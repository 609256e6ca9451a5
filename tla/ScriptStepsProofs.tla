------------------------- MODULE ScriptStepsProofs -------------------------
(***************************************************************************)
(* Proofs about prepared scripts, for any scripts, names, texts, variables *)
(* and any number of plans, steps and edits.                               *)
(***************************************************************************)
EXTENDS ScriptSteps, SequenceTheorems, TLAPS

-----------------------------------------------------------------------------
(* The inductive invariant                                                 *)

(* What has been prepared are the first steps of the plan, and a plan that *)
(* is being run is prepared to its end.                                    *)
PreparedFromPlan ==
  /\ Len(prepared) <= Len(plan)
  /\ \A i \in DOMAIN prepared : prepared[i].vars = plan[i].vars
  /\ at = "wait" => Len(prepared) = Len(plan)

FromPlan(w) ==
  /\ w.asked = w.vars
  /\ w.plan <= plans
  /\ w.plan = plans => /\ Len(prepared) = Len(plan)
                       /\ w.step \in DOMAIN prepared
                       /\ w.source = prepared[w.step].source
SentFromPlan ==
  /\ \A i \in DOMAIN queue : FromPlan(queue[i])
  /\ \A i \in DOMAIN ran : FromPlan(ran[i])

(* The only namespace that may hold names is the running wrapper's, before *)
(* it has cleared it.                                                      *)
NamespacesInv ==
  /\ globals \subseteq ProbeNames \cup {Wrapper}
  /\ inside = "free" => globals \subseteq ProbeNames
  /\ inside # "free" => runs > 0
  /\ \A k \in DOMAIN spaces :
       spaces[k] # {} => k = runs /\ inside \in {"top", "main", "clear"}
  /\ found = {}

(* What the running wrapper has bound and called so far.                   *)
RunningInv ==
  /\ inside = "top" => Space = Fresh(ran[runs].vars) /\ mains = 0
  /\ inside = "main" => /\ mains = 0 /\ Text.compiles /\ Text.raises # "top"
                        /\ Callable(Space) <=> "main" \in Text.binds
  /\ inside \in {"main", "clear"} => OwnNamesOnly
  /\ MainOnce

IInv == TypeOK /\ PreparedFromPlan /\ SentFromPlan /\ NamespacesInv /\ RunningInv

-----------------------------------------------------------------------------
LEMMA InitInv == Init => IInv
<1> SUFFICES ASSUME Init PROVE IInv
  OBVIOUS
<1>1. TypeOK
  BY EmptySeq DEF Init, TypeOK, PlanTypeOK, EditorTypeOK, Places, runs
<1>2. PreparedFromPlan /\ SentFromPlan /\ NamespacesInv
  BY DEF Init, PreparedFromPlan, SentFromPlan, NamespacesInv
<1>3. RunningInv
  BY DEF Init, RunningInv, MainOnce
<1> QED
  BY <1>1, <1>2, <1>3 DEF IInv

(* Steps that leave the Editor alone.                                      *)
LEMMA SameEditor ==
  ASSUME IInv, UNCHANGED editorVars
  PROVE  EditorTypeOK' /\ NamespacesInv' /\ RunningInv'
<1>1. EditorTypeOK' /\ NamespacesInv'
  BY DEF editorVars, IInv, TypeOK, EditorTypeOK, NamespacesInv, runs
<1>2. RunningInv'
  BY DEF editorVars, IInv, RunningInv, OwnNamesOnly, MainOnce, Space, Text, runs
<1> QED
  BY <1>1, <1>2

(* Steps of the Editor that send nothing and enter nothing.                *)
LEMMA SamePlan ==
  ASSUME IInv, UNCHANGED <<disk, planVars, queue, ran>>
  PROVE  PlanTypeOK' /\ PreparedFromPlan' /\ SentFromPlan'
BY DEF planVars, IInv, TypeOK, PlanTypeOK, PreparedFromPlan, SentFromPlan, FromPlan

LEMMA AcceptInv ==
  ASSUME IInv, NEW steps \in Seq(Step), Accept(steps), at' \in {"prepare", "failed"}
  PROVE  IInv'
<1>1. EditorTypeOK' /\ NamespacesInv' /\ RunningInv'
  BY SameEditor DEF Accept
<1>2. TypeOK'
  BY <1>1, EmptySeq DEF Accept, IInv, TypeOK, PlanTypeOK, Places
<1>3. PreparedFromPlan'
  <2>1. Len(steps) \in Nat
    BY LenProperties
  <2> QED
    BY <2>1 DEF Accept, PreparedFromPlan
<1>4. SentFromPlan'
  <2>1. ASSUME NEW w \in Sending, FromPlan(w) PROVE FromPlan(w)'
    BY <2>1 DEF Accept, IInv, TypeOK, PlanTypeOK, FromPlan, Sending
  <2>2. /\ \A i \in DOMAIN queue : queue[i] \in Sending
        /\ \A i \in DOMAIN ran : ran[i] \in Sending
    BY ElementOfSeq, LenProperties DEF IInv, TypeOK, EditorTypeOK
  <2> QED
    BY <2>1, <2>2 DEF Accept, editorVars, IInv, SentFromPlan
<1> QED
  BY <1>1, <1>2, <1>3, <1>4 DEF IInv

LEMMA LeaveInv ==
  ASSUME IInv, NEW place \in Places, Leave(place),
         place = "wait" => Len(prepared) = Len(plan)
  PROVE  IInv'
<1>1. EditorTypeOK' /\ NamespacesInv' /\ RunningInv'
  BY SameEditor DEF Leave
<1>2. TypeOK'
  BY <1>1 DEF Leave, IInv, TypeOK, PlanTypeOK
<1>3. PreparedFromPlan' /\ SentFromPlan'
  BY DEF Leave, editorVars, IInv, PreparedFromPlan, SentFromPlan, FromPlan
<1> QED
  BY <1>1, <1>2, <1>3 DEF IInv

(* The probe adds its own names and nothing else.                          *)
LEMMA ProbedInv ==
  ASSUME IInv, Probed, at' \in Places, at' = "wait" => Len(prepared) = Len(plan)
  PROVE  IInv'
<1>1. EditorTypeOK' /\ NamespacesInv'
  BY DEF Probed, IInv, TypeOK, EditorTypeOK, NamespacesInv, runs
<1>2. RunningInv'
  BY DEF Probed, IInv, RunningInv, OwnNamesOnly, MainOnce, Space, Text, runs
<1>3. TypeOK'
  BY <1>1 DEF Probed, IInv, TypeOK, PlanTypeOK
<1>4. PreparedFromPlan' /\ SentFromPlan'
  BY DEF Probed, IInv, PreparedFromPlan, SentFromPlan, FromPlan
<1> QED
  BY <1>1, <1>2, <1>3, <1>4 DEF IInv

LEMMA PrepareInv ==
  ASSUME IInv, PrepareStep
  PROVE  IInv'
<1> DEFINE item == [source |-> disk[Upcoming.script], vars |-> VariablesOf(Upcoming)]
           Item == [source : Sources, vars : SUBSET Names]
<1>1. EditorTypeOK' /\ NamespacesInv' /\ RunningInv'
  BY SameEditor DEF PrepareStep
<1>2. /\ prepared \in Seq(Item) /\ plan \in Seq(Step)
      /\ Len(prepared) \in Nat /\ Len(plan) \in Nat
  BY LenProperties DEF IInv, TypeOK, PlanTypeOK
<1>3. Upcoming \in Step
  BY <1>2, ElementOfSeq DEF PrepareStep, Upcoming
<1>4. item \in Item
  <2>1. Upcoming.script \in Scripts /\ Upcoming.vars \in VarChoices
    BY <1>3 DEF Step
  <2>2. disk[Upcoming.script] \in Sources
    BY <2>1 DEF IInv, TypeOK, PlanTypeOK, PrepareStep
  <2>3. Upcoming.vars \subseteq Names
    BY <2>1, ConstantsAssumption DEF PrepareStep, Valid
  <2> QED
    BY <2>2, <2>3 DEF VariablesOf
<1>5. /\ prepared' \in Seq(Item)
      /\ Len(prepared') = Len(prepared) + 1
      /\ \A i \in 1..Len(prepared) : prepared'[i] = prepared[i]
      /\ prepared'[Len(prepared) + 1] = item
  <2> HIDE DEF item, Item
  <2> QED
    BY <1>2, <1>4, AppendProperties DEF PrepareStep, item
<1>6. TypeOK'
  BY <1>1, <1>5 DEF PrepareStep, IInv, TypeOK, PlanTypeOK
<1>7. PreparedFromPlan'
  <2>1. DOMAIN prepared' = 1..Len(prepared) + 1 /\ DOMAIN prepared = 1..Len(prepared)
    BY <1>2, <1>5, LenProperties
  <2>2. item.vars = plan[Len(prepared) + 1].vars
    BY DEF VariablesOf, Upcoming
  <2> HIDE DEF item
  <2> QED
    BY <1>2, <1>5, <2>1, <2>2 DEF PrepareStep, IInv, PreparedFromPlan
<1>8. SentFromPlan'
  <2>1. DOMAIN prepared' = 1..Len(prepared) + 1 /\ DOMAIN prepared = 1..Len(prepared)
    BY <1>2, <1>5, LenProperties
  <2>2. ASSUME NEW w, FromPlan(w) PROVE FromPlan(w)'
    BY <1>2, <1>5, <2>1, <2>2 DEF PrepareStep, FromPlan
  <2> QED
    BY <2>2 DEF PrepareStep, editorVars, IInv, SentFromPlan
<1> QED
  BY <1>1, <1>6, <1>7, <1>8 DEF IInv

LEMMA SendInv ==
  ASSUME IInv, Send
  PROVE  IInv'
<1> DEFINE n == Len(results) + 1
           w == [plan |-> plans, step |-> n, asked |-> plan[n].vars,
                 vars |-> prepared[n].vars, source |-> prepared[n].source]
<1>1. /\ n \in DOMAIN prepared /\ n \in DOMAIN plan /\ n \in Nat
      /\ prepared[n] \in [source : Sources, vars : SUBSET Names]
      /\ plan[n] \in Step
      /\ plans \in Nat /\ prepared[n].vars = plan[n].vars
  <2>1. /\ Len(results) \in Nat /\ Len(prepared) \in Nat /\ Len(plan) \in Nat
        /\ DOMAIN prepared = 1..Len(prepared) /\ DOMAIN plan = 1..Len(plan)
    BY LenProperties DEF IInv, TypeOK, PlanTypeOK
  <2>2. n \in 1..Len(prepared) /\ n \in 1..Len(plan)
    BY <2>1 DEF Send, IInv, PreparedFromPlan
  <2> QED
    <3>1. plan[n] \in Step /\ prepared[n] \in [source : Sources, vars : SUBSET Names]
      BY <2>2, ElementOfSeq DEF IInv, TypeOK, PlanTypeOK
    <3>2. n \in DOMAIN prepared /\ n \in DOMAIN plan /\ n \in Nat
      BY <2>1, <2>2
    <3>3. plans \in Nat /\ prepared[n].vars = plan[n].vars
      BY <3>2 DEF IInv, TypeOK, PlanTypeOK, PreparedFromPlan
    <3> QED
      BY <3>1, <3>2, <3>3
<1>2. w \in Sending /\ FromPlan(w)
  <2>1. Len(prepared) = Len(plan)
    BY DEF Send, IInv, PreparedFromPlan
  <2> QED
    BY <1>1, <2>1 DEF Sending, FromPlan, Step
<1>3. queue' = Append(queue, w)
  BY DEF Send, Sent
<1>4. /\ queue \in Seq(Sending) /\ queue' \in Seq(Sending)
      /\ DOMAIN queue = 1..Len(queue) /\ DOMAIN queue' = 1..Len(queue) + 1
      /\ \A i \in 1..Len(queue) : queue'[i] = queue[i]
      /\ queue'[Len(queue) + 1] = w
      /\ Len(queue) \in Nat
  <2> HIDE DEF w
  <2>1. queue \in Seq(Sending)
    BY DEF IInv, TypeOK, EditorTypeOK
  <2> QED
    BY <2>1, <1>2, <1>3, AppendProperties, LenProperties
<1> HIDE DEF w
<1>5. TypeOK'
  BY <1>4 DEF Send, planVars, IInv, TypeOK, PlanTypeOK, EditorTypeOK, runs
<1>6. PreparedFromPlan' /\ NamespacesInv'
  BY DEF Send, planVars, IInv, PreparedFromPlan, NamespacesInv, runs
<1>7. SentFromPlan'
  BY <1>2, <1>4 DEF Send, planVars, IInv, SentFromPlan, FromPlan
<1>8. RunningInv'
  BY DEF Send, IInv, RunningInv, OwnNamesOnly, MainOnce, Space, Text, runs
<1> QED
  BY <1>5, <1>6, <1>7, <1>8 DEF IInv

LEMMA EnterInv ==
  ASSUME IInv, Enter
  PROVE  IInv'
<1> DEFINE w == Head(queue)
           space == Fresh(w.vars)
<1>1. w \in Sending /\ Tail(queue) \in Seq(Sending) /\ FromPlan(w)
      /\ \A i \in DOMAIN Tail(queue) : FromPlan(Tail(queue)[i])
  <2>1. queue \in Seq(Sending) /\ queue # <<>>
    BY DEF Enter, IInv, TypeOK, EditorTypeOK
  <2>2. /\ DOMAIN queue = 1..Len(queue) /\ Len(queue) \in Nat \ {0}
        /\ w = queue[1]
    BY <2>1, EmptySeq, LenProperties
  <2>3. /\ DOMAIN Tail(queue) = 1..Len(queue) - 1
        /\ \A i \in 1..Len(queue) - 1 : Tail(queue)[i] = queue[i + 1]
    BY <2>1, <2>2, HeadTailProperties, LenProperties
  <2> QED
    BY <2>1, <2>2, <2>3, HeadTailProperties DEF IInv, SentFromPlan
<1>2. space \in SUBSET Bindings
  BY <1>1 DEF Fresh, Sending, Bindings
<1> HIDE DEF w, space
<1>3. /\ ran' \in Seq(Sending) /\ spaces' \in Seq(SUBSET Bindings)
      /\ runs \in Nat /\ runs' = runs + 1 /\ Len(spaces') = runs + 1
      /\ DOMAIN ran = 1..runs /\ DOMAIN ran' = 1..runs + 1
      /\ DOMAIN spaces = 1..runs /\ DOMAIN spaces' = 1..runs + 1
      /\ \A i \in 1..runs : ran'[i] = ran[i] /\ spaces'[i] = spaces[i]
      /\ ran'[runs + 1] = w /\ spaces'[runs + 1] = space
  <2>1. /\ ran \in Seq(Sending) /\ spaces \in Seq(SUBSET Bindings)
        /\ Len(spaces) = runs
    BY DEF IInv, TypeOK, EditorTypeOK
  <2>2. ran' = Append(ran, w) /\ spaces' = Append(spaces, space)
    BY DEF Enter, w, space
  <2>3. /\ ran' \in Seq(Sending) /\ Len(ran') = Len(ran) + 1
        /\ \A i \in 1..Len(ran) : ran'[i] = ran[i]
        /\ ran'[Len(ran) + 1] = w
    BY <1>1, <2>1, <2>2, AppendProperties
  <2>4. /\ spaces' \in Seq(SUBSET Bindings) /\ Len(spaces') = Len(spaces) + 1
        /\ \A i \in 1..Len(spaces) : spaces'[i] = spaces[i]
        /\ spaces'[Len(spaces) + 1] = space
    BY <1>2, <2>1, <2>2, AppendProperties
  <2> QED
    BY <2>1, <2>3, <2>4, LenProperties DEF runs
<1>4. TypeOK'
  <2>1. EditorTypeOK'
    <3>1. queue' \in Seq(Sending) /\ Len(spaces') = runs'
      BY <1>1, <1>3 DEF Enter
    <3>2. callbacks' \subseteq 1..runs'
      BY <1>3 DEF Enter, IInv, TypeOK, EditorTypeOK
    <3>3. inside' = "top" /\ raised' = FALSE /\ mains' = 0
      BY DEF Enter, Goto
    <3> QED
      BY <1>3, <3>1, <3>2, <3>3 DEF EditorTypeOK
  <2> QED
    BY <2>1 DEF Enter, planVars, IInv, TypeOK, PlanTypeOK
<1>5. PreparedFromPlan' /\ SentFromPlan'
  BY <1>1, <1>3 DEF Enter, planVars, IInv, PreparedFromPlan, SentFromPlan, FromPlan
<1>6. NamespacesInv'
  BY <1>3 DEF Enter, Goto, IInv, NamespacesInv
<1>7. RunningInv'
  BY <1>1, <1>3 DEF Enter, Goto, RunningInv, MainOnce, OwnNamesOnly, Space, Text, w, space
<1> QED
  BY <1>4, <1>5, <1>6, <1>7 DEF IInv

(* The statements of the wrapper change the namespace of the last wrapper. *)
LEMMA LastWrapper ==
  ASSUME IInv, inside # "free"
  PROVE  /\ runs \in 1..Len(spaces) /\ runs \in Nat /\ Len(spaces) = runs
         /\ ran[runs] \in Sending /\ FromPlan(ran[runs])
         /\ DOMAIN spaces = 1..runs /\ DOMAIN ran = 1..runs
         /\ Space \in SUBSET Bindings
<1>1. /\ ran \in Seq(Sending) /\ spaces \in Seq(SUBSET Bindings)
      /\ Len(spaces) = runs /\ runs > 0
  BY DEF IInv, TypeOK, EditorTypeOK, NamespacesInv
<1>2. runs \in Nat /\ DOMAIN spaces = 1..runs /\ DOMAIN ran = 1..runs
  BY <1>1, LenProperties DEF runs
<1> QED
  BY <1>1, <1>2, ElementOfSeq DEF Space, IInv, SentFromPlan, runs

LEMMA CompileFailsInv ==
  ASSUME IInv, CompileFails
  PROVE  IInv'
<1>1. EditorTypeOK' /\ NamespacesInv'
  BY DEF CompileFails, Goto, IInv, TypeOK, EditorTypeOK, NamespacesInv, runs
<1>2. PlanTypeOK' /\ PreparedFromPlan' /\ SentFromPlan'
  BY SamePlan DEF CompileFails
<1>3. RunningInv'
  BY LastWrapper DEF CompileFails, Goto, IInv, RunningInv, OwnNamesOnly, MainOnce, Fresh,
     FromPlan, Space, Text, runs
<1> QED
  BY <1>1, <1>2, <1>3 DEF CompileFails, IInv, TypeOK

LEMMA CallMainInv ==
  ASSUME IInv, CallMain
  PROVE  IInv'
<1>1. EditorTypeOK' /\ NamespacesInv'
  BY DEF CallMain, Goto, IInv, TypeOK, EditorTypeOK, NamespacesInv, runs
<1>2. PlanTypeOK' /\ PreparedFromPlan' /\ SentFromPlan'
  BY SamePlan DEF CallMain
<1>3. RunningInv'
  BY DEF CallMain, Goto, IInv, RunningInv, OwnNamesOnly, MainOnce, Space, Text, runs
<1> QED
  BY <1>1, <1>2, <1>3 DEF CallMain, IInv, TypeOK

LEMMA TopLevelInv ==
  ASSUME IInv, TopLevel
  PROVE  IInv'
<1>1. PICK names \in SUBSET Text.binds :
        /\ Text.raises # "top" => names = Text.binds
        /\ spaces' = [spaces EXCEPT ![runs] = Bind(Space, names)]
        /\ mains' = IF /\ Text.guarded /\ Text.raises # "top"
                       /\ ModuleName = "__main__" /\ "main" \in names
                    THEN mains + 1 ELSE mains
  BY DEF TopLevel
<1>2. /\ runs \in 1..Len(spaces) /\ runs \in Nat /\ Len(spaces) = runs
      /\ Text \in Source /\ ran[runs].vars \in SUBSET Names
      /\ ran[runs].asked = ran[runs].vars /\ Space \in SUBSET Bindings
  BY LastWrapper, ConstantsAssumption DEF TopLevel, Text, Sending, FromPlan
<1>3. Space = Fresh(ran[runs].vars) /\ mains = 0 /\ mains' = 0
  BY <1>1 DEF TopLevel, IInv, RunningInv, ModuleName
<1>4. Bind(Space, names) \in SUBSET Bindings
  BY <1>2 DEF Bind, Bindings, Source
<1>5. /\ spaces' \in Seq(SUBSET Bindings) /\ Len(spaces') = runs
      /\ DOMAIN spaces' = DOMAIN spaces
      /\ \A k \in 1..runs : k # runs => spaces'[k] = spaces[k]
      /\ spaces'[runs] = Bind(Space, names)
  BY <1>1, <1>2, <1>4, ExceptSeq DEF IInv, TypeOK, EditorTypeOK
<1>6. EditorTypeOK'
  BY <1>2, <1>3, <1>5 DEF TopLevel, Goto, IInv, TypeOK, EditorTypeOK, runs
<1>7. NamespacesInv'
  BY <1>2, <1>5, LastWrapper DEF TopLevel, Goto, IInv, NamespacesInv, runs
<1>8. PlanTypeOK' /\ PreparedFromPlan' /\ SentFromPlan'
  BY SamePlan DEF TopLevel
<1>9. RunningInv'
  <2>1. Space' = Bind(Space, names) /\ Text' = Text /\ ran' = ran /\ runs' = runs
    BY <1>5 DEF TopLevel, Space, Text, runs
  <2>2. OwnNamesOnly'
    BY <1>2, <1>3, <2>1 DEF OwnNamesOnly, Bind, Fresh
  <2>3. Text.raises # "top" => (Callable(Space)' <=> "main" \in Text.binds)
    BY <1>1, <1>3, <2>1 DEF Callable, Bind, Fresh
  <2>4. MainOnce'
    BY <1>3, <2>1 DEF TopLevel, Goto, MainOnce
  <2> QED
    BY <1>3, <2>1, <2>2, <2>3, <2>4 DEF TopLevel, Goto, RunningInv
<1> QED
  BY <1>6, <1>7, <1>8, <1>9 DEF TopLevel, IInv, TypeOK

LEMMA ClearInv ==
  ASSUME IInv, Clear
  PROVE  IInv'
<1>1. /\ runs \in 1..Len(spaces) /\ runs \in Nat /\ Len(spaces) = runs
  BY LastWrapper DEF Clear
<1>2. /\ spaces' \in Seq(SUBSET Bindings) /\ Len(spaces') = runs
      /\ DOMAIN spaces' = DOMAIN spaces
      /\ \A k \in 1..runs : k # runs => spaces'[k] = spaces[k]
      /\ spaces'[runs] = {}
  BY <1>1, ExceptSeq DEF Clear, Cleared, IInv, TypeOK, EditorTypeOK
<1>3. EditorTypeOK'
  BY <1>1, <1>2 DEF Clear, Goto, IInv, TypeOK, EditorTypeOK, runs
<1>4. NamespacesInv'
  BY <1>1, <1>2, LastWrapper DEF Clear, Goto, IInv, NamespacesInv, runs
<1>5. PlanTypeOK' /\ PreparedFromPlan' /\ SentFromPlan'
  BY SamePlan DEF Clear
<1>6. RunningInv'
  BY DEF Clear, Goto, RunningInv, MainOnce
<1> QED
  BY <1>3, <1>4, <1>5, <1>6 DEF Clear, IInv, TypeOK

LEMMA DropInv ==
  ASSUME IInv, Drop
  PROVE  IInv'
<1>1. EditorTypeOK'
  BY DEF Drop, Goto, IInv, TypeOK, EditorTypeOK, runs
<1>2. NamespacesInv'
  BY DEF Drop, Goto, Deleted, IInv, NamespacesInv, runs
<1>3. PlanTypeOK' /\ PreparedFromPlan' /\ SentFromPlan'
  BY SamePlan DEF Drop
<1>4. results' \in Seq(BOOLEAN)
  <2>1. Append(results, ~raised) \in Seq(BOOLEAN)
    <3>1. results \in Seq(BOOLEAN) /\ (~raised) \in BOOLEAN
      BY Zenon DEF IInv, TypeOK
    <3> QED
      BY <3>1, AppendProperties, Zenon
  <2> QED
    BY <2>1 DEF Drop, IInv, TypeOK
<1>5. RunningInv'
  BY DEF Drop, Goto, RunningInv, MainOnce
<1> QED
  BY <1>1, <1>2, <1>3, <1>4, <1>5 DEF IInv, TypeOK

LEMMA LateCallInv ==
  ASSUME IInv, LateCall
  PROVE  IInv'
<1>1. EditorTypeOK'
  BY DEF LateCall, IInv, TypeOK, EditorTypeOK, runs
<1>2. NamespacesInv'
  <2>1. PICK k \in callbacks : found' = found \cup spaces[k]
    BY DEF LateCall
  <2>2. k \in DOMAIN spaces
    BY <2>1, LenProperties DEF IInv, TypeOK, EditorTypeOK
  <2>3. spaces[k] = {}
    BY <2>2 DEF LateCall, IInv, NamespacesInv
  <2> QED
    BY <2>1, <2>3 DEF LateCall, IInv, NamespacesInv, runs
<1>3. PlanTypeOK' /\ PreparedFromPlan' /\ SentFromPlan'
  BY SamePlan DEF LateCall
<1>4. RunningInv'
  BY DEF LateCall, RunningInv, MainOnce
<1> QED
  BY <1>1, <1>2, <1>3, <1>4 DEF LateCall, IInv, TypeOK

LEMMA EditorExitsInv ==
  ASSUME IInv, EditorExits
  PROVE  IInv'
<1>1. /\ spaces \in Seq(SUBSET Bindings) /\ Len(spaces) = runs /\ runs \in Nat
      /\ DOMAIN spaces = 1..runs
  BY LenProperties DEF IInv, TypeOK, EditorTypeOK
<1>2. spaces' \in [1..runs -> SUBSET Bindings]
  BY <1>1 DEF EditorExits
<1>3. /\ spaces' \in Seq(SUBSET Bindings) /\ Len(spaces') = runs
      /\ \A k \in DOMAIN spaces' : spaces'[k] = {}
  <2>1. spaces' \in Seq(SUBSET Bindings)
    BY <1>1, <1>2, SeqDef
  <2>2. DOMAIN spaces' = 1..Len(spaces') /\ Len(spaces') \in Nat
    BY <2>1, LenProperties
  <2> QED
    BY <1>1, <1>2, <2>1, <2>2 DEF EditorExits
<1>4. EditorTypeOK'
  BY <1>3, EmptySeq DEF EditorExits, Goto, IInv, TypeOK, EditorTypeOK, runs
<1>5. NamespacesInv'
  BY <1>3 DEF EditorExits, Goto, IInv, NamespacesInv
<1>6. PlanTypeOK' /\ PreparedFromPlan' /\ SentFromPlan'
  BY DEF EditorExits, IInv, TypeOK, PlanTypeOK, Places, PreparedFromPlan, SentFromPlan, FromPlan
<1>7. RunningInv'
  BY DEF EditorExits, Goto, RunningInv, MainOnce
<1> QED
  BY <1>4, <1>5, <1>6, <1>7 DEF EditorExits, IInv, TypeOK

LEMMA EditInv ==
  ASSUME IInv, EditScript \/ UNCHANGED vars
  PROVE  IInv'
<1>1. EditorTypeOK' /\ NamespacesInv' /\ RunningInv'
  BY SameEditor DEF EditScript, vars
<1>2. disk' \in [Scripts -> Sources \cup {NoFile}]
  BY DEF EditScript, vars, IInv, TypeOK, PlanTypeOK
<1>3. TypeOK' /\ PreparedFromPlan' /\ SentFromPlan'
  BY <1>1, <1>2 DEF EditScript, vars, planVars, editorVars, IInv, TypeOK, PlanTypeOK,
     PreparedFromPlan, SentFromPlan, FromPlan
<1> QED
  BY <1>1, <1>3 DEF IInv

LEMMA StepInv == IInv /\ [Next]_vars => IInv'
<1> SUFFICES ASSUME IInv, [Next]_vars PROVE IInv'
  OBVIOUS
<1>1. ASSUME ReadPlan PROVE IInv'
  <2>1. PICK steps : /\ Accept(steps) /\ at' \in {"prepare", "failed"}
                     /\ \/ steps = <<>>
                        \/ \E n \in 1..MaxSteps : steps \in [1..n -> Step]
    BY <1>1 DEF ReadPlan
  <2>2. steps \in Seq(Step)
    <3>1. CASE steps = <<>>
      BY <3>1, EmptySeq
    <3>2. ASSUME NEW n \in 1..MaxSteps, steps \in [1..n -> Step]
          PROVE  steps \in Seq(Step)
      BY <3>2, SeqDef, ConstantsAssumption
    <3> QED
      BY <2>1, <3>1, <3>2
  <2> QED
    BY <2>1, <2>2, AcceptInv
<1>2. ASSUME Inject PROVE IInv'
  <2>1. PICK given \in SUBSET {"json", "file", "legacy"}, step \in Step :
          LET variables == IF given = {} THEN {} ELSE step.vars IN
          /\ Accept(<<[step EXCEPT !.vars = variables]>>)
          /\ at' = IF Cardinality(given) > 1 \/ ~Valid(variables) THEN "failed"
                   ELSE "prepare"
    BY <1>2 DEF Inject
  <2> DEFINE variables == IF given = {} THEN {} ELSE step.vars
             item == [step EXCEPT !.vars = variables]
  <2>2. item \in Step
    BY ConstantsAssumption DEF Step
  <2>3. <<item>> \in Seq(Step)
    BY <2>2
  <2> QED
    BY <2>1, <2>3, AcceptInv
<1>3. ASSUME PlanFails \/ LoseTrack \/ Return PROVE IInv'
  <2>1. PICK place \in Places : /\ Leave(place)
                                /\ place = "wait" => Len(prepared) = Len(plan)
    BY <1>3 DEF PlanFails, LoseTrack, Return, Places
  <2> QED
    BY <2>1, LeaveInv
<1>4. ASSUME Dispatch \/ Verify PROVE IInv'
  <2>1. Probed /\ at' \in Places
    BY <1>4 DEF Dispatch, Verify, Places, IInv, TypeOK, PlanTypeOK
  <2>2. at' = "wait" => Len(prepared) = Len(plan)
    BY <1>4 DEF Dispatch, Verify, Ready, IInv, PreparedFromPlan
  <2> QED
    BY <2>1, <2>2, ProbedInv
<1> QED
  BY <1>1, <1>2, <1>3, <1>4, PrepareInv, SendInv, EnterInv, CompileFailsInv, TopLevelInv,
     CallMainInv, ClearInv, DropInv, LateCallInv, EditorExitsInv, EditInv DEF Next

(* The plan's steps, the wrappers and their namespaces keep their types.   *)
THEOREM Typed == Spec => []TypeOK
<1>1. IInv => TypeOK
  BY DEF IInv
<1> QED
  BY <1>1, InitInv, StepInv, PTL DEF Spec

(* However a script ends, the Editor's persistent namespace has nothing of *)
(* it when the next one is entered: only the names of the identity probe.  *)
THEOREM GlobalsStayClean == Spec => []GlobalsClean
<1>1. IInv => GlobalsClean
  BY DEF IInv, NamespacesInv, GlobalsClean
<1> QED
  BY <1>1, InitInv, StepInv, PTL DEF Spec

(* No name of an earlier step, plan or injection is visible to a script.   *)
THEOREM ScriptsAreIsolated == Spec => []OwnNamesOnly
<1>1. IInv => OwnNamesOnly
  <2> SUFFICES ASSUME IInv, inside # "free" PROVE OwnNamesOnly
    BY DEF OwnNamesOnly
  <2>1. CASE inside = "top"
    <3>1. Space = Fresh(ran[runs].vars) /\ ran[runs].asked = ran[runs].vars
      BY <2>1, LastWrapper DEF IInv, RunningInv, FromPlan
    <3> QED
      BY <3>1 DEF OwnNamesOnly, Fresh
  <2>2. CASE inside \in {"main", "clear"}
    BY <2>2 DEF IInv, RunningInv
  <2>3. CASE inside = "drop"
    <3>1. Space = {}
      BY <2>3, LastWrapper DEF IInv, NamespacesInv, Space
    <3> QED
      BY <3>1 DEF OwnNamesOnly
  <2> QED
    BY <2>1, <2>2, <2>3 DEF IInv, TypeOK, EditorTypeOK
<1> QED
  BY <1>1, InitInv, StepInv, PTL DEF Spec

(* main runs exactly once in a script that defines it and gets that far.   *)
THEOREM MainRunsOnce == Spec => []MainOnce
<1>1. IInv => MainOnce
  BY DEF IInv, RunningInv
<1> QED
  BY <1>1, InitInv, StepInv, PTL DEF Spec

(* A function left behind in the Editor finds no script's names.           *)
THEOREM LateCodeIsEmptyHanded == Spec => []LateCodeFindsNothing
<1>1. IInv => LateCodeFindsNothing
  BY DEF IInv, NamespacesInv, LateCodeFindsNothing
<1> QED
  BY <1>1, InitInv, StepInv, PTL DEF Spec

(* A plan is prepared to its end before its first step is sent, and runs   *)
(* the texts that were read then.                                          *)
THEOREM PlanIsFixed == Spec => []RunsWhatWasPrepared
<1>1. IInv => RunsWhatWasPrepared
  BY DEF IInv, SentFromPlan, FromPlan, RunsWhatWasPrepared
<1> QED
  BY <1>1, InitInv, StepInv, PTL DEF Spec
=============================================================================
