------------------------------- MODULE Lease -------------------------------
(***************************************************************************)
(* What a lease promises to the processes that share it: at most one is    *)
(* inside, one that asks is let in only while nobody is, one is turned     *)
(* away only after it met the lease taken, and the death of a process      *)
(* gives its lease back.  Module ResourceLease implements it with a file   *)
(* lock and polling; module Lifecycle uses it for its two kinds of lease.  *)
(***************************************************************************)
CONSTANTS Processes, NoOne

VARIABLES
  holder,    \* the process inside
  phase,     \* where each process is
  blocked    \* has it met the lease taken since it asked?

leaseVars == <<holder, phase, blocked>>

Init ==
  /\ holder = NoOne
  /\ phase = [p \in Processes |-> "out"]
  /\ blocked = [p \in Processes |-> FALSE]

Ask(p) ==
  /\ phase[p] = "out"
  /\ phase' = [phase EXCEPT ![p] = "waiting"]
  /\ blocked' = [blocked EXCEPT ![p] = FALSE]
  /\ UNCHANGED holder

Meet(p) ==
  /\ phase[p] = "waiting" /\ holder # NoOne
  /\ blocked' = [blocked EXCEPT ![p] = TRUE]
  /\ UNCHANGED <<holder, phase>>

Enter(p) ==
  /\ phase[p] = "waiting" /\ holder = NoOne
  /\ holder' = p
  /\ phase' = [phase EXCEPT ![p] = "in"]
  /\ blocked' = [blocked EXCEPT ![p] = FALSE]

TurnAway(p) ==
  /\ phase[p] = "waiting" /\ (blocked[p] \/ holder # NoOne)
  /\ phase' = [phase EXCEPT ![p] = "out"]
  /\ blocked' = [blocked EXCEPT ![p] = FALSE]
  /\ UNCHANGED holder

Leave(p) ==
  /\ phase[p] = "in"
  /\ holder' = NoOne
  /\ phase' = [phase EXCEPT ![p] = "out"]
  /\ UNCHANGED blocked

Die(p) ==
  /\ phase[p] # "dead"
  /\ holder' = IF holder = p THEN NoOne ELSE holder
  /\ phase' = [phase EXCEPT ![p] = "dead"]
  /\ blocked' = [blocked EXCEPT ![p] = FALSE]

Next == \E p \in Processes :
  Ask(p) \/ Meet(p) \/ Enter(p) \/ TurnAway(p) \/ Leave(p) \/ Die(p)

Spec == Init /\ [][Next]_leaseVars
=============================================================================
