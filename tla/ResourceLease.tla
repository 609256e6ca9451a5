--------------------------- MODULE ResourceLease ---------------------------
(***************************************************************************)
(* scripts/resource_lease.py: one lock file that several processes take by *)
(* polling a non-blocking byte lock until a deadline.  A process that      *)
(* exits loses its lock: the operating system closes its handle.           *)
(*                                                                         *)
(* Time is discrete and the program is prompt: the clock does not pass a   *)
(* moment at which some process has a statement to execute.                *)
(***************************************************************************)
EXTENDS Naturals

CONSTANTS
  Processes,
  NoOne,
  Timeouts,       \* timeouts that requests use (8 s in the code)
  PollInterval,   \* poll_interval (0.05 s in the code)
  MaxTime         \* bound: the last moment of the clock

ASSUME ConstantsAssumption ==
  /\ NoOne \notin Processes
  /\ Timeouts \subseteq Nat
  /\ PollInterval \in Nat \ {0}
  /\ MaxTime \in Nat

VARIABLES
  now,       \* time.monotonic()
  locked,    \* owner of the byte lock on the file
  at,        \* where each process is in acquire, or what it has
  deadline,
  wake,      \* end of its time.sleep
  bytes,     \* size of the lock file
  end,       \* where an append found the end of the file
  failed     \* time of the last refused msvcrt.locking, if any (history)

fileVars == <<bytes, end>>
vars == <<now, locked, at, deadline, wake, fileVars, failed>>

Places == {"idle", "prime", "append", "attempt", "check", "asleep", "held", "dead"}
Priming == {"prime", "append"}
Waiting == {"attempt", "check", "asleep"}
Never == MaxTime + 1

Min2(a, b) == IF a < b THEN a ELSE b

Init ==
  /\ now = 0
  /\ locked = NoOne
  /\ at = [p \in Processes |-> "idle"]
  /\ deadline = [p \in Processes |-> 0]
  /\ wake = [p \in Processes |-> 0]
  /\ failed = [p \in Processes |-> Never]
  /\ bytes = 0 /\ end = [p \in Processes |-> 0]

Goto(p, place) == at' = [at EXCEPT ![p] = place]

(* acquire returns or raises, or its process dies: its locals are gone.    *)
Forget(p) ==
  /\ deadline' = [deadline EXCEPT ![p] = 0]
  /\ wake' = [wake EXCEPT ![p] = 0]
  /\ failed' = [failed EXCEPT ![p] = Never]

(* The deadline is fixed, after the file is opened and has its first byte. *)
Begin(p) ==
  /\ \E timeout \in Timeouts :
       /\ now + timeout <= MaxTime
       /\ deadline' = [deadline EXCEPT ![p] = now + timeout]
  /\ Goto(p, "attempt")
  /\ UNCHANGED <<now, locked, wake, failed>>

Acquire(p) == at[p] = "idle" /\ bytes > 0 /\ Begin(p) /\ UNCHANGED fileVars

(* The file is new: the first byte is appended, by a library that looks for*)
(* the end of the file and then writes there.                              *)
OpenNew(p) ==
  /\ at[p] = "idle" /\ bytes = 0
  /\ Goto(p, "prime")
  /\ UNCHANGED <<now, locked, deadline, wake, fileVars, failed>>

SeekEnd(p) ==
  /\ at[p] = "prime"
  /\ end' = [end EXCEPT ![p] = bytes]
  /\ Goto(p, "append")
  /\ UNCHANGED <<now, locked, deadline, wake, bytes, failed>>

LockedByte(p) == end[p] = 0 /\ locked # NoOne

WriteByte(p) ==
  /\ at[p] = "append" /\ ~LockedByte(p)
  /\ bytes' = IF bytes > end[p] THEN bytes ELSE end[p] + 1
  /\ end' = [end EXCEPT ![p] = 0]
  /\ Begin(p)

(* The byte is there by now, and locked: PermissionError, not caught.      *)
WriteRaises(p) ==
  /\ at[p] = "append" /\ LockedByte(p)
  /\ Goto(p, "idle")
  /\ UNCHANGED <<now, locked, deadline, wake, fileVars, failed>>

(* Mutant: the byte lock is not exclusive.                                 *)
MutLockSucceeds(p) ==
  /\ at[p] = "attempt"
  /\ locked' = p
  /\ Goto(p, "held")
  /\ Forget(p)
  /\ UNCHANGED <<now, fileVars>>

LockSucceeds(p) ==
  /\ at[p] = "attempt" /\ locked = NoOne
  /\ locked' = p
  /\ Goto(p, "held")
  /\ Forget(p)
  /\ UNCHANGED <<now, fileVars>>

LockFails(p) ==
  /\ at[p] = "attempt" /\ locked # NoOne
  /\ Goto(p, "check")
  /\ failed' = [failed EXCEPT ![p] = now]
  /\ UNCHANGED <<now, locked, deadline, wake, fileVars>>

(* Mutant: give up when the next poll would miss the deadline.             *)
MutGiveUp(p) ==
  /\ at[p] = "check" /\ now + PollInterval >= deadline[p]
  /\ Goto(p, "idle")
  /\ Forget(p)
  /\ UNCHANGED <<now, locked, fileVars>>

(* Mutant: wait for the moment after the deadline.                         *)
MutGiveUpLate(p) ==
  /\ at[p] = "check" /\ now > deadline[p]
  /\ Goto(p, "idle")
  /\ Forget(p)
  /\ UNCHANGED <<now, locked, fileVars>>

GiveUp(p) ==
  /\ at[p] = "check" /\ now >= deadline[p]
  /\ Goto(p, "idle")
  /\ Forget(p)
  /\ UNCHANGED <<now, locked, fileVars>>

(* Mutant: a full poll interval every time.                                *)
MutSleep(p) ==
  /\ at[p] = "check" /\ now < deadline[p]
  /\ Goto(p, "asleep")
  /\ wake' = [wake EXCEPT ![p] = now + PollInterval]
  /\ UNCHANGED <<now, locked, deadline, fileVars, failed>>

Sleep(p) ==
  /\ at[p] = "check" /\ now < deadline[p]
  /\ Goto(p, "asleep")
  /\ wake' = [wake EXCEPT ![p] = now + Min2(PollInterval, deadline[p] - now)]
  /\ UNCHANGED <<now, locked, deadline, fileVars, failed>>

Wake(p) ==
  /\ at[p] = "asleep" /\ now >= wake[p]
  /\ Goto(p, "attempt")
  /\ UNCHANGED <<now, locked, deadline, wake, fileVars, failed>>

Release(p) ==
  /\ at[p] = "held"
  /\ locked' = NoOne
  /\ Goto(p, "idle")
  /\ UNCHANGED <<now, deadline, wake, fileVars, failed>>

(* Mutant: the lock outlives its process.                                  *)
MutExit(p) ==
  /\ at[p] # "dead"
  /\ Goto(p, "dead")
  /\ Forget(p)
  /\ UNCHANGED <<now, locked, fileVars>>

Exit(p) ==
  /\ at[p] # "dead"
  /\ locked' = IF locked = p THEN NoOne ELSE locked
  /\ Goto(p, "dead")
  /\ Forget(p)
  /\ UNCHANGED <<now, fileVars>>

Tick ==
  /\ now < MaxTime
  /\ \A p \in Processes : /\ at[p] \notin Priming \cup {"attempt", "check"}
                          /\ at[p] = "asleep" => now < wake[p]
  /\ now' = now + 1
  /\ UNCHANGED <<locked, at, deadline, wake, fileVars, failed>>

Primes(p) == SeekEnd(p) \/ WriteByte(p) \/ WriteRaises(p)
Polls(p) ==
  Primes(p) \/ LockSucceeds(p) \/ LockFails(p) \/ GiveUp(p) \/ Sleep(p) \/ Wake(p)

Next ==
  \/ Tick
  \/ \E p \in Processes :
       Acquire(p) \/ OpenNew(p) \/ Polls(p) \/ Release(p) \/ Exit(p)

Spec == Init /\ [][Next]_vars

(* A live process is scheduled and the clock runs; the requests that take  *)
(* and leave the lease in between do so in real time, so infinitely many   *)
(* of them do not fit between two moments.  Nobody has to release.         *)
RequestsTakeTime ==
  ([]<><<\E p \in Processes : Acquire(p) \/ OpenNew(p)>>_vars) => <>(now = MaxTime)

FairSpec ==
  /\ Spec
  /\ RequestsTakeTime
  /\ WF_vars(Tick) /\ \A p \in Processes : WF_vars(Polls(p))

-----------------------------------------------------------------------------
(* Every variable has its type: a sleep never lasts past the last deadline.*)
TypeOK ==
  /\ now \in 0..MaxTime
  /\ locked \in Processes \cup {NoOne}
  /\ at \in [Processes -> Places]
  /\ deadline \in [Processes -> 0..MaxTime]
  /\ wake \in [Processes -> 0..MaxTime]
  /\ failed \in [Processes -> 0..Never]
  /\ bytes \in Nat /\ end \in [Processes -> 0..bytes]

(* acquire answers by its deadline and not a poll interval later: the last *)
(* sleep is cut to what is left of the timeout.                            *)
NoWaitPastDeadline ==
  \A p \in Processes :
    at[p] \in Waiting => now <= deadline[p]

(* A request is turned away only at its deadline, because the lease was    *)
(* taken at that very moment: one released any earlier would have been     *)
(* seen by the last attempt.  Only the first use of a lock file may raise  *)
(* before, when it meets the lease taken.                                  *)
RefusedOnlyIfTakenAtDeadline ==
  [][\A p \in Processes :
       /\ at[p] \in Waiting /\ at'[p] = "idle"
          => failed[p] \in deadline[p]..MaxTime
       /\ at[p] \in Priming /\ at'[p] = "idle" => locked # NoOne]_vars

(* Whoever polls is let in or turned away, even if the holder never leaves *)
EveryPollEnds ==
  \A p \in Processes :
    at[p] \in Priming \cup Waiting ~> at[p] \notin Priming \cup Waiting

PhaseAt(place) ==
  CASE place = "idle" -> "out"
    [] place = "held" -> "in"
    [] place = "dead" -> "dead"
    [] OTHER -> "waiting"
Phase == [p \in Processes |-> PhaseAt(at[p])]
Blocked == [p \in Processes |-> at[p] \in Waiting /\ failed[p] # Never]

(* The polled file lock keeps the promise of module Lease.                 *)
Promise == INSTANCE Lease WITH
  holder <- locked, phase <- Phase, blocked <- Blocked

(* Mutual exclusion, no refusal of a free lease, and recovery from a crash *)
(* are those of the abstract lease, step by step.                          *)
KeepsPromise == Promise!Spec
=============================================================================
