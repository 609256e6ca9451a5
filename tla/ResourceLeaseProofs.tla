------------------------ MODULE ResourceLeaseProofs ------------------------
(***************************************************************************)
(* Proofs about the polled file lock, for any processes, any timeouts and  *)
(* any poll interval.                                                      *)
(***************************************************************************)
EXTENDS ResourceLease, TLAPS

(* The byte lock belongs to the one process that acquire let in.           *)
OwnerInv == \A p \in Processes : at[p] = "held" <=> locked = p

(* A process that waits has its deadline before it, sleeps no longer than  *)
(* that, and decides to give up at the moment of its last attempt.         *)
TimesInv ==
  \A p \in Processes :
    /\ at[p] \in Waiting => now <= deadline[p]
    /\ at[p] = "asleep" => now <= wake[p] /\ wake[p] <= deadline[p]
    /\ at[p] = "check" => failed[p] = now
    /\ at[p] \notin Waiting => failed[p] = Never

LeaseInv == TypeOK /\ OwnerInv /\ TimesInv

-----------------------------------------------------------------------------
LEMMA Numbers ==
  /\ PollInterval \in Nat /\ 0 < PollInterval /\ MaxTime \in Nat
  /\ Never \in Nat /\ MaxTime < Never
  /\ \A timeout \in Timeouts : timeout \in Nat
  /\ NoOne \notin Processes
  BY ConstantsAssumption DEF Never

LEMMA InitInv == Init => LeaseInv
  BY Numbers DEF Init, LeaseInv, TypeOK, OwnerInv, TimesInv, Places, Waiting

(* The last sleep is cut to what is left: it neither ends in the past nor  *)
(* after the deadline.                                                     *)
LEMMA SleepsToDeadline ==
  ASSUME now \in Nat, NEW d \in Nat, now < d
  PROVE  /\ now + Min2(PollInterval, d - now) \in Nat
         /\ now <= now + Min2(PollInterval, d - now)
         /\ now + Min2(PollInterval, d - now) <= d
  BY Numbers DEF Min2

(* Opening the file, with or without its first byte.                       *)
LEMMA OpeningKeeps ==
  ASSUME LeaseInv, NEW p \in Processes,
         Acquire(p) \/ OpenNew(p) \/ Primes(p)
  PROVE  LeaseInv'
<1> USE DEF fileVars
<1>1. CASE Acquire(p) \/ WriteByte(p)
  <2>1. /\ at[p] \in {"idle", "append"} /\ at' = [at EXCEPT ![p] = "attempt"]
        /\ UNCHANGED <<now, locked, wake, failed>>
    BY <1>1 DEF Acquire, WriteByte, Begin, Goto
  <2>2. PICK timeout \in Timeouts :
          now + timeout <= MaxTime /\ deadline' = [deadline EXCEPT ![p] = now + timeout]
    BY <1>1 DEF Acquire, WriteByte, Begin
  <2>3. /\ now \in Nat /\ timeout \in Nat /\ now + timeout \in 0..MaxTime
        /\ now <= now + timeout
    BY <2>2, Numbers DEF LeaseInv, TypeOK
  <2>4. deadline' \in [Processes -> 0..MaxTime] /\ deadline'[p] = now + timeout
    BY <2>2, <2>3 DEF LeaseInv, TypeOK
  <2>5. bytes' \in Nat /\ end' \in [Processes -> 0..bytes']
    <3>1. CASE Acquire(p)
      BY <3>1 DEF Acquire, LeaseInv, TypeOK
    <3>2. CASE WriteByte(p)
      <4>1. bytes \in Nat /\ end[p] \in Nat /\ end[p] <= bytes
        BY DEF LeaseInv, TypeOK
      <4>2. bytes' \in Nat /\ bytes <= bytes'
        BY <3>2, <4>1 DEF WriteByte
      <4>3. end' = [end EXCEPT ![p] = 0]
        BY <3>2 DEF WriteByte
      <4>4. \A q \in Processes : end[q] \in 0..bytes'
        BY <4>1, <4>2 DEF LeaseInv, TypeOK
      <4> QED
        BY <4>2, <4>3, <4>4 DEF LeaseInv, TypeOK
    <3> QED
      BY <1>1, <3>1, <3>2
  <2>6. TypeOK'
    BY <2>1, <2>4, <2>5 DEF LeaseInv, TypeOK, Places
  <2>7. OwnerInv'
    BY <2>1 DEF LeaseInv, TypeOK, OwnerInv
  <2>8. TimesInv'
    BY <2>1, <2>2, <2>3, <2>4 DEF LeaseInv, TypeOK, TimesInv, Waiting
  <2> QED
    BY <2>6, <2>7, <2>8 DEF LeaseInv
<1>2. CASE OpenNew(p) \/ SeekEnd(p) \/ WriteRaises(p)
  <2>1. /\ at[p] \in {"idle", "prime", "append"}
        /\ \E place \in {"idle", "prime", "append"} : at' = [at EXCEPT ![p] = place]
        /\ UNCHANGED <<now, locked, deadline, wake, bytes, failed>>
        /\ end' = end \/ end' = [end EXCEPT ![p] = bytes]
    BY <1>2 DEF OpenNew, SeekEnd, WriteRaises, Goto
  <2>2. end' \in [Processes -> 0..bytes]
    BY <2>1 DEF LeaseInv, TypeOK
  <2>3. TypeOK'
    BY <2>1, <2>2 DEF LeaseInv, TypeOK, Places
  <2>4. OwnerInv' /\ TimesInv'
    BY <2>1 DEF LeaseInv, TypeOK, OwnerInv, TimesInv, Waiting
  <2> QED
    BY <2>3, <2>4 DEF LeaseInv
<1> QED
  BY <1>1, <1>2 DEF Primes

(* Polling: attempts, sleeps, and their end.                               *)
LEMMA PollingKeeps ==
  ASSUME LeaseInv, NEW p \in Processes,
         LockSucceeds(p) \/ LockFails(p) \/ GiveUp(p) \/ Sleep(p) \/ Wake(p)
  PROVE  LeaseInv'
<1> USE DEF fileVars
<1>1. now \in Nat /\ now <= MaxTime /\ deadline[p] \in Nat /\ deadline[p] <= MaxTime
  BY Numbers DEF LeaseInv, TypeOK
<1>2. CASE LockSucceeds(p) \/ GiveUp(p)
  <2>1. /\ UNCHANGED <<now, bytes, end>>
        /\ deadline' = [deadline EXCEPT ![p] = 0] /\ wake' = [wake EXCEPT ![p] = 0]
        /\ failed' = [failed EXCEPT ![p] = Never]
        /\ \/ at' = [at EXCEPT ![p] = "held"] /\ locked = NoOne /\ locked' = p
           \/ at' = [at EXCEPT ![p] = "idle"] /\ locked' = locked /\ at[p] = "check"
    BY <1>2 DEF LockSucceeds, GiveUp, Goto, Forget
  <2>2. TypeOK'
    BY <2>1, Numbers DEF LeaseInv, TypeOK, Places
  <2>3. OwnerInv'
    BY <2>1, Numbers DEF LeaseInv, TypeOK, OwnerInv
  <2>4. TimesInv'
    BY <2>1 DEF LeaseInv, TypeOK, TimesInv, Waiting
  <2> QED
    BY <2>2, <2>3, <2>4 DEF LeaseInv
<1>3. CASE LockFails(p)
  <2>1. /\ at[p] = "attempt" /\ at' = [at EXCEPT ![p] = "check"]
        /\ failed' = [failed EXCEPT ![p] = now]
        /\ UNCHANGED <<now, locked, deadline, wake, bytes, end>>
    BY <1>3 DEF LockFails, Goto
  <2>2. TypeOK'
    BY <1>1, <2>1, Numbers DEF LeaseInv, TypeOK, Places
  <2>3. OwnerInv' /\ TimesInv'
    BY <2>1 DEF LeaseInv, TypeOK, OwnerInv, TimesInv, Waiting
  <2> QED
    BY <2>2, <2>3 DEF LeaseInv
<1>4. CASE Sleep(p)
  <2> DEFINE until == now + Min2(PollInterval, deadline[p] - now)
  <2>1. /\ at[p] = "check" /\ at' = [at EXCEPT ![p] = "asleep"]
        /\ now < deadline[p] /\ wake' = [wake EXCEPT ![p] = until]
        /\ UNCHANGED <<now, locked, deadline, bytes, end, failed>>
    BY <1>4 DEF Sleep, Goto
  <2>2. until \in Nat /\ now <= until /\ until <= deadline[p]
    BY <1>1, <2>1, SleepsToDeadline
  <2> HIDE DEF until
  <2>3. TypeOK'
    BY <1>1, <2>1, <2>2, Numbers DEF LeaseInv, TypeOK, Places
  <2>4. OwnerInv' /\ TimesInv'
    BY <2>1, <2>2 DEF LeaseInv, TypeOK, OwnerInv, TimesInv, Waiting
  <2> QED
    BY <2>3, <2>4 DEF LeaseInv
<1>5. CASE Wake(p)
  <2>1. /\ at[p] = "asleep" /\ at' = [at EXCEPT ![p] = "attempt"]
        /\ UNCHANGED <<now, locked, deadline, wake, bytes, end, failed>>
    BY <1>5 DEF Wake, Goto
  <2>2. TypeOK'
    BY <2>1 DEF LeaseInv, TypeOK, Places
  <2>3. OwnerInv' /\ TimesInv'
    BY <2>1 DEF LeaseInv, TypeOK, OwnerInv, TimesInv, Waiting
  <2> QED
    BY <2>2, <2>3 DEF LeaseInv
<1> QED
  BY <1>2, <1>3, <1>4, <1>5

(* A holder that releases or dies gives the byte lock back.                *)
LEMMA LeavingKeeps ==
  ASSUME LeaseInv, NEW p \in Processes, Release(p) \/ Exit(p)
  PROVE  LeaseInv'
<1> USE DEF fileVars
<1>1. CASE Release(p)
  <2>1. /\ at[p] = "held" /\ locked' = NoOne /\ at' = [at EXCEPT ![p] = "idle"]
        /\ UNCHANGED <<now, deadline, wake, bytes, end, failed>>
    BY <1>1 DEF Release, Goto
  <2>2. locked = p
    BY <2>1 DEF LeaseInv, OwnerInv
  <2>3. TypeOK'
    BY <2>1 DEF LeaseInv, TypeOK, Places
  <2>4. OwnerInv'
    BY <2>1, <2>2, Numbers DEF LeaseInv, TypeOK, OwnerInv
  <2>5. TimesInv'
    BY <2>1 DEF LeaseInv, TypeOK, TimesInv, Waiting
  <2> QED
    BY <2>3, <2>4, <2>5 DEF LeaseInv
<1>2. CASE Exit(p)
  <2>1. /\ UNCHANGED <<now, bytes, end>> /\ at' = [at EXCEPT ![p] = "dead"]
        /\ deadline' = [deadline EXCEPT ![p] = 0] /\ wake' = [wake EXCEPT ![p] = 0]
        /\ failed' = [failed EXCEPT ![p] = Never]
        /\ locked' = IF locked = p THEN NoOne ELSE locked
    BY <1>2 DEF Exit, Goto, Forget
  <2>2. TypeOK'
    BY <2>1, Numbers DEF LeaseInv, TypeOK, Places
  <2>3. OwnerInv'
    BY <2>1, Numbers DEF LeaseInv, TypeOK, OwnerInv
  <2>4. TimesInv'
    BY <2>1 DEF LeaseInv, TypeOK, TimesInv, Waiting
  <2> QED
    BY <2>2, <2>3, <2>4 DEF LeaseInv
<1> QED
  BY <1>1, <1>2

(* The clock does not run past a sleeper, nor past a decision.             *)
LEMMA TickKeeps ==
  ASSUME LeaseInv, Tick
  PROVE  LeaseInv'
<1>1. /\ now < MaxTime /\ now' = now + 1 /\ now \in Nat
      /\ \A p \in Processes : /\ at[p] \notin {"attempt", "check"}
                              /\ at[p] = "asleep" => now < wake[p]
      /\ UNCHANGED <<locked, at, deadline, wake, bytes, end, failed>>
  BY Numbers DEF Tick, fileVars, LeaseInv, TypeOK
<1>2. TypeOK'
  BY <1>1, Numbers DEF LeaseInv, TypeOK
<1>3. OwnerInv'
  BY <1>1 DEF LeaseInv, OwnerInv
<1>4. TimesInv'
  <2> SUFFICES ASSUME NEW p \in Processes, at[p] = "asleep"
               PROVE  now + 1 <= wake[p] /\ now + 1 <= deadline[p]
    BY <1>1 DEF LeaseInv, TimesInv, Waiting
  <2>1. now < wake[p] /\ wake[p] <= deadline[p]
    BY <1>1 DEF LeaseInv, TimesInv
  <2>2. wake[p] \in Nat /\ deadline[p] \in Nat
    BY Numbers DEF LeaseInv, TypeOK
  <2> QED
    BY <1>1, <2>1, <2>2
<1> QED
  BY <1>2, <1>3, <1>4 DEF LeaseInv

LEMMA StepKeeps == LeaseInv /\ [Next]_vars => LeaseInv'
<1> SUFFICES ASSUME LeaseInv, [Next]_vars
             PROVE  LeaseInv'
  OBVIOUS
<1>1. CASE Tick
  BY <1>1, TickKeeps
<1>2. ASSUME NEW p \in Processes,
             Acquire(p) \/ OpenNew(p) \/ Polls(p) \/ Release(p) \/ Exit(p)
      PROVE  LeaseInv'
  BY <1>2, OpeningKeeps, PollingKeeps, LeavingKeeps DEF Polls
<1>3. CASE UNCHANGED vars
  BY <1>3 DEF LeaseInv, TypeOK, OwnerInv, TimesInv, vars, fileVars
<1> QED
  BY <1>1, <1>2, <1>3 DEF Next

LEMMA Inductive == Spec => []LeaseInv
<1>1. LeaseInv /\ [Next]_vars => LeaseInv'
  BY StepKeeps
<1> QED
  BY InitInv, <1>1, PTL DEF Spec

-----------------------------------------------------------------------------
(* Every variable keeps its type; the file never shrinks below an end that *)
(* a process has found.                                                    *)
THEOREM LeaseTypes == Spec => []TypeOK
<1>1. LeaseInv => TypeOK
  BY DEF LeaseInv
<1> QED
  BY Inductive, <1>1, PTL

(* For any poll interval: acquire is never still polling after its deadline*)
(* because it slept past it.                                               *)
THEOREM InTime == Spec => []NoWaitPastDeadline
<1>1. LeaseInv => NoWaitPastDeadline
  BY DEF LeaseInv, TimesInv, NoWaitPastDeadline
<1> QED
  BY Inductive, <1>1, PTL

(* A request is turned away for a lease that was taken at its deadline, and*)
(* before that only by the first byte of a new lock file (acquire).        *)
THEOREM RefusedForReason == Spec => RefusedOnlyIfTakenAtDeadline
<1> DEFINE Refused(p) ==
      /\ at[p] \in Waiting /\ at'[p] = "idle" => failed[p] \in deadline[p]..MaxTime
      /\ at[p] \in Priming /\ at'[p] = "idle" => locked # NoOne
<1>1. ASSUME LeaseInv, [Next]_vars, NEW p \in Processes, at'[p] = "idle",
             at[p] \in Waiting \cup Priming
      PROVE  GiveUp(p) \/ WriteRaises(p)
  <2>1. at \in [Processes -> Places] /\ at'[p] # at[p]
    BY <1>1 DEF LeaseInv, TypeOK, Waiting, Priming
  <2>2. PICK q \in Processes :
          Acquire(q) \/ OpenNew(q) \/ Polls(q) \/ Release(q) \/ Exit(q)
    BY <1>1, <2>1 DEF Next, Tick, vars
  <2>3. q = p
    BY <2>1, <2>2 DEF Acquire, OpenNew, Polls, Primes, SeekEnd, WriteByte, WriteRaises,
                      Begin, LockSucceeds, LockFails, GiveUp, Sleep, Wake, Release,
                      Exit, Goto
  <2> QED
    BY <1>1, <2>1, <2>2, <2>3
       DEF Acquire, OpenNew, Polls, Primes, SeekEnd, WriteByte, Begin, LockSucceeds,
           LockFails, Sleep, Wake, Release, Exit, Goto, Waiting, Priming
<1>2. ASSUME LeaseInv, [Next]_vars, NEW p \in Processes
      PROVE  Refused(p)
  <2>1. CASE GiveUp(p)
    <3>1. at[p] = "check" /\ now >= deadline[p] /\ failed[p] = now
      BY <1>2, <2>1 DEF GiveUp, LeaseInv, TimesInv
    <3>2. now \in Nat /\ now <= MaxTime /\ deadline[p] \in Nat
      BY <1>2, Numbers DEF LeaseInv, TypeOK
    <3> QED
      BY <3>1, <3>2, Numbers DEF Priming
  <2>2. CASE WriteRaises(p)
    BY <2>2 DEF WriteRaises, LockedByte, Waiting
  <2>3. CASE ~GiveUp(p) /\ ~WriteRaises(p)
    BY <1>1, <1>2, <2>3
  <2> QED
    BY <2>1, <2>2, <2>3
<1>3. LeaseInv /\ [Next]_vars => [\A p \in Processes : Refused(p)]_vars
  BY <1>2
<1> QED
  BY Inductive, <1>3, PTL DEF Spec, RefusedOnlyIfTakenAtDeadline

-----------------------------------------------------------------------------
(* The refinement of module Lease                                          *)

(* One process goes from place to place: its phase follows.                *)
LEMMA PhaseFollows ==
  ASSUME at \in [Processes -> Places], NEW p \in Processes, NEW place \in Places,
         at' = [at EXCEPT ![p] = place]
  PROVE  /\ Phase' = [Phase EXCEPT ![p] = PhaseAt(place)]
         /\ Phase[p] = PhaseAt(at[p])
         /\ PhaseAt(place) = PhaseAt(at[p]) => Phase' = Phase
<1>1. \A q \in Processes : at'[q] = IF q = p THEN place ELSE at[q]
  OBVIOUS
<1>2. Phase' = [q \in Processes |-> IF q = p THEN PhaseAt(place) ELSE PhaseAt(at[q])]
  BY <1>1 DEF Phase
<1> QED
  BY <1>2 DEF Phase

LEMMA PhaseNames ==
  /\ PhaseAt("idle") = "out" /\ PhaseAt("held") = "in" /\ PhaseAt("dead") = "dead"
  /\ \A place \in Priming \cup Waiting : PhaseAt(place) = "waiting"
  /\ \A place \in Places : PhaseAt(place) = "dead" => place = "dead"
  BY DEF PhaseAt, Priming, Waiting, Places

LEMMA RefinesInit == Init => Promise!Init
<1> SUFFICES ASSUME Init
             PROVE  Promise!Init
  OBVIOUS
<1>1. Phase = [p \in Processes |-> "out"]
  BY PhaseNames DEF Init, Phase
<1>2. Blocked = [p \in Processes |-> FALSE]
  BY DEF Init, Blocked, Waiting
<1> QED
  BY <1>1, <1>2 DEF Init, Promise!Init

LEMMA BlockedFollows ==
  ASSUME at \in [Processes -> Places], failed \in [Processes -> 0..Never],
         NEW p \in Processes, NEW place \in Places, NEW time \in 0..Never,
         at' = [at EXCEPT ![p] = place], failed' = [failed EXCEPT ![p] = time]
  PROVE  /\ Blocked' = [Blocked EXCEPT ![p] = (place \in Waiting /\ time # Never)]
         /\ Blocked[p] = (at[p] \in Waiting /\ failed[p] # Never)
<1>1. \A q \in Processes : /\ at'[q] = IF q = p THEN place ELSE at[q]
                           /\ failed'[q] = IF q = p THEN time ELSE failed[q]
  OBVIOUS
<1>2. Blocked' = [q \in Processes |->
                    IF q = p THEN place \in Waiting /\ time # Never
                    ELSE at[q] \in Waiting /\ failed[q] # Never]
  BY <1>1 DEF Blocked
<1> QED
  BY <1>2 DEF Blocked

(* A step of one process with its effects on the abstract state.           *)
LEMMA StepIsLeaseStep ==
  ASSUME LeaseInv, NEW p \in Processes,
         Acquire(p) \/ OpenNew(p) \/ Polls(p) \/ Release(p) \/ Exit(p)
  PROVE  [Promise!Next]_Promise!leaseVars
<1> DEFINE place == at'[p]
           time == failed'[p]
<1>1. /\ at \in [Processes -> Places] /\ failed \in [Processes -> 0..Never]
      /\ place \in Places /\ time \in 0..Never
      /\ at' = [at EXCEPT ![p] = place] /\ failed' = [failed EXCEPT ![p] = time]
  <2>1. LeaseInv'
    BY OpeningKeeps, PollingKeeps, LeavingKeeps DEF Polls
  <2>2. /\ at \in [Processes -> Places] /\ failed \in [Processes -> 0..Never]
        /\ at' \in [Processes -> Places] /\ failed' \in [Processes -> 0..Never]
    BY <2>1 DEF LeaseInv, TypeOK
  <2>3. /\ \E x : at' = [at EXCEPT ![p] = x]
        /\ failed' = failed \/ \E t : failed' = [failed EXCEPT ![p] = t]
    BY DEF Acquire, OpenNew, Polls, Primes, SeekEnd, WriteByte, WriteRaises, Begin,
           LockSucceeds, LockFails, GiveUp, Sleep, Wake, Release, Exit, Goto, Forget
  <2> QED
    BY <2>2, <2>3
<1>2. /\ Phase' = [Phase EXCEPT ![p] = PhaseAt(place)] /\ Phase[p] = PhaseAt(at[p])
      /\ PhaseAt(place) = PhaseAt(at[p]) => Phase' = Phase
  BY <1>1, PhaseFollows
<1>3. /\ Blocked' = [Blocked EXCEPT ![p] = (place \in Waiting /\ time # Never)]
      /\ Blocked[p] = (at[p] \in Waiting /\ failed[p] # Never)
  BY <1>1, BlockedFollows
<1>4. ASSUME Blocked[p] = (place \in Waiting /\ time # Never)
      PROVE  Blocked' = Blocked
  BY <1>3, <1>4 DEF Blocked
<1>5. failed[p] = Never \/ at[p] \in Waiting
  BY DEF LeaseInv, TimesInv
<1>6. CASE Acquire(p) \/ OpenNew(p)
  <2>1. /\ at[p] = "idle" /\ place \in {"attempt", "prime"}
        /\ time = Never /\ locked' = locked
    BY <1>1, <1>5, <1>6 DEF Acquire, OpenNew, Begin, Goto, Waiting
  <2>2. Promise!Ask(p)
    BY <1>2, <1>3, <2>1, PhaseNames DEF Promise!Ask, Priming, Waiting
  <2> QED
    BY <2>2 DEF Promise!Next
<1>7. CASE SeekEnd(p) \/ WriteByte(p)
  <2>1. /\ at[p] \in Priming /\ place \in {"append", "attempt"}
        /\ time = Never /\ locked' = locked
    BY <1>1, <1>5, <1>7 DEF SeekEnd, WriteByte, Begin, Goto, Priming, Waiting
  <2>2. Phase' = Phase
    BY <1>2, <2>1, PhaseNames DEF Priming, Waiting
  <2>3. Blocked' = Blocked
    BY <1>3, <1>4, <1>5, <2>1 DEF Priming, Waiting
  <2> QED
    BY <2>1, <2>2, <2>3 DEF Promise!leaseVars
<1>8. CASE WriteRaises(p) \/ GiveUp(p)
  <2>1. /\ place = "idle" /\ locked' = locked
        /\ \/ at[p] = "append" /\ locked # NoOne
           \/ at[p] = "check" /\ failed[p] = now
    BY <1>1, <1>8
       DEF WriteRaises, LockedByte, GiveUp, Goto, LeaseInv, TimesInv
  <2>2. at[p] = "check" => Blocked[p]
    <3>1. now # Never
      BY Numbers DEF LeaseInv, TypeOK
    <3> QED
      BY <1>3, <2>1, <3>1 DEF Waiting
  <2>3. Promise!TurnAway(p)
    BY <1>2, <1>3, <2>1, <2>2, PhaseNames DEF Promise!TurnAway, Priming, Waiting
  <2> QED
    BY <2>3 DEF Promise!Next
<1>9. CASE LockSucceeds(p)
  <2>1. at[p] = "attempt" /\ place = "held" /\ locked = NoOne /\ locked' = p
    BY <1>1, <1>9 DEF LockSucceeds, Goto
  <2>2. Promise!Enter(p)
    BY <1>2, <1>3, <2>1, PhaseNames DEF Promise!Enter, Waiting
  <2> QED
    BY <2>2 DEF Promise!Next
<1>10. CASE LockFails(p)
  <2>1. /\ at[p] = "attempt" /\ place = "check" /\ locked # NoOne /\ locked' = locked
        /\ time = now /\ now # Never
    BY <1>1, <1>10, Numbers DEF LockFails, Goto, LeaseInv, TypeOK
  <2>2. Promise!Meet(p)
    BY <1>2, <1>3, <2>1, PhaseNames DEF Promise!Meet, Waiting
  <2> QED
    BY <2>2 DEF Promise!Next
<1>11. CASE Sleep(p) \/ Wake(p)
  <2>1. /\ at[p] \in Waiting /\ place \in Waiting
        /\ time = failed[p] /\ locked' = locked
    BY <1>1, <1>11 DEF Sleep, Wake, Goto, Waiting
  <2>2. Phase' = Phase /\ Blocked' = Blocked
    BY <1>2, <1>3, <1>4, <2>1, PhaseNames
  <2> QED
    BY <2>1, <2>2 DEF Promise!leaseVars
<1>12. CASE Release(p)
  <2>1. at[p] = "held" /\ place = "idle" /\ locked' = NoOne
    BY <1>1, <1>12 DEF Release, Goto
  <2>2. Blocked' = Blocked
    BY <1>3, <1>4, <2>1 DEF Waiting
  <2>3. Promise!Leave(p)
    BY <1>2, <2>1, <2>2, PhaseNames DEF Promise!Leave
  <2> QED
    BY <2>3 DEF Promise!Next
<1>13. CASE Exit(p)
  <2>1. /\ at[p] # "dead" /\ place = "dead" /\ at[p] \in Places
        /\ locked' = IF locked = p THEN NoOne ELSE locked
    BY <1>1, <1>13 DEF Exit, Goto
  <2>2. Promise!Die(p)
    BY <1>2, <1>3, <2>1, PhaseNames DEF Promise!Die, Waiting
  <2> QED
    BY <2>2 DEF Promise!Next
<1> QED
  BY <1>6, <1>7, <1>8, <1>9, <1>10, <1>11, <1>12, <1>13 DEF Polls, Primes

(* Polling a byte lock until a deadline is a lease: at most one process is *)
(* inside, nobody is refused a lease that was free since it asked, and the *)
(* lease of a dead process is free.                                        *)
THEOREM LeaseKeepsPromise == Spec => KeepsPromise
<1>1. LeaseInv /\ [Next]_vars => [Promise!Next]_Promise!leaseVars
  <2> SUFFICES ASSUME LeaseInv, [Next]_vars
               PROVE  [Promise!Next]_Promise!leaseVars
    OBVIOUS
  <2>1. CASE Tick \/ UNCHANGED vars
    <3>1. UNCHANGED <<locked, at, failed>>
      BY <2>1 DEF Tick, vars
    <3> QED
      BY <3>1 DEF Promise!leaseVars, Phase, Blocked
  <2>2. ASSUME NEW p \in Processes,
               Acquire(p) \/ OpenNew(p) \/ Polls(p) \/ Release(p) \/ Exit(p)
        PROVE  [Promise!Next]_Promise!leaseVars
    BY <2>2, StepIsLeaseStep
  <2> QED
    BY <2>1, <2>2 DEF Next
<1> QED
  BY Inductive, RefinesInit, <1>1, PTL DEF Spec, KeepsPromise, Promise!Spec
=============================================================================
