-------------------------- MODULE UnlockGateProofs --------------------------
(***************************************************************************)
(* No cancel is lost between a reader's comparison of the generation and   *)
(* its sleep, for any number of requests and any size of the pool.         *)
(***************************************************************************)
EXTENDS UnlockGate, TLAPS

\* A step that moves no queued request and leaves the queue alone.
LEMMA QueueKept ==
  ASSUME TypeOK, queue' = queue,
         \A q \in Requests : pc[q] = "queued" => pc'[q] = "queued"
  PROVE  QueueOK'
  BY DEF TypeOK, QueueOK

\* A request enters the pool's queue from "new" and leaves it at its head.
LEMMA QueueStep == ASSUME TypeOK, [Next]_vars PROVE QueueOK'
<1>1. ASSUME NEW r \in Requests, Submit(r) PROVE QueueOK'
  <2>1. queue' = Append(queue, r) /\ pc' = [pc EXCEPT ![r] = "queued"]
        /\ pc[r] = "new"
    BY <1>1 DEF Submit, Goto
  <2>2. queue \in Seq(Requests) /\ pc \in [Requests -> ReaderPCs \cup
            UnlockerPCs \cup LockerPCs \cup CancellerPCs] /\ QueueOK
    BY DEF TypeOK
  <2>3. \A i \in 1..Len(queue') :
            IF i = Len(queue') THEN queue'[i] = r
            ELSE i \in 1..Len(queue) /\ queue'[i] = queue[i]
    BY <2>1, <2>2
  <2>4. \A i \in 1..Len(queue) : queue[i] \in Requests \ {r}
    BY <2>1, <2>2 DEF QueueOK
  <2>5. QED
    BY <2>1, <2>2, <2>3, <2>4 DEF QueueOK
<1>2. CASE Dispatch
  <2>1. queue \in Seq(Requests) /\ queue # <<>> /\ queue' = Tail(queue)
        /\ pc' = [pc EXCEPT ![Head(queue)] = First(Head(queue))]
    BY <1>2 DEF Dispatch, Goto, TypeOK
  <2>2. \A i \in 1..Len(queue') : queue'[i] = queue[i+1] /\ i+1 \in 1..Len(queue)
    BY <2>1
  <2>3. Head(queue) = queue[1] /\ 1 \in 1..Len(queue)
    BY <2>1
  <2>4. \A i \in 1..Len(queue') : queue'[i] # Head(queue)
    BY <2>2, <2>3 DEF TypeOK, QueueOK
  <2>5. pc \in [Requests -> ReaderPCs \cup UnlockerPCs \cup LockerPCs
                                \cup CancellerPCs] /\ QueueOK
    BY DEF TypeOK
  <2>6. QED
    BY <2>1, <2>2, <2>4, <2>5 DEF QueueOK
<1>3. ASSUME \/ \E r \in Requests : Acquire(r) \/ Run(r)
             \/ \E r \in Readers : Expire(r) \/ TimeoutWake(r) \/ SpuriousWake(r)
             \/ AutoLock
             \/ UNCHANGED vars
      PROVE  QueueOK'
  <2>1. queue' = queue
    BY <1>3 DEF Acquire, Run, Capture, Reacquire, Bump, Check, Gate, Signal,
       Test, Compare, Sleep, Access, Install, WorkFails, BackoffEnds, Announce,
       Notify, Lock, Expire, TimeoutWake, SpuriousWake, AutoLock, vars
  <2>2. pc \in [Requests -> ReaderPCs \cup UnlockerPCs \cup LockerPCs
                                \cup CancellerPCs]
    BY DEF TypeOK
  <2>3. \A q \in Requests : pc[q] = "queued" => pc'[q] = "queued"
    BY <1>3, <2>2 DEF Acquire, Run, Capture, Reacquire, Bump, Check, Gate,
       Signal, Test, Compare, Sleep, Access, Install, WorkFails, BackoffEnds,
       Announce, Notify, NotifyAll, Lock, Expire, TimeoutWake, SpuriousWake,
       AutoLock, vars, Goto, Answer, Requests, Asking
  <2>4. QED
    BY <2>1, <2>3, QueueKept
<1>4. QED
  BY <1>1, <1>2, <1>3 DEF Next

\* Every step keeps each request at a place of its own handler and the mutex
\* with the reader that is inside the waiting loop.
LEMMA TypeStep == ASSUME TypeOK, [Next]_vars PROVE TypeOK'
<1>0. QueueOK'
  BY QueueStep
<1> USE <1>0, KindsAssumption, PatientAssumption
    DEF TypeOK, Requests, Asking, ReaderPCs, UnlockerPCs, LockerPCs,
        CancellerPCs, Goto
<1>1. ASSUME NEW r \in Requests, Submit(r) PROVE TypeOK'
  BY <1>1 DEF Submit
<1>2. ASSUME NEW r \in Readers, Check(r) PROVE TypeOK'
  <2>1. CASE ~locked
    <3>1. Goto(r, "access") /\ pc[r] = "check"
          /\ UNCHANGED <<locked, gen, owner, queue, start, expired, answer>>
      BY <1>2, <2>1 DEF Check
    <3>2. QED
      BY <3>1
  <2>2. CASE locked /\ r \in Patient
    <3>1. Goto(r, "gate") /\ pc[r] = "check"
          /\ UNCHANGED <<locked, gen, owner, queue, start, expired, answer>>
      BY <1>2, <2>2 DEF Check
    <3>2. QED
      BY <2>2, <3>1
  <2>3. CASE locked /\ r \notin Patient
    <3>1. Answer(r, "locked") /\ pc[r] = "check"
          /\ UNCHANGED <<locked, gen, owner, queue, start, expired>>
      BY <1>2, <2>3 DEF Check
    <3>2. QED
      BY <3>1 DEF Answer
  <2>4. QED
    BY <2>1, <2>2, <2>3
<1>3. ASSUME NEW r \in Readers, Gate(r) PROVE TypeOK'
  BY <1>3 DEF Gate
<1>4. ASSUME NEW r \in Readers, Signal(r) PROVE TypeOK'
  BY <1>4 DEF Signal
<1>5. ASSUME NEW r \in Readers, Capture(r) PROVE TypeOK'
  BY <1>5 DEF Capture
<1>6. ASSUME NEW r \in Readers, Test(r) PROVE TypeOK'
  <2>1. CASE locked
    BY <1>6, <2>1 DEF Test
  <2>2. CASE ~locked
    <3>1. Goto(r, "access") /\ owner' = NoOne /\ pc[r] = "test"
          /\ UNCHANGED <<locked, gen, queue, start, expired, answer>>
      BY <1>6, <2>2 DEF Test
    <3>2. QED
      BY <3>1
  <2>3. QED
    BY <2>1, <2>2
<1>7. ASSUME NEW r \in Readers, Compare(r) PROVE TypeOK'
  <2>1. CASE gen # start[r] \/ expired[r]
    <3>1. Answer(r, "locked") /\ owner' = NoOne /\ pc[r] = "compare"
          /\ UNCHANGED <<locked, gen, queue, start, expired>>
      BY <1>7, <2>1 DEF Compare
    <3>2. QED
      BY <3>1 DEF Answer
  <2>2. CASE gen = start[r] /\ ~expired[r]
    BY <1>7, <2>2 DEF Compare, Answer
  <2>3. QED
    BY <2>1, <2>2
<1>8. ASSUME NEW r \in Readers, Sleep(r) PROVE TypeOK'
  BY <1>8 DEF Sleep
<1>9. ASSUME NEW r \in Readers, Expire(r) PROVE TypeOK'
  BY <1>9 DEF Expire
<1>10. ASSUME NEW r \in Readers, TimeoutWake(r) PROVE TypeOK'
  BY <1>10 DEF TimeoutWake
<1>11. ASSUME NEW r \in Readers, SpuriousWake(r) PROVE TypeOK'
  BY <1>11 DEF SpuriousWake
<1>12. ASSUME NEW r \in Readers, Reacquire(r) PROVE TypeOK'
  BY <1>12 DEF Reacquire
<1>13. ASSUME NEW r \in Readers, Access(r) PROVE TypeOK'
  BY <1>13 DEF Access, Answer
<1>14. ASSUME NEW r \in Unlockers, Install(r) PROVE TypeOK'
  BY <1>14 DEF Install
<1>15. ASSUME NEW r \in Unlockers, WorkFails(r) PROVE TypeOK'
  BY <1>15 DEF WorkFails
<1>16. ASSUME NEW r \in Unlockers, BackoffEnds(r) PROVE TypeOK'
  BY <1>16 DEF BackoffEnds
<1>17. ASSUME NEW r \in Unlockers, Announce(r) PROVE TypeOK'
  BY <1>17 DEF Announce
<1>18. ASSUME NEW r \in Unlockers \cup Cancellers, Notify(r) PROVE TypeOK'
  BY <1>18 DEF Notify, NotifyAll
<1>19. ASSUME NEW r \in Cancellers, Bump(r) PROVE TypeOK'
  BY <1>19 DEF Bump
<1>20. ASSUME NEW r \in Lockers, Lock(r) PROVE TypeOK'
  BY <1>20 DEF Lock
<1>21. CASE Dispatch
  <2> DEFINE h == Head(queue)
  <2>1. h \in Requests /\ queue' \in Seq(Requests) /\ pc[h] = "queued"
    BY <1>21 DEF Dispatch, QueueOK
  <2>2. pc' = [pc EXCEPT ![h] = First(h)]
    BY <1>21 DEF Dispatch
  <2>3. UNCHANGED <<locked, gen, owner, start, expired, answer>>
    BY <1>21 DEF Dispatch
  <2>4. QED
    BY <2>1, <2>2, <2>3 DEF First
<1>22. CASE AutoLock
  BY <1>22 DEF AutoLock
<1>23. CASE UNCHANGED vars
  BY <1>23 DEF vars
<1>24. QED
  BY <1>1, <1>2, <1>3, <1>4, <1>5, <1>6, <1>7, <1>8, <1>9, <1>10, <1>11,
     <1>12, <1>13, <1>14, <1>15, <1>16, <1>17, <1>18, <1>19, <1>20, <1>21,
     <1>22, <1>23
  DEF Next, Acquire, Run

\* The types hold throughout.
THEOREM TypeCorrect == Spec => []TypeOK
<1>1. Init => TypeOK
  BY KindsAssumption
  DEF Init, TypeOK, QueueOK, Requests, Asking, ReaderPCs, UnlockerPCs, LockerPCs,
      CancellerPCs
<1>2. TypeOK /\ [Next]_vars => TypeOK'
  BY TypeStep
<1>3. QED
  BY <1>1, <1>2, PTL DEF Spec

\* The generation cannot move between the comparison and the sleep, because
\* the reader holds the mutex that `unlock_cancel` needs; and a cancel that
\* finds it asleep has yet to notify.
LEMMA CancelStep == ASSUME IInv, [Next]_vars PROVE IInv'
<1>0. TypeOK'
  BY TypeStep DEF IInv
<1> DEFINE Held == \A r \in Readers : pc[r] = "wait" => gen = start[r]
<1> USE DEF IInv, CancelWakes
<1>1. pc \in [Requests -> ReaderPCs \cup UnlockerPCs \cup LockerPCs
                              \cup CancellerPCs]
      /\ start \in [Readers -> Nat] /\ gen \in Nat
  BY DEF TypeOK
<1>2. ASSUME NEW c \in Cancellers, Bump(c) PROVE Held' /\ CancelWakes'
  <2>1. \A r \in Readers : pc[r] # "wait"
    BY <1>2, KindsAssumption DEF Bump, TypeOK, Requests
  <2>2. pc' = [pc EXCEPT ![c] = "notify"] /\ c \in Requests /\ c \notin Readers
    BY <1>2, KindsAssumption DEF Bump, Goto, Requests
  <2>3. QED
    BY <1>1, <2>1, <2>2 DEF Requests
<1>3. ASSUME NEW r \in Unlockers \cup Cancellers, Notify(r)
      PROVE  Held' /\ CancelWakes'
  BY <1>1, <1>3, KindsAssumption DEF Notify, NotifyAll, Requests
<1>4. ASSUME NEW r \in Readers, Sleep(r) PROVE Held' /\ CancelWakes'
  BY <1>1, <1>4, KindsAssumption DEF Sleep, Goto, Requests
<1>5. ASSUME NEW r \in Readers, Capture(r) PROVE Held' /\ CancelWakes'
  BY <1>1, <1>5, KindsAssumption DEF Capture, Goto, Requests
<1>6. ASSUME NEW r \in Readers, Compare(r) PROVE Held' /\ CancelWakes'
  <2>1. CASE gen # start[r] \/ expired[r]
    <3>1. pc' = [pc EXCEPT ![r] = "answered"] /\ UNCHANGED <<gen, start>>
      BY <1>6, <2>1 DEF Compare, Answer, Goto
    <3>2. QED
      BY <1>1, <3>1, KindsAssumption DEF Requests
  <2>2. CASE gen = start[r] /\ ~expired[r]
    <3>1. pc' = [pc EXCEPT ![r] = "wait"] /\ UNCHANGED <<gen, start>>
      BY <1>6, <2>2 DEF Compare, Goto
    <3>2. QED
      BY <1>1, <2>2, <3>1, KindsAssumption DEF Requests
  <2>3. QED
    BY <2>1, <2>2
<1>7. ASSUME UNCHANGED <<gen, start>>,
             \A r \in Readers : pc'[r] \in {"wait", "asleep"} => pc'[r] = pc[r],
             \A c \in Cancellers : pc[c] = "notify" => pc'[c] = "notify"
      PROVE  Held' /\ CancelWakes'
  BY <1>7
<1>8. ASSUME NEW r \in Requests, Submit(r) PROVE Held' /\ CancelWakes'
  BY <1>1, <1>7, <1>8, KindsAssumption DEF Submit, Goto, Requests
<1>9. ASSUME NEW r \in Readers,
             Check(r) \/ Gate(r) \/ Signal(r) \/ Test(r) \/ Access(r)
                 \/ Reacquire(r) \/ Expire(r) \/ TimeoutWake(r)
                 \/ SpuriousWake(r)
      PROVE  Held' /\ CancelWakes'
  BY <1>1, <1>7, <1>9, KindsAssumption
  DEF Check, Gate, Signal, Test, Access, Reacquire, Expire, TimeoutWake,
      SpuriousWake, Goto, Answer, Requests
<1>10. ASSUME NEW r \in Unlockers \cup Lockers,
              Install(r) \/ WorkFails(r) \/ BackoffEnds(r) \/ Announce(r)
                  \/ Lock(r)
       PROVE  Held' /\ CancelWakes'
  BY <1>1, <1>7, <1>10, KindsAssumption
  DEF Install, WorkFails, BackoffEnds, Announce, Lock, Goto, Requests
<1>11. ASSUME Dispatch PROVE Held' /\ CancelWakes'
  <2>1. Head(queue) \in Requests /\ pc[Head(queue)] = "queued"
        /\ pc' = [pc EXCEPT ![Head(queue)] = First(Head(queue))]
    BY <1>11 DEF Dispatch, Goto, TypeOK, QueueOK
  <2>2. First(Head(queue)) \in {"check", "work", "lock", "bump"}
    BY <2>1 DEF First, Requests
  <2>3. UNCHANGED <<gen, start>>
    BY <1>11 DEF Dispatch
  <2>4. \A q \in Requests :
            /\ pc'[q] \in {"wait", "asleep"} => pc'[q] = pc[q]
            /\ pc[q] = "notify" => pc'[q] = "notify"
    BY <1>1, <2>1, <2>2
  <2>5. QED
    BY <1>7, <2>3, <2>4 DEF Requests
<1>12. ASSUME AutoLock \/ UNCHANGED vars PROVE Held' /\ CancelWakes'
  <2>1. UNCHANGED <<gen, start, pc>>
    BY <1>12 DEF AutoLock, vars
  <2>2. QED
    BY <1>7, <2>1
<1>13. QED
  BY <1>0, <1>2, <1>3, <1>4, <1>5, <1>6, <1>8, <1>9, <1>10, <1>11, <1>12
  DEF Next, Acquire, Run

\* server.rs:359-368: a cancel is never lost by a reader that has parked.
THEOREM CancelReaches == Spec => []CancelWakes
<1>1. Init => IInv
  <2>1. Init => TypeOK
    BY KindsAssumption
    DEF Init, TypeOK, QueueOK, Requests, Asking, ReaderPCs, UnlockerPCs,
        LockerPCs, CancellerPCs
  <2>2. QED
    BY <2>1 DEF Init, IInv, CancelWakes, Requests
<1>2. IInv /\ [Next]_vars => IInv'
  BY CancelStep
<1>3. IInv => CancelWakes
  BY DEF IInv
<1>4. QED
  BY <1>1, <1>2, <1>3, PTL DEF Spec
=============================================================================
