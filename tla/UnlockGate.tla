----------------------------- MODULE UnlockGate -----------------------------
(***************************************************************************)
(* Parking a `secret.*` call until the vault is unlocked, server.rs        *)
(* `wait_for_unlock`, and everything that ends the wait: an unlock, a      *)
(* cancel, the deadline.                                                   *)
(*                                                                         *)
(* Each request runs on a thread of tokio's blocking pool (`handle`).  A   *)
(* step is what a thread does between two acquisitions of a mutex, or      *)
(* between taking the generation mutex and waiting on the condition        *)
(* variable.  The session is abstracted to `locked`: here only its being   *)
(* None matters, and a thread holds the session mutex for one step.        *)
(***************************************************************************)
EXTENDS Naturals, Sequences, FiniteSets

CONSTANTS
    Readers,      \* secret.* requests
    Patient,      \* those with `wait: true`
    Unlockers,    \* vault.unlock, vault.create and vault.rotate requests
    Lockers,      \* vault.lock requests
    Cancellers,   \* vault.unlock_cancel requests
    PoolSize,     \* threads in the blocking pool (tokio's default is 512)
    NoOne

Requests == Readers \cup Unlockers \cup Lockers \cup Cancellers

ASSUME PatientAssumption == Patient \subseteq Readers
ASSUME KindsAssumption ==
    /\ Readers \cap (Unlockers \cup Lockers \cup Cancellers) = {}
    /\ Unlockers \cap (Lockers \cup Cancellers) = {}
    /\ Lockers \cap Cancellers = {}
    /\ NoOne \notin Requests
ASSUME PoolAssumption == PoolSize \in Nat \ {0}

VARIABLES
    locked,    \* `session` is None
    gen,       \* `unlock_gen`
    owner,     \* the thread holding the `unlock_gen` mutex
    queue,     \* requests waiting for a thread of the pool
    pc,        \* where each request is
    start,     \* the generation a reader captured
    expired,   \* a reader's deadline has passed
    answer     \* what a reader was answered

vars == <<locked, gen, owner, queue, pc, start, expired, answer>>

Asking == {"capture", "test", "compare", "wait", "asleep", "woken"}
ReaderPCs == Asking \cup {"new", "queued", "check", "gate", "signal", "access",
                          "answered"}
UnlockerPCs == {"new", "queued", "work", "backoff", "announce", "notify",
                "answered"}
LockerPCs == {"new", "queued", "lock", "answered"}
CancellerPCs == {"new", "queued", "bump", "notify", "answered"}
Waiting == {"new", "queued", "answered"}   \* on no thread

First(r) == CASE r \in Readers    -> "check"
              [] r \in Unlockers  -> "work"
              [] r \in Lockers    -> "lock"
              [] r \in Cancellers -> "bump"

Init ==
    /\ locked = TRUE
    /\ gen = 0
    /\ owner = NoOne
    /\ queue = <<>>
    /\ pc = [r \in Requests |-> "new"]
    /\ start = [r \in Readers |-> 0]
    /\ expired = [r \in Readers |-> FALSE]
    /\ answer = [r \in Readers |-> "none"]

Goto(r, l) == pc' = [pc EXCEPT ![r] = l]
Answer(r, a) == answer' = [answer EXCEPT ![r] = a] /\ Goto(r, "answered")

\* notify_all: every sleeper goes to re-acquire the mutex.
NotifyAll(r) ==
    pc' = [q \in Requests |-> IF q = r THEN "answered"
                              ELSE IF pc[q] = "asleep" THEN "woken" ELSE pc[q]]

-----------------------------------------------------------------------------
(* `handle`: a request is queued for the pool and given a free thread.     *)

Submit(r) ==
    /\ pc[r] = "new"
    /\ Goto(r, "queued")
    /\ queue' = Append(queue, r)
    /\ UNCHANGED <<locked, gen, owner, start, expired, answer>>

Running == {r \in Requests : pc[r] \notin Waiting}

Dispatch ==
    /\ queue # <<>>
    /\ Cardinality(Running) < PoolSize
    /\ Goto(Head(queue), First(Head(queue)))
    /\ queue' = Tail(queue)
    /\ UNCHANGED <<locked, gen, owner, start, expired, answer>>

-----------------------------------------------------------------------------
(* A reader: `read_session`, `with_session`, `secret_list`.                *)

\* Variant: the `wait` flag is ignored.
CheckAlwaysParks(r) ==
    /\ pc[r] = "check"
    /\ Goto(r, IF locked THEN "gate" ELSE "access")
    /\ UNCHANGED <<locked, gen, owner, queue, start, expired, answer>>

\* `self.is_locked() && !(wait && ...)`
Check(r) ==
    /\ pc[r] = "check"
    /\ \/ ~locked /\ Goto(r, "access") /\ UNCHANGED answer
       \/ locked /\ r \in Patient /\ Goto(r, "gate") /\ UNCHANGED answer
       \/ locked /\ r \notin Patient /\ Answer(r, "locked")
    /\ UNCHANGED <<locked, gen, owner, queue, start, expired>>

\* The test on entry to `wait_for_unlock`.
Gate(r) ==
    /\ pc[r] = "gate"
    /\ Goto(r, IF locked THEN "signal" ELSE "access")
    /\ UNCHANGED <<locked, gen, owner, queue, start, expired, answer>>

\* `broadcast_unlock_needed`, before the generation is captured.
Signal(r) ==
    /\ pc[r] = "signal"
    /\ Goto(r, "capture")
    /\ UNCHANGED <<locked, gen, owner, queue, start, expired, answer>>

Capture(r) ==
    /\ pc[r] = "capture"
    /\ owner = NoOne
    /\ owner' = r
    /\ start' = [start EXCEPT ![r] = gen]
    /\ Goto(r, "test")
    /\ UNCHANGED <<locked, gen, queue, expired, answer>>

\* The head of the loop, holding the generation mutex.
Test(r) ==
    /\ pc[r] = "test"
    /\ \/ locked /\ Goto(r, "compare") /\ UNCHANGED owner
       \/ ~locked /\ Goto(r, "access") /\ owner' = NoOne
    /\ UNCHANGED <<locked, gen, queue, start, expired, answer>>

\* Variant: the deadline is not looked at.
CompareNoDeadline(r) ==
    /\ pc[r] = "compare"
    /\ \/ /\ gen # start[r]
          /\ Answer(r, "locked")
          /\ owner' = NoOne
       \/ /\ gen = start[r]
          /\ Goto(r, "wait")
          /\ UNCHANGED <<owner, answer>>
    /\ UNCHANGED <<locked, gen, queue, start, expired>>

\* `*gen != start`, then the deadline.
Compare(r) ==
    /\ pc[r] = "compare"
    /\ \/ /\ gen # start[r] \/ expired[r]
          /\ Answer(r, "locked")
          /\ owner' = NoOne
       \/ /\ gen = start[r] /\ ~expired[r]
          /\ Goto(r, "wait")
          /\ UNCHANGED <<owner, answer>>
    /\ UNCHANGED <<locked, gen, queue, start, expired>>

\* Variant: the thread sleeps without giving the mutex back.
SleepHolding(r) ==
    /\ pc[r] = "wait"
    /\ Goto(r, "asleep")
    /\ UNCHANGED <<locked, gen, owner, queue, start, expired, answer>>

\* `wait_timeout` gives the mutex back and sleeps in one step.
Sleep(r) ==
    /\ pc[r] = "wait"
    /\ Goto(r, "asleep")
    /\ owner' = NoOne
    /\ UNCHANGED <<locked, gen, queue, start, expired, answer>>

\* The deadline, set when the prompt was asked for, passes.
Expire(r) ==
    /\ pc[r] \in Asking
    /\ ~expired[r]
    /\ expired' = [expired EXCEPT ![r] = TRUE]
    /\ UNCHANGED <<locked, gen, owner, queue, pc, start, answer>>

\* `wait_timeout` returns at the deadline, even one that passed on the way in.
TimeoutWake(r) ==
    /\ pc[r] = "asleep"
    /\ expired[r]
    /\ Goto(r, "woken")
    /\ UNCHANGED <<locked, gen, owner, queue, start, expired, answer>>

\* A condition variable may wake its waiter for no reason.
SpuriousWake(r) ==
    /\ pc[r] = "asleep"
    /\ Goto(r, "woken")
    /\ UNCHANGED <<locked, gen, owner, queue, start, expired, answer>>

Reacquire(r) ==
    /\ pc[r] = "woken"
    /\ owner = NoOne
    /\ owner' = r
    /\ Goto(r, "test")
    /\ UNCHANGED <<locked, gen, queue, start, expired, answer>>

\* The session is taken again; it may have been locked in between.
Access(r) ==
    /\ pc[r] = "access"
    /\ Answer(r, IF locked THEN "locked" ELSE "value")
    /\ UNCHANGED <<locked, gen, owner, queue, start, expired>>

-----------------------------------------------------------------------------
(* `unlock`, `create`, `rotate`: install the session, announce, wake.      *)

Install(r) ==
    /\ pc[r] = "work"
    /\ Goto(r, "announce")
    /\ locked' = FALSE
    /\ UNCHANGED <<gen, owner, queue, start, expired, answer>>

Announce(r) ==
    /\ pc[r] = "announce"
    /\ Goto(r, "notify")
    /\ UNCHANGED <<locked, gen, owner, queue, start, expired, answer>>

\* A failed create or rotate answers at once, a failed unlock backs off.
WorkFails(r) ==
    /\ pc[r] = "work"
    /\ \E l \in {"backoff", "answered"} : Goto(r, l)
    /\ UNCHANGED <<locked, gen, owner, queue, start, expired, answer>>

BackoffEnds(r) ==
    /\ pc[r] = "backoff"
    /\ Goto(r, "answered")
    /\ UNCHANGED <<locked, gen, owner, queue, start, expired, answer>>

-----------------------------------------------------------------------------
(* `unlock_cancel`: bump the generation under its mutex, then wake.        *)

\* Variant: the generation is bumped without its mutex.
BumpUnlocked(r) ==
    /\ pc[r] = "bump"
    /\ gen' = gen + 1
    /\ Goto(r, "notify")
    /\ UNCHANGED <<locked, owner, queue, start, expired, answer>>

Bump(r) ==
    /\ pc[r] = "bump"
    /\ owner = NoOne
    /\ gen' = gen + 1
    /\ Goto(r, "notify")
    /\ UNCHANGED <<locked, owner, queue, start, expired, answer>>

\* Variant: the waiters are not woken.
NotifyNobody(r) ==
    /\ pc[r] = "notify"
    /\ Goto(r, "answered")
    /\ UNCHANGED <<locked, gen, owner, queue, start, expired, answer>>

\* `wake_unlock_waiters`, by a canceller and by an unlocker.
Notify(r) ==
    /\ pc[r] = "notify"
    /\ NotifyAll(r)
    /\ UNCHANGED <<locked, gen, owner, queue, start, expired, answer>>

-----------------------------------------------------------------------------
(* `do_lock`, and the idle timer, which is not on the pool.                *)

Lock(r) ==
    /\ pc[r] = "lock"
    /\ locked' = TRUE
    /\ Goto(r, "answered")
    /\ UNCHANGED <<gen, owner, queue, start, expired, answer>>

AutoLock ==
    /\ ~locked
    /\ locked' = TRUE
    /\ UNCHANGED <<gen, owner, queue, pc, start, expired, answer>>

-----------------------------------------------------------------------------
\* Steps that wait for the generation mutex, and all the others.
Acquire(r) ==
    \/ r \in Readers /\ (Capture(r) \/ Reacquire(r))
    \/ r \in Cancellers /\ Bump(r)

Run(r) ==
    \/ /\ r \in Readers
       /\ \/ Check(r)
          \/ Gate(r)
          \/ Signal(r)
          \/ Test(r)
          \/ Compare(r)
          \/ Sleep(r)
          \/ Access(r)
    \/ /\ r \in Unlockers
       /\ \/ Install(r)
          \/ WorkFails(r)
          \/ BackoffEnds(r)
          \/ Announce(r)
          \/ Notify(r)
    \/ r \in Cancellers /\ Notify(r)
    \/ r \in Lockers /\ Lock(r)

Next ==
    \/ \E r \in Requests : Submit(r) \/ Acquire(r) \/ Run(r)
    \/ \E r \in Readers : Expire(r) \/ TimeoutWake(r) \/ SpuriousWake(r)
    \/ Dispatch
    \/ AutoLock

Spec == Init /\ [][Next]_vars

\* A running thread makes progress, the pool serves its queue, and a thread
\* that keeps asking for a mutex that keeps being released gets it.
ThreadFairness ==
    /\ WF_vars(Dispatch)
    /\ \A r \in Requests : WF_vars(Run(r)) /\ SF_vars(Acquire(r))

\* Without relying on any deadline.
PromptSpec == Spec /\ ThreadFairness

\* And time passes.
TimedSpec ==
    /\ PromptSpec
    /\ \A r \in Readers : WF_vars(Expire(r)) /\ WF_vars(TimeoutWake(r))

-----------------------------------------------------------------------------
(* Properties.                                                             *)

\* A request is queued at most once, and only while it has no thread.
QueueOK ==
    /\ \A i \in 1..Len(queue) : pc[queue[i]] = "queued"
    /\ \A i, j \in 1..Len(queue) : queue[i] = queue[j] => i = j

\* Each request is at a place of its own handler, an impatient reader never
\* reaches the waiting loop, and the mutex is held exactly by the reader that
\* is awake in it.
TypeOK ==
    /\ locked \in BOOLEAN
    /\ gen \in Nat
    /\ owner \in Readers \cup {NoOne}
    /\ queue \in Seq(Requests)
    /\ QueueOK
    /\ pc \in [Requests -> ReaderPCs \cup UnlockerPCs \cup LockerPCs
                               \cup CancellerPCs]
    /\ \A r \in Readers :
           /\ pc[r] \in ReaderPCs
           /\ r \notin Patient => pc[r] \notin Asking \cup {"gate", "signal"}
           /\ owner = r <=> pc[r] \in {"test", "compare", "wait"}
    /\ \A r \in Unlockers : pc[r] \in UnlockerPCs
    /\ \A r \in Lockers : pc[r] \in LockerPCs
    /\ \A r \in Cancellers : pc[r] \in CancellerPCs
    /\ start \in [Readers -> Nat]
    /\ expired \in [Readers -> BOOLEAN]
    /\ answer \in [Readers -> {"none", "locked", "value"}]

\* server.rs:359: a cancel releases "every parked `secret.*` call at once".
\* A reader sleeping although the generation it captured is over has a
\* wake-up on its way: no cancel falls between its comparison and its sleep.
CancelWakes ==
    \A r \in Readers : pc[r] = "asleep" /\ gen # start[r] =>
        \E c \in Cancellers : pc[c] = "notify"

\* The same, as progress that needs no deadline: a reader parked when a
\* cancel came leaves the waiting loop.
CancelReleases ==
    \A r \in Readers :
        (pc[r] \in {"wait", "asleep"} /\ gen # start[r]) ~> pc[r] \notin Asking

\* Readers parked on the pool's threads and on the generation mutex do not
\* keep an unlock, a lock or a cancel from being answered, as long as the
\* pool is larger than the number of readers.
ControlAnswered ==
    \A r \in Unlockers \cup Lockers \cup Cancellers :
        (pc[r] = "queued") ~> (pc[r] = "answered")

\* Every request is answered in the end, even when parked readers fill the
\* pool and the unlock that would release them is queued behind them.
Answered == \A r \in Requests : (pc[r] = "queued") ~> (pc[r] = "answered")

\* server.rs:149: "Wake every parked `secret.*` call (called after a
\* successful unlock, and on cancel)".  A reader asleep in an unlocked vault
\* has a wake-up on its way.
UnlockWakes ==
    \A r \in Readers : pc[r] = "asleep" /\ ~locked =>
        \E u \in Unlockers : pc[u] \in {"announce", "notify"}

\* Inductive: between the comparison and the sleep the generation cannot move.
IInv ==
    /\ TypeOK
    /\ \A r \in Readers : pc[r] = "wait" => gen = start[r]
    /\ CancelWakes
=============================================================================
