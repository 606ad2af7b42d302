------------------------------ MODULE AutoLock ------------------------------
(***************************************************************************)
(* The idle auto-lock: server.rs `touch` and `autolock_tick`, and the task *)
(* in main.rs that runs the tick and sleeps for what it returns.           *)
(*                                                                         *)
(* Instants are kept as ages, which stop growing at a cap.  The tick is    *)
(* three critical sections (`is_locked`, the age of last_activity, `lock`) *)
(* with requests between them.  A timer is never early and at most Late    *)
(* behind: time does not pass while it is that far behind.                 *)
(***************************************************************************)
EXTENDS Integers

CONSTANTS
    Timeout,   \* lock_timeout, 0 for never
    Second,    \* clock units in a second: a sleep is a whole number of them
    Late,      \* how long after it is due a tick has done its work
    Cap,       \* ages beyond this are not told apart
    FreshCap,  \* the same for the age of a session
    Methods    \* the requests clients send

ASSUME ClockAssumption ==
    /\ Timeout \in Nat /\ Second \in Nat \ {0} /\ Late \in Nat
    /\ Cap \in Nat /\ Cap > Timeout + Second + Late
    /\ FreshCap \in Nat /\ FreshCap > Second + Late

VARIABLES
    locked,    \* `Inner.session` is None
    idle,      \* the age of `Inner.last_activity`
    wakeIn,    \* until the timer's sleep ends; negative when it is behind
    phase,     \* where the tick is: asleep, look (at the age), lock
    unused,    \* history: how long ago a request used the vault
    fresh      \* history: how long ago a session was installed

vars == <<locked, idle, wakeIn, phase, unused, fresh>>
timerVars == <<wakeIn, phase>>

\* Server::new; the first tick runs at once.
Init ==
    /\ locked = TRUE
    /\ idle = 0
    /\ wakeIn = 0 /\ phase = "asleep"
    /\ unused = 0 /\ fresh = 0

Older(age, cap) == IF age < cap THEN age + 1 ELSE cap

Pass ==
    /\ wakeIn > -Late
    /\ idle' = Older(idle, Cap)
    /\ unused' = Older(unused, Cap)
    /\ fresh' = Older(fresh, FreshCap)
    /\ wakeIn' = wakeIn - 1
    /\ UNCHANGED <<locked, phase>>

-----------------------------------------------------------------------------
(* Requests.                                                               *)

\* Variant: a status poll counts as use.
TouchesOnStatus(m) == m \notin {"rpc.hello", "vault.lock", "vault.unlock_cancel"}

Touches(m) ==
    m \notin {"vault.status", "rpc.hello", "vault.lock", "vault.unlock_cancel"}

\* What asks for the lock state or gives the vault up; the rest is use.
Passive == {"vault.status", "rpc.hello", "vault.lock", "vault.unlock_cancel"}

Dispatch(m) ==
    /\ idle' = IF Touches(m) THEN 0 ELSE idle
    /\ unused' = IF m \in Passive THEN unused ELSE 0
    /\ UNCHANGED <<locked, fresh, timerVars>>

\* The end of a create, unlock or rotate: its key took any time to derive.
Install ==
    /\ locked' = FALSE
    /\ fresh' = 0
    /\ UNCHANGED <<idle, unused, timerVars>>

Lock ==
    /\ ~locked
    /\ locked' = TRUE
    /\ UNCHANGED <<idle, unused, fresh, timerVars>>

-----------------------------------------------------------------------------
(* The tick.                                                               *)

Sleep(units) == wakeIn' = units /\ phase' = "asleep"

\* `(timeout - idle).as_secs().max(1)`, in clock units.
UntilDue(age) ==
    LET secs == (Timeout - age) \div Second
    IN  IF secs < 1 THEN Second ELSE secs * Second

TickStarts ==
    /\ phase = "asleep" /\ wakeIn <= 0
    /\ IF Timeout = 0 \/ locked THEN Sleep(Second)
       ELSE phase' = "look" /\ UNCHANGED wakeIn
    /\ UNCHANGED <<locked, idle, unused, fresh>>

\* Variant: the age is compared in whole seconds, rounded up.
TickLooksRounded ==
    /\ phase = "look"
    /\ IF idle + Second > Timeout THEN phase' = "lock" /\ UNCHANGED wakeIn
       ELSE Sleep(UntilDue(idle))
    /\ UNCHANGED <<locked, idle, unused, fresh>>

TickLooks ==
    /\ phase = "look"
    /\ IF idle >= Timeout THEN phase' = "lock" /\ UNCHANGED wakeIn
       ELSE Sleep(UntilDue(idle))
    /\ UNCHANGED <<locked, idle, unused, fresh>>

TickLocks ==
    /\ phase = "lock"
    /\ locked' = TRUE
    /\ Sleep(Second)
    /\ UNCHANGED <<idle, unused, fresh>>

\* The process ends and another one starts.
Restart ==
    /\ locked' = TRUE
    /\ idle' = 0
    /\ wakeIn' = 0 /\ phase' = "asleep"
    /\ unused' = 0 /\ fresh' = 0

Next ==
    \/ Pass
    \/ \E m \in Methods : Dispatch(m)
    \/ Install
    \/ Lock
    \/ TickStarts \/ TickLooks \/ TickLocks
    \/ Restart

Spec == Init /\ [][Next]_vars

-----------------------------------------------------------------------------
(* Properties.                                                             *)

TypeOK ==
    /\ locked \in BOOLEAN
    /\ idle \in 0..Cap /\ unused \in 0..Cap /\ fresh \in 0..FreshCap
    /\ wakeIn \in Int /\ wakeIn >= -Late
    /\ phase \in {"asleep", "look", "lock"}

\* server.rs:237-240: status polls must not make "its 15-minute exposure
\* bound" infinite.  However polls, uses, locks and unlocks fall between the
\* ticks, a vault nobody has used for the timeout, one more sleep of a second
\* and the timer's delay is locked, unless a session that took longer than
\* that to open was installed within the last such second.
Exposure ==
    Timeout > 0 /\ ~locked =>
        unused <= Timeout + Second + Late \/ fresh <= Second + Late

\* server.rs:206-209 reads the age and locks later: what the tick locks has
\* been unused for the timeout, or was used after the tick was due.
LocksOnlyIdle == phase = "lock" => unused >= Timeout \/ unused <= -wakeIn

\* Why: the timer never sleeps past the moment the vault is due, except for
\* the second it sleeps at least; and that second starts while the vault is
\* locked, or with what is left of the timeout.
SleepsShort == wakeIn <= Second \/ idle + wakeIn <= Timeout
DueInTime ==
    Timeout > 0 /\ ~locked =>
        idle + wakeIn <= Timeout + Second \/ fresh + wakeIn <= Second
Inv == /\ TypeOK /\ idle = unused
       /\ SleepsShort /\ DueInTime
       /\ phase # "asleep" => wakeIn <= 0
       /\ LocksOnlyIdle
=============================================================================
