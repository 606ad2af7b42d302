----------------------------- MODULE TimeProofs -----------------------------
(***************************************************************************)
(* The two parts that reckon with time: the exposure bound of AutoLock for *)
(* every timeout, clock and delay, and the range and period of a one-time  *)
(* code for every hash and moment.                                         *)
(***************************************************************************)
EXTENDS AutoLock, Totp, TLAPS

-----------------------------------------------------------------------------
(* The idle timer.                                                         *)

\* What `UntilDue` sleeps is a second, or ends before the vault is due.
LEMMA SleepBound ==
    ASSUME NEW age \in 0..Cap, age < Timeout
    PROVE  /\ UntilDue(age) \in Nat
           /\ UntilDue(age) = Second \/ age + UntilDue(age) <= Timeout
<1> DEFINE left == Timeout - age
           secs == left \div Second
<1>1. left \in Nat /\ Second \in Nat \ {0}
  BY ClockAssumption
<1>2. secs \in Nat /\ secs * Second <= left /\ secs * Second \in Nat
  <2> HIDE DEF left
  <2>1. secs \in Int /\ secs >= 0 /\ Second * secs <= left
    BY <1>1
  <2>2. secs * Second = Second * secs /\ secs * Second \in Nat
    BY <1>1, <2>1
  <2> QED BY <2>1, <2>2
<1>3. CASE secs < 1
  BY <1>3, <1>1 DEF UntilDue
<1>4. CASE ~(secs < 1)
  <2>1. UntilDue(age) = secs * Second
    BY <1>4 DEF UntilDue
  <2> HIDE DEF secs
  <2> QED BY <1>2, <2>1, ClockAssumption
<1> QED BY <1>3, <1>4

\* The invariant the timer keeps from one tick to the next.
LEMMA Inductive == Inv /\ [Next]_vars => Inv'
<1> SUFFICES ASSUME Inv, [Next]_vars PROVE Inv'
  OBVIOUS
<1> USE ClockAssumption
<1> USE DEF Inv, TypeOK, SleepsShort, DueInTime, LocksOnlyIdle
<1>1. CASE Pass
  BY <1>1 DEF Pass, Older
<1>2. ASSUME NEW m \in Methods, Dispatch(m) PROVE Inv'
  BY <1>2 DEF Dispatch, Touches, Passive, timerVars
<1>3. CASE Install
  <2>1. UNCHANGED <<idle, unused, wakeIn, phase>> /\ fresh' = 0
    BY <1>3 DEF Install, timerVars
  <2>2. locked' \in BOOLEAN
    BY <1>3 DEF Install
  <2>3. DueInTime'
    BY <2>1
  <2> QED BY <2>1, <2>2, <2>3
<1>4. CASE Lock
  BY <1>4 DEF Lock, timerVars
<1>5. CASE TickStarts
  BY <1>5 DEF TickStarts, Sleep
<1>6. CASE TickLooks
  <2>1. CASE idle >= Timeout
    BY <1>6, <2>1 DEF TickLooks
  <2>2. CASE ~(idle >= Timeout)
    <3>1. wakeIn' = UntilDue(idle) /\ phase' = "asleep"
      BY <1>6, <2>2 DEF TickLooks, Sleep
    <3>2. UntilDue(idle) \in Nat
          /\ (UntilDue(idle) = Second \/ idle + UntilDue(idle) <= Timeout)
      BY <2>2, SleepBound
    <3> QED BY <1>6, <2>2, <3>1, <3>2 DEF TickLooks
  <2> QED BY <2>1, <2>2
<1>7. CASE TickLocks
  BY <1>7 DEF TickLocks, Sleep
<1>8. CASE Restart
  BY <1>8 DEF Restart
<1>9. CASE UNCHANGED vars
  BY <1>9 DEF vars
<1> QED BY <1>1, <1>2, <1>3, <1>4, <1>5, <1>6, <1>7, <1>8, <1>9 DEF Next

\* The invariant says what the two properties need.
LEMMA Suffices == Inv => Exposure
  BY ClockAssumption
     DEF Inv, TypeOK, DueInTime, Exposure

LEMMA Holds == Spec => []Inv
<1>1. Init => Inv
  BY ClockAssumption
     DEF Init, Inv, TypeOK, SleepsShort, DueInTime, LocksOnlyIdle
<1> QED BY <1>1, Inductive, PTL DEF Spec

\* The exposure bound of server.rs:237-240, for every timeout, tick
\* granularity and scheduling delay.
THEOREM ExposureBounded == Spec => []Exposure
  BY Holds, Suffices, PTL

\* server.rs:206-209 locks nothing that was in use when the tick was due.
THEOREM NeverLocksInUse == Spec => []LocksOnlyIdle
<1>1. Inv => LocksOnlyIdle
  BY DEF Inv
<1> QED BY <1>1, Holds, PTL

-----------------------------------------------------------------------------
(* One-time codes.                                                         *)

\* Four bytes, the first without its top bit, make a number of 31 bits.
LEMMA FourBytes ==
    ASSUME NEW a \in Int, 0 <= a, a < 128, NEW b \in Int, 0 <= b, b < 256,
           NEW c \in Int, 0 <= c, c < 256, NEW d \in Int, 0 <= d, d < 256
    PROVE  /\ ((a * 256 + b) * 256 + c) * 256 + d \in Int
           /\ 0 <= ((a * 256 + b) * 256 + c) * 256 + d
           /\ ((a * 256 + b) * 256 + c) * 256 + d < 128 * 256 * 256 * 256
BY SMT

\* totp.rs:36-42 never indexes past the hash and never overflows a u32, for
\* any hash and any number of digits it accepts: a code always comes back.
THEOREM CodeInRange ==
    ASSUME NEW hs \in Hashes, NEW digits \in 1..9
    PROVE  /\ Offset(hs) \in 0..15
           /\ Offset(hs) + 3 \in DOMAIN hs
           /\ Bin(hs) \in Int /\ 0 <= Bin(hs) /\ Bin(hs) < U31
           /\ Modulo(digits) \in Int /\ 0 < Modulo(digits) /\ Modulo(digits) < U32
           /\ Code(hs, digits) \in Int
           /\ 0 <= Code(hs, digits) /\ Code(hs, digits) < Modulo(digits)
<1>0. \A i \in 0..19 : hs[i] \in Int /\ 0 <= hs[i] /\ hs[i] < 256
  <2>1. \A i \in 0..19 : hs[i] \in Bytes
    BY DEF Hashes
  <2>2. \A x \in Bytes : x \in Int /\ 0 <= x /\ x < 256
    BY DEF Bytes
  <2> QED BY <2>1, <2>2
<1>1. Offset(hs) \in 0..15
  BY <1>0 DEF Offset
<1>2. Offset(hs) + 3 \in DOMAIN hs
  BY <1>1 DEF Hashes
<1>3. Bin(hs) \in Int /\ 0 <= Bin(hs) /\ Bin(hs) < U31
  <2> DEFINE o == Offset(hs)
             a == hs[o] % 128
             b == hs[o + 1]
             c == hs[o + 2]
             d == hs[o + 3]
  <2>1. /\ hs[o] \in Int /\ 0 <= hs[o]
        /\ b \in Int /\ 0 <= b /\ b < 256
        /\ c \in Int /\ 0 <= c /\ c < 256
        /\ d \in Int /\ 0 <= d /\ d < 256
    <3>1. o \in 0..19 /\ o + 1 \in 0..19 /\ o + 2 \in 0..19 /\ o + 3 \in 0..19
      BY <1>1
    <3> HIDE DEF o
    <3> QED BY <1>0, <3>1
  <2>2. a \in Int /\ 0 <= a /\ a < 128
    <3> HIDE DEF o
    <3> QED BY <2>1
  <2>3. Bin(hs) = ((a * 256 + b) * 256 + c) * 256 + d
    BY DEF Bin
  <2> HIDE DEF a, b, c, d
  <2> QED BY <2>1, <2>2, <2>3, FourBytes DEF U31
<1>4. Modulo(digits) \in Int /\ 0 < Modulo(digits) /\ Modulo(digits) < U32
  <2>1. \/ digits = 1 \/ digits = 2 \/ digits = 3 \/ digits = 4 \/ digits = 5
        \/ digits = 6 \/ digits = 7 \/ digits = 8 \/ digits = 9
    OBVIOUS
  <2>2. CASE digits = 1
    BY <2>2 DEF Modulo, U32, U31
  <2>3. CASE digits = 2
    BY <2>3 DEF Modulo, U32, U31
  <2>4. CASE digits = 3
    BY <2>4 DEF Modulo, U32, U31
  <2>5. CASE digits = 4
    BY <2>5 DEF Modulo, U32, U31
  <2>6. CASE digits = 5
    BY <2>6 DEF Modulo, U32, U31
  <2>7. CASE digits = 6
    BY <2>7 DEF Modulo, U32, U31
  <2>8. CASE digits = 7
    BY <2>8 DEF Modulo, U32, U31
  <2>9. CASE digits = 8
    BY <2>9 DEF Modulo, U32, U31
  <2>10. CASE digits = 9
    BY <2>10 DEF Modulo, U32, U31
  <2> QED BY <2>1, <2>2, <2>3, <2>4, <2>5, <2>6, <2>7, <2>8, <2>9, <2>10
<1>5. Code(hs, digits) \in Int
      /\ 0 <= Code(hs, digits) /\ Code(hs, digits) < Modulo(digits)
  <2> DEFINE n == Modulo(digits)
             b == Bin(hs)
  <2> HIDE DEF n, b
  <2>1. b \in Int /\ n \in Int /\ 0 < n
    BY <1>3, <1>4 DEF n, b
  <2>2. b % n \in Int /\ 0 <= b % n /\ b % n < n
    BY <2>1
  <2> QED BY <2>2 DEF Code, n, b
<1> QED BY <1>1, <1>2, <1>3, <1>4, <1>5

\* server.rs:555-557: the answer's `remaining` is when the code changes, to
\* the second: never 0, the counter stands still until then and moves on then.
THEOREM RemainingExact ==
    ASSUME NEW now \in Nat
    PROVE  /\ Remaining(now) \in 1..Period
           /\ \A t \in now..(now + Remaining(now) - 1) :
                  Counter(t) = Counter(now)
           /\ Counter(now + Remaining(now)) = Counter(now) + 1
<1>1. now % 30 \in 0..29 /\ now = 30 * (now \div 30) + (now % 30)
      /\ now \div 30 \in Nat
  OBVIOUS
<1>2. ASSUME NEW t \in now..(now + Remaining(now) - 1)
      PROVE  Counter(t) = Counter(now)
  BY <1>1 DEF Remaining, Counter, Period
<1>3. Counter(now + Remaining(now)) = Counter(now) + 1
  BY <1>1 DEF Remaining, Counter, Period
<1> QED BY <1>1, <1>2, <1>3 DEF Remaining, Period
=============================================================================
